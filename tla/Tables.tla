------------------------------- MODULE Tables -------------------------------
(***************************************************************************)
(* A database table keyed by its primary key is a function from the keys   *)
(* present to rows.  INSERT and DELETE are total on such functions; a sum  *)
(* over a column is taken as a cardinality, so that facts about it follow  *)
(* from facts about finite sets.                                           *)
(***************************************************************************)
EXTENDS Naturals, FiniteSets

EmptyTable == [id \in {} |-> {}]

\* INSERT: the row is added, or replaces the one under the same key.
Insert(table, id, row) ==
    [k \in DOMAIN table \cup {id} |-> IF k = id THEN row ELSE table[k]]

\* DELETE ... WHERE key IN ids: keys that are absent match no row.
DeleteAll(table, ids) == [k \in DOMAIN table \ ids |-> table[k]]

Delete(table, id) == DeleteAll(table, {id})

\* SUM(bytes) over the keys of `bytes`: each key k stands for bytes[k] units.
Units(bytes) == UNION {{k} \X (1 .. bytes[k]) : k \in DOMAIN bytes}
TotalBytes(bytes) == Cardinality(Units(bytes))
=============================================================================
