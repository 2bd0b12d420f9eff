-------------------------- MODULE MCRevisionSystem --------------------------
(* Instances of RevisionSystem for TLC: the stored document a, revised by r1 *)
(* to r3 at once.  The contents of b, c and d are new and of one byte each;  *)
(* a run may give two attempts the same content.                             *)
EXTENDS RevisionSystem

CONSTANTS t1, r1, r2, r3, a, b, c, d, x, y, z, v

Documents == [r \in Revisions |-> a]
Attempt == [r \in Revisions |-> CASE r = r1 -> b [] r = r2 -> c [] r = r3 -> d]
Distinct == [id \in {a, b, c, d} |->
                CASE id = a -> x [] id = b -> y [] id = c -> z [] id = d -> v]
\* r3 uploads what r1 uploads: one of them is refused, unless the other's
\* version has been rolled back by then.
Twins == [Distinct EXCEPT ![d] = y]
OneByte == [s \in {x, y, z, v} |-> 1]
=============================================================================
