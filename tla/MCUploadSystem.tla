--------------------------- MODULE MCUploadSystem ---------------------------
(* Instances of UploadSystem for TLC.  u1 uploads a then b, u2 uploads c     *)
(* then d; a and c are the same content, and so are b and d.  The sizes are  *)
(* such that the four reservations do not fit the quota together.  In        *)
(* LimitFiles u1 uploads e, of a type that is refused, before a, and u3      *)
(* exceeds the batch limit.                                                  *)
EXTENDS UploadSystem

CONSTANTS t1, u1, u2, u3, a, b, c, d, e, f, g, h, i, x, y, z

MCFiles == [u \in {u1, u2} |-> IF u = u1 THEN <<a, b>> ELSE <<c, d>>]
MCContent == [id \in {a, b, c, d} |-> IF id \in {b, d} THEN y ELSE x]
MCSize == [s \in {x, y} |-> IF s = x THEN 2 ELSE 1]

\* Two requests of one file each, of different contents.
TwoFiles == [u \in {u1, u2} |-> IF u = u1 THEN <<a>> ELSE <<b>>]
TwoContent == [id \in {a, b} |-> IF id = a THEN x ELSE y]
TwoSize == [s \in {x, y} |-> 2]

LimitFiles == [u \in {u1, u2, u3} |-> CASE u = u1 -> <<e, a, b>>
                                        [] u = u2 -> <<c, d>>
                                        [] u = u3 -> <<f, g, h, i>>]
LimitContent == [id \in {a, b, c, d, e, f, g, h, i} |->
                    IF id \in {e, f, g, h, i} THEN z ELSE MCContent[id]]
LimitSize == [s \in {x, y, z} |-> IF s = x THEN 2 ELSE 1]
=============================================================================
