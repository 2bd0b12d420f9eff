------------------------ MODULE MCDocumentPipeline -------------------------
(* Instances of DocumentPipeline for TLC: u1 uploads a, u2 uploads b; r1     *)
(* revises a with a2, r2 the stored document s1 with s2; two scan workers.    *)
(* The five contents are different.                                          *)
EXTENDS DocumentPipeline

CONSTANTS t1, u1, u2, r1, r2, w1, w2, a, a2, b, s1, s2, k1, k2, k3, k4, k5

OneFile == [u \in Uploads |-> IF u = u1 THEN <<a>> ELSE <<b>>]
Documents == [r \in Revisions |-> IF r = r1 THEN a ELSE s1]
Attempt == [r \in Revisions |-> IF r = r1 THEN a2 ELSE s2]
Distinct == [id \in {a, a2, b, s1, s2} |->
                CASE id = a -> k1 [] id = b -> k2 [] id = a2 -> k3
                  [] id = s2 -> k4 [] id = s1 -> k5]
Sizes == [k \in {k1, k2, k3, k4, k5} |-> IF k = k2 THEN 2 ELSE 1]
=============================================================================
