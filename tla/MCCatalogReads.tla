--------------------------- MODULE MCCatalogReads ---------------------------
(* An instance of CatalogReads for TLC: pages of one row; document 1 is     *)
(* another member's, 3 another tenant's and the rest the viewer's, of which *)
(* 4 is still to come.                                                      *)
EXTENDS CatalogReads

CONSTANTS me, other, ta, tb

MCTenantOfId == [id \in Ids |-> IF id = 3 THEN tb ELSE ta]
MCUploaderOf == [id \in Ids |-> IF id \in {1, 3} THEN other ELSE me]
MCViewer     == [user |-> me, tenant |-> ta, isHead |-> FALSE]

\* The condition on the rows and its double in memory are one, for either role.
ASSUME DoubleAgrees ==
    \A id \in Ids, row \in Rows, now \in 0 .. MaxTime, isHead \in BOOLEAN :
        row.current \in DOMAIN row.scan =>
                LET viewer == [MCViewer EXCEPT !.isHead = isHead]
                IN  Visible(id, row, viewer, now) = VisibleInMemory(id, row, viewer, now)
=============================================================================
