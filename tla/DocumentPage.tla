---------------------------- MODULE DocumentPage ----------------------------
(***************************************************************************)
(* The detail page of one document (apps/web, use-document-detail.ts): the *)
(* cached detail, the version picked, the preview of the version shown,    *)
(* and the dialog that uploads a new version.                              *)
(*                                                                         *)
(* history is the versions the document has had after every write of it: a *)
(* version is named by the write that inserted it, the newest is current,  *)
(* and there is none once the document is gone.                            *)
(***************************************************************************)
EXTENDS QueryClient, Sequences

CONSTANTS
    MaxVersions, \* bound: writes of the document's versions
    MaxUrls      \* bound: previews fetched

VARIABLES
    history,     \* the server: the document's versions after every write
    theirs,      \* versions whose upload, by others, may yet fail
    detail,      \* the cached query
    view,        \* the state of the mounted page and its dialog
    revisions,   \* versions being uploaded, one of each mount
    previews     \* the cached previews, those being fetched, and revoked urls

documentVars == <<history, theirs, detail, view, revisions, previews>>

ViewStart(mount) ==
    [mount |-> mount, here |-> FALSE, selected |-> 0, open |-> FALSE, file |-> FALSE,
     error |-> FALSE]

NoPreviews(drawn) ==
    [url |-> [v \in 1..MaxVersions |-> 0], fetching |-> {}, drawn |-> drawn, revoked |-> {}]

DocumentInit ==
    /\ history = <<{1}>> /\ theirs = {}
    /\ detail = NewQuery({"versions"})
    /\ view = ViewStart(1)
    /\ revisions = {}
    /\ previews = NoPreviews(0)

Standing == history[Len(history)]

\* The versions that the detail read after write n lists, and the newest of them.
Listed(n) == IF n = 0 THEN {} ELSE history[n]
Newest(S) == IF S = {} THEN 0 ELSE CHOOSE v \in S : \A w \in S : w <= v

Versions == Listed(detail.data["versions"])

\* The version picked, or the newest; 0 if it is not among those known.
ActiveVersion ==
    LET picked == IF view.selected # 0 THEN view.selected ELSE Newest(Versions)
    IN  IF view.here /\ picked \in Versions THEN picked ELSE 0

PreviewUrl == IF ActiveVersion = 0 THEN 0 ELSE previews.url[ActiveVersion]

\* Without an active version, or after an error, the page is an apology.
Rendered == ActiveVersion # 0 /\ ~detail.failed

\* When another version is active its preview is fetched, unless it is cached
\* and fresh; and the effect on the url revokes the one shown before.
Rerender ==
    LET active == ActiveVersion'
        shown == IF active = 0 THEN 0 ELSE previews.url[active]
    IN  \E stale \in BOOLEAN :
          previews' = [previews EXCEPT
              !.revoked = @ \cup ({PreviewUrl} \ {0, shown}),
              !.fetching = IF active \in {0, ActiveVersion} \/ (shown # 0 /\ ~stale)
                           THEN @ ELSE @ \cup {active}]
-----------------------------------------------------------------------------
SelectVersion(v) ==
    /\ Rendered /\ v \in Versions
    /\ view' = [view EXCEPT !.selected = v]
    /\ UNCHANGED <<history, theirs, detail, revisions>>
    /\ Rerender

LocalSubmitting == \E r \in revisions : r.mount = view.mount

OpenDialog ==
    /\ Rendered /\ ~view.open
    /\ view' = [view EXCEPT !.open = TRUE]
    /\ UNCHANGED <<history, theirs, detail, revisions, previews>>

\* A file that fails the browser's check is put aside again.
HandleSelectFile ==
    /\ view.open /\ ~view.file /\ ~LocalSubmitting
    /\ view' \in {[view EXCEPT !.file = TRUE, !.error = FALSE], [view EXCEPT !.error = TRUE]}
    /\ UNCHANGED <<history, theirs, detail, revisions, previews>>

HandleClose ==
    /\ view.open /\ ~LocalSubmitting
    /\ view' = [view EXCEPT !.open = FALSE, !.file = FALSE, !.error = FALSE]
    /\ UNCHANGED <<history, theirs, detail, revisions, previews>>

HandleSubmit ==
    /\ view.open /\ view.file /\ ~LocalSubmitting
    /\ view' = [view EXCEPT !.error = FALSE]
    /\ revisions' = revisions \cup {[mount |-> view.mount, phase |-> "sent", n |-> 0,
                                     asked |-> detail.told["versions"]]}
    /\ UNCHANGED <<history, theirs, detail, previews>>
-----------------------------------------------------------------------------
Replied(r, reply) == revisions' = (revisions \ {r}) \cup {reply}

Wrote(versions) == Len(history) < MaxVersions /\ history' = Append(history, versions)

\* The server inserts the version, or refuses the file.
AddVersion(r) ==
    /\ r.phase = "sent"
    /\ \/ /\ Standing # {} /\ Wrote(Standing \cup {Len(history) + 1})
          /\ Replied(r, [r EXCEPT !.phase = "inserted", !.n = Len(history) + 1])
       \/ Replied(r, [r EXCEPT !.phase = "failed"]) /\ UNCHANGED history
    /\ UNCHANGED <<theirs, detail, view, previews>>

\* It answers with the detail it then reads, which may be gone; the answer may
\* be lost.  Or the commit failed, and it takes the version back.
AnswerRevision(r) ==
    /\ r.phase = "inserted"
    /\ \/ /\ Standing # {}
          /\ Replied(r, [r EXCEPT !.phase = "answered", !.n = Len(history)])
          /\ UNCHANGED history
       \/ Replied(r, [r EXCEPT !.phase = "failed"]) /\ UNCHANGED history
       \/ /\ Replied(r, [r EXCEPT !.phase = "failed"])
          /\ r.n \in Standing /\ Wrote(Standing \ {r.n})
    /\ UNCHANGED <<theirs, detail, view, previews>>

\* Somebody else adds a version, or the server takes one of theirs back; or the
\* document goes, which the worker found infected.
OtherAddsVersion ==
    /\ Standing # {} /\ Wrote(Standing \cup {Len(history) + 1})
    /\ theirs' = theirs \cup {Len(history) + 1}

OtherTakesBack ==
    /\ \E v \in theirs \cap Standing : Wrote(Standing \ {v}) /\ theirs' = theirs \ {v}

DocumentGoes ==
    /\ Standing # {} /\ Wrote({})
    /\ UNCHANGED theirs

OthersWriteVersions ==
    /\ OtherAddsVersion \/ OtherTakesBack \/ DocumentGoes
    /\ UNCHANGED <<detail, view, revisions, previews>>

\* uploadVersion's onSuccess, and the dialog after its await.
RevisionSucceeds(r) ==
    /\ r.phase = "answered"
    /\ revisions' = revisions \ {r}
    /\ detail' = Told(SetQueryData(detail, "versions", r.n), "versions", r.n, r.asked)
    /\ view' = IF r.mount # view.mount THEN view
               ELSE [view EXCEPT !.selected = Newest(Listed(r.n)), !.open = FALSE,
                                 !.file = FALSE, !.error = FALSE]
    /\ UNCHANGED <<history, theirs>>
    /\ Rerender

RevisionFails(r) ==
    /\ r.phase = "failed"
    /\ revisions' = revisions \ {r}
    /\ view' = IF r.mount # view.mount THEN view ELSE [view EXCEPT !.error = TRUE]
    /\ UNCHANGED <<history, theirs, detail, previews>>

DetailLands ==
    /\ detail.phase = "answered"
    /\ detail' = Shown(detail)
    /\ UNCHANGED <<history, theirs, view, revisions>>
    /\ Rerender

\* A preview arrives under a url of its own; one it replaces on the screen is
\* revoked.
PreviewLands(v) ==
    /\ v \in previews.fetching \cap Standing
    /\ previews.drawn < MaxUrls
    /\ previews' = [previews EXCEPT
          !.drawn = @ + 1, !.url[v] = previews.drawn + 1, !.fetching = @ \ {v},
          !.revoked = @ \cup IF v = ActiveVersion THEN {PreviewUrl} \ {0} ELSE {}]
    /\ UNCHANGED <<history, theirs, detail, view, revisions>>

DocumentActs == HandleSubmit \/ \E v \in Versions : SelectVersion(v)

\* What the dialog alone knows of.
DialogActs == OpenDialog \/ HandleSelectFile \/ HandleClose

\* Requests that the server answers while the session lasts.
DocumentServed ==
    \/ \E r \in revisions : AddVersion(r) \/ AnswerRevision(r)
    \/ \E v \in 1..MaxVersions : PreviewLands(v)
    \/ /\ detail.phase = "asked"
       /\ \/ Standing # {} /\ detail' = Answered(detail, [k \in {"versions"} |-> Len(history)])
          \/ detail' = Failed(detail)
       /\ UNCHANGED <<history, theirs, view, revisions, previews>>

DocumentLands ==
    \/ \E r \in revisions : RevisionSucceeds(r) \/ RevisionFails(r)
    \/ DetailLands
=============================================================================
