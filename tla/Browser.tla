------------------------------ MODULE Browser ------------------------------
(***************************************************************************)
(* One browser tab: the pages of the client, of which one is mounted, over *)
(* the query cache they share, and the session that may end under them.    *)
(* What is on its way when a page is left lands all the same.              *)
(***************************************************************************)
EXTENDS UploadTray, ConfigurationPage, DocumentPage

CONSTANT MaxActs \* bound: what is sent, dismissed or written, and navigation; a batch is two
                 \* what others do; a batch counts twice

VARIABLES page, session, acts

vars == <<trayVars, configVars, documentVars, page, session, acts>>

Init ==
    /\ TrayInit /\ ConfigInit /\ DocumentInit
    /\ page = "dashboard" /\ session = TRUE /\ acts = 0
-----------------------------------------------------------------------------
\* Mounting a page asks for what it shows, unless that is cached and fresh.
Mounted(query) ==
    IF Loaded(query) /\ ~query.failed THEN {query, Fetched(query)} ELSE {Fetched(query)}

Leave ==
    /\ tray' = IF page = "dashboard" THEN Unmounted ELSE tray
    /\ UNCHANGED <<docs, uploads, pollFaults, config, defaults, saves, history, theirs, revisions>>

Enter(p) ==
    /\ page' = p
    /\ settings' = IF p = "configuration" THEN PageStart(settings.mount + 1) ELSE settings
    /\ IF p = "configuration" THEN table' \in Mounted(table) ELSE UNCHANGED table
    /\ IF p = "document"
       THEN /\ view' = [ViewStart(view.mount + 1) EXCEPT !.here = TRUE]
            /\ detail' \in Mounted(detail)
       ELSE /\ view' = IF page = "document" THEN ViewStart(view.mount + 1) ELSE view
            /\ UNCHANGED detail
    /\ Rerender

\* Every navigation asks for the principal first (router.tsx).
Navigate ==
    /\ page # "login"
    /\ \E p \in {"dashboard", "configuration", "document"} \ {page} :
          Leave /\ Enter(IF session THEN p ELSE "login")
    /\ UNCHANGED session

\* The document is loaded anew: nothing is left of the cache, or on its way.
Reload(p) ==
    /\ page' = p
    /\ tray' = Unmounted /\ uploads' = <<>>
    /\ table' = NewQuery(ConfigKeys) /\ saves' = {}
    /\ settings' = PageStart(settings.mount + 1)
    /\ detail' = NewQuery({"versions"}) /\ revisions' = {}
    /\ view' = ViewStart(view.mount + 1)
    /\ previews' = NoPreviews(previews.drawn)
    /\ UNCHANGED <<docs, pollFaults, config, defaults, history, theirs>>

Login ==
    /\ page = "login"
    /\ session' = TRUE
    /\ Reload("dashboard")

\* A query or a mutation, but not a batch of the tray, is answered 401
\* (query-client.ts).
HandleAuthError ==
    /\ ~session /\ page # "login"
    /\ \/ table.phase = "asked" \/ detail.phase = "asked"
       \/ \E s \in saves : s.phase = "sent"
       \/ \E r \in revisions : r.phase = "sent"
       \/ \E i \in DOMAIN tray.items : tray.items[i].polled
    /\ Reload("login")
    /\ UNCHANGED <<session, acts>>

SessionEnds ==
    /\ session /\ page # "login"
    /\ session' = FALSE
    /\ UNCHANGED <<trayVars, configVars, documentVars, page>>
-----------------------------------------------------------------------------
Frame == UNCHANGED <<page, session>>

\* The user, and other users of the tenant.
Act ==
    /\ \/ Navigate
       \/ Login
       \/ SessionEnds
       \/ page = "dashboard" /\ TrayActs /\ UNCHANGED <<configVars, documentVars>> /\ Frame
       \/ page = "configuration" /\ ConfigActs /\ UNCHANGED <<trayVars, documentVars>> /\ Frame
       \/ page = "document" /\ DocumentActs /\ UNCHANGED <<trayVars, configVars>> /\ Frame
       \/ \E key \in ConfigKeys : OtherWrites(key) /\ UNCHANGED <<trayVars, documentVars>> /\ Frame
       \/ OthersWriteVersions /\ UNCHANGED <<trayVars, configVars>> /\ Frame
    /\ acts' = acts + 1 + (tray'.drops - tray.drops)
    /\ acts' <= MaxActs

\* What leads up to it is not counted.
Prepare ==
    /\ \/ page = "dashboard" /\ OpenPicker /\ UNCHANGED <<configVars, documentVars>>
       \/ page = "configuration" /\ RowActs /\ UNCHANGED <<trayVars, documentVars>>
       \/ page = "document" /\ DialogActs /\ UNCHANGED <<trayVars, configVars>>
    /\ Frame /\ UNCHANGED acts

TrayFrame == UNCHANGED <<configVars, documentVars, page, session, acts>>

PollOf(file) ==
    /\ session
    /\ \E i \in DOMAIN tray.items : tray.items[i].id = file /\ Poll(i)
    /\ TrayFrame

\* What is on its way, and what others do.
Network ==
    \/ \E b \in DOMAIN uploads :
          ((session /\ Serve(b)) \/ Refuse(b) \/ SettleBatch(b) \/ InterruptBatch(b)) /\ TrayFrame
    \/ \E file \in DOMAIN docs : Decide(file) /\ TrayFrame
    \/ \E i \in DOMAIN tray.items : PollOf(tray.items[i].id)
    \/ /\ (session /\ ConfigServed) \/ ConfigLands
       /\ UNCHANGED <<trayVars, documentVars, page, session, acts>>
    \/ /\ (session /\ DocumentServed) \/ DocumentLands
       /\ UNCHANGED <<trayVars, configVars, page, session, acts>>

Next == Act \/ Prepare \/ Network \/ HandleAuthError

Spec == Init /\ [][Next]_vars

\* The timer of every polled item goes off while the tray is mounted, and an
\* answer or the end of the session comes of it.
Files == (1..MaxDrops) \X (1..MAX_BATCH_FILES)

FairSpec == Spec /\ \A file \in Files : WF_vars(PollOf(file)) /\ WF_vars(HandleAuthError)
-----------------------------------------------------------------------------
Item(i) == tray.items[i]

Sent(id, b) == \E k \in DOMAIN uploads[b].files : uploads[b].files[k] = id

\* What the tray says of a file is what became of that very file: whatever the
\* browser refused before it, and however its batch overlapped with another,
\* an accepted item carries the document made from it, a refused one left
\* none, one called malware is gone, and one that is uploading still has an
\* answer to come.
TrayTellsTheTruth ==
    \A i \in DOMAIN tray.items :
        CASE Item(i).status = "accepted" ->
                /\ Item(i).document = Item(i).id
                /\ Fate(Item(i).id) # "none"
                /\ Item(i).document \in tray.uploadedDocs
          [] Item(i).error \in {"invalid", "refused"} -> Fate(Item(i).id) = "none"
          [] Item(i).error = "MALWARE_DETECTED" -> Fate(Item(i).id) = "gone"
          [] Item(i).error = "interrupted" -> TRUE
          [] OTHER -> \E b \in DOMAIN uploads : Mine(b) /\ Sent(Item(i).id, b)

\* However late it lands, and whatever was saved, uploaded, taken back or shown
\* while it was on its way, an answer that the configuration table or the detail
\* page shows knows of every write that the user had been told of or shown when
\* it was asked for; and the answer to a save, or an upload, of a newer one.
ShownKnowsWhatWasKnown == KnowsWhatWasKnown(table) /\ KnowsWhatWasKnown(detail)

\* The user is told of every file found infected while its item is on the
\* tray: no failed poll ends the polling.
InfectedIsTold ==
    \A file \in Files :
        Fate(file) = "gone" ~>
            \A i \in DOMAIN tray.items : Item(i).id = file => Item(i).status # "accepted"

\* The row shows the value just saved (AC-42.02): it is the newest that the user
\* was told of or shown, as long as the page says that it was saved.
SavedIsShown == settings.success => \A k \in ConfigKeys : table.data[k] = table.told[k]

\* Picking a version in the picker, or entering the page again, shows the
\* version's contents (AC-21.02, AC-38.02): the preview on the screen is at a
\* url that still resolves.
PreviewIsAlive == Rendered /\ PreviewUrl # 0 => PreviewUrl \notin previews.revoked
=============================================================================
