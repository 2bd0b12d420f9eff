----------------------------- MODULE UploadTray -----------------------------
(***************************************************************************)
(* The upload tray of the dashboard (apps/web, use-upload-tray.ts): the    *)
(* files a user drops are checked in the browser, sent as one batch, and   *)
(* shown as items that the answer settles; an accepted item is polled      *)
(* until its document is ready, or gone.                                   *)
(*                                                                         *)
(* A file is named <<batch, position>>, and a document by the file it was  *)
(* made from.  On the server's side docs says what became of every file.   *)
(***************************************************************************)
EXTENDS Integers, Sequences, FiniteSets

CONSTANTS
    MAX_BATCH_FILES, \* files the tray takes at a time
    MaxDrops,        \* bound: batches a user drops
    MaxPollFaults    \* bound: polls that fail

VARIABLES
    docs,      \* the server: "queued", "ready" or "gone" for every file stored
    tray,      \* the mounted tray, and the rows of the dashboard around it
    uploads,   \* batches on their way, by number
    pollFaults

trayVars == <<docs, tray, uploads, pollFaults>>

Fate(file) == IF file \in DOMAIN docs THEN docs[file] ELSE "none"

EmptyTray(mount, drops) ==
    [mount |-> mount, drops |-> drops, items |-> <<>>, isUploading |-> FALSE,
     picker |-> FALSE, batchError |-> "none", success |-> FALSE, uploadedDocs |-> {}]

TrayInit ==
    /\ docs = <<>>
    /\ tray = EmptyTray(1, 0)
    /\ uploads = <<>>
    /\ pollFaults = 0
-----------------------------------------------------------------------------
\* A finite set of positions in their order.
Ascending(S) ==
    CHOOSE s \in [1..Cardinality(S) -> S] : \A j, k \in DOMAIN s : j < k => s[j] < s[k]

\* The items of batch b, whose files pass the browser's check or not, and the
\* files of it that are sent, in the order dropped.
ProcessFilesForUpload(b, files) ==
    LET passed == Ascending({i \in DOMAIN files : files[i]})
    IN  [newItems |-> [i \in DOMAIN files |->
            [id |-> <<b, i>>, document |-> <<>>, polled |-> FALSE,
             status |-> IF files[i] THEN "uploading" ELSE "rejected",
             error |-> IF files[i] THEN "none" ELSE "invalid"]],
         filesToUpload |-> [k \in DOMAIN passed |-> <<b, passed[k]>>]]

\* By their position among the files dropped.
ApplyByDrop(item, filesToUpload, results) ==
    IF item.id \in {filesToUpload[k] : k \in DOMAIN filesToUpload} /\ item.id[2] \in DOMAIN results
    THEN LET result == results[item.id[2]]
         IN  [item EXCEPT !.status = result.status, !.document = result.document,
                          !.error = IF result.status = "accepted" THEN "none" ELSE "refused",
                          !.polled = result.status = "accepted"]
    ELSE item

\* Results pair with files by their position among the files sent; one that is
\* missing leaves the item as it is.
ApplyBatchOutcome(item, filesToUpload, results) ==
    IF \E k \in DOMAIN filesToUpload \cap DOMAIN results : filesToUpload[k] = item.id
    THEN LET result == results[CHOOSE k \in DOMAIN filesToUpload : filesToUpload[k] = item.id]
         IN  [item EXCEPT !.status = result.status, !.document = result.document,
                          !.error = IF result.status = "accepted" THEN "none" ELSE "refused",
                          !.polled = result.status = "accepted"]
    ELSE item

Sending(b, filesToUpload) ==
    [c \in DOMAIN uploads \cup {b} |->
        IF c # b THEN uploads[c]
        ELSE [mount |-> tray.mount, files |-> filesToUpload, phase |-> "sent", results |-> <<>>]]

\* The picker the files were chosen in is closed; one that is open while files
\* are dropped on the zone stays open.
HandleFiles(files, picker) ==
    LET b == tray.drops + 1
        processed == ProcessFilesForUpload(b, files)
        cleared == [tray EXCEPT !.drops = b, !.picker = picker, !.success = FALSE,
                                !.batchError = "none"]
    IN  IF Len(files) > MAX_BATCH_FILES
        THEN /\ tray' = [cleared EXCEPT !.batchError = "BATCH_TOO_LARGE"]
             /\ UNCHANGED uploads
        ELSE /\ tray' = [cleared EXCEPT
                    !.items = processed.newItems \o @,
                    !.isUploading = @ \/ processed.filesToUpload # <<>>]
             /\ uploads' = IF processed.filesToUpload = <<>> THEN uploads
                           ELSE Sending(b, processed.filesToUpload)

Batch == UNION {[1..n -> BOOLEAN] : n \in 1..MAX_BATCH_FILES + 1}

\* Dropped on the zone, which refuses files while a batch is uploading.
DropFiles ==
    /\ tray.drops < MaxDrops
    /\ ~tray.isUploading
    /\ \E files \in Batch : HandleFiles(files, tray.picker)
    /\ UNCHANGED <<docs, pollFaults>>

\* Chosen in the picker, or nothing is.  Its change event is not checked: the
\* batch dropped while it was open may still be uploading.
ChooseFiles ==
    /\ tray.picker
    /\ \/ tray.drops < MaxDrops /\ \E files \in Batch : HandleFiles(files, FALSE)
       \/ tray' = [tray EXCEPT !.picker = FALSE] /\ UNCHANGED uploads
    /\ UNCHANGED <<docs, pollFaults>>

OpenPicker ==
    /\ ~tray.isUploading /\ ~tray.picker
    /\ tray.drops < MaxDrops
    /\ tray' = [tray EXCEPT !.picker = TRUE]
    /\ UNCHANGED <<docs, uploads, pollFaults>>

-----------------------------------------------------------------------------
\* The server stores some of a batch's files and answers file by file; the
\* answer may be lost.
Serve(b) ==
    /\ uploads[b].phase = "sent"
    /\ LET files == uploads[b].files
       IN  \E kept \in SUBSET {files[k] : k \in DOMAIN files} :
             /\ docs' = [f \in DOMAIN docs \cup kept |->
                            IF f \in DOMAIN docs THEN docs[f] ELSE "queued"]
             /\ uploads' \in
                  {[uploads EXCEPT ![b].phase = "lost"],
                   [uploads EXCEPT ![b].phase = "answered",
                                   ![b].results = [k \in DOMAIN files |->
                      IF files[k] \in kept
                      THEN [status |-> "accepted", document |-> files[k]]
                      ELSE [status |-> "rejected", document |-> <<>>]]]}
    /\ UNCHANGED <<tray, pollFaults>>

\* It refuses the whole request, or never sees it end.
Refuse(b) ==
    /\ uploads[b].phase = "sent"
    /\ uploads' = [uploads EXCEPT ![b].phase = "lost"]
    /\ UNCHANGED <<docs, tray, pollFaults>>

Mine(b) == uploads[b].mount = tray.mount

Landed(b) == uploads' = [c \in DOMAIN uploads \ {b} |-> uploads[c]]

\* handleFiles after its await.  A tray unmounted meanwhile shows nothing.
SettleBatch(b) ==
    /\ uploads[b].phase = "answered"
    /\ Landed(b)
    /\ LET results == uploads[b].results
           accepted == {results[k].document : k \in {j \in DOMAIN results :
                                                       results[j].status = "accepted"}}
       IN  tray' = IF ~Mine(b) THEN tray ELSE
              [tray EXCEPT
                 !.items = [i \in DOMAIN @ |-> ApplyBatchOutcome(@[i], uploads[b].files, results)],
                 !.success = @ \/ accepted # {},
                 !.uploadedDocs = @ \cup accepted,
                 !.isUploading = FALSE]
    /\ UNCHANGED <<docs, pollFaults>>

InterruptBatch(b) ==
    /\ uploads[b].phase = "lost"
    /\ Landed(b)
    /\ tray' = IF ~Mine(b) THEN tray ELSE
          [tray EXCEPT
             !.items = [i \in DOMAIN @ |->
                 IF @[i].status = "uploading"
                    /\ \E k \in DOMAIN uploads[b].files : uploads[b].files[k] = @[i].id
                 THEN [@[i] EXCEPT !.status = "rejected", !.error = "interrupted"]
                 ELSE @[i]],
             !.batchError = "UPLOAD_INTERRUPTED",
             !.isUploading = FALSE]
    /\ UNCHANGED <<docs, pollFaults>>

Dismiss(i) ==
    /\ tray.items[i].status # "uploading"
    /\ tray' = [tray EXCEPT !.items = SubSeq(@, 1, i - 1) \o SubSeq(@, i + 1, Len(@))]
    /\ UNCHANGED <<docs, uploads, pollFaults>>

-----------------------------------------------------------------------------
\* A poll that fails is retried, and the next is scheduled all the same.
PollEndsOnError(reading) == reading \in {"ready", "gone", "error"}
PollEnds(reading) == reading \in {"ready", "gone"}

MarkTrayItemAsMalwareDetected(item) ==
    [item EXCEPT !.status = "rejected", !.error = "MALWARE_DETECTED"]

\* The item's query reads its document every two seconds: a document that is
\* not found was infected.
Poll(i) ==
    /\ tray.items[i].status = "accepted" /\ tray.items[i].polled
    /\ \E reading \in {Fate(tray.items[i].document), "error"} :
          /\ reading = "error" => pollFaults < MaxPollFaults
          /\ pollFaults' = pollFaults + IF reading = "error" THEN 1 ELSE 0
          /\ tray' = [tray EXCEPT !.items[i] =
                IF reading = "gone" THEN [MarkTrayItemAsMalwareDetected(@) EXCEPT !.polled = FALSE]
                ELSE [@ EXCEPT !.polled = ~PollEnds(reading)]]
    /\ UNCHANGED <<docs, uploads>>

\* The worker finishes with a document, or purges it.
Decide(file) ==
    /\ docs[file] = "queued"
    /\ \E fate \in {"ready", "gone"} : docs' = [docs EXCEPT ![file] = fate]
    /\ UNCHANGED <<tray, uploads, pollFaults>>

TrayActs ==
    \/ DropFiles \/ ChooseFiles
    \/ \E i \in DOMAIN tray.items : Dismiss(i)

\* The dashboard is left: its state goes, its batches do not.
Unmounted == EmptyTray(tray.mount + 1, tray.drops)
=============================================================================
