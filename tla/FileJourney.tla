---------------------------- MODULE FileJourney -----------------------------
(***************************************************************************)
(* The bytes of a file from the browser's request to the scanner's         *)
(* verdict: taken out of the request body, stored if they are not more     *)
(* than the tenant allows, and read back for the daemon.                   *)
(***************************************************************************)
EXTENDS MultipartReader, ClamAvScanner

VARIABLE stored \* which of the collected items the worker scans, 0 before

journeyVars == <<readerVars, scanVars, stored>>

JourneyInit == ReaderInit /\ ScanInit /\ stored = 0

Collect == ReadOn /\ UNCHANGED <<scanVars, stored>>

\* A batch passed on stores each item of an allowed size; any of them is next
\* for the worker.
Scan ==
    /\ UploadAnswer = "passed on" \/ VersionAnswer = "passed on"
    /\ Collected /\ stored = 0
    /\ \E i \in DOMAIN reader.items :
          /\ reader.items[i].sizeBytes \in 1..MaxBytesPerFile
          /\ stored' = i
          /\ StartScan(reader.items[i].chunks)
    /\ UNCHANGED readerVars

KeepScanning == ScanStep /\ UNCHANGED <<readerVars, stored>>

JourneyNext == Collect \/ Scan \/ KeepScanning

JourneySpec == JourneyInit /\ [][JourneyNext]_journeyVars
-----------------------------------------------------------------------------
\* The files of a request as the sender meant them: parts of the field `files`
\* that have a file name.
SentFiles == {k \in DOMAIN sent.parts : IsFilePart(sent.parts[k].header)}

\* Which of them, in their order, the k-th part is.
FileNumber(k) == Cardinality({j \in SentFiles : j <= k})

\* What was kept of a file: all of it within the limit; beyond it a beginning,
\* long enough to tell the type and never longer than the limit.
KeptOf(item, content) ==
    /\ item.sizeBytes = Len(content)
    /\ IsPrefix(item.chunks, content)
    /\ Len(item.chunks) <= MaxBytesPerFile
    /\ IF item.sizeBytes <= MaxBytesPerFile
       THEN item.chunks = content
       ELSE Len(item.chunks) >= SniffWindow

\* However the body is cut into chunks on its way, collectUploadParts finds the
\* files that were sent, in their order, each with its true size and all of its
\* bytes if the tenant's limit allows them: a delimiter, or something that looks
\* like the beginning of one, may be split anywhere.  A whole body is
\* collected whole, or cut at one file more than a batch may have.
PartsAreWhole ==
    /\ \A i \in DOMAIN reader.items :
          \E k \in SentFiles :
             FileNumber(k) = i /\ KeptOf(reader.items[i], sent.parts[k].content)
    /\ ReaderAt("done") => Len(reader.items) = Min({Cardinality(SentFiles), MaxBatch + 1})

\* A verdict is the verdict of the file the user sent: the daemon was given
\* every byte of it in order, however the request, the store and the socket cut
\* them up and whenever the timer fires, and its answer was read as it was said.
VerdictIsOfTheWholeFile ==
    scan.settled \in {"clean", "infected"} =>
        \E k \in SentFiles :
            LET content == sent.parts[k].content
            IN  /\ FileNumber(k) = stored
                /\ daemon.file = content
                /\ scan.settled = "infected" <=> "v" \in ToSet(content)
=============================================================================
