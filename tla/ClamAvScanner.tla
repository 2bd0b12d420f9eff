--------------------------- MODULE ClamAvScanner ----------------------------
(***************************************************************************)
(* One scan (apps/worker, clamav-scanner.ts): a file is written to the     *)
(* daemon as chunks, each after its length, over a socket that takes as    *)
(* many bytes at a time as it likes, against a timer; the daemon's answer  *)
(* may come in pieces, late, or never.                                     *)
(***************************************************************************)
EXTENDS Integers, Sequences, SequencesExt

CONSTANTS
    MaxChunk,     \* bytes in a chunk the blob store hands over
    LengthBytes   \* how a length is written

\* The length of a length does not depend on it, and two lengths differ.
ASSUME LengthAssumption ==
    /\ MaxChunk \in Nat
    /\ LengthBytes \in [0..MaxChunk -> Seq(STRING)]
    /\ \A m, n \in 0..MaxChunk :
          /\ Len(LengthBytes[m]) = Len(LengthBytes[n])
          /\ LengthBytes[m] = LengthBytes[n] => m = n
    /\ Len(LengthBytes[0]) > 0

VARIABLES
    scan,   \* the promise and what its closure holds
    daemon  \* the other end of the socket

scanVars == <<scan, daemon>>

NoScan == [pc |-> "none", rest |-> <<>>, chunk |-> <<>>, pending |-> <<>>,
           settled |-> "no", response |-> <<>>, socket |-> "none"]
NoDaemon == [pc |-> "reads", unread |-> <<>>, file |-> <<>>, toSay |-> <<>>]

ScanInit == scan = NoScan /\ daemon = NoDaemon

Settled == scan.settled # "no"

\* finish and fail: the first of them settles the promise, the rest do nothing.
Settle(s, verdict) == IF s.settled = "no" THEN [s EXCEPT !.settled = verdict] ELSE s

StartScan(file) ==
    /\ scan.pc = "none"
    /\ scan' = [NoScan EXCEPT !.pc = "connect", !.rest = file, !.socket = "connecting"]
    /\ UNCHANGED daemon

\* The timer settles the promise and leaves the socket as it is.
Timeout ==
    /\ scan.pc # "none" /\ ~Settled
    /\ scan' = Settle(scan, "failed")
    /\ UNCHANGED daemon

Open ==
    /\ scan.socket = "connecting"
    /\ scan' \in {[scan EXCEPT !.socket = "open", !.pc = "read"],
                  Settle([scan EXCEPT !.socket = "closed", !.pc = "end"], "failed")}
    /\ UNCHANGED daemon
-----------------------------------------------------------------------------
\* The bytes of a length.
HeaderSize == Len(LengthBytes[0])
Header(n) == LengthBytes[n]

\* What is left to write when the socket took n bytes.
FlushedLossy(bytes, n) == IF n = 0 THEN bytes ELSE <<>>
Flushed(bytes, n) == SubSeq(bytes, n + 1, Len(bytes))

\* flushPending, called by writeAll and again whenever the socket has drained.
FlushPending ==
    /\ scan.socket = "open" /\ scan.pending # <<>>
    /\ \E n \in 1..Len(scan.pending) :
          /\ scan' = [scan EXCEPT !.pending = Flushed(@, n)]
          /\ daemon' = [daemon EXCEPT !.unread = @ \o SubSeq(scan.pending, 1, n)]

\* writeAll returns when everything is written, or when the promise settles.
Written == scan.pending = <<>> \/ Settled

\* The loop of open: a chunk of any length, the end of the file and the length
\* zero after it, or the blob store's stream fails.
ReadChunk ==
    /\ scan.pc = "read" /\ scan.socket = "open" /\ Written
    /\ \/ /\ ~Settled
          /\ \E n \in 1..MaxChunk :
                /\ n <= Len(scan.rest)
                /\ scan' = [scan EXCEPT !.pc = "write", !.pending = Header(n),
                                        !.chunk = SubSeq(scan.rest, 1, n),
                                        !.rest = SubSeq(@, n + 1, Len(@))]
       \/ /\ ~Settled /\ scan.rest = <<>>
          /\ scan' = [scan EXCEPT !.pc = "end", !.pending = Header(0)]
       \/ /\ Settled
          /\ scan' = [scan EXCEPT !.pc = "end"]
       \/ scan' = Settle([scan EXCEPT !.pc = "end", !.socket = "closed"], "failed")
    /\ UNCHANGED daemon

WriteChunk ==
    /\ scan.pc = "write" /\ Written
    /\ scan' = [scan EXCEPT !.pc = "read", !.pending = IF Settled THEN @ ELSE scan.chunk]
    /\ UNCHANGED daemon
-----------------------------------------------------------------------------
(***************************************************************************)
(* The daemon is given bytes and keeps the file they frame.                *)
(***************************************************************************)
IsHeader(bytes, n) == SubSeq(bytes, 1, HeaderSize) = Header(n)

DaemonReads ==
    /\ daemon.pc = "reads" /\ Len(daemon.unread) >= HeaderSize
    /\ \/ /\ IsHeader(daemon.unread, 0)
          /\ daemon' = [daemon EXCEPT !.pc = "whole"]
       \/ \E n \in 1..MaxChunk :
             /\ IsHeader(daemon.unread, n)
             /\ Len(daemon.unread) >= HeaderSize + n
             /\ daemon' = [daemon EXCEPT
                   !.file = @ \o SubSeq(daemon.unread, HeaderSize + 1, HeaderSize + n),
                   !.unread = SubSeq(@, HeaderSize + n + 1, Len(@))]
    /\ UNCHANGED scan

\* OK or FOUND once it has the whole file, an error whenever it likes.
DaemonAnswers ==
    /\ daemon.pc \in {"reads", "whole"} /\ scan.socket = "open"
    /\ \E answer \in {"error"} \cup
           (IF daemon.pc # "whole" THEN {}
            ELSE {IF "v" \in ToSet(daemon.file) THEN "FOUND" ELSE "OK"}) :
          daemon' = [daemon EXCEPT !.pc = "answered", !.toSay = <<answer, "zero">>]
    /\ UNCHANGED scan

Verdict(response) ==
    CASE response[1] = "OK" -> "clean" [] response[1] = "FOUND" -> "infected" [] OTHER -> "failed"

\* data: nothing until the answer's terminator is there.
Data ==
    /\ scan.socket = "open" /\ daemon.toSay # <<>>
    /\ \E n \in 1..Len(daemon.toSay) :
          LET response == scan.response \o SubSeq(daemon.toSay, 1, n)
              heard == [scan EXCEPT !.response = response]
          IN  /\ scan' = IF "zero" \in ToSet(response)
                         THEN Settle([heard EXCEPT !.socket = "closed"], Verdict(response))
                         ELSE heard
              /\ daemon' = [daemon EXCEPT !.toSay = SubSeq(@, n + 1, Len(@))]

\* close and error: the connection is gone, whoever ended it.
Close ==
    /\ scan.socket = "open"
    /\ scan' = Settle([scan EXCEPT !.socket = "closed"], "failed")
    /\ UNCHANGED daemon

ScanStep == \/ Timeout \/ Open \/ FlushPending \/ ReadChunk \/ WriteChunk
            \/ DaemonReads \/ DaemonAnswers \/ Data \/ Close
=============================================================================
