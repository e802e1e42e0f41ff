------------------------------ MODULE Download ------------------------------
(***************************************************************************)
(* DownloadObject of support/network_handler.py with the progress window   *)
(* of wx_gui/gui_download.py and the caller that uses the file: a worker   *)
(* thread fetches a file block by block, resumes a broken transfer with a  *)
(* Range request at the byte count it has reached, restarts when the       *)
(* server ignores the range, and hashes what it writes; the window polls   *)
(* the status and may ask the worker to stop at any moment.                *)
(*                                                                         *)
(* A block stands for the bytes of one chunk.  The server may replace the  *)
(* file by a newer version between two requests: block i of version v is   *)
(* <<v, i>>.  A body that ends early is reported as a broken connection    *)
(* (urllib3 enforces the content length).                                  *)
(***************************************************************************)
EXTENDS Integers, Sequences

CONSTANTS Versions,     \* how many versions of the file the server may publish
          Length,       \* the number of blocks of each version
          MaxRetries    \* MAX_DOWNLOAD_RETRIES

ASSUME VersionsAssumption == Versions \in Nat \ {0}
ASSUME LengthAssumption == Length \in [1..Versions -> Nat]
ASSUME RetriesAssumption == MaxRetries \in Nat

VARIABLES network,      \* has_network, found by the constructor
          hashing,      \* a checksum algorithm was given
          server,       \* the version the server answers with
          worker,       \* where the worker thread is
          status, complete, stop, count, digest, checksum,  \* of the object
          attempt,      \* transient errors met so far
          stream,       \* the answer being read: its version, the last block
          file,         \* the blocks on the disk
          late,         \* requests sent after stop() was called (history)
          window,       \* the download window, then its caller
          cancelled     \* user_cancelled of the window

object  == <<status, complete, stop, count, digest, checksum>>
context == <<network, hashing>>
vars == <<context, server, worker, object, attempt, stream, file, late, window,
          cancelled>>

Block(v, i) == <<v, i>>
Content(v) == [i \in 1..Length[v] |-> Block(v, i)]
Blocks == (0..Versions) \X Nat
Leftover == Block(0, 0)         \* what an earlier download left at the path
NoChecksum == <<Leftover>>      \* checksum is None

WorkerStates == {"idle", "begin", "get", "stream", "backoff", "finish",
                 "publish", "done"}

TypeOK ==
    /\ network \in BOOLEAN /\ hashing \in BOOLEAN
    /\ server \in 1..Versions
    /\ worker \in WorkerStates
    /\ status \in {"inactive", "downloading", "complete", "error"}
    /\ complete \in BOOLEAN /\ stop \in BOOLEAN /\ cancelled \in BOOLEAN
    /\ count \in Nat
    /\ digest \in Seq(Blocks) /\ checksum \in Seq(Blocks) /\ file \in Seq(Blocks)
    /\ attempt \in 0..(MaxRetries + 1)
    /\ stream \in [version : 1..Versions, at : Nat]
    /\ late \in Nat
    /\ window \in {"closed", "open", "failed", "silent", "handed",
                   "accepted", "corrupt"}

Init ==
    /\ network \in BOOLEAN /\ hashing \in BOOLEAN
    /\ server = 1
    /\ worker = "idle" /\ status = "inactive"
    /\ complete = FALSE /\ stop = FALSE
    /\ count = 0 /\ digest = <<>> /\ checksum = NoChecksum
    /\ attempt = 0 /\ stream = [version |-> 1, at |-> 0]
    /\ file \in {<<>>, <<Leftover>>}
    /\ late = 0
    /\ window = "closed" /\ cancelled = FALSE

-----------------------------------------------------------------------------
(***************************************************************************)
(* The window: it starts the download, polls is_active, and then tells a   *)
(* download that failed from one that was cancelled.  The caller goes on   *)
(* when download_complete is set, and compares the checksum if it has one. *)
(***************************************************************************)

\* The status is set before the thread is scheduled, so that the first poll
\* does not see INACTIVE.
Start ==
    /\ window = "closed" /\ worker = "idle"
    /\ window' = "open" /\ status' = "downloading" /\ worker' = "begin"
    /\ UNCHANGED <<context, server, complete, stop, count, digest, checksum,
                   attempt, stream, file, late, cancelled>>

Cancel ==
    /\ window = "open" /\ ~cancelled
    /\ stop' = TRUE /\ cancelled' = TRUE
    /\ UNCHANGED <<context, server, worker, status, complete, count, digest,
                   checksum, attempt, stream, file, late, window>>

Poll ==
    /\ window = "open"
    /\ window' = CASE status = "downloading" -> "open"
                   [] status # "downloading" /\ complete -> "handed"
                   [] status # "downloading" /\ ~complete ->
                        IF cancelled THEN "silent" ELSE "failed"
    /\ UNCHANGED <<context, server, worker, object, attempt, stream, file, late,
                   cancelled>>

\* The catalog's checksum is that of the first version.
Validate ==
    /\ window = "handed"
    /\ window' = IF hashing /\ checksum # Content(1) THEN "corrupt" ELSE "accepted"
    /\ UNCHANGED <<context, server, worker, object, attempt, stream, file, late,
                   cancelled>>

-----------------------------------------------------------------------------
(***************************************************************************)
(* The worker.                                                             *)
(***************************************************************************)

\* Mutant: the finally clause sets the status to COMPLETE after an error too.
FailComplete == status' = "complete" /\ worker' = "done" /\ UNCHANGED complete

\* Mutant: the status is left at DOWNLOADING.
FailSilently == worker' = "done" /\ UNCHANGED <<status, complete>>

Fail == status' = "error" /\ worker' = "done" /\ UNCHANGED complete

\* The network check, then _prepare_working_directory, which may fail.
Begin ==
    /\ worker = "begin"
    /\ \/ network /\ worker' = "get" /\ file' = <<>>
          /\ UNCHANGED <<status, complete>>
       \/ Fail /\ UNCHANGED file
    /\ UNCHANGED <<context, server, stop, count, digest, checksum, attempt,
                   stream, late, window, cancelled>>

\* Mutant: a stopped download is retried like any other.
RetryStopped ==
    /\ attempt' = attempt + 1
    /\ IF attempt + 1 > MaxRetries THEN Fail
       ELSE worker' = "backoff" /\ UNCHANGED <<status, complete>>
    /\ UNCHANGED <<file, count, digest, stream>>

\* Mutant: the attempts are not counted.
RetryForever ==
    /\ IF stop THEN Fail ELSE worker' = "backoff" /\ UNCHANGED <<status, complete>>
    /\ UNCHANGED <<attempt, file, count, digest, stream>>

\* Mutant: one attempt too many.
RetryOnceMore ==
    /\ IF stop THEN Fail /\ UNCHANGED attempt
       ELSE /\ attempt' = attempt + 1
            /\ IF attempt > MaxRetries THEN Fail
               ELSE worker' = "backoff" /\ UNCHANGED <<status, complete>>
    /\ UNCHANGED <<file, count, digest, stream>>

\* The handler of a transient error: retried unless the user stopped the
\* download or MaxRetries attempts were made.
Transient ==
    /\ IF stop THEN Fail /\ UNCHANGED attempt
       ELSE /\ attempt' = attempt + 1
            /\ IF attempt + 1 > MaxRetries THEN Fail
               ELSE worker' = "backoff" /\ UNCHANGED <<status, complete>>
    /\ UNCHANGED <<file, count, digest, stream>>

\* time.sleep: nothing interrupts it, should_stop is not looked at after it.
Wake ==
    /\ worker = "backoff" /\ worker' = "get"
    /\ UNCHANGED <<context, server, object, attempt, stream, file, late, window,
                   cancelled>>

\* Mutant: the resumed transfer opens the file with mode 'wb'.
PartialAnswerTruncates ==
    /\ count > 0 /\ count < Length[server]
    /\ worker' = "stream" /\ stream' = [version |-> server, at |-> count]
    /\ file' = <<>>
    /\ UNCHANGED <<status, complete, count, digest, attempt>>

\* 206: what follows the blocks already written, opened for appending.
PartialAnswer ==
    /\ count > 0 /\ count < Length[server]
    /\ worker' = "stream" /\ stream' = [version |-> server, at |-> count]
    /\ UNCHANGED <<status, complete, count, digest, attempt, file>>

\* Mutant: the file opened for appending is not restarted.
FullAnswerAppends ==
    /\ worker' = "stream" /\ stream' = [version |-> server, at |-> 0]
    /\ UNCHANGED <<count, file, status, complete, digest, attempt>>

\* 200: the whole file, opened for writing.  If a range was asked for, the
\* count restarts; resetting the hash by calling its class raises TypeError,
\* for the constructor of hashlib's objects is not callable, before the file
\* is opened.
FullAnswer ==
    /\ count' = 0
    /\ IF count > 0 /\ hashing THEN Fail /\ UNCHANGED <<file, stream>>
       ELSE /\ worker' = "stream" /\ stream' = [version |-> server, at |-> 0]
            /\ file' = <<>>
            /\ UNCHANGED <<status, complete>>
    /\ UNCHANGED <<digest, attempt>>

\* Any other code (416 once every block is there) or another request error.
Refused == Fail /\ UNCHANGED <<count, digest, attempt, file, stream>>

Get ==
    /\ worker = "get"
    /\ PartialAnswer \/ FullAnswer \/ Refused \/ Transient
    /\ late' = late + (IF stop THEN 1 ELSE 0)
    /\ UNCHANGED <<context, server, stop, checksum, window, cancelled>>

\* One chunk: should_stop is looked at first, the disk may be full.
Chunk ==
    /\ worker = "stream" /\ stream.at < Length[stream.version]
    /\ LET block == Block(stream.version, stream.at + 1) IN
       \/ /\ ~stop
          /\ file' = Append(file, block) /\ count' = count + 1
          /\ digest' = IF hashing THEN Append(digest, block) ELSE digest
          /\ stream' = [stream EXCEPT !.at = @ + 1]
          /\ UNCHANGED <<worker, status, complete>>
       \/ Fail /\ UNCHANGED <<file, count, digest, stream>>
    /\ UNCHANGED <<context, server, stop, checksum, attempt, late, window, cancelled>>

Break ==
    /\ worker = "stream" /\ Transient
    /\ UNCHANGED <<context, server, stop, checksum, late, window, cancelled>>

EndOfStream ==
    /\ worker = "stream" /\ stream.at >= Length[stream.version]
    /\ worker' = "finish"
    /\ UNCHANGED <<context, server, object, attempt, stream, file, late, window,
                   cancelled>>

\* Mutant: the status is published with the flag still unset.
FinishStatusFirst ==
    /\ worker = "finish" /\ worker' = "publish"
    /\ checksum' = IF hashing THEN digest ELSE NoChecksum
    /\ status' = "complete"
    /\ UNCHANGED <<context, server, complete, stop, count, digest, attempt,
                   stream, file, late, window, cancelled>>

\* checksum, then download_complete, and the status last: the window reads
\* download_complete as soon as the status is no longer DOWNLOADING.
Finish ==
    /\ worker = "finish" /\ worker' = "publish"
    /\ checksum' = IF hashing THEN digest ELSE NoChecksum
    /\ complete' = TRUE
    /\ UNCHANGED <<context, server, status, stop, count, digest, attempt, stream,
                   file, late, window, cancelled>>

Publish ==
    /\ worker = "publish" /\ worker' = "done"
    /\ status' = "complete" /\ complete' = TRUE
    /\ UNCHANGED <<context, server, stop, count, digest, checksum, attempt,
                   stream, file, late, window, cancelled>>

\* The server publishes another version under the same URL.
Republish ==
    /\ server < Versions /\ server' = server + 1
    /\ UNCHANGED <<context, worker, object, attempt, stream, file, late, window,
                   cancelled>>

-----------------------------------------------------------------------------
Worker == Begin \/ Get \/ Wake \/ Chunk \/ Break \/ EndOfStream \/ Finish \/ Publish
Window == Start \/ Cancel \/ Poll \/ Validate

\* Nothing is left to do once the window is closed: only a new window, with an
\* object of its own, would go on.
Closed == window \in {"failed", "silent", "accepted", "corrupt"}
Over == Closed /\ UNCHANGED vars

Next == Worker \/ Window \/ Republish \/ Over

Spec == Init /\ [][Next]_vars

\* The thread runs and every socket call returns or times out; the window's
\* loop polls, and its caller goes on.
FairSpec == Spec /\ WF_vars(Worker) /\ WF_vars(Poll) /\ WF_vars(Validate)

-----------------------------------------------------------------------------
(***************************************************************************)
(* Properties.                                                             *)
(***************************************************************************)

\* A download reported complete left, whatever mixture of broken transfers,
\* resumed ranges and restarts led there, blocks in order, none missing, none
\* twice, up to the end of the version that was read last: and the published
\* file itself if the server published only one.
CompleteIsWhole ==
    complete => /\ Len(file) = Length[stream.version]
                /\ \A i \in 1..Len(file) : file[i][2] = i
                /\ server = 1 => file = Content(1)

\* The caller that compares checksums accepts nothing but the file its catalog
\* describes, even when the server replaced the file between two requests.
AcceptedIsExpected == window = "accepted" /\ hashing => file = Content(1)

\* The window never shows a failure for a download that completes, nor hands
\* an unfinished file to its caller.
WindowIsRight ==
    /\ window \in {"failed", "silent"} => ~complete /\ status = "error"
    /\ window \in {"handed", "accepted", "corrupt"} => status = "complete"

\* Once stop() is called at most one more request is sent, the one a backoff
\* was waiting for.
StopIsHeard == late <= 1

\* Every download ends, cancelled or not: the retries are bounded and a stop
\* is noticed.
Ends == (worker = "begin") ~> (worker = "done")

\* And then the window closes and its caller decides.
WindowCloses == (window = "open") ~> Closed

\* A server that answers a range request with the whole file makes the
\* transfer start over.
RestartsFromScratch ==
    [][worker = "get" /\ count > 0 /\ count' = 0 => worker' = "stream"]_vars
=============================================================================
