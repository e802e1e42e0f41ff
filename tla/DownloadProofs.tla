--------------------------- MODULE DownloadProofs ---------------------------
(***************************************************************************)
(* The download, for files of any length, any number of versions published *)
(* meanwhile and any number of retries: what "complete" says of the file,  *)
(* what the checksum says, what the window reports, and how many requests  *)
(* a stopped download still sends.                                         *)
(*                                                                         *)
(* The invariant ties the byte count, the hash and the position in the     *)
(* answer to the blocks on the disk (Resumable): it holds whenever the     *)
(* worker may still send a request, which is what a resumed transfer       *)
(* relies on.                                                              *)
(***************************************************************************)
EXTENDS Download, TLAPS

Active == {"get", "stream", "backoff", "finish", "publish"}

\* The blocks of f are numbered from 1, of versions the server has published.
InOrder(f) == \A i \in 1..Len(f) : f[i][2] = i /\ f[i][1] \in 1..server

\* What a request may resume from.
Resumable ==
    /\ worker = "begin" => count = 0 /\ digest = <<>>
    /\ worker \in Active =>
          /\ count = Len(file) /\ InOrder(file)
          /\ hashing => digest = file
    /\ worker = "stream" =>
          stream.at = count /\ count <= Length[stream.version]
    /\ stream.version <= server

\* What the last steps publish.
Whole ==
    worker \in {"finish", "publish"} \/ complete =>
        /\ Len(file) = Length[stream.version] /\ InOrder(file)
        /\ hashing => digest = file
        /\ (worker = "publish" \/ complete) /\ hashing => checksum = file

\* The status, the flag and the place of the worker agree.
Reported ==
    /\ worker = "idle" => status = "inactive" /\ count = 0 /\ digest = <<>>
    /\ worker = "begin" \/ worker \in Active => status = "downloading"
    /\ worker = "done" => status = (IF complete THEN "complete" ELSE "error")
    /\ complete => worker \in {"publish", "done"}
    /\ worker = "publish" => complete
    /\ stop => worker # "idle"

Heard ==
    /\ ~stop => late = 0
    /\ worker \in {"idle", "begin", "get", "backoff"} => late = 0

\* The window's state follows the worker's report.
Shown ==
    /\ window = "closed" <=> worker = "idle"
    /\ window # "closed" /\ window # "open" => worker = "done"
    /\ window = "accepted" /\ hashing => checksum = Content(1)

IInv == Resumable /\ Whole /\ Reported /\ Heard /\ Shown /\ WindowIsRight /\ StopIsHeard

-----------------------------------------------------------------------------
(* Types                                                                   *)

LEMMA LeftoverIsBlock == Leftover \in Blocks
BY VersionsAssumption DEF Leftover, Block, Blocks

\* The attempts that may still be retried.
Counted == worker # "done" => attempt <= MaxRetries

LEMMA TypeInit == Init => TypeOK /\ Counted
<1> SUFFICES ASSUME Init PROVE TypeOK /\ Counted
  OBVIOUS
<1>1. <<Leftover>> \in Seq(Blocks) /\ <<>> \in Seq(Blocks)
  BY LeftoverIsBlock
<1>2. file \in Seq(Blocks) /\ checksum \in Seq(Blocks) /\ digest \in Seq(Blocks)
  BY <1>1, Zenon DEF Init, NoChecksum
<1>3. stream \in [version : 1..Versions, at : Nat] /\ server \in 1..Versions
  BY VersionsAssumption DEF Init
<1>4. attempt \in 0..(MaxRetries + 1) /\ attempt <= MaxRetries
  BY RetriesAssumption DEF Init
<1> QED BY <1>2, <1>3, <1>4 DEF Init, TypeOK, WorkerStates, Counted

\* What a broken transfer may change.
LEMMA TransientTypes ==
    ASSUME TypeOK, Counted, worker # "done", Transient
    PROVE  /\ attempt' \in 0..(MaxRetries + 1)
           /\ worker' \in {"done", "backoff"}
           /\ worker' = "backoff" => attempt' <= MaxRetries
           /\ status' \in {"error", status} /\ complete' = complete
           /\ UNCHANGED <<file, count, digest, stream>>
<1>1. attempt \in Nat /\ attempt <= MaxRetries
  BY RetriesAssumption DEF TypeOK, Counted
<1>2. CASE stop
  BY <1>1, <1>2, RetriesAssumption DEF Transient, Fail
<1>3. CASE ~stop
  <2>1. attempt' = attempt + 1
    BY <1>3 DEF Transient
  <2>2. attempt' \in 0..(MaxRetries + 1)
    BY <1>1, <2>1, RetriesAssumption
  <2>3. CASE attempt + 1 > MaxRetries
    BY <1>3, <2>2, <2>3 DEF Transient, Fail
  <2>4. CASE ~(attempt + 1 > MaxRetries)
    <3>1. attempt' <= MaxRetries
      BY <1>1, <2>1, <2>4, RetriesAssumption
    <3> QED BY <1>3, <2>2, <2>4, <3>1 DEF Transient
  <2> QED BY <2>3, <2>4
<1> QED BY <1>2, <1>3

\* What an answer may change.
LEMMA AnswerTypes ==
    ASSUME TypeOK, PartialAnswer \/ FullAnswer \/ Refused
    PROVE  /\ worker' \in {"done", "stream"} /\ UNCHANGED attempt
           /\ status' \in {"error", status} /\ complete' = complete
           /\ count' \in Nat /\ digest' = digest /\ file' \in Seq(Blocks)
           /\ stream' \in [version : 1..Versions, at : Nat]
<1>1. CASE PartialAnswer
  BY <1>1 DEF PartialAnswer, TypeOK
<1>2. CASE FullAnswer
  <2>1. file' \in Seq(Blocks) /\ stream' \in [version : 1..Versions, at : Nat]
    <3>1. CASE count > 0 /\ hashing
      BY <1>2, <3>1 DEF FullAnswer, TypeOK
    <3>2. CASE ~(count > 0 /\ hashing)
      <4>1. file' = <<>> /\ stream' = [version |-> server, at |-> 0]
        BY <1>2, <3>2, Zenon DEF FullAnswer
      <4> QED BY <4>1 DEF TypeOK
    <3> QED BY <3>1, <3>2
  <2>2. worker' \in {"done", "stream"} /\ status' \in {"error", status}
        /\ complete' = complete
    BY <1>2, Zenon DEF FullAnswer, Fail
  <2> QED BY <1>2, <2>1, <2>2 DEF FullAnswer
<1>3. CASE Refused
  BY <1>3 DEF Refused, Fail, TypeOK
<1> QED BY <1>1, <1>2, <1>3

\* A stream one block further on is a stream.
LEMMA StreamAdvances ==
    ASSUME NEW s \in [version : 1..Versions, at : Nat]
    PROVE  [s EXCEPT !.at = @ + 1] \in [version : 1..Versions, at : Nat]
OBVIOUS

LEMMA TypeStep == TypeOK /\ Counted /\ [Next]_vars => TypeOK' /\ Counted'
<1> SUFFICES ASSUME TypeOK, Counted, [Next]_vars PROVE TypeOK' /\ Counted'
  OBVIOUS
<1> USE VersionsAssumption, LengthAssumption, RetriesAssumption
    DEF TypeOK, Counted, vars, object, context, WorkerStates
<1>1. CASE Start
  BY <1>1 DEF Start
<1>2. CASE Cancel
  BY <1>2 DEF Cancel
<1>3. CASE Poll
  <2>1. window' \in {"open", "failed", "silent", "handed"}
    BY <1>3, Zenon DEF Poll
  <2> QED BY <1>3, <2>1 DEF Poll
<1>4. CASE Validate
  <2>1. window' \in {"accepted", "corrupt"}
    BY <1>4, Zenon DEF Validate
  <2> QED BY <1>4, <2>1 DEF Validate
<1>5. CASE Begin
  <2>1. /\ worker' \in {"get", "done"} /\ status' \in {status, "error"}
        /\ complete' = complete /\ file' \in {file, <<>>}
    BY <1>5, Zenon DEF Begin, Fail
  <2>2. file' \in Seq(Blocks)
    <3>1. <<>> \in Seq(Blocks) /\ file \in Seq(Blocks)
      OBVIOUS
    <3> QED BY <2>1, <3>1, Zenon
  <2>3. /\ worker = "begin"
        /\ UNCHANGED <<context, server, stop, count, digest, checksum, attempt, stream,
                       late, window, cancelled>>
    BY <1>5, Zenon DEF Begin
  <2> QED BY <2>1, <2>2, <2>3
<1>6. CASE Get
  <2>1. late' \in Nat
    BY <1>6 DEF Get
  <2>2. CASE Transient
    BY <1>6, <2>1, <2>2, TransientTypes DEF Get
  <2>3. CASE PartialAnswer \/ FullAnswer \/ Refused
    BY <1>6, <2>1, <2>3, AnswerTypes, SMTT(60) DEF Get
  <2> QED BY <1>6, <2>2, <2>3 DEF Get
<1>7. CASE Wake
  BY <1>7 DEF Wake
<1>8. CASE Chunk
  <2> DEFINE block == Block(stream.version, stream.at + 1)
  <2>1. block \in Blocks
    BY DEF Block, Blocks
  <2>2. CASE Fail
    BY <1>8, <2>2 DEF Chunk, Fail
  <2>3. CASE ~Fail
    <3> HIDE DEF block
    <3>1. /\ file' = Append(file, block) /\ count' = count + 1
          /\ digest' = IF hashing THEN Append(digest, block) ELSE digest
          /\ stream' = [stream EXCEPT !.at = @ + 1]
          /\ UNCHANGED <<worker, status, complete>>
      BY <1>8, <2>3, Zenon DEF Chunk, block
    <3>2. Append(file, block) \in Seq(Blocks) /\ Append(digest, block) \in Seq(Blocks)
      BY <2>1
    <3>3. file' \in Seq(Blocks) /\ digest' \in Seq(Blocks)
      BY <3>1, <3>2, Zenon
    <3>4. count' = count + 1 /\ stream' = [stream EXCEPT !.at = @ + 1]
      BY <3>1, Zenon
    <3>5. /\ count' \in Nat
          /\ stream' \in [version : 1..Versions, at : Nat]
      <4>1. count \in Nat /\ stream \in [version : 1..Versions, at : Nat]
        BY Zenon
      <4>2. count + 1 \in Nat
        BY <4>1
      <4>3. [stream EXCEPT !.at = @ + 1] \in [version : 1..Versions, at : Nat]
        BY <4>1, StreamAdvances, Zenon
      <4> QED BY <3>4, <4>2, <4>3, Zenon
    <3>6. UNCHANGED <<worker, status, complete>>
      BY <3>1, Zenon
    <3>7. UNCHANGED <<context, server, stop, checksum, attempt, late, window, cancelled>>
      BY <1>8, Zenon DEF Chunk
    <3> QED BY <3>3, <3>5, <3>6, <3>7, SMTT(60)
  <2> QED BY <2>2, <2>3
<1>9. CASE Break
  BY <1>9, TransientTypes DEF Break
<1>10. CASE EndOfStream
  BY <1>10 DEF EndOfStream
<1>11. CASE Finish
  <2>1. <<Leftover>> \in Seq(Blocks)
    BY LeftoverIsBlock
  <2>2. checksum' \in Seq(Blocks)
    BY <1>11, <2>1, Zenon DEF Finish, NoChecksum
  <2> QED BY <1>11, <2>2 DEF Finish
<1>12. CASE Publish
  BY <1>12 DEF Publish
<1>13. CASE Republish
  BY <1>13 DEF Republish
<1>14. CASE UNCHANGED vars
  BY <1>14
<1> QED BY <1>1, <1>2, <1>3, <1>4, <1>5, <1>6, <1>7, <1>8, <1>9, <1>10, <1>11, <1>12,
           <1>13, <1>14 DEF Next, Worker, Window, Over

-----------------------------------------------------------------------------
(* The invariant                                                           *)

LEMMA InvInit == Init => IInv
BY DEF Init, IInv, Resumable, Whole, Reported, Heard, Shown, WindowIsRight, StopIsHeard,
       Active

\* A chunk is written and hashed, or the download fails.
ChunkWritten ==
    /\ ~stop /\ stream.at < Length[stream.version]
    /\ file' = Append(file, Block(stream.version, stream.at + 1)) /\ count' = count + 1
    /\ stream' = [stream EXCEPT !.at = @ + 1]
    /\ hashing => digest' = Append(digest, Block(stream.version, stream.at + 1))
    /\ UNCHANGED <<worker, status, complete>>

LEMMA ChunkEffect ==
    Chunk => /\ worker = "stream" /\ UNCHANGED <<stop, complete, server, hashing>>
             /\ ChunkWritten \/ worker' = "done"
             /\ UNCHANGED <<worker, status>> \/ (worker' = "done" /\ status' = "error")
BY Zenon DEF Chunk, ChunkWritten, Fail, context

LEMMA NextBlock == TypeOK => Block(stream.version, stream.at + 1) \in Blocks
BY DEF TypeOK, Block, Blocks

LEMMA NextVersion == TypeOK /\ Chunk => stream'.version = stream.version
BY DEF TypeOK, Chunk

\* The next block of an answer goes after the blocks already there.
LEMMA AppendInOrder ==
    ASSUME NEW f \in Seq(Blocks), NEW b \in Blocks, InOrder(f), b[2] = Len(f) + 1,
           b[1] \in 1..server
    PROVE  InOrder(Append(f, b)) /\ Len(Append(f, b)) = Len(f) + 1
<1>1. Len(Append(f, b)) = Len(f) + 1 /\ Append(f, b)[Len(f) + 1] = b
  OBVIOUS
<1>2. \A i \in 1..Len(f) : Append(f, b)[i] = f[i]
  OBVIOUS
<1> SUFFICES ASSUME NEW i \in 1..(Len(f) + 1)
             PROVE  Append(f, b)[i][2] = i /\ Append(f, b)[i][1] \in 1..server
  BY <1>1 DEF InOrder
<1>3. CASE i = Len(f) + 1
  BY <1>1, <1>3
<1>4. CASE i # Len(f) + 1
  <2>1. i \in 1..Len(f)
    BY <1>4
  <2> QED BY <2>1, <1>2 DEF InOrder
<1> QED BY <1>3, <1>4

LEMMA InvStep == TypeOK /\ Counted /\ IInv /\ [Next]_vars => IInv'
<1> SUFFICES ASSUME TypeOK, Counted, IInv, [Next]_vars PROVE IInv'
  OBVIOUS
<1>0. TypeOK'
  BY TypeStep
<1>i. Resumable /\ Whole /\ Reported /\ Heard /\ Shown /\ WindowIsRight /\ StopIsHeard
  BY DEF IInv
<1> USE <1>0, <1>i, LengthAssumption DEF vars, object, context, TypeOK, WorkerStates, Fail,
    Transient
<1>1. CASE Start
  <2>1. Resumable'
    BY <1>1 DEF Start, Resumable, Reported, Active, InOrder
  <2>2. Whole'
    BY <1>1 DEF Start, Whole, Resumable, Reported, Active, InOrder
  <2>3. Reported'
    BY <1>1 DEF Start, Reported, Active
  <2>4. Heard'
    BY <1>1 DEF Start, Heard, Reported, Active
  <2>5. Shown'
    BY <1>1 DEF Start, Shown, Reported, Whole, WindowIsRight
  <2>6. WindowIsRight'
    BY <1>1 DEF Start, WindowIsRight, Reported, Shown, Active
  <2>7. StopIsHeard'
    BY <1>1 DEF Start, StopIsHeard, Heard
  <2> QED BY <2>1, <2>2, <2>3, <2>4, <2>5, <2>6, <2>7 DEF IInv
<1>2. CASE Cancel
  <2>1. Resumable'
    BY <1>2 DEF Cancel, Resumable, Active, InOrder
  <2>2. Whole'
    BY <1>2 DEF Cancel, Whole, Resumable, Reported, Active, InOrder
  <2>3. Reported'
    BY <1>2 DEF Cancel, Reported, Shown, Active
  <2>4. Heard'
    BY <1>2 DEF Cancel, Heard, Reported, Active
  <2>5. Shown'
    BY <1>2 DEF Cancel, Shown, Reported, Whole, WindowIsRight
  <2>6. WindowIsRight'
    BY <1>2 DEF Cancel, WindowIsRight, Reported, Shown, Active
  <2>7. StopIsHeard'
    BY <1>2 DEF Cancel, StopIsHeard, Heard
  <2> QED BY <2>1, <2>2, <2>3, <2>4, <2>5, <2>6, <2>7 DEF IInv
<1>3. CASE Poll
  <2>1. Resumable'
    BY <1>3 DEF Poll, Resumable, Active, InOrder
  <2>2. Whole'
    BY <1>3 DEF Poll, Whole, Resumable, Reported, Active, InOrder
  <2>3. Reported'
    BY <1>3 DEF Poll, Reported, Active
  <2>4. Heard'
    BY <1>3 DEF Poll, Heard, Reported, Active
  <2>5. Shown'
    BY <1>3 DEF Poll, Shown, Reported, Active
  <2>6. WindowIsRight'
    BY <1>3 DEF Poll, WindowIsRight, Reported, Shown, Active
  <2>7. StopIsHeard'
    BY <1>3 DEF Poll, StopIsHeard, Heard
  <2> QED BY <2>1, <2>2, <2>3, <2>4, <2>5, <2>6, <2>7 DEF IInv
<1>4. CASE Validate
  <2>1. Resumable'
    BY <1>4 DEF Validate, Resumable, Active, InOrder
  <2>2. Whole'
    BY <1>4 DEF Validate, Whole, Resumable, Reported, Active, InOrder
  <2>3. Reported'
    BY <1>4 DEF Validate, Reported, Active
  <2>4. Heard'
    BY <1>4 DEF Validate, Heard, Reported, Active
  <2>5. Shown'
    BY <1>4 DEF Validate, Shown, Reported, Whole, WindowIsRight
  <2>6. WindowIsRight'
    BY <1>4 DEF Validate, WindowIsRight, Reported, Shown, Active
  <2>7. StopIsHeard'
    BY <1>4 DEF Validate, StopIsHeard, Heard
  <2> QED BY <2>1, <2>2, <2>3, <2>4, <2>5, <2>6, <2>7 DEF IInv
<1>5. CASE Begin
  <2>1. Resumable'
    BY <1>5 DEF Begin, Resumable, Active, InOrder
  <2>2. Whole'
    BY <1>5 DEF Begin, Whole, Resumable, Reported, Active, InOrder
  <2>3. Reported'
    BY <1>5 DEF Begin, Reported, Active
  <2>4. Heard'
    BY <1>5 DEF Begin, Heard, Reported, Active
  <2>5. Shown'
    BY <1>5 DEF Begin, Shown, Reported, Whole, WindowIsRight
  <2>6. WindowIsRight'
    BY <1>5 DEF Begin, WindowIsRight, Reported, Shown, Active
  <2>7. StopIsHeard'
    BY <1>5 DEF Begin, StopIsHeard, Heard
  <2> QED BY <2>1, <2>2, <2>3, <2>4, <2>5, <2>6, <2>7 DEF IInv
<1>6. CASE Get
  <2>1. Resumable'
    <3>0. worker = "get" /\ UNCHANGED <<server, hashing>>
      BY <1>6, Zenon DEF Get, context
    <3>1. CASE PartialAnswer
      <4>1. /\ stream'.version = server /\ stream'.at = count /\ worker' = "stream"
            /\ count < Length[server] /\ UNCHANGED <<count, digest, file>>
        BY <3>1 DEF PartialAnswer
      <4>2. count = Len(file) /\ InOrder(file) /\ (hashing => digest = file)
        BY <3>0 DEF Resumable, Active
      <4> QED BY <3>0, <4>1, <4>2 DEF Resumable, InOrder
    <3>2. CASE FullAnswer
      BY <3>0, <3>2, SMTT(60) DEF FullAnswer, Resumable, Active, InOrder
    <3>3. CASE Refused \/ Transient
      BY <3>0, <3>3 DEF Refused, Resumable, Active, InOrder
    <3> QED BY <1>6, <3>1, <3>2, <3>3 DEF Get
  <2>2. Whole'
    BY <1>6 DEF Get, PartialAnswer, FullAnswer, Refused, Whole, Resumable, Reported, Active, InOrder
  <2>3. Reported'
    BY <1>6 DEF Get, PartialAnswer, FullAnswer, Refused, Reported, Active
  <2>4. Heard'
    BY <1>6, SMTT(60) DEF Get, PartialAnswer, FullAnswer, Refused, Heard, Reported, Active
  <2>5. Shown'
    BY <1>6 DEF Get, PartialAnswer, FullAnswer, Refused, Shown, Reported, Whole, WindowIsRight
  <2>6. WindowIsRight'
    BY <1>6 DEF Get, PartialAnswer, FullAnswer, Refused, WindowIsRight, Reported, Shown, Active
  <2>7. StopIsHeard'
    BY <1>6 DEF Get, PartialAnswer, FullAnswer, Refused, StopIsHeard, Heard
  <2> QED BY <2>1, <2>2, <2>3, <2>4, <2>5, <2>6, <2>7 DEF IInv
<1>7. CASE Wake
  <2>1. Resumable'
    BY <1>7 DEF Wake, Resumable, Active, InOrder
  <2>2. Whole'
    BY <1>7 DEF Wake, Whole, Resumable, Reported, Active, InOrder
  <2>3. Reported'
    BY <1>7 DEF Wake, Reported, Active
  <2>4. Heard'
    BY <1>7 DEF Wake, Heard, Reported, Active
  <2>5. Shown'
    BY <1>7 DEF Wake, Shown, Reported, Whole, WindowIsRight
  <2>6. WindowIsRight'
    BY <1>7 DEF Wake, WindowIsRight, Reported, Shown, Active
  <2>7. StopIsHeard'
    BY <1>7 DEF Wake, StopIsHeard, Heard
  <2> QED BY <2>1, <2>2, <2>3, <2>4, <2>5, <2>6, <2>7 DEF IInv
<1>8. CASE Chunk
  <2>1. Resumable'
    <3> DEFINE block == Block(stream.version, stream.at + 1)
    <3>0. worker = "stream" /\ UNCHANGED <<server, hashing>>
      BY <1>8, ChunkEffect, Zenon
    <3>1. CASE ChunkWritten
      <4>1. /\ file' = Append(file, block) /\ count' = count + 1 /\ worker' = worker
            /\ stream' = [stream EXCEPT !.at = @ + 1] /\ stream.at < Length[stream.version]
        BY <3>1, Zenon DEF ChunkWritten
      <4>2. hashing => digest' = Append(digest, block)
        BY <3>1, Zenon DEF ChunkWritten
      <4>3. /\ count = Len(file) /\ stream.at = count /\ InOrder(file)
            /\ stream.version <= server
        BY <3>0 DEF Resumable, Active
      <4>4. block[2] = Len(file) + 1 /\ block[1] \in 1..server
        BY <4>3 DEF Block
      <4>5. block \in Blocks
        BY NextBlock
      <4> HIDE DEF block
      <4>6. InOrder(Append(file, block)) /\ Len(file') = Len(file) + 1
        BY <4>1, <4>3, <4>4, <4>5, AppendInOrder
      <4>7. InOrder(file)'
        BY <3>0, <4>1, <4>6, Zenon DEF InOrder
      <4>8. hashing' => digest' = file'
        BY <3>0, <4>1, <4>2 DEF Resumable, Active
      <4>9. count' = Len(file') /\ stream'.at = count' /\ count' <= Length[stream'.version]
            /\ stream'.version <= server' /\ worker' = "stream"
        BY <3>0, <4>1, <4>3, <4>6, SMTT(60)
      <4> QED BY <4>7, <4>8, <4>9 DEF Resumable
    <3>2. CASE worker' = "done"
      <4>1. stream'.version = stream.version
        BY <1>8, NextVersion
      <4> QED BY <3>0, <3>2, <4>1 DEF Resumable, Active
    <3> QED BY <1>8, <3>1, <3>2, ChunkEffect, Zenon
  <2>2. Whole'
    BY <1>8 DEF Chunk, Whole, Resumable, Reported, Active, InOrder
  <2>3. Reported'
    <3>1. ~complete /\ worker = "stream" /\ status = "downloading"
      BY <1>8, ChunkEffect DEF Reported, Active
    <3>2. /\ UNCHANGED <<stop, complete>>
          /\ UNCHANGED <<worker, status>> \/ (worker' = "done" /\ status' = "error")
      BY <1>8, ChunkEffect, Zenon
    <3> QED BY <3>1, <3>2 DEF Reported, Active
  <2>4. Heard'
    BY <1>8 DEF Chunk, Heard, Reported, Active
  <2>5. Shown'
    BY <1>8 DEF Chunk, Shown, Reported, Whole, WindowIsRight
  <2>6. WindowIsRight'
    BY <1>8 DEF Chunk, WindowIsRight, Reported, Shown, Active
  <2>7. StopIsHeard'
    BY <1>8 DEF Chunk, StopIsHeard, Heard
  <2> QED BY <2>1, <2>2, <2>3, <2>4, <2>5, <2>6, <2>7 DEF IInv
<1>9. CASE Break
  <2>1. Resumable'
    BY <1>9 DEF Break, Resumable, Active, InOrder
  <2>2. Whole'
    BY <1>9 DEF Break, Whole, Resumable, Reported, Active, InOrder
  <2>3. Reported'
    BY <1>9 DEF Break, Reported, Active
  <2>4. Heard'
    BY <1>9 DEF Break, Heard, Reported, Active
  <2>5. Shown'
    BY <1>9 DEF Break, Shown, Reported, Whole, WindowIsRight
  <2>6. WindowIsRight'
    BY <1>9 DEF Break, WindowIsRight, Reported, Shown, Active
  <2>7. StopIsHeard'
    BY <1>9 DEF Break, StopIsHeard, Heard
  <2> QED BY <2>1, <2>2, <2>3, <2>4, <2>5, <2>6, <2>7 DEF IInv
<1>10. CASE EndOfStream
  <2>1. Resumable'
    BY <1>10 DEF EndOfStream, Resumable, Active, InOrder
  <2>2. Whole'
    BY <1>10 DEF EndOfStream, Whole, Resumable, Reported, Active, InOrder
  <2>3. Reported'
    BY <1>10 DEF EndOfStream, Reported, Active
  <2>4. Heard'
    BY <1>10 DEF EndOfStream, Heard, Reported, Active
  <2>5. Shown'
    BY <1>10 DEF EndOfStream, Shown, Reported, Whole, WindowIsRight
  <2>6. WindowIsRight'
    BY <1>10 DEF EndOfStream, WindowIsRight, Reported, Shown, Active
  <2>7. StopIsHeard'
    BY <1>10 DEF EndOfStream, StopIsHeard, Heard
  <2> QED BY <2>1, <2>2, <2>3, <2>4, <2>5, <2>6, <2>7 DEF IInv
<1>11. CASE Finish
  <2>1. Resumable'
    BY <1>11 DEF Finish, Resumable, Active, InOrder
  <2>2. Whole'
    BY <1>11 DEF Finish, Whole, Resumable, Reported, Active, InOrder
  <2>3. Reported'
    BY <1>11 DEF Finish, Reported, Active
  <2>4. Heard'
    BY <1>11 DEF Finish, Heard, Reported, Active
  <2>5. Shown'
    BY <1>11 DEF Finish, Shown, Reported, Whole, WindowIsRight
  <2>6. WindowIsRight'
    BY <1>11 DEF Finish, WindowIsRight, Reported, Shown, Active
  <2>7. StopIsHeard'
    BY <1>11 DEF Finish, StopIsHeard, Heard
  <2> QED BY <2>1, <2>2, <2>3, <2>4, <2>5, <2>6, <2>7 DEF IInv
<1>12. CASE Publish
  <2>1. Resumable'
    BY <1>12 DEF Publish, Resumable, Active, InOrder
  <2>2. Whole'
    BY <1>12 DEF Publish, Whole, Resumable, Reported, Active, InOrder
  <2>3. Reported'
    BY <1>12 DEF Publish, Reported, Active
  <2>4. Heard'
    BY <1>12 DEF Publish, Heard, Reported, Active
  <2>5. Shown'
    BY <1>12 DEF Publish, Shown, Reported, Whole, WindowIsRight
  <2>6. WindowIsRight'
    BY <1>12 DEF Publish, WindowIsRight, Reported, Shown, Active
  <2>7. StopIsHeard'
    BY <1>12 DEF Publish, StopIsHeard, Heard
  <2> QED BY <2>1, <2>2, <2>3, <2>4, <2>5, <2>6, <2>7 DEF IInv
<1>13. CASE Republish
  <2>1. Resumable'
    BY <1>13, SMTT(60) DEF Republish, Resumable, Active, InOrder
  <2>2. Whole'
    BY <1>13 DEF Republish, Whole, Resumable, Reported, Active, InOrder
  <2>3. Reported'
    BY <1>13 DEF Republish, Reported, Active
  <2>4. Heard'
    BY <1>13 DEF Republish, Heard, Reported, Active
  <2>5. Shown'
    BY <1>13 DEF Republish, Shown, Reported, Whole, WindowIsRight
  <2>6. WindowIsRight'
    BY <1>13 DEF Republish, WindowIsRight, Reported, Shown, Active
  <2>7. StopIsHeard'
    BY <1>13 DEF Republish, StopIsHeard, Heard
  <2> QED BY <2>1, <2>2, <2>3, <2>4, <2>5, <2>6, <2>7 DEF IInv
<1>14. CASE UNCHANGED vars
  <2>1. Resumable'
    BY <1>14 DEF Resumable, Active, InOrder
  <2>2. Whole'
    BY <1>14 DEF Whole, Resumable, Reported, Active, InOrder
  <2>3. Reported'
    BY <1>14 DEF Reported, Active
  <2>4. Heard'
    BY <1>14 DEF Heard, Reported, Active
  <2>5. Shown'
    BY <1>14 DEF Shown, Reported, Whole, WindowIsRight
  <2>6. WindowIsRight'
    BY <1>14 DEF WindowIsRight, Reported, Shown, Active
  <2>7. StopIsHeard'
    BY <1>14 DEF StopIsHeard, Heard
  <2> QED BY <2>1, <2>2, <2>3, <2>4, <2>5, <2>6, <2>7 DEF IInv
<1> QED BY <1>1, <1>2, <1>3, <1>4, <1>5, <1>6, <1>7, <1>8, <1>9, <1>10, <1>11, <1>12, <1>13, <1>14 DEF Next, Worker, Window, Over

-----------------------------------------------------------------------------
(* Theorems                                                                *)

Inv == TypeOK /\ Counted /\ IInv

LEMMA Invariant == Spec => []Inv
<1>1. Init => Inv
  BY TypeInit, InvInit DEF Inv
<1>2. Inv /\ [Next]_vars => Inv'
  BY TypeStep, InvStep DEF Inv
<1> QED BY <1>1, <1>2, PTL DEF Spec

\* Every variable keeps its type, and the attempts their bound.
THEOREM DownloadTypes == Spec => []TypeOK
<1>1. Inv => TypeOK
  BY DEF Inv
<1> QED BY <1>1, Invariant, PTL

\* Blocks in order that no other version than the first can have written are
\* the first version's file.
LEMMA InOrderIsContent ==
    ASSUME TypeOK, server = 1, InOrder(file), Len(file) = Length[1]
    PROVE  file = Content(1)
<1>1. \A i \in 1..Len(file) : file[i] = Block(1, i)
  BY SMTT(60) DEF TypeOK, InOrder, Blocks, Block
<1>2. file = [i \in 1..Len(file) |-> file[i]]
  BY DEF TypeOK
<1> QED BY <1>1, <1>2 DEF Content

\* A download reported complete left the whole file, of any number of blocks,
\* after any mixture of broken, resumed and restarted transfers.
THEOREM CompleteDownloadIsWhole == Spec => []CompleteIsWhole
<1>1. Inv => CompleteIsWhole
  <2> SUFFICES ASSUME Inv, complete
               PROVE  /\ Len(file) = Length[stream.version]
                      /\ \A i \in 1..Len(file) : file[i][2] = i
                      /\ server = 1 => file = Content(1)
    BY DEF CompleteIsWhole
  <2>1. Len(file) = Length[stream.version] /\ InOrder(file)
    BY DEF Inv, IInv, Whole
  <2>2. ASSUME server = 1 PROVE file = Content(1)
    <3>1. TypeOK /\ stream.version = 1
      BY <2>2 DEF Inv, IInv, Resumable, TypeOK
    <3> QED BY <2>1, <2>2, <3>1, InOrderIsContent
  <2> QED BY <2>1, <2>2 DEF InOrder
<1> QED BY <1>1, Invariant, PTL

\* What a caller that compares checksums accepts is the file its catalog
\* describes, however often the server replaced it.
THEOREM AcceptedDownloadIsExpected == Spec => []AcceptedIsExpected
<1>1. Inv => AcceptedIsExpected
  BY DEF Inv, IInv, AcceptedIsExpected, WindowIsRight, Whole, Reported, Shown
<1> QED BY <1>1, Invariant, PTL

\* The window shows a failure for none but a failed download, and hands over
\* none but a complete one.
THEOREM WindowReportsRight == Spec => []WindowIsRight
<1>1. Inv => WindowIsRight
  BY DEF Inv, IInv
<1> QED BY <1>1, Invariant, PTL

\* A stopped download sends at most one more request.
THEOREM StoppedDownloadIsHeard == Spec => []StopIsHeard
<1>1. Inv => StopIsHeard
  BY DEF Inv, IInv
<1> QED BY <1>1, Invariant, PTL

-----------------------------------------------------------------------------
(* Termination: every step of the worker leads on                          *)

\* The order of the worker's places within one attempt.
Order(place) ==
    CASE place = "idle"    -> 0
      [] place = "begin"   -> 1
      [] place = "backoff" -> 2
      [] place = "get"     -> 3
      [] place = "stream"  -> 4
      [] place = "finish"  -> 5
      [] place = "publish" -> 6
      [] place = "done"    -> 7

\* One of the attempts is used up, or within it a later place is reached or the
\* next block of the answer.
Onward ==
    \/ attempt < attempt' /\ attempt' <= MaxRetries + 1
    \/ /\ attempt' = attempt
       /\ \/ Order(worker) < Order(worker')
          \/ /\ worker = "stream" /\ worker' = "stream"
             /\ stream'.version = stream.version
             /\ stream.at < stream'.at /\ stream'.at <= Length[stream.version]

\* Whatever the server answers, whenever the connection breaks and wherever the
\* window cancels: each step of the worker leads on, and there are as many
\* attempts and blocks as MaxRetries and the length allow.
THEOREM WorkerGoesOn == Spec => [][Worker => Onward]_vars
<1>1. TypeOK /\ Counted /\ [Next]_vars => [Worker => Onward]_vars
  <2> SUFFICES ASSUME TypeOK, Counted, Worker PROVE Onward
    OBVIOUS
  <2> USE DEF Order, Onward, Fail
  <2>t. ASSUME Transient, worker \in {"get", "stream"} PROVE Onward
    BY <2>t, RetriesAssumption, SMTT(60) DEF Transient, TypeOK, Counted
  <2>1. CASE Begin       BY <2>1 DEF Begin
  <2>2. CASE Get
    <3>1. CASE PartialAnswer BY <2>2, <3>1 DEF Get, PartialAnswer
    <3>2. CASE FullAnswer    BY <2>2, <3>2 DEF Get, FullAnswer
    <3>3. CASE Refused       BY <2>2, <3>3 DEF Get, Refused
    <3>4. CASE Transient     BY <2>2, <3>4, <2>t DEF Get
    <3> QED BY <2>2, <3>1, <3>2, <3>3, <3>4 DEF Get
  <2>3. CASE Wake        BY <2>3 DEF Wake
  <2>4. CASE Chunk
    <3>1. CASE worker' = "done" BY <2>4, <3>1 DEF Chunk
    <3>2. CASE worker' # "done"
      <4>1. stream'.at = stream.at + 1 /\ worker' = "stream"
        BY <2>4, <3>2 DEF Chunk, TypeOK
      <4>2. Length[stream.version] \in Nat /\ stream.at \in Nat
        BY LengthAssumption DEF TypeOK
      <4> QED BY <2>4, <4>1, <4>2, NextVersion DEF Chunk
    <3> QED BY <3>1, <3>2
  <2>5. CASE Break       BY <2>5, <2>t DEF Break
  <2>6. CASE EndOfStream BY <2>6 DEF EndOfStream
  <2>7. CASE Finish      BY <2>7 DEF Finish
  <2>8. CASE Publish     BY <2>8 DEF Publish
  <2> QED BY <2>1, <2>2, <2>3, <2>4, <2>5, <2>6, <2>7, <2>8 DEF Worker
<1>2. Inv => TypeOK /\ Counted
  BY DEF Inv
<1> QED BY <1>1, <1>2, Invariant, PTL DEF Spec

=============================================================================
