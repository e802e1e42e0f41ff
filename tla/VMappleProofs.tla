---------------------------- MODULE VMappleProofs ----------------------------
(***************************************************************************)
(* Proofs about the VMApple runner, for any requests, any releases on the  *)
(* guest's disk and any number of resets of the guest.                     *)
(***************************************************************************)
EXTENDS VMapple, SequenceTheorems, TLAPS

-----------------------------------------------------------------------------
(* What is known at each place of run().                                   *)

Direct   == {"observe", "verdict", "watch", "term-wait", "kill-wait", "collect"}
Personal == {"iBEC-identity", "iBEC-ticket", "policy-ticket"}
Early    == {"storage", "spawn", "socket", "gate", "iBSS-identity", "iBSS-ticket", "dfu"}
Recovery == {"iBSS-identity", "iBSS-ticket", "dfu", "probe", "iBEC", "marker", "prepare",
             "restore", "loop", "final", "raised"} \union Personal

\* Where the plan may still be followed: no answer but an extra command's was lost.
Sending == Early \union Personal \union {"probe", "iBEC", "marker", "prepare", "restore"}

\* How far the plan is at each place.
Place ==
    /\ pc \in Early \union Direct => next = 1
    /\ pc = "probe" => next = 2
    /\ pc \in Personal => config.live /\ next = 2
    /\ pc = "iBEC" => next = 2 \/ (config.live /\ next \in 3..5)
    /\ pc = "marker" => config.live /\ next = 6
    /\ pc = "prepare" => config.live /\ config.chain /\ next = 6
    /\ pc = "restore" => config.live /\ config.chain /\ next \in 6..Len(Plan(config))

\* What the guest received, against the plan and the report.
Sent ==
    /\ Acked \subseteq Received
    /\ \A i, j \in DOMAIN report.acked : i < j => report.acked[i] < report.acked[j]
    /\ \A k \in Acked : k < next
    /\ \A i, j \in DOMAIN got : i < j => got[i] < got[j]
    /\ \A k \in Received : k <= next
    /\ \A k \in Required : k < next => k \in Received
    /\ \A k \in Received : k < next /\ Plan(config)[k] # "extra" => k \in Acked
    /\ pc \in Sending => \A k \in Received : k < next

Said ==
    /\ report.executed => config.live /\ next >= 6
    /\ report.chain \in {"sent", "post-bootx-panic"} => next = Len(Plan(config)) + 1

\* A signal has its reason, and the transport is closed.
Signals ==
    /\ signalled => report.termination # "none"
    /\ pc = "collect" => qemu = "exited"
    /\ pc = "final" => report.termination # "none" \/ qemu = "exited"
    /\ held => pc \in {"loop", "final", "except"}
    /\ report.termination = "guest_exit" => pc \in Ended /\ qemu = "exited" /\ ~signalled
    /\ pc \in Ended /\ qemu = "running" => report.cleanup = "incomplete"

\* What the log of a direct boot says of the guest.
Log ==
    /\ pc \in {"storage", "spawn"} => qemu = "none" /\ report.seen = <<>>
    /\ qemu = "none" => uart = <<>>
    /\ config.boot = "macos" =>
          /\ pc \notin Recovery
          /\ stage \in {"off", "avp", "kernel", "user", "panicked"}
          /\ nonce = 0 =>
                /\ Has("xnu") => stage \in {"kernel", "user"}
                /\ Before(uart, "xnu", "userspace") => stage = "user"
                /\ Before(report.seen, "xnu", "userspace") => stage = "user"

Verdict ==
    /\ pc \in Direct \/ report.verified => config.boot = "macos"
    /\ report.gated => pc \in Ended
    /\ report.gated /\ report.verified =>
          /\ qemu = "exited" /\ report.integrity = "same"
          /\ nonce = 0 => stage = "user"

IInv == TypeOK /\ Place /\ Sent /\ Said /\ Signals /\ Log /\ Verdict

-----------------------------------------------------------------------------
(* The plan                                                                *)

Names == {"iBSS", "policy", "lpolrestore", "iBEC", "go", "RestoreLogo", "setpicture", "bgcolor",
          "RestoreTrustCache", "firmware", "RestoreRamDisk", "ramdisk", "RestoreDeviceTree",
          "devicetree", "RestoreKernelCache", "notify", "extra", "setenv", "bootx"}

\* The pieces of a plan are sequences of names.
LEMMA Pieces ==
    /\ <<"iBSS">> \in Seq(Names) /\ <<"iBEC">> \in Seq(Names)
    /\ Uploads \in Seq(Names) /\ Logo \in Seq(Names) /\ Chain \in Seq(Names)
    /\ <<>> \in Seq(Names)
<1>1. /\ <<"iBSS">> \in [1..1 -> Names] /\ <<"iBEC">> \in [1..1 -> Names]
      /\ Uploads \in [1..4 -> Names] /\ Logo \in [1..3 -> Names]
      /\ Chain \in [1..11 -> Names]
  BY DEF Uploads, Logo, Chain, Names
<1>2. \A n \in Nat : \A s \in [1..n -> Names] : s \in Seq(Names)
  BY SeqDef
<1>3. <<>> \in Seq(Names)
  BY EmptySeq
<1> HIDE DEF Names
<1> QED BY <1>1, <1>2, <1>3

\* A concatenation, position by position.
LEMMA Concatenation ==
    ASSUME NEW s \in Seq(Names), NEW t \in Seq(Names), NEW r, r = s \o t
    PROVE  /\ r \in Seq(Names) /\ Len(r) = Len(s) + Len(t)
           /\ \A k \in 1..Len(s) : r[k] = s[k]
           /\ \A k \in 1..Len(t) : r[Len(s) + k] = t[k]
OBVIOUS

\* What the proofs need to know of a plan.
LEMMA PlanShape ==
    ASSUME NEW c \in Requests
    PROVE  /\ Plan(c) \in Seq(Names)
           /\ Len(Plan(c)) >= IF c.live THEN 5 ELSE 2
           /\ Plan(c)[1] = "iBSS"
           /\ ~c.live => Plan(c)[2] = "iBEC"
           /\ c.live => /\ Plan(c)[2] = "policy" /\ Plan(c)[3] = "lpolrestore"
                        /\ Plan(c)[4] = "iBEC" /\ Plan(c)[5] = "go"
           /\ c.live /\ c.chain =>
                 /\ Len(Plan(c)) >= 6 /\ Plan(c)[Len(Plan(c))] = "bootx"
                 /\ \A k \in 6..Len(Plan(c)) - 1 : Plan(c)[k] # "bootx"
<1> DEFINE first == <<"iBSS">> \o IBECSteps(c)
           rest  == IF c.chain THEN ChainSteps(c) ELSE <<>>
<1>0. IBECSteps(c) \in Seq(Names)
  BY Pieces, Zenon DEF IBECSteps
<1>1. /\ Len(IBECSteps(c)) = IF c.live THEN 4 ELSE 1
      /\ ~c.live => IBECSteps(c)[1] = "iBEC"
      /\ c.live => /\ IBECSteps(c)[1] = "policy" /\ IBECSteps(c)[2] = "lpolrestore"
                   /\ IBECSteps(c)[3] = "iBEC" /\ IBECSteps(c)[4] = "go"
  BY DEF IBECSteps, Uploads
<1>2a. Len(<<"iBSS">>) = 1 /\ <<"iBSS">>[1] = "iBSS"
  OBVIOUS
<1>2. /\ first \in Seq(Names) /\ Len(first) = Len(IBECSteps(c)) + 1
      /\ first[1] = "iBSS"
      /\ \A k \in 1..Len(IBECSteps(c)) : first[k + 1] = IBECSteps(c)[k]
  <2>1. Len(IBECSteps(c)) \in Nat /\ 1 \in 1..1
    BY <1>0
  <2>2. /\ first \in Seq(Names) /\ Len(first) = 1 + Len(IBECSteps(c))
        /\ \A k \in 1..1 : first[k] = <<"iBSS">>[k]
        /\ \A k \in 1..Len(IBECSteps(c)) : first[1 + k] = IBECSteps(c)[k]
    BY <1>0, <1>2a, Pieces, Concatenation
  <2> QED BY <1>2a, <2>1, <2>2
<1>3. /\ Len(Chain) = 11 /\ Chain[11] = "bootx"
      /\ \A k \in 1..10 : Chain[k] # "bootx"
  BY DEF Chain
<1>4. /\ Len(Logo) = 3 /\ \A k \in 1..3 : Logo[k] # "bootx"
  BY DEF Logo
<1>5. /\ ChainSteps(c) \in Seq(Names) /\ Len(ChainSteps(c)) >= 11
      /\ ChainSteps(c)[Len(ChainSteps(c))] = "bootx"
      /\ \A k \in 1..Len(ChainSteps(c)) - 1 : ChainSteps(c)[k] # "bootx"
  <2>1. CASE c.logo
    <3>1. ChainSteps(c) = Logo \o Chain
      BY <2>1 DEF ChainSteps
    <3>2. /\ ChainSteps(c) \in Seq(Names)
          /\ Len(ChainSteps(c)) = Len(Logo) + Len(Chain)
          /\ \A k \in 1..Len(Logo) : ChainSteps(c)[k] = Logo[k]
          /\ \A k \in 1..Len(Chain) : ChainSteps(c)[Len(Logo) + k] = Chain[k]
      BY <3>1, Pieces, Concatenation
    <3>3. /\ ChainSteps(c) \in Seq(Names) /\ Len(ChainSteps(c)) = 14
          /\ \A k \in 1..3 : ChainSteps(c)[k] = Logo[k]
          /\ \A k \in 1..11 : ChainSteps(c)[3 + k] = Chain[k]
      BY <1>3, <1>4, <3>2
    <3>4. \A k \in 1..13 : k \in 1..3 \/ (k - 3 \in 1..10 /\ k = 3 + (k - 3))
      OBVIOUS
    <3>5. \A k \in 1..13 : ChainSteps(c)[k] # "bootx"
      BY <1>3, <1>4, <3>3, <3>4
    <3>6. ChainSteps(c)[3 + 11] = "bootx"
      BY <1>3, <3>3
    <3> QED BY <3>3, <3>5, <3>6
  <2>2. CASE ~c.logo
    <3>1. ChainSteps(c) = Chain
      BY <2>2, Pieces, ConcatEmptySeq DEF ChainSteps
    <3>2. /\ Chain \in Seq(Names) /\ Len(Chain) >= 11 /\ Chain[Len(Chain)] = "bootx"
          /\ \A k \in 1..Len(Chain) - 1 : Chain[k] # "bootx"
      BY <1>3, Pieces
    <3> QED BY <3>1, <3>2, Zenon
  <2> QED BY <2>1, <2>2
<1>6. /\ rest \in Seq(Names)
      /\ c.chain => /\ Len(rest) >= 11 /\ rest[Len(rest)] = "bootx"
                    /\ \A k \in 1..Len(rest) - 1 : rest[k] # "bootx"
  BY <1>5, Pieces
<1>6a. Plan(c) = first \o rest
  BY <1>0, <1>6, ConcatAssociative, Pieces DEF Plan
<1>6b. first \in Seq(Names) /\ rest \in Seq(Names)
  BY <1>2, <1>6
<1> HIDE DEF first, rest
<1>7. /\ Plan(c) \in Seq(Names) /\ Len(Plan(c)) = Len(first) + Len(rest)
      /\ \A k \in 1..Len(first) : Plan(c)[k] = first[k]
      /\ \A k \in 1..Len(rest) : Plan(c)[Len(first) + k] = rest[k]
  BY <1>6a, <1>6b, Concatenation
<1>8. Len(first) = IF c.live THEN 5 ELSE 2
  BY <1>1, <1>2
<1>9. /\ ~c.live => Plan(c)[2] = "iBEC"
      /\ c.live => /\ Plan(c)[2] = "policy" /\ Plan(c)[3] = "lpolrestore"
                   /\ Plan(c)[4] = "iBEC" /\ Plan(c)[5] = "go"
  BY <1>1, <1>2, <1>7, <1>8
<1>10. ASSUME c.live, c.chain
       PROVE  /\ Len(Plan(c)) >= 6 /\ Plan(c)[Len(Plan(c))] = "bootx"
              /\ \A k \in 6..Len(Plan(c)) - 1 : Plan(c)[k] # "bootx"
  <2>1. Len(first) = 5 /\ Len(rest) \in Nat /\ Len(rest) >= 11
    BY <1>6, <1>8, <1>10
  <2>2. ASSUME NEW k \in 6..Len(Plan(c)) - 1 PROVE Plan(c)[k] # "bootx"
    <3>1. k - 5 \in 1..Len(rest) - 1 /\ k - 5 \in 1..Len(rest) /\ k = 5 + (k - 5)
      BY <1>7, <2>1, <2>2
    <3>2. Plan(c)[k] = rest[k - 5]
      BY <1>7, <2>1, <3>1
    <3> QED BY <1>6, <1>10, <3>1, <3>2
  <2> QED BY <1>6, <1>7, <1>10, <2>1, <2>2
<1> QED BY <1>2, <1>6, <1>7, <1>8, <1>9, <1>10

-----------------------------------------------------------------------------
(* Types                                                                   *)

\* The environment of the runner, and the runner, one action per step.
Outside == Advance \/ Stray \/ Panic \/ Reset \/ Exit \/ Edit \/ RequestStop
Boot    == CreateStorage \/ Spawn \/ WaitForSocket \/ Gate
Watched == Observe \/ GiveUpWithoutEvidence \/ Watch \/ TermWait \/ KillWait \/ Collect
Restore == Personalise \/ UploadIBSS \/ Probe \/ UploadIBEC \/ WaitForPrompt \/ PrepareRestore
           \/ SendRestore
Close   == Loop \/ Final \/ Except \/ Interrupt

LEMMA NextIsStep == Next = (Outside \/ Boot \/ Watched \/ Restore \/ Close \/ Over)
BY DEF Next, Runner, Environment, Outside, Boot, Watched, Restore, Close

LEMMA ConfigIsRequest ==
    ASSUME TypeOK
    PROVE  config \in Requests /\ Steps = 1..Len(Plan(config)) /\ Len(Plan(config)) \in Nat
<1>1. config \in Requests
  BY ConfigsAssumption DEF TypeOK
<1> QED BY <1>1, PlanShape DEF Steps

LEMMA InitTypes == Init => TypeOK
<1> SUFFICES ASSUME Init PROVE TypeOK
  OBVIOUS
<1>1. config \in Requests /\ Len(Plan(config)) \in Nat
  BY ConfigsAssumption, PlanShape DEF Init
<1>2. NoReport \in Reports
  BY EmptySeq DEF NoReport, Reports, Terminations, ChainStates, Cleanups
<1>3. <<>> \in Seq(Marks) /\ <<>> \in Seq(Steps)
  BY EmptySeq
<1>4. nonce \in 0..MaxResets /\ ticket \in 0..MaxResets /\ identity \in Stages \X (0..MaxResets)
  BY ResetsAssumption DEF Init, Stages
<1>5. next \in 1..(Len(Plan(config)) + 1)
  BY <1>1 DEF Init
<1> QED BY <1>2, <1>3, <1>4, <1>5 DEF Init, TypeOK, Waiting, Ended, Stages

LEMMA EmitTypes ==
    ASSUME TypeOK, NEW mark \in Marks, Emit(mark)
    PROVE  uart' \in Seq(Marks)
BY DEF TypeOK, Emit

\* What the guest, its host and the user do.
LEMMA OutsideTypes == TypeOK /\ Outside => TypeOK'
<1> SUFFICES ASSUME TypeOK, Outside PROVE TypeOK'
  OBVIOUS
<1> USE DEF TypeOK, fixed, helper
<1>1. CASE Advance
  <2>1. uart' \in Seq(Marks)
    BY <1>1, EmitTypes DEF Advance, Marks
  <2>2. stage' \in Stages
    BY <1>1 DEF Advance, Stages
  <2> QED BY <1>1, <2>1, <2>2 DEF Advance, Steps
<1>2. CASE Stray
  <2>1. uart' \in Seq(Marks)
    BY <1>2, EmitTypes DEF Stray, Marks
  <2> QED BY <1>2, <2>1 DEF Stray, Steps
<1>3. CASE Panic
  <2>1. uart' \in Seq(Marks)
    BY <1>3, EmitTypes DEF Panic, Marks
  <2>2. stage' \in Stages
    BY <1>3 DEF Panic, Stages
  <2> QED BY <1>3, <2>1, <2>2 DEF Panic, Steps
<1>4. CASE Reset
  <2>1. stage' \in Stages
    BY <1>4 DEF Reset, Stages
  <2>2. nonce' \in 0..MaxResets
    BY <1>4, ResetsAssumption DEF Reset
  <2> QED BY <1>4, <2>1, <2>2 DEF Reset, Steps
<1>5. CASE Exit
  BY <1>5 DEF Exit, guest, Steps
<1>6. CASE Edit
  BY <1>6 DEF Edit, guest, Steps
<1>7. CASE RequestStop
  BY <1>7 DEF RequestStop, guest, Steps
<1> QED BY <1>1, <1>2, <1>3, <1>4, <1>5, <1>6, <1>7 DEF Outside

\* Wherever a step is sent, the plan has one.
LEMMA StepIsThere ==
    ASSUME TypeOK, Place, pc \in {"dfu", "iBEC", "restore"}
    PROVE  next \in Steps
<1>1. config \in Requests /\ Steps = 1..Len(Plan(config)) /\ Len(Plan(config)) \in Nat
  BY ConfigIsRequest
<1>2. Len(Plan(config)) >= 2 /\ (config.live => Len(Plan(config)) >= 5)
  BY <1>1, PlanShape
<1>3. next \in {1, 2} \/ (config.live /\ next \in 3..5) \/ next \in 6..Len(Plan(config))
  BY DEF Place, Early
<1> QED BY <1>1, <1>2, <1>3

LEMMA BootTypes == TypeOK /\ Boot => TypeOK'
<1> SUFFICES ASSUME TypeOK, Boot PROVE TypeOK'
  OBVIOUS
<1> USE DEF TypeOK, fixed, helper, guest, Steps, RunnerOnly, Steady, Goto, Fails, Waiting
<1>1. CASE CreateStorage
  <2>1. report' \in Reports
    BY <1>1, ZenonT(60) DEF CreateStorage, Reports
  <2> QED BY <1>1, <2>1 DEF CreateStorage
<1>2. CASE Spawn
  <2>1. report' \in Reports
    BY <1>2 DEF Spawn, Reports
  <2>2. stage' \in Stages
    BY <1>2 DEF Spawn, Stages
  <2> QED BY <1>2, <2>1, <2>2 DEF Spawn
<1>3. CASE WaitForSocket
  BY <1>3 DEF WaitForSocket
<1>4. CASE Gate
  BY <1>4 DEF Gate
<1> QED BY <1>1, <1>2, <1>3, <1>4 DEF Boot

LEMMA WatchedTypes == TypeOK /\ Watched => TypeOK'
<1> SUFFICES ASSUME TypeOK, Watched PROVE TypeOK'
  OBVIOUS
<1> USE DEF TypeOK, fixed, helper, guest, Steps, RunnerOnly, Steady, Goto, Fails, Waiting
<1>1. CASE Observe
  <2>1. report' \in Reports
    <3>1. PICK version \in {FALSE, Has("xnu")} :
             report' = [report EXCEPT
               !.seen = uart, !.version = version,
               !.verified = Has("userspace") /\ version /\ TargetMatches]
      BY <1>1, Zenon DEF Observe
    <3>2. version \in BOOLEAN
      BY Zenon DEF Has
    <3>3. (Has("userspace") /\ version /\ TargetMatches) \in BOOLEAN
      BY Zenon DEF Has, TargetMatches
    <3> QED BY <3>1, <3>2, <3>3 DEF Reports
  <2> QED BY <1>1, <2>1 DEF Observe
<1>2. CASE GiveUpWithoutEvidence
  <2>1. report' \in Reports /\ signalled' \in BOOLEAN
    <3>1. \/ report' = [report EXCEPT !.termination = "evidence"] /\ signalled' = TRUE
          \/ UNCHANGED <<report, signalled>>
      BY <1>2, Zenon DEF GiveUpWithoutEvidence
    <3> QED BY <3>1 DEF Reports, Terminations
  <2> QED BY <1>2, <2>1 DEF GiveUpWithoutEvidence
<1>3. CASE Watch
  <2>1. report' \in Reports /\ signalled' \in BOOLEAN
    <3>1. \/ UNCHANGED <<report, signalled>>
          \/ \E reason \in Reasons :
                report' = [report EXCEPT !.termination = reason] /\ signalled' = TRUE
      BY <1>3, Zenon DEF Watch
    <3>2. Reasons \subseteq Terminations
      BY DEF Reasons, Terminations
    <3> HIDE DEF Steps, RunnerOnly, Steady, Goto, Fails, Waiting
    <3> QED BY <3>1, <3>2 DEF Reports
  <2> QED BY <1>3, <2>1 DEF Watch
<1>4. CASE TermWait
  BY <1>4 DEF TermWait
<1>5. CASE KillWait
  BY <1>5 DEF KillWait
<1>6. CASE Collect
  <2>1. Handoff(report) \in BOOLEAN
    BY Zenon DEF Handoff
  <2>2. report' = [report EXCEPT
          !.termination = OwnExit(report), !.integrity = Integrity,
          !.verified = Handoff(report), !.gated = TRUE,
          !.error = Integrity = "changed" \/ ~Handoff(report)]
    BY <1>6, Zenon DEF Collect
  <2>3. /\ OwnExit(report) \in Terminations
        /\ Integrity \in {"same", "changed"}
    BY DEF OwnExit, Integrity, Reports, Terminations
  <2>4. report' \in Reports
    BY <2>1, <2>2, <2>3 DEF Reports
  <2> QED BY <1>6, <2>4 DEF Collect, Ended
<1> QED BY <1>1, <1>2, <1>3, <1>4, <1>5, <1>6 DEF Watched

\* A step that arrives leaves the guest in one of its stages.
LEMMA ReceiveTypes ==
    ASSUME TypeOK, next \in Steps, Receive
    PROVE  /\ stage' \in Stages /\ got' \in Seq(Steps) /\ Acknowledged \in Reports
           /\ next + 1 \in 1..(Len(Plan(config)) + 1)
<1>1. stage' \in Stages
  BY DEF Receive, After, TypeOK, Stages
<1>2. next \in Nat
  BY ConfigIsRequest
<1>3. got' \in Seq(Steps)
  BY DEF Receive, TypeOK
<1>4. Acknowledged \in Reports
  <2>1. Append(report.acked, next) \in Seq(Nat)
    <3>1. report.acked \in Seq(Nat)
      BY DEF TypeOK, Reports
    <3> QED BY <1>2, <3>1, AppendProperties
  <2> QED BY <2>1 DEF Acknowledged, TypeOK, Reports
<1> QED BY <1>1, <1>3, <1>4, ConfigIsRequest

LEMMA TransferTypes ==
    ASSUME TypeOK, next \in Steps, NEW after \in Waiting, Transfer(after)
    PROVE  TypeOK'
<1> USE DEF TypeOK, fixed, guest, Transferring, RunnerOnly, Goto
<1>1. CASE Receive /\ report' = Acknowledged /\ next' = next + 1 /\ pc' = after
  BY <1>1, ReceiveTypes DEF Transfer, Steps, Receive
<1>2. CASE Receive /\ UNCHANGED <<report, next>> /\ pc' = "except"
  BY <1>2, ReceiveTypes DEF Transfer, Steps, Receive, Waiting
<1>3. CASE UNCHANGED guest /\ UNCHANGED <<report, next>> /\ pc' = "except"
  BY <1>3 DEF Transfer, Steps, Waiting
<1> QED BY <1>1, <1>2, <1>3 DEF Transfer, Lost

LEMMA PersonaliseTypes == TypeOK /\ Personalise => TypeOK'
<1> SUFFICES ASSUME TypeOK, Personalise PROVE TypeOK'
  OBVIOUS
<1> USE DEF TypeOK, fixed, helper, guest, Steps, RunnerOnly, Steady, Goto, Fails, Waiting
<1>1. ASSUME NEW place, NEW stages, NEW after \in Waiting, Identify(place, stages, after)
      PROVE  TypeOK'
  <2>1. identity' \in Stages \X (0..MaxResets) /\ sources' \in {"original", "edited"}
    <3>1. stage \in Stages /\ nonce \in 0..MaxResets /\ inputs \in {"original", "edited"}
          /\ identity \in Stages \X (0..MaxResets) /\ sources \in {"original", "edited"}
      OBVIOUS
    <3>2. \/ identity' = <<stage, nonce>> /\ sources' = inputs
          \/ UNCHANGED <<identity, sources>>
      BY <1>1, Zenon DEF Identify
    <3>3. <<stage, nonce>> \in Stages \X (0..MaxResets)
      BY <3>1
    <3> QED BY <3>1, <3>2, <3>3, Zenon
  <2>2. UNCHANGED <<config, system, inputs, stop, qemu, signalled, stage, nonce, uart, got,
                    ticket, next, held, report>> /\ pc' \in Waiting \union Ended
    BY <1>1, Zenon DEF Identify
  <2> QED BY <2>1, <2>2
<1>2. ASSUME NEW place, NEW after \in Waiting, Ticket(place, after)
      PROVE  TypeOK'
  BY <1>2 DEF Ticket
<1> QED BY <1>1, <1>2 DEF Personalise

\* Field by field, what the later actions write into a report.
LEMMA PromptReport ==
    ASSUME NEW r \in Reports, NEW e \in BOOLEAN, NEW k \in Cleanups, NEW h \in ChainStates,
           NEW t \in Terminations
    PROVE  [r EXCEPT !.executed = e, !.cleanup = k, !.chain = h, !.termination = t] \in Reports
BY DEF Reports

LEMMA LoopReport ==
    ASSUME NEW r \in Reports, NEW t \in Terminations, NEW k \in Cleanups
    PROVE  [r EXCEPT !.termination = t, !.cleanup = k] \in Reports
BY DEF Reports

LEMMA FinalReport ==
    ASSUME NEW r \in Reports, NEW k \in Cleanups, NEW t \in Terminations, NEW h \in ChainStates,
           NEW i \in {"same", "changed"}, NEW e \in BOOLEAN
    PROVE  [r EXCEPT !.cleanup = k, !.termination = t, !.chain = h, !.integrity = i,
                     !.gated = TRUE, !.error = e] \in Reports
BY DEF Reports

LEMMA ExceptReport ==
    ASSUME NEW r \in Reports, NEW k \in Cleanups, NEW t \in Terminations,
           NEW i \in {"same", "changed"}
    PROVE  [r EXCEPT !.cleanup = k, !.termination = t, !.integrity = i, !.error = TRUE]
              \in Reports
BY DEF Reports

LEMMA RestoreTypes == TypeOK /\ Place /\ Restore => TypeOK'
<1> SUFFICES ASSUME TypeOK, Place, Restore PROVE TypeOK'
  OBVIOUS
<1> USE DEF TypeOK, fixed, helper, guest, RunnerOnly, Steady, Goto, Fails, Waiting
<1>1. CASE Personalise
  BY <1>1, PersonaliseTypes
<1>2. CASE UploadIBSS
  BY <1>2, StepIsThere, TransferTypes DEF UploadIBSS
<1>3. CASE Probe
  BY <1>3 DEF Probe, Steps
<1>4. CASE UploadIBEC
  BY <1>4, StepIsThere, TransferTypes DEF UploadIBEC
<1>5. CASE WaitForPrompt
  <2>1. report' \in Reports
    <3>1. CASE report' = [report EXCEPT !.executed = TRUE]
      BY <3>1 DEF Reports
    <3>2. CASE \E gone \in BOOLEAN :
                 report' = [report EXCEPT
                  !.executed = First("banner"), !.cleanup = Cleanup(gone),
                  !.chain = IF config.chain THEN "failed" ELSE @,
                  !.termination = IF Has("panic") THEN "stage2-panic"
                                  ELSE "stage2-timeout"]
      <4>1. /\ First("banner") \in BOOLEAN
            /\ (IF Has("panic") THEN "stage2-panic" ELSE "stage2-timeout") \in Terminations
            /\ (IF config.chain THEN "failed" ELSE report.chain) \in ChainStates
            /\ \A gone \in BOOLEAN : Cleanup(gone) \in Cleanups
        BY DEF First, Cleanup, Reports, Terminations, ChainStates, Cleanups
      <4>2. report \in Reports
        OBVIOUS
      <4>3. PICK gone \in BOOLEAN :
               report' = [report EXCEPT
                  !.executed = First("banner"), !.cleanup = Cleanup(gone),
                  !.chain = IF config.chain THEN "failed" ELSE @,
                  !.termination = IF Has("panic") THEN "stage2-panic"
                                  ELSE "stage2-timeout"]
        BY <3>2
      <4>4. Cleanup(gone) \in Cleanups
        BY <4>1
      <4> QED BY <4>1, <4>2, <4>3, <4>4, PromptReport, Zenon
    <3> QED BY <1>5, <3>1, <3>2, Zenon DEF WaitForPrompt
  <2>2. signalled' \in BOOLEAN /\ qemu' \in {"none", "running", "exited"}
    BY <1>5, Zenon DEF WaitForPrompt, TerminateProcess
  <2> QED BY <1>5, <2>1, <2>2 DEF WaitForPrompt, Steps
<1>6. CASE PrepareRestore
  <2>1. report' \in Reports
    BY <1>6, ZenonT(60) DEF PrepareRestore, Completed, Reports, ChainStates
  <2> QED BY <1>6, <2>1, ZenonT(60) DEF PrepareRestore, Steps
<1>7. CASE SendRestore
  <2>1. next \in Steps /\ next + 1 \in 1..(Len(Plan(config)) + 1)
    BY <1>7, StepIsThere, ConfigIsRequest DEF SendRestore
  <2>2. Receive => stage' \in Stages /\ got' \in Seq(Steps) /\ Acknowledged \in Reports
    BY <2>1, ReceiveTypes
  <2>3. ASSUME NEW r \in Reports, NEW b \in BOOLEAN PROVE Completed(r, b) \in Reports
    BY DEF Completed, Reports, ChainStates
  <2>4. report' \in Reports
    BY <1>7, <2>2, <2>3 DEF SendRestore
  <2>5. stage' \in Stages /\ got' \in Seq(Steps) /\ UNCHANGED <<uart, nonce>>
    BY <1>7, <2>2 DEF SendRestore, Receive, Lost
  <2> QED BY <1>7, <2>1, <2>4, <2>5, ZenonT(60) DEF SendRestore, Transferring, Steps
<1> QED BY <1>1, <1>2, <1>3, <1>4, <1>5, <1>6, <1>7 DEF Restore

LEMMA CloseTypes == TypeOK /\ Close => TypeOK'
<1> SUFFICES ASSUME TypeOK, Close PROVE TypeOK'
  OBVIOUS
<1> USE DEF TypeOK, fixed, helper, guest, Steps, RunnerOnly, Steady, Goto, Fails, Waiting, Ended
<1>0. ASSUME NEW gone \in BOOLEAN, TerminateProcess(gone)
      PROVE  signalled' \in BOOLEAN /\ qemu' \in {"none", "running", "exited"}
  BY <1>0, Zenon DEF TerminateProcess
<1>1. CASE Loop
  <2>1. report' \in Reports
    <3>1. Reasons \subseteq {"time_budget", "stop_file"}
      BY DEF Reasons
    <3>2. CASE UNCHANGED report
      BY <3>2
    <3>3. CASE \E reason \in Reasons, gone \in BOOLEAN :
                 report' = [report EXCEPT !.termination = reason, !.cleanup = Cleanup(gone)]
      <4>1. /\ report \in Reports /\ Reasons \subseteq Terminations
            /\ \A gone \in BOOLEAN : Cleanup(gone) \in Cleanups
        BY <3>1 DEF Cleanup, Cleanups, Terminations
      <4>2. PICK reason \in Reasons, gone \in BOOLEAN :
               report' = [report EXCEPT !.termination = reason, !.cleanup = Cleanup(gone)]
        BY <3>3
      <4>3. reason \in Terminations /\ Cleanup(gone) \in Cleanups
        BY <4>1
      <4> QED BY <4>1, <4>2, <4>3, LoopReport, Zenon
    <3> QED BY <1>1, <3>2, <3>3, Zenon DEF Loop
  <2>2. signalled' \in BOOLEAN /\ qemu' \in {"none", "running", "exited"}
    BY <1>0, <1>1 DEF Loop
  <2> QED BY <1>1, <2>1, <2>2 DEF Loop
<1>2. CASE Final
  <2>1. report' \in Reports
    <3>1. PICK gone \in BOOLEAN :
             report' = [report EXCEPT
               !.cleanup = IF qemu = "running" THEN Cleanup(gone) ELSE @,
               !.termination = OwnExit(report),
               !.chain = IF @ = "sent" /\ Has("panic") THEN "post-bootx-panic" ELSE @,
               !.integrity = Integrity, !.gated = TRUE,
               !.error = Integrity = "changed"]
      BY <1>2 DEF Final
    <3>2. /\ (IF qemu = "running" THEN Cleanup(gone) ELSE report.cleanup)
                \in Cleanups
          /\ Integrity \in {"same", "changed"}
          /\ OwnExit(report) \in Terminations
      BY DEF Cleanup, Integrity, OwnExit, Reports, Cleanups, Terminations
    <3>3. (IF report.chain = "sent" /\ Has("panic") THEN "post-bootx-panic" ELSE report.chain)
             \in ChainStates
      BY DEF Reports, ChainStates
    <3>4. (Integrity = "changed") \in BOOLEAN
      OBVIOUS
    <3> QED BY <3>1, <3>2, <3>3, <3>4, FinalReport, ZenonT(60)
  <2>2. signalled' \in BOOLEAN /\ qemu' \in {"none", "running", "exited"}
    BY <1>0, <1>2 DEF Final
  <2> QED BY <1>2, <2>1, <2>2 DEF Final
<1>3. CASE Except
  <2>1. report' \in Reports
    <3>1. PICK gone \in BOOLEAN :
             report' = [report EXCEPT
               !.cleanup = IF qemu = "none" THEN @ ELSE Cleanup(gone),
               !.termination = IF @ = "none" THEN "error" ELSE @,
               !.integrity = Integrity, !.error = TRUE]
      BY <1>3 DEF Except
    <3>2. /\ (IF qemu = "none" THEN report.cleanup ELSE Cleanup(gone))
                \in Cleanups
          /\ Integrity \in {"same", "changed"}
          /\ (IF report.termination = "none" THEN "error" ELSE report.termination)
                \in Terminations
      BY DEF Cleanup, Integrity, Reports, Cleanups, Terminations
    <3> QED BY <3>1, <3>2, ExceptReport, Zenon
  <2>2. signalled' \in BOOLEAN /\ qemu' \in {"none", "running", "exited"}
    BY <1>0, <1>3 DEF Except
  <2> QED BY <1>3, <2>1, <2>2 DEF Except
<1>4. CASE Interrupt
  BY <1>4 DEF Interrupt
<1> QED BY <1>1, <1>2, <1>3, <1>4 DEF Close

LEMMA TypeStep == TypeOK /\ Place /\ [Next]_vars => TypeOK'
<1> SUFFICES ASSUME TypeOK, Place, [Next]_vars PROVE TypeOK'
  OBVIOUS
<1>1. CASE UNCHANGED vars
  BY <1>1 DEF TypeOK, vars, fixed, guest, helper, Steps
<1>2. CASE Over
  BY <1>1, <1>2 DEF Over
<1> QED BY <1>1, <1>2, NextIsStep, OutsideTypes, BootTypes, WatchedTypes, RestoreTypes, CloseTypes

-----------------------------------------------------------------------------
(* The places and the plan                                                 *)

\* What leaves the guest's receipts, the plan and their report alone.
Aside == /\ UNCHANGED <<config, next, got>>
         /\ report'.acked = report.acked

LEMMA OutsideFrame ==
    ASSUME TypeOK, Outside \/ Over
    PROVE  UNCHANGED <<config, pc, signalled, next, got, held, report>>
BY DEF Outside, Advance, Stray, Panic, Reset, Exit, Edit, RequestStop, Over, vars, fixed, guest,
       helper

LEMMA BootFrame ==
    ASSUME TypeOK, Boot
    PROVE  /\ Aside /\ pc \in Early /\ pc' \in Early \union {"observe", "except"}
           /\ UNCHANGED <<signalled, nonce, uart, held>>
           /\ UNCHANGED <<report.executed, report.chain, report.termination, report.cleanup,
                          report.seen, report.verified, report.gated>>
<1>1. report \in Reports
  BY DEF TypeOK
<1>2. \/ UNCHANGED report
      \/ report' = [report EXCEPT !.inputs = inputs]
      \/ report' = [report EXCEPT !.started = TRUE]
  BY DEF Boot, CreateStorage, Spawn, WaitForSocket, Gate, Fails
<1>3. UNCHANGED <<report.acked, report.executed, report.chain, report.termination,
                  report.cleanup, report.seen, report.verified, report.gated>>
  BY <1>1, <1>2 DEF Reports
<1>5. Aside
  BY <1>3 DEF Boot, CreateStorage, Spawn, WaitForSocket, Gate, Fails, Steady, RunnerOnly,
                    Aside, fixed, helper, guest
<1>6. pc \in Early /\ pc' \in Early \union {"observe", "except"}
  BY DEF Boot, CreateStorage, Spawn, WaitForSocket, Gate, Fails, Goto, Early
<1> QED BY <1>3, <1>5, <1>6 DEF Boot, CreateStorage, Spawn, WaitForSocket, Gate, Fails, Steady,
                              RunnerOnly, fixed, helper, guest

LEMMA WatchedFrame ==
    ASSUME TypeOK, Watched
    PROVE  /\ Aside /\ pc \in Direct /\ pc' \in Direct \union {"except", "returned"}
           /\ UNCHANGED <<stage, nonce, uart, held>>
           /\ UNCHANGED <<report.executed, report.chain>>
<1>1. report \in Reports
  BY DEF TypeOK
<1>2. UNCHANGED <<report.executed, report.chain, report.acked>>
  BY <1>1 DEF Watched, Observe, GiveUpWithoutEvidence, Watch, TermWait, KillWait, Collect, Fails,
              Reports, Steady
<1>3. Aside /\ UNCHANGED <<stage, nonce, uart, held>>
  BY <1>2 DEF Watched, Observe, GiveUpWithoutEvidence, Watch, TermWait, KillWait, Collect, Fails,
              Steady, RunnerOnly, Aside, fixed, helper, guest
<1>4. pc \in Direct /\ pc' \in Direct \union {"except", "returned"}
  BY DEF Watched, Observe, GiveUpWithoutEvidence, Watch, TermWait, KillWait, Collect, Fails,
         Direct, Goto
<1> QED BY <1>2, <1>3, <1>4

LEMMA CloseFrame ==
    ASSUME TypeOK, Close
    PROVE  /\ Aside /\ pc' \in {"final", "except", "returned", "raised"}
           /\ UNCHANGED <<stage, nonce, uart>>
           /\ UNCHANGED <<report.executed, report.seen, report.verified>>
           /\ report'.chain \in {report.chain, "post-bootx-panic"}
           /\ report'.chain # report.chain => report.chain = "sent"
<1>1. report \in Reports
  BY DEF TypeOK
<1>2. CASE Loop
  BY <1>1, <1>2 DEF Loop, Goto, Reports, Aside, RunnerOnly, fixed, helper, guest
<1>3. CASE Final
  BY <1>1, <1>3 DEF Final, Goto, Reports, Aside, RunnerOnly, fixed, helper, guest
<1>4. CASE Except
  BY <1>1, <1>4 DEF Except, Goto, Reports, Aside, RunnerOnly, fixed, helper, guest
<1>5. CASE Interrupt
  BY <1>1, <1>5 DEF Interrupt, Fails, Steady, Goto, Reports, Aside, RunnerOnly, fixed, helper,
                    guest
<1> QED BY <1>2, <1>3, <1>4, <1>5 DEF Close

LEMMA AsideFrame ==
    ASSUME TypeOK, Personalise \/ Probe \/ WaitForPrompt \/ PrepareRestore
    PROVE  /\ Aside /\ UNCHANGED <<stage, nonce, uart, held, report.seen, report.verified,
                                   report.gated>>
           /\ pc \in Sending
<1>1. report \in Reports
  BY DEF TypeOK
<1>2. CASE Personalise
  BY <1>2 DEF Personalise, Identify, Ticket, Fails, Steady, RunnerOnly, Aside, fixed, helper, guest,
              Sending, Early, Personal
<1>3. CASE Probe
  BY <1>3 DEF Probe, Steady, RunnerOnly, Aside, fixed, helper, guest, Sending
<1>4. CASE WaitForPrompt
  <2>1. UNCHANGED <<report.acked, report.seen, report.verified, report.gated>>
    BY <1>1, <1>4 DEF WaitForPrompt, Reports
  <2> QED BY <1>4, <2>1 DEF WaitForPrompt, RunnerOnly, Aside, fixed, helper, guest, Sending
<1>5. CASE PrepareRestore
  <2>1. UNCHANGED <<report.acked, report.seen, report.verified, report.gated>>
    BY <1>1, <1>5 DEF PrepareRestore, Completed, Fails, Reports
  <2> QED BY <1>5, <2>1 DEF PrepareRestore, Fails, Steady, RunnerOnly, Aside, fixed, helper, guest,
                            Sending
<1> QED BY <1>2, <1>3, <1>4, <1>5

\* How a transfer ends.
LEMMA TransferEnds ==
    ASSUME NEW after, Transfer(after)
    PROVE  /\ UNCHANGED <<config, qemu, signalled, held>>
           /\ \/ Receive /\ report' = Acknowledged /\ next' = next + 1 /\ pc' = after
              \/ Lost /\ UNCHANGED <<report, next>> /\ pc' = "except"
BY DEF Transfer, Transferring, RunnerOnly, fixed, Goto

LEMMA PlaceStep == TypeOK /\ Place /\ Next => Place'
<1> SUFFICES ASSUME TypeOK, Place, Next PROVE Place'
  OBVIOUS
<1>1. CASE Outside \/ Over
  BY <1>1, OutsideFrame DEF Place
<1>2. CASE Boot
  <2>1. UNCHANGED <<config, next>> /\ next = 1 /\ pc' \in Early \union {"observe", "except"}
    BY <1>2, BootFrame DEF Aside, Place
  <2> QED BY <2>1 DEF Place, Early, Personal
<1>3. CASE Watched
  <2>1. UNCHANGED <<config, next>> /\ next = 1 /\ pc' \in Direct \union {"except", "returned"}
    BY <1>3, WatchedFrame DEF Aside, Place
  <2> QED BY <2>1 DEF Place, Early, Personal, Direct
<1>4. CASE Close
  <2>1. pc' \in {"final", "except", "returned", "raised"}
    BY <1>4, CloseFrame
  <2> QED BY <2>1 DEF Place, Early, Personal, Direct
<1>5. CASE Personalise
  <2>1. UNCHANGED <<config, next>>
    BY <1>5, AsideFrame DEF Aside
  <2> QED BY <1>5, <2>1 DEF Place, Personalise, Identify, Ticket, Fails, Goto, Early, Personal,
                            Direct
<1>6. CASE UploadIBSS
  <2>1. (next' = 2 /\ pc' = "probe") \/ pc' = "except"
    BY <1>6, TransferEnds DEF UploadIBSS, Place, Early
  <2> QED BY <2>1 DEF Place, Early, Personal, Direct
<1>7. CASE Probe
  <2>1. UNCHANGED <<config, next>> /\ next = 2
    BY <1>7, AsideFrame DEF Aside, Place, Probe
  <2> QED BY <1>7, <2>1 DEF Place, Probe, Goto, Early, Personal, Direct
<1>8. CASE UploadIBEC
  <2>1. PICK after : /\ Transfer(after)
                     /\ after = CASE Step = "go" -> "marker"
                                  [] ~config.live -> "loop"
                                  [] OTHER -> "iBEC"
    BY <1>8 DEF UploadIBEC
  <2>2. CASE pc' = "except"
    BY <2>2 DEF Place, Early, Personal, Direct
  <2>3. CASE next' = next + 1 /\ pc' = after
    <3>1. UNCHANGED config /\ config \in Requests
      BY <2>1, TransferEnds, ConfigIsRequest
    <3>2. CASE ~config.live
      <4>1. next = 2 /\ Step = "iBEC"
        BY <1>8, <3>1, <3>2, PlanShape DEF UploadIBEC, Place, Step
      <4>2. pc' = "loop"
        BY <2>1, <2>3, <3>2, <4>1
      <4> QED BY <4>2 DEF Place, Early, Personal, Direct
    <3>3. CASE config.live
      <4>1. next \in 2..5 /\ (Step = "go" <=> next = 5)
        BY <1>8, <3>1, <3>3, PlanShape DEF UploadIBEC, Place, Step
      <4>2. (pc' = "marker" /\ next' = 6) \/ (pc' = "iBEC" /\ next' \in 3..5)
        BY <2>1, <2>3, <3>3, <4>1
      <4> QED BY <3>1, <3>3, <4>2 DEF Place, Early, Personal, Direct
    <3> QED BY <3>2, <3>3
  <2> QED BY <2>1, <2>2, <2>3, TransferEnds
<1>9. CASE WaitForPrompt
  <2>1. UNCHANGED <<config, next>> /\ config.live /\ next = 6
    BY <1>9, AsideFrame DEF Aside, Place, WaitForPrompt
  <2>2. pc' \in {"loop", "final"} \/ (pc' = "prepare" /\ config.chain)
    BY <1>9 DEF WaitForPrompt, Goto
  <2> QED BY <2>1, <2>2 DEF Place, Early, Personal, Direct
<1>10. CASE PrepareRestore
  <2>1. UNCHANGED <<config, next>> /\ config.live /\ config.chain /\ next = 6
    BY <1>10, AsideFrame DEF Aside, Place, PrepareRestore
  <2>2. 6 \in 6..Len(Plan(config))
    BY <2>1, ConfigIsRequest, PlanShape
  <2>3. pc' \in {"restore", "loop", "except"}
    BY <1>10 DEF PrepareRestore, Fails, Goto
  <2> QED BY <2>1, <2>2, <2>3 DEF Place, Early, Personal, Direct
<1>11. CASE SendRestore
  <2>1. /\ config.live /\ config.chain /\ next \in 6..Len(Plan(config)) /\ UNCHANGED config
        /\ config \in Requests /\ Len(Plan(config)) \in Nat
    BY <1>11, ConfigIsRequest DEF Place, SendRestore, Transferring, RunnerOnly, fixed
  <2>2. Step # "bootx" => next + 1 \in 6..Len(Plan(config))
    BY <2>1, PlanShape DEF Step
  <2>3. \/ pc' = "loop"
        \/ pc' = "restore" /\ next' = next + 1 /\ Step # "bootx"
    BY <1>11 DEF SendRestore, Goto, Optional
  <2> QED BY <2>1, <2>2, <2>3 DEF Place, Early, Personal, Direct
<1> QED BY <1>1, <1>2, <1>3, <1>4, <1>5, <1>6, <1>7, <1>8, <1>9, <1>10, <1>11, NextIsStep
        DEF Restore

-----------------------------------------------------------------------------
(* The receipts                                                            *)

\* Nothing sent, and the plan is not taken up again.
LEMMA AsideSent ==
    ASSUME Sent, Aside, pc' \in Sending => pc \in Sending
    PROVE  Sent'
<1>1. Received' = Received /\ Acked' = Acked /\ Required' = Required
  BY DEF Aside, Received, Acked, Required, Steps
<1> QED BY <1>1 DEF Sent, Aside

\* Appending a number larger than all there are keeps a sequence in order.
LEMMA AppendOrdered ==
    ASSUME NEW s \in Seq(Nat), NEW e \in Nat, \A i \in DOMAIN s : s[i] < e,
           \A i, j \in DOMAIN s : i < j => s[i] < s[j]
    PROVE  /\ \A i, j \in DOMAIN Append(s, e) : i < j => Append(s, e)[i] < Append(s, e)[j]
           /\ {Append(s, e)[i] : i \in DOMAIN Append(s, e)} = {s[i] : i \in DOMAIN s} \union {e}
<1> DEFINE t == Append(s, e)
<1>1. /\ DOMAIN t = 1..Len(s) + 1 /\ t[Len(s) + 1] = e /\ \A i \in DOMAIN s : t[i] = s[i]
      /\ DOMAIN s = 1..Len(s) /\ Len(s) \in Nat
  OBVIOUS
<1> HIDE DEF t
<1>2. \A i, j \in DOMAIN t : i < j => t[i] < t[j]
  BY <1>1
<1>3. {t[i] : i \in DOMAIN t} = {s[i] : i \in DOMAIN s} \union {e}
  BY <1>1
<1> QED BY <1>2, <1>3 DEF t

\* The next step arrives: with its answer; as an extra command, without it; or
\* without it, and the plan is given up.
LEMMA ReceiveSent ==
    ASSUME TypeOK, Sent, Receive, pc \in Sending, next \in Steps, UNCHANGED config,
           \/ next' = next + 1 /\ report'.acked = Append(report.acked, next)
           \/ next' = next + 1 /\ report'.acked = report.acked /\ Step = "extra"
           \/ next' = next /\ report'.acked = report.acked /\ pc' \notin Sending
    PROVE  Sent'
<1>1. /\ next \in Nat /\ got \in Seq(Nat) /\ report.acked \in Seq(Nat)
      /\ Steps = 1..Len(Plan(config)) /\ Len(Plan(config)) \in Nat
  <2>1. report.acked \in Seq(Nat) /\ next \in Nat /\ got \in Seq(Steps)
    BY ConfigIsRequest DEF TypeOK, Reports
  <2>2. got \in Seq(Nat)
    BY <2>1, ConfigIsRequest, SeqMonotonic
  <2> QED BY <2>1, <2>2, ConfigIsRequest
<1>2. got' = Append(got, next)
  BY DEF Receive
<1>3. /\ \A k \in Received : k < next
      /\ \A i \in DOMAIN got : got[i] < next
      /\ \A i \in DOMAIN report.acked : report.acked[i] < next
  BY DEF Sent, Received, Acked
<1>4. /\ \A i, j \in DOMAIN got' : i < j => got'[i] < got'[j]
      /\ Received' = Received \union {next}
  <2>1. \A i, j \in DOMAIN got : i < j => got[i] < got[j]
    BY DEF Sent
  <2>2. Received' = {got'[i] : i \in DOMAIN got'} /\ Received = {got[i] : i \in DOMAIN got}
    BY DEF Received
  <2>3. /\ \A i, j \in DOMAIN Append(got, next) :
                i < j => Append(got, next)[i] < Append(got, next)[j]
        /\ {Append(got, next)[i] : i \in DOMAIN Append(got, next)}
             = {got[i] : i \in DOMAIN got} \union {next}
    BY <1>1, <1>3, <2>1, AppendOrdered
  <2> QED BY <1>2, <2>2, <2>3, Zenon
<1>5. /\ \A i, j \in DOMAIN report'.acked : i < j => report'.acked[i] < report'.acked[j]
      /\ \/ Acked' = Acked \union {next} /\ next' = next + 1
         \/ Acked' = Acked /\ next' = next + 1 /\ Step = "extra"
         \/ Acked' = Acked /\ next' = next /\ pc' \notin Sending
  <2> DEFINE a == report.acked
             b == report'.acked
  <2>3. Acked' = {b[i] : i \in DOMAIN b} /\ Acked = {a[i] : i \in DOMAIN a}
    BY DEF Acked
  <2>4. \A i, j \in DOMAIN a : i < j => a[i] < a[j]
    BY DEF Sent
  <2>5. a \in Seq(Nat) /\ \A i \in DOMAIN a : a[i] < next
    BY <1>1, <1>3
  <2>6. \/ b = Append(a, next) /\ next' = next + 1
        \/ b = a /\ next' = next + 1 /\ Step = "extra"
        \/ b = a /\ next' = next /\ pc' \notin Sending
    OBVIOUS
  <2> HIDE DEF a, b
  <2>1. ASSUME b = a
        PROVE  (\A i, j \in DOMAIN b : i < j => b[i] < b[j]) /\ Acked' = Acked
    BY <2>1, <2>3, <2>4
  <2>2. ASSUME b = Append(a, next)
        PROVE  (\A i, j \in DOMAIN b : i < j => b[i] < b[j]) /\ Acked' = Acked \union {next}
    <3>1. /\ \A i, j \in DOMAIN Append(a, next) :
                i < j => Append(a, next)[i] < Append(a, next)[j]
          /\ {Append(a, next)[i] : i \in DOMAIN Append(a, next)}
               = {a[i] : i \in DOMAIN a} \union {next}
      BY <1>1, <2>4, <2>5, AppendOrdered
    <3> QED BY <2>2, <2>3, <3>1, Zenon
  <2>7. /\ \A i, j \in DOMAIN b : i < j => b[i] < b[j]
        /\ \/ Acked' = Acked \union {next} /\ next' = next + 1
           \/ Acked' = Acked /\ next' = next + 1 /\ Step = "extra"
           \/ Acked' = Acked /\ next' = next /\ pc' \notin Sending
    BY <2>1, <2>2, <2>6, Zenon
  <2> QED BY <2>7 DEF b
<1>6. /\ Required' = Required /\ Required \subseteq Nat /\ Received \subseteq Nat
      /\ Acked \subseteq Nat /\ Plan(config)' = Plan(config)
  BY <1>1 DEF Required, Steps, Received, Acked
<1>7. /\ Acked \subseteq Received /\ \A k \in Acked : k < next
      /\ \A k \in Required : k < next => k \in Received
      /\ \A k \in Received : k < next /\ Plan(config)[k] # "extra" => k \in Acked
  BY DEF Sent
<1>8. next' \in {next, next + 1} /\ Plan(config)[next] = Step
  BY DEF Step
<1>12. /\ Acked' \subseteq Received' /\ \A k \in Acked' : k < next'
  <2>1. Acked' \subseteq Acked \union {next} /\ (Acked' = Acked \/ next' = next + 1)
    BY <1>5
  <2>2. Acked' \subseteq Received'
    BY <1>4, <1>7, <2>1
  <2>3. ASSUME NEW k \in Acked' PROVE k < next'
    BY <1>1, <1>6, <1>7, <1>8, <2>1, <2>3
  <2> QED BY <2>2, <2>3
<1>13. /\ \A k \in Received' : k <= next'
       /\ pc' \in Sending => \A k \in Received' : k < next'
  BY <1>1, <1>3, <1>4, <1>5, <1>6, <1>8
<1>9. /\ Acked' \subseteq Received' /\ \A k \in Acked' : k < next'
      /\ \A k \in Received' : k <= next'
      /\ pc' \in Sending => \A k \in Received' : k < next'
  BY <1>12, <1>13, Zenon
<1>10. \A k \in Required' : k < next' => k \in Received'
  BY <1>1, <1>4, <1>6, <1>7, <1>8
<1>11. \A k \in Received' : k < next' /\ Plan(config)'[k] # "extra" => k \in Acked'
  BY <1>1, <1>3, <1>4, <1>5, <1>6, <1>7, <1>8
<1> QED BY <1>4, <1>5, <1>9, <1>10, <1>11 DEF Sent

\* A refused optional step is passed over.
LEMMA PassSent ==
    ASSUME TypeOK, Sent, pc \in Sending, next \in Steps, Step \in Optional, next' = next + 1,
           UNCHANGED <<config, got, report>>
    PROVE  Sent'
<1>1. next \in Nat /\ Required' = Required /\ Required \subseteq Nat /\ next \notin Required
  BY ConfigIsRequest DEF Required, Steps, Step
<1>2. Received' = Received /\ Acked' = Acked
  BY DEF Received, Acked
<1>3. \A i \in DOMAIN got : got[i] \in Nat
  BY ConfigIsRequest DEF TypeOK
<1>4. Received \subseteq Nat /\ Acked \subseteq Received /\ \A k \in Received : k < next
  BY <1>3 DEF Sent, Received
<1>5. /\ \A k \in Required : k < next => k \in Received
      /\ \A k \in Received : k < next /\ Plan(config)[k] # "extra" => k \in Acked
      /\ \A k \in Acked : k < next
  BY DEF Sent
<1>6. /\ \A k \in Acked' : k < next'
      /\ \A k \in Received' : k < next'
  BY <1>1, <1>2, <1>4
<1>7. \A k \in Required' : k < next' => k \in Received'
  BY <1>1, <1>2, <1>5
<1>8. \A k \in Received' : k < next' /\ Plan(config)'[k] # "extra" => k \in Acked'
  BY <1>2, <1>4, <1>5
<1>9. /\ \A i, j \in DOMAIN report'.acked : i < j => report'.acked[i] < report'.acked[j]
      /\ \A i, j \in DOMAIN got' : i < j => got'[i] < got'[j]
      /\ Acked' \subseteq Received' /\ \A k \in Received' : k <= next'
  BY <1>1, <1>2, <1>4, <1>6 DEF Sent
<1> QED BY <1>6, <1>7, <1>8, <1>9 DEF Sent

\* A transfer keeps the receipts in order, wherever it goes on.
LEMMA TransferSent ==
    ASSUME TypeOK, Sent, pc \in Sending, next \in Steps, NEW after, Transfer(after)
    PROVE  Sent'
<1>0. Acknowledged.acked = Append(report.acked, next)
  BY DEF Acknowledged, TypeOK, Reports
<1>1. "except" \notin Sending
  BY DEF Sending, Early, Personal
<1>2. CASE Receive /\ report' = Acknowledged /\ next' = next + 1
  BY <1>0, <1>2, ReceiveSent, TransferEnds
<1>3. CASE Receive /\ UNCHANGED <<report, next>> /\ pc' = "except"
  BY <1>1, <1>3, ReceiveSent, TransferEnds
<1>4. CASE UNCHANGED guest /\ UNCHANGED <<report, next>> /\ pc' = "except"
  BY <1>1, <1>4, AsideSent, TransferEnds DEF guest, Aside
<1> QED BY <1>2, <1>3, <1>4, TransferEnds DEF Lost

LEMMA SendRestoreSent ==
    ASSUME TypeOK, Place, Sent, SendRestore
    PROVE  Sent'
<1>0. /\ pc \in Sending /\ next \in Steps /\ UNCHANGED config /\ "loop" \notin Sending
  BY StepIsThere DEF SendRestore, Sending, Early, Personal, Transferring, RunnerOnly, fixed
<1>1. /\ Acknowledged.acked = Append(report.acked, next)
      /\ Completed(Acknowledged, TRUE).acked = Append(report.acked, next)
      /\ Completed(report, FALSE).acked = report.acked
  BY DEF Acknowledged, Completed, TypeOK, Reports
<1>2. CASE Receive /\ next' = next + 1
           /\ report' \in {Acknowledged, Completed(Acknowledged, TRUE)}
  BY <1>0, <1>1, <1>2, ReceiveSent
<1>3. CASE Step \in Optional /\ next' = next + 1 /\ UNCHANGED <<guest, report>>
  BY <1>0, <1>3, PassSent DEF guest
<1>6. CASE Step = "extra" /\ next' = next + 1 /\ Receive /\ UNCHANGED report
  BY <1>0, <1>6, ReceiveSent
<1>4. CASE Receive /\ UNCHANGED next /\ report' = Completed(report, FALSE) /\ pc' = "loop"
  BY <1>0, <1>1, <1>4, ReceiveSent
<1>5. CASE UNCHANGED <<guest, next>> /\ report' = Completed(report, FALSE) /\ pc' = "loop"
  BY <1>0, <1>1, <1>5, AsideSent DEF guest, Aside
<1> QED BY <1>2, <1>3, <1>4, <1>5, <1>6 DEF SendRestore, Lost, Goto

LEMMA SentStep == TypeOK /\ Place /\ Sent /\ Next => Sent'
<1> SUFFICES ASSUME TypeOK, Place, Sent, Next PROVE Sent'
  OBVIOUS
<1>1. CASE Outside \/ Over
  BY <1>1, OutsideFrame, AsideSent DEF Aside
<1>2. CASE Boot
  BY <1>2, BootFrame, AsideSent DEF Sending
<1>3. CASE Watched
  BY <1>3, WatchedFrame, AsideSent DEF Sending, Direct, Early, Personal
<1>4. CASE Close
  BY <1>4, CloseFrame, AsideSent DEF Sending, Early, Personal
<1>5. CASE Personalise \/ Probe \/ WaitForPrompt \/ PrepareRestore
  BY <1>5, AsideFrame, AsideSent
<1>6. CASE UploadIBSS
  BY <1>6, StepIsThere, TransferSent DEF UploadIBSS, Sending, Early
<1>7. CASE UploadIBEC
  BY <1>7, StepIsThere, TransferSent DEF UploadIBEC, Sending
<1>8. CASE SendRestore
  BY <1>8, SendRestoreSent
<1> QED BY <1>1, <1>2, <1>3, <1>4, <1>5, <1>6, <1>7, <1>8, NextIsStep DEF Restore

-----------------------------------------------------------------------------
(* What the report says of the plan                                        *)

LEMMA SaidStep == TypeOK /\ Place /\ Said /\ Next => Said'
<1> SUFFICES ASSUME TypeOK, Place, Said, Next PROVE Said'
  OBVIOUS
<1>0. /\ report \in Reports /\ Steps = 1..Len(Plan(config)) /\ Len(Plan(config)) \in Nat
      /\ config \in Requests
  BY ConfigIsRequest DEF TypeOK
<1>1. CASE Outside \/ Over
  BY <1>1, OutsideFrame DEF Said
<1>2. CASE Boot
  BY <1>2, BootFrame DEF Said, Aside
<1>3. CASE Watched
  BY <1>3, WatchedFrame DEF Said, Aside
<1>4. CASE Close
  BY <1>4, CloseFrame DEF Said, Aside
<1>5. CASE Personalise \/ Probe
  BY <1>5, AsideFrame DEF Said, Aside, Personalise, Probe, Identify, Ticket, Fails, Steady
<1>6. CASE WaitForPrompt
  <2>1. UNCHANGED <<config, next>> /\ config.live /\ next = 6
    BY <1>6, AsideFrame DEF Aside, Place, WaitForPrompt
  <2>2. report'.chain \in {report.chain, "failed"}
    BY <1>0, <1>6 DEF WaitForPrompt, Reports
  <2> QED BY <2>1, <2>2 DEF Said
<1>7. CASE PrepareRestore
  <2>1. UNCHANGED <<config, next>>
    BY <1>7, AsideFrame DEF Aside
  <2>2. report'.chain \in {report.chain, "failed"} /\ report'.executed = report.executed
    BY <1>0, <1>7 DEF PrepareRestore, Completed, Fails, Reports
  <2> QED BY <2>1, <2>2 DEF Said
<1>8. CASE UploadIBSS \/ UploadIBEC
  <2>1. next \in Steps /\ UNCHANGED config
    BY <1>8, StepIsThere, TransferEnds DEF UploadIBSS, UploadIBEC
  <2>2. UNCHANGED <<report.executed, report.chain>> /\ next' \in {next, next + 1}
    BY <1>0, <1>8, TransferEnds DEF UploadIBSS, UploadIBEC, Acknowledged, Reports
  <2>3. report.chain \notin {"sent", "post-bootx-panic"}
    BY <1>0, <2>1 DEF Said
  <2> QED BY <1>0, <2>1, <2>2, <2>3 DEF Said
<1>9. CASE SendRestore
  <2>1. /\ config.live /\ config.chain /\ next \in 6..Len(Plan(config)) /\ UNCHANGED config
    BY <1>9 DEF Place, SendRestore, Transferring, RunnerOnly, fixed
  <2>2. report.chain \notin {"sent", "post-bootx-panic"}
    BY <1>0, <2>1 DEF Said
  <2>3. /\ report'.executed = report.executed /\ next' \in {next, next + 1}
        /\ \/ report'.chain \in {report.chain, "failed"}
           \/ next' = next + 1 /\ Step = "bootx"
    BY <1>0, <1>9 DEF SendRestore, Completed, Acknowledged, Reports
  <2>4. Step = "bootx" => next = Len(Plan(config))
    BY <1>0, <2>1, PlanShape DEF Step
  <2> QED BY <1>0, <2>1, <2>2, <2>3, <2>4 DEF Said
<1> QED BY <1>1, <1>2, <1>3, <1>4, <1>5, <1>6, <1>7, <1>8, <1>9, NextIsStep DEF Restore

-----------------------------------------------------------------------------
(* Signals and the end                                                     *)

LEMMA SignalsStep == TypeOK /\ Signals /\ Next => Signals'
<1> SUFFICES ASSUME TypeOK, Signals, Next PROVE Signals'
  OBVIOUS
<1>0. report \in Reports
  BY DEF TypeOK
<1>1. CASE Outside \/ Over
  <2>1. qemu' = qemu \/ (qemu = "running" /\ qemu' = "exited")
    BY <1>1 DEF Outside, Advance, Stray, Panic, Reset, Exit, Edit, RequestStop, Over, vars
  <2> QED BY <1>1, <2>1, OutsideFrame DEF Signals
<1>2. CASE Boot
  <2>1. pc' \notin {"collect", "final"} \union Ended /\ pc \notin Ended \union {"loop", "final", "except"}
    BY <1>2, BootFrame DEF Early, Ended
  <2> QED BY <1>2, <2>1, BootFrame DEF Signals
<1>3. CASE Observe
  <2>1. pc' = "verdict" /\ pc = "observe" /\ UNCHANGED <<qemu, signalled, held, report.termination>>
    BY <1>0, <1>3 DEF Observe, Steady, Goto, Reports
  <2> QED BY <2>1 DEF Signals, Ended
<1>4. CASE GiveUpWithoutEvidence
  <2>1. /\ pc' = "watch" /\ pc = "verdict" /\ UNCHANGED <<qemu, held>>
        /\ \/ UNCHANGED <<signalled, report.termination>>
           \/ report'.termination = "evidence"
    BY <1>0, <1>4 DEF GiveUpWithoutEvidence, Goto, Reports
  <2> QED BY <2>1 DEF Signals, Ended
<1>5. CASE Watch
  <2>1. /\ pc = "watch" /\ UNCHANGED <<qemu, held>>
        /\ \/ UNCHANGED <<signalled, report.termination>> /\ pc' = "collect" /\ qemu = "exited"
           \/ report'.termination \in {"time_budget", "stop_file"} /\ pc' = "term-wait"
    BY <1>0, <1>5 DEF Watch, Goto, Reports, Reasons
  <2> QED BY <2>1 DEF Signals, Ended
<1>6. CASE TermWait \/ KillWait
  <2>1. /\ pc \in {"term-wait", "kill-wait"} /\ UNCHANGED <<signalled, held, report>>
        /\ pc' \in {"kill-wait", "except"} \/ (pc' = "collect" /\ qemu' = "exited")
    BY <1>6 DEF TermWait, KillWait, Goto, Steady, Fails
  <2> QED BY <2>1 DEF Signals, Ended
<1>7. CASE Collect
  <2>1. /\ pc = "collect" /\ pc' = "returned" /\ UNCHANGED <<qemu, signalled, held>>
        /\ report'.termination = OwnExit(report)
    BY <1>0, <1>7 DEF Collect, Goto, Steady, Reports
  <2> QED BY <2>1 DEF Signals, Ended, OwnExit
<1>8. CASE Personalise \/ Probe
  <2>1. /\ pc \in Sending /\ UNCHANGED <<qemu, signalled, held, report>>
        /\ pc' \notin {"collect", "final"} \union Ended
    BY <1>8 DEF Personalise, Probe, Identify, Ticket, Fails, Steady, Goto, Ended, Sending, Early,
                Personal
  <2> QED BY <2>1 DEF Signals, Ended, Sending, Early, Personal
<1>9. CASE UploadIBSS \/ UploadIBEC
  <2>1. /\ pc \in {"dfu", "iBEC"} /\ pc' \notin {"collect", "final"} \union Ended
        /\ UNCHANGED <<qemu, signalled, held, report.termination>>
    BY <1>0, <1>9, TransferEnds DEF UploadIBSS, UploadIBEC, Acknowledged, Reports, Ended
  <2> QED BY <2>1 DEF Signals, Ended
<1>10. CASE WaitForPrompt
  <2>1. /\ pc = "marker" /\ UNCHANGED held
        /\ \/ /\ UNCHANGED <<qemu, signalled, report.termination>> /\ pc' \in {"prepare", "loop"}
           \/ pc' = "final" /\ report'.termination \in {"stage2-panic", "stage2-timeout"}
    BY <1>0, <1>10 DEF WaitForPrompt, Goto, Reports
  <2> QED BY <2>1 DEF Signals, Ended
<1>11. CASE PrepareRestore
  <2>1. /\ pc = "prepare" /\ pc' \in {"restore", "loop", "except"}
        /\ UNCHANGED <<qemu, signalled, held, report.termination>>
    BY <1>0, <1>11 DEF PrepareRestore, Completed, Fails, Steady, Goto, Reports
  <2> QED BY <2>1 DEF Signals, Ended
<1>12. CASE SendRestore
  <2>1. /\ pc = "restore" /\ UNCHANGED <<qemu, signalled, report.termination>>
        /\ \/ pc' = "loop"
           \/ pc' = "restore" /\ (UNCHANGED held \/ ~held')
    BY <1>0, <1>12 DEF SendRestore, Transferring, Completed, Acknowledged, Goto, Reports
  <2> QED BY <2>1 DEF Signals, Ended
<1>13. CASE Loop
  <2>1. /\ pc = "loop" /\ pc' = "final"
        /\ \/ qemu = "exited" /\ UNCHANGED <<qemu, signalled, report>>
           \/ report'.termination \in {"time_budget", "stop_file"}
    BY <1>0, <1>13 DEF Loop, Goto, Reports, Reasons
  <2> QED BY <2>1 DEF Signals, Ended
<1>14. CASE Final
  <2>1. PICK gone \in BOOLEAN :
          /\ TerminateProcess(gone)
          /\ report'.termination = OwnExit(report)
          /\ report'.cleanup = IF qemu = "running" THEN Cleanup(gone) ELSE report.cleanup
    BY <1>0, <1>14 DEF Final, Reports
  <2>2. pc = "final" /\ pc' = "returned" /\ ~held'
    BY <1>14 DEF Final, Goto
  <2> QED BY <2>1, <2>2 DEF Signals, Ended, TerminateProcess, Cleanup, OwnExit
<1>15. CASE Except
  <2>1. PICK gone \in BOOLEAN :
          /\ TerminateProcess(gone)
          /\ report'.termination = IF report.termination = "none" THEN "error"
                                   ELSE report.termination
          /\ report'.cleanup = IF qemu = "none" THEN report.cleanup ELSE Cleanup(gone)
    BY <1>0, <1>15 DEF Except, Reports
  <2>2. pc = "except" /\ pc' \in Ended /\ ~held'
    BY <1>15 DEF Except, Goto, Ended
  <2> QED BY <2>1, <2>2 DEF Signals, Ended, TerminateProcess, Cleanup
<1>16. CASE Interrupt
  <2>1. /\ pc \in Waiting /\ pc' = "except" /\ UNCHANGED <<qemu, signalled, held, report>>
    BY <1>16 DEF Interrupt, Fails, Steady, Goto
  <2> QED BY <2>1 DEF Signals, Ended, Waiting
<1> QED BY <1>1, <1>2, <1>3, <1>4, <1>5, <1>6, <1>7, <1>8, <1>9, <1>10, <1>11, <1>12, <1>13,
           <1>14, <1>15, <1>16, NextIsStep DEF Restore, Watched, Close

-----------------------------------------------------------------------------
(* The log of a direct boot                                                *)

\* Where the steps of a recovery lead.
LEMMA RestorePlaces ==
    ASSUME Restore
    PROVE  pc' \in (Recovery \ {"iBSS-identity"}) \union {"except"}
<1> USE DEF Recovery, Personal, Goto
<1>1. CASE Personalise
  BY <1>1 DEF Personalise, Identify, Ticket, Fails
<1>2. CASE UploadIBSS
  BY <1>2, TransferEnds DEF UploadIBSS
<1>3. CASE UploadIBEC
  <2>1. PICK after : Transfer(after) /\ after \in {"marker", "loop", "iBEC"}
    BY <1>3 DEF UploadIBEC
  <2> QED BY <2>1, TransferEnds
<1>4. CASE Probe \/ WaitForPrompt \/ PrepareRestore \/ SendRestore
  BY <1>4 DEF Probe, WaitForPrompt, PrepareRestore, SendRestore, Fails
<1> QED BY <1>1, <1>2, <1>3, <1>4 DEF Restore

\* A direct boot never comes to the recovery half of run().
LEMMA RecoveryOnly ==
    ASSUME Log, config.boot = "macos"
    PROVE  ~Restore /\ ~Loop /\ ~Final
BY DEF Log, Recovery, Personal, Restore, Personalise, Identify, Ticket, UploadIBSS, Probe,
       UploadIBEC, WaitForPrompt, PrepareRestore, SendRestore, Loop, Final

\* Without a new mark the order of the marks is the same.
LEMMA EmitOrder ==
    ASSUME TypeOK, NEW mark \in Marks, Emit(mark)
    PROVE  /\ \A other : Has(other)' <=> Has(other) \/ other = mark
           /\ Before(uart', "xnu", "userspace") =>
                 \/ Before(uart, "xnu", "userspace")
                 \/ mark = "userspace" /\ Has("xnu")
<1>1. uart \in Seq(Marks)
  BY DEF TypeOK
<1>2. CASE Has(mark)
  BY <1>2 DEF Emit, Has
<1>3. CASE ~Has(mark)
  <2>1. uart' = Append(uart, mark)
    BY <1>3 DEF Emit
  <2>2. /\ DOMAIN uart = 1..Len(uart) /\ DOMAIN uart' = 1..Len(uart) + 1 /\ Len(uart) \in Nat
        /\ uart'[Len(uart) + 1] = mark /\ \A i \in DOMAIN uart : uart'[i] = uart[i]
    BY <1>1, <2>1
  <2>3. \A other : Has(other)' <=> Has(other) \/ other = mark
    BY <2>2 DEF Has
  <2>4. ASSUME Before(uart', "xnu", "userspace")
        PROVE  Before(uart, "xnu", "userspace") \/ (mark = "userspace" /\ Has("xnu"))
    <3>1. PICK i \in DOMAIN uart', j \in DOMAIN uart' :
             i <= j /\ uart'[i] = "xnu" /\ uart'[j] = "userspace"
      BY <2>4 DEF Before
    <3>2. CASE j \in DOMAIN uart
      <4>1. i \in DOMAIN uart
        BY <2>2, <3>1, <3>2
      <4> QED BY <2>2, <3>1, <3>2, <4>1 DEF Before
    <3>3. CASE j = Len(uart) + 1
      <4>1. mark = "userspace" /\ i # j
        BY <2>2, <3>1, <3>3
      <4>2. i \in DOMAIN uart
        BY <2>2, <3>1, <3>3, <4>1
      <4> QED BY <2>2, <3>1, <4>1, <4>2 DEF Has
    <3> QED BY <2>2, <3>1, <3>2, <3>3
  <2> QED BY <2>3, <2>4
<1> QED BY <1>2, <1>3

\* What the log says of a direct boot that has not been reset.
Unreset ==
    config.boot = "macos" /\ nonce = 0 =>
        /\ Has("xnu") => stage \in {"kernel", "user"}
        /\ Before(uart, "xnu", "userspace") => stage = "user"
        /\ Before(report.seen, "xnu", "userspace") => stage = "user"

LEMMA UnresetStep == TypeOK /\ Log /\ Next => Unreset'
<1> SUFFICES ASSUME TypeOK, Log, Next, config'.boot = "macos", nonce' = 0
             PROVE  /\ Has("xnu")' => stage' \in {"kernel", "user"}
                    /\ Before(uart', "xnu", "userspace") => stage' = "user"
                    /\ Before(report'.seen, "xnu", "userspace") => stage' = "user"
  BY DEF Unreset
<1>0. report \in Reports
  BY DEF TypeOK
<1>1. ASSUME UNCHANGED <<config, nonce>>
      PROVE  /\ config.boot = "macos" /\ nonce = 0
             /\ stage \in {"off", "avp", "kernel", "user", "panicked"}
             /\ Has("xnu") => stage \in {"kernel", "user"}
             /\ Before(uart, "xnu", "userspace") => stage = "user"
             /\ Before(report.seen, "xnu", "userspace") => stage = "user"
  BY <1>1 DEF Log
<1>2. CASE Advance
  <2>1. UNCHANGED <<config, nonce, report>>
    BY <1>2 DEF Advance, fixed
  <2>2. \/ stage = "avp" /\ stage' = "kernel" /\ Emit("xnu")
        \/ stage = "kernel" /\ stage' = "user" /\ Emit("userspace")
    BY <1>1, <1>2, <2>1 DEF Advance
  <2>3. CASE stage = "avp" /\ stage' = "kernel" /\ Emit("xnu")
    BY <1>1, <2>1, <2>3, EmitOrder DEF Marks
  <2>4. CASE stage = "kernel" /\ stage' = "user" /\ Emit("userspace")
    BY <2>4
  <2> QED BY <2>2, <2>3, <2>4
<1>3. CASE Stray
  <2>1. UNCHANGED <<config, nonce, report, stage>> /\ stage = "avp" /\ Emit("userspace")
    BY <1>3 DEF Stray, fixed
  <2> QED BY <1>1, <2>1, EmitOrder DEF Marks
<1>4. CASE Panic
  <2>1. UNCHANGED <<config, nonce, report>> /\ stage \in Firmware /\ Emit("panic")
    BY <1>4 DEF Panic, fixed
  <2>2. ~Has("xnu") /\ ~Before(uart, "xnu", "userspace") /\ ~Before(report.seen, "xnu", "userspace")
    BY <1>1, <2>1 DEF Firmware
  <2> QED BY <2>1, <2>2, EmitOrder DEF Marks
<1>5. CASE Reset
  <2>1. nonce' = nonce + 1 /\ nonce \in Nat
    BY <1>5, ResetsAssumption DEF Reset, TypeOK
  <2> QED BY <2>1
<1>6. CASE Exit \/ Edit \/ RequestStop \/ Over
  BY <1>1, <1>6 DEF Exit, Edit, RequestStop, Over, vars, fixed, guest, Has
<1>7. CASE Spawn
  <2>1. UNCHANGED <<config, nonce, uart, report.seen>>
    BY <1>7, BootFrame DEF Boot, Aside
  <2>2. uart = <<>> \/ UNCHANGED stage
    BY <1>7 DEF Spawn, Fails, Steady, guest, Log
  <2>3. CASE uart = <<>>
    <3>1. /\ ~Has("xnu") /\ ~Before(uart, "xnu", "userspace")
          /\ ~Before(report.seen, "xnu", "userspace")
      BY <1>7, <2>3 DEF Has, Before, Log, Spawn
    <3>2. UNCHANGED stage \/ stage' = "avp"
      BY <1>7, <2>1 DEF Spawn, Fails, Steady, guest
    <3> QED BY <1>1, <2>1, <2>3, <3>1, <3>2 DEF Has
  <2>4. CASE UNCHANGED stage
    BY <1>1, <2>1, <2>4 DEF Has
  <2> QED BY <2>2, <2>3, <2>4
<1>8. CASE CreateStorage \/ WaitForSocket \/ Gate
  <2>1. UNCHANGED <<config, nonce, uart, stage, report.seen>>
    BY <1>8, BootFrame DEF Boot, Aside, CreateStorage, WaitForSocket, Gate, Fails, Steady, guest
  <2> QED BY <1>1, <2>1 DEF Has
<1>9. CASE Watched
  <2>1. UNCHANGED <<config, nonce, uart, stage>>
    BY <1>9, WatchedFrame DEF Aside
  <2>2. report'.seen \in {report.seen, uart}
    BY <1>0, <1>9 DEF Watched, Observe, GiveUpWithoutEvidence, Watch, TermWait, KillWait, Collect,
                      Fails, Steady, Reports
  <2> QED BY <1>1, <2>1, <2>2 DEF Has
<1>10. CASE Close
  <2>1. UNCHANGED <<config, nonce, uart, stage, report.seen>>
    BY <1>10, CloseFrame DEF Aside
  <2> QED BY <1>1, <2>1 DEF Has
<1>11. CASE Restore
  <2>1. UNCHANGED config
    BY <1>11, AsideFrame, TransferEnds DEF Restore, Aside, UploadIBSS, UploadIBEC, SendRestore,
                                           Transferring, RunnerOnly, fixed
  <2> QED BY <1>11, <2>1, RecoveryOnly
<1> QED BY <1>2, <1>3, <1>4, <1>5, <1>6, <1>7, <1>8, <1>9, <1>10, <1>11, NextIsStep
        DEF Outside, Boot

LEMMA LogStep == TypeOK /\ Log /\ Next => Log'
<1> SUFFICES ASSUME TypeOK, Log, Next PROVE Log'
  OBVIOUS
<1>0. report \in Reports /\ Unreset'
  BY UnresetStep DEF TypeOK
<1>1. pc' \in {"storage", "spawn"} => qemu' = "none" /\ report'.seen = <<>>
  <2>1. CASE Outside \/ Over
    <3>1. qemu = "none" => qemu' = "none"
      BY <2>1 DEF Outside, Advance, Stray, Panic, Reset, Exit, Edit, RequestStop, Over, vars
    <3> QED BY <2>1, <3>1, OutsideFrame DEF Log
  <2>2. CASE Boot
    <3>1. pc' = "spawn" => pc = "storage" /\ UNCHANGED qemu
      BY <2>2 DEF Boot, CreateStorage, Spawn, WaitForSocket, Gate, Fails, Goto, Steady
    <3>2. pc' # "storage"
      BY <2>2 DEF Boot, CreateStorage, Spawn, WaitForSocket, Gate, Fails, Goto
    <3> QED BY <2>2, <3>1, <3>2, BootFrame DEF Log
  <2>3. CASE Watched
    BY <2>3, WatchedFrame DEF Direct
  <2>4. CASE Close
    BY <2>4, CloseFrame
  <2>5. CASE Restore
    BY <2>5, RestorePlaces DEF Recovery, Personal
  <2> QED BY <2>1, <2>2, <2>3, <2>4, <2>5, NextIsStep
<1>2. qemu' = "none" => uart' = <<>>
  <2>1. CASE Outside \/ Over
    BY <2>1 DEF Outside, Advance, Stray, Panic, Reset, Exit, Edit, RequestStop, Over, vars, guest, Log
  <2>2. CASE Boot
    BY <2>2, BootFrame, ZenonT(60) DEF Boot, CreateStorage, Spawn, WaitForSocket, Gate, Fails, Steady, Log
  <2>3. CASE Watched
    BY <2>3, WatchedFrame, ZenonT(60) DEF Watched, Observe, GiveUpWithoutEvidence, Watch, TermWait, KillWait,
                              Collect, Fails, Steady, Log
  <2>4. CASE Close
    BY <2>4, CloseFrame, ZenonT(60) DEF Close, Loop, Final, Except, Interrupt, TerminateProcess, Fails, Steady,
                            Log
  <2>5. CASE Restore
    <3>1. qemu' = "none" => qemu = "none"
      BY <2>5, TransferEnds DEF Restore, Personalise, Identify, Ticket, Fails, Steady, UploadIBSS,
               Probe, UploadIBEC, WaitForPrompt, TerminateProcess, PrepareRestore, SendRestore,
               Transferring
    <3>2. uart' = uart
      BY <2>5, AsideFrame, TransferEnds DEF Restore, UploadIBSS, UploadIBEC, SendRestore, Lost,
               Receive, guest
    <3> QED BY <3>1, <3>2 DEF Log
  <2> QED BY <2>1, <2>2, <2>3, <2>4, <2>5, NextIsStep
<1>3. ASSUME config'.boot = "macos"
      PROVE  pc' \notin Recovery /\ stage' \in {"off", "avp", "kernel", "user", "panicked"}
  <2>0. config' = config
    BY OutsideFrame, BootFrame, WatchedFrame, CloseFrame, AsideFrame, TransferEnds, NextIsStep
       DEF Restore, Aside, UploadIBSS, UploadIBEC, SendRestore, Transferring, RunnerOnly, fixed
  <2>1. /\ config.boot = "macos" /\ pc \notin Recovery
        /\ stage \in {"off", "avp", "kernel", "user", "panicked"}
    BY <1>3, <2>0 DEF Log
  <2>2. CASE Outside \/ Over
    <3>1. stage' \in {"off", "avp", "kernel", "user", "panicked"}
      BY <2>1, <2>2 DEF Outside, Advance, Stray, Panic, Reset, Exit, Edit, RequestStop, Over, vars,
                        guest
    <3> QED BY <2>1, <2>2, <3>1, OutsideFrame
  <2>3. CASE Boot
    <3>1. stage' \in {stage, "avp"}
      BY <2>1, <2>3 DEF Boot, CreateStorage, Spawn, WaitForSocket, Gate, Fails, Steady, guest
    <3>2. pc' \in {"spawn", "socket", "gate", "observe", "except"}
      BY <2>1, <2>3 DEF Boot, CreateStorage, Spawn, WaitForSocket, Gate, Fails, Goto
    <3> QED BY <2>1, <3>1, <3>2 DEF Recovery, Personal
  <2>4. CASE Watched
    BY <2>1, <2>4, WatchedFrame DEF Recovery, Personal, Direct
  <2>5. CASE Except \/ Interrupt
    <3>1. pc' \in {"except", "returned"} /\ UNCHANGED stage
      BY <2>1, <2>5 DEF Except, Interrupt, Fails, Goto, Steady, guest
    <3> QED BY <2>1, <3>1 DEF Recovery, Personal
  <2> QED BY <2>1, <2>2, <2>3, <2>4, <2>5, RecoveryOnly, NextIsStep DEF Close
<1> QED BY <1>0, <1>1, <1>2, <1>3 DEF Log, Unreset, Has

-----------------------------------------------------------------------------
(* The verdict                                                             *)

LEMMA VerdictStep == TypeOK /\ Signals /\ Log /\ Verdict /\ Next => Verdict'
<1> SUFFICES ASSUME TypeOK, Signals, Log, Verdict, Next PROVE Verdict'
  OBVIOUS
<1>0. report \in Reports
  BY DEF TypeOK
<1>1. CASE Outside \/ Over
  <2>1. qemu = "exited" => UNCHANGED <<qemu, stage, nonce>>
    BY <1>1 DEF Outside, Advance, Stray, Panic, Reset, Exit, Edit, RequestStop, Over, vars, guest
  <2> QED BY <1>1, <2>1, OutsideFrame DEF Verdict
<1>2. CASE Boot
  <2>1. pc' \in Direct => config.boot = "macos"
    BY <1>2 DEF Boot, CreateStorage, Spawn, WaitForSocket, Gate, Fails, Goto, Direct
  <2>2. pc \notin Ended
    BY <1>2, BootFrame DEF Early, Ended
  <2> QED BY <1>2, <2>1, <2>2, BootFrame DEF Verdict, Aside
<1>3. CASE Observe \/ GiveUpWithoutEvidence \/ Watch \/ TermWait \/ KillWait
  <2>1. pc \in Direct /\ UNCHANGED config
    BY <1>3, WatchedFrame DEF Watched, Aside
  <2>2. ~report.gated /\ config.boot = "macos"
    BY <2>1 DEF Verdict, Direct, Ended
  <2>3. ~report'.gated
    BY <1>0, <1>3, <2>2 DEF Observe, GiveUpWithoutEvidence, Watch, TermWait, KillWait, Fails, Steady,
                            Reports
  <2> QED BY <2>1, <2>2, <2>3 DEF Verdict
<1>4. CASE Collect
  <2>1. /\ UNCHANGED <<config, qemu, stage, nonce>> /\ pc = "collect" /\ pc' = "returned"
        /\ report'.verified = Handoff(report) /\ report'.integrity = Integrity
    BY <1>0, <1>4 DEF Collect, Steady, Goto, Reports, RunnerOnly, fixed, guest
  <2>2. qemu = "exited" /\ config.boot = "macos"
    BY <2>1 DEF Signals, Verdict, Direct
  <2>3. Handoff(report) => /\ Integrity = "same"
                           /\ nonce = 0 => stage = "user"
    BY <2>2 DEF Handoff, Log
  <2> QED BY <2>1, <2>2, <2>3 DEF Verdict, Ended
<1>5. CASE Restore
  <2>1. config.boot # "macos"
    BY <1>5, RecoveryOnly
  <2>2. UNCHANGED <<config, report.verified>>
    <3>1. CASE Personalise \/ Probe \/ WaitForPrompt \/ PrepareRestore
      BY <3>1, AsideFrame DEF Aside
    <3>2. CASE UploadIBSS \/ UploadIBEC
      BY <1>0, <3>2, TransferEnds DEF UploadIBSS, UploadIBEC, Acknowledged, Reports
    <3>3. CASE SendRestore
      BY <1>0, <3>3 DEF SendRestore, Transferring, RunnerOnly, fixed, Completed, Acknowledged,
                        Reports
    <3> QED BY <1>5, <3>1, <3>2, <3>3 DEF Restore
  <2>3. ~report.verified
    BY <2>1 DEF Verdict
  <2>4. pc' \notin Direct /\ (report'.gated => pc' \in Ended)
    <3>1. pc \notin Ended /\ ~report.gated
      BY <1>5 DEF Restore, Personalise, Identify, Ticket, UploadIBSS, Probe, UploadIBEC,
                  WaitForPrompt, PrepareRestore, SendRestore, Ended, Verdict
    <3>2. report'.gated = report.gated
      <4>1. CASE Personalise \/ Probe \/ WaitForPrompt \/ PrepareRestore
        BY <4>1, AsideFrame
      <4>2. CASE UploadIBSS \/ UploadIBEC
        BY <1>0, <4>2, TransferEnds DEF UploadIBSS, UploadIBEC, Acknowledged, Reports
      <4>3. CASE SendRestore
        BY <1>0, <4>3 DEF SendRestore, Completed, Acknowledged, Reports
      <4> QED BY <1>5, <4>1, <4>2, <4>3 DEF Restore
    <3>3. pc' \notin Direct
      BY <1>5, RestorePlaces DEF Recovery, Personal, Direct
    <3> QED BY <3>1, <3>2, <3>3
  <2> QED BY <2>2, <2>3, <2>4 DEF Verdict
<1>6. CASE Close
  <2>1. UNCHANGED <<config, report.verified>> /\ pc' \notin Direct
    BY <1>6, CloseFrame DEF Aside, Direct
  <2>2. pc \notin Ended /\ ~report.gated
    BY <1>6 DEF Close, Loop, Final, Except, Interrupt, Waiting, Ended, Verdict
  <2>3. CASE Final
    <3>1. ~report.verified /\ pc' \in Ended
      BY <2>3, RecoveryOnly DEF Verdict, Final, Goto, Ended
    <3> QED BY <2>1, <3>1 DEF Verdict
  <2>4. CASE Loop \/ Except \/ Interrupt
    <3>1. ~report'.gated
      BY <1>0, <2>2, <2>4 DEF Loop, Except, Interrupt, Fails, Reports
    <3> QED BY <2>1, <3>1 DEF Verdict
  <2> QED BY <1>6, <2>3, <2>4 DEF Close
<1> QED BY <1>1, <1>2, <1>3, <1>4, <1>5, <1>6, NextIsStep DEF Watched

-----------------------------------------------------------------------------
(* The theorems                                                            *)

LEMMA InitIsIInv == Init => IInv
<1> SUFFICES ASSUME Init PROVE IInv
  OBVIOUS
<1>1. TypeOK /\ config \in Requests /\ Len(Plan(config)) \in Nat /\ Len(Plan(config)) >= 2
  BY InitTypes, ConfigIsRequest, PlanShape
<1>2. /\ pc = "storage" /\ next = 1 /\ got = <<>> /\ uart = <<>> /\ qemu = "none" /\ ~held
      /\ ~signalled /\ report.acked = <<>> /\ report.seen = <<>> /\ ~report.executed
      /\ report.chain = "none" /\ report.termination = "none" /\ ~report.verified
      /\ ~report.gated /\ stage = "off"
  BY DEF Init, NoReport
<1>3. Place
  BY <1>2 DEF Place, Early, Personal, Direct
<1>4. Sent
  <2>1. Required \subseteq Nat \ {0}
    BY <1>1, ConfigIsRequest DEF Required
  <2>2. Received = {} /\ Acked = {}
    BY <1>2 DEF Received, Acked
  <2> QED BY <1>2, <2>1, <2>2 DEF Sent
<1>5. Said
  BY <1>2 DEF Said
<1>6. Signals
  BY <1>2 DEF Signals, Ended
<1>7. Log
  BY <1>2 DEF Log, Recovery, Personal, Has, Before
<1>8. Verdict
  BY <1>2 DEF Verdict, Direct
<1> QED BY <1>1, <1>3, <1>4, <1>5, <1>6, <1>7, <1>8 DEF IInv

LEMMA StutterKeeps == IInv /\ UNCHANGED vars => IInv'
<1> SUFFICES ASSUME IInv, UNCHANGED vars PROVE IInv'
  OBVIOUS
<1>1. Received' = Received /\ Acked' = Acked /\ Required' = Required
  BY DEF vars, fixed, guest, helper, Received, Acked, Required, Steps
<1>2. Sent'
  BY <1>1 DEF IInv, Sent, vars, fixed, guest, helper
<1> QED BY <1>2 DEF IInv, TypeOK, Place, Said, Signals, Log, Verdict, vars, fixed, guest, helper,
                    Steps, Has

\* What is known at each place of run() is known in every run.
THEOREM RunnerInvariant == Spec => []IInv
<1>1. Init => IInv
  BY InitIsIInv
<1>2. IInv /\ [Next]_vars => IInv'
  BY TypeStep, PlaceStep, SentStep, SaidStep, SignalsStep, LogStep, VerdictStep, StutterKeeps
     DEF IInv
<1> QED BY <1>1, <1>2, PTL DEF Spec

\* Every variable keeps its type.
THEOREM RunnerTypes == Spec => []TypeOK
<1>1. IInv => TypeOK
  BY DEF IInv
<1> QED BY <1>1, RunnerInvariant, PTL

\* The report tells the truth about the recovery transfers, whatever answers are
\* lost and wherever the guest resets.
THEOREM ReportAlwaysHonest == Spec => []ReportIsHonest
<1>1. IInv => ReportIsHonest
  <2> SUFFICES ASSUME IInv PROVE ReportIsHonest
    OBVIOUS
  <2>1. /\ TypeOK /\ Sent /\ Said /\ config \in Requests /\ Steps = 1..Len(Plan(config))
        /\ Len(Plan(config)) \in Nat
    BY ConfigIsRequest DEF IInv
  <2>2. Required \subseteq Steps /\ next \in Nat /\ \A i \in DOMAIN got : got[i] \in Nat
    BY <2>1 DEF TypeOK, Required
  <2>3. \A i \in DOMAIN got : \A k \in Required : k < got[i] => k \in Received
    <3>1. \A i \in DOMAIN got : got[i] <= next
      BY <2>1 DEF Sent, Received
    <3>2. \A k \in Required : k < next => k \in Received
      BY <2>1 DEF Sent
    <3> QED BY <2>1, <2>2, <3>1, <3>2
  <2>4. ASSUME report.executed PROVE \E k \in Received : Plan(config)[k] = "go"
    <3>1. config.live /\ next >= 6
      BY <2>1, <2>4 DEF Said
    <3>2. 5 \in Required /\ Plan(config)[5] = "go"
      BY <2>1, <3>1, PlanShape DEF Required, Optional
    <3> QED BY <2>1, <2>2, <3>1, <3>2 DEF Sent
  <2>5. ASSUME report.chain \in {"sent", "post-bootx-panic"} PROVE Required \subseteq Received
    <3>1. next = Len(Plan(config)) + 1
      BY <2>1, <2>5 DEF Said
    <3> QED BY <2>1, <2>2, <3>1 DEF Sent
  <2>6. ASSUME NEW i \in DOMAIN got, i < Len(got), Plan(config)[got[i]] # "extra"
        PROVE  got[i] \in Acked
    <3>1. Len(got) \in DOMAIN got /\ got[i] < got[Len(got)]
      BY <2>1, <2>6 DEF TypeOK, Sent
    <3>2. got[i] \in Received /\ got[Len(got)] <= next
      BY <2>1, <3>1 DEF Sent, Received
    <3> QED BY <2>1, <2>2, <2>6, <3>1, <3>2 DEF Sent
  <2> QED BY <2>1, <2>3, <2>4, <2>5, <2>6 DEF ReportIsHonest, Sent
<1> QED BY <1>1, RunnerInvariant, PTL

\* A run that ends leaves no QEMU behind without a word, and says that the guest
\* exited by itself only of a guest that did.
THEOREM NothingLeftSilently == Spec => []LeavesNothingSilently
<1>1. IInv => LeavesNothingSilently
  BY DEF IInv, Signals, LeavesNothingSilently, Ended
<1> QED BY <1>1, RunnerInvariant, PTL

\* A direct boot that the handoff gate lets stand as verified reached userspace
\* after its kernel, on unchanged inputs.
THEOREM VerifiedReachedUserspace == Spec => []VerifiedIsUserspace
<1>1. IInv => VerifiedIsUserspace
  BY SMTT(60) DEF IInv, Verdict, VerifiedIsUserspace
<1> QED BY <1>1, RunnerInvariant, PTL

-----------------------------------------------------------------------------
(* Termination: every step of run() leads on                               *)

\* The order of the places of run(): the direct boot, the recovery, the ends.
Order(place) ==
    CASE place = "storage"       -> 0
      [] place = "spawn"         -> 1
      [] place = "socket"        -> 2
      [] place = "gate"          -> 3
      [] place = "observe"       -> 4
      [] place = "verdict"       -> 5
      [] place = "watch"         -> 6
      [] place = "term-wait"     -> 7
      [] place = "kill-wait"     -> 8
      [] place = "collect"       -> 9
      [] place = "iBSS-identity" -> 10
      [] place = "iBSS-ticket"   -> 11
      [] place = "dfu"           -> 12
      [] place = "probe"         -> 13
      [] place = "iBEC-identity" -> 14
      [] place = "iBEC-ticket"   -> 15
      [] place = "policy-ticket" -> 16
      [] place = "iBEC"          -> 17
      [] place = "marker"        -> 18
      [] place = "prepare"       -> 19
      [] place = "restore"       -> 20
      [] place = "loop"          -> 21
      [] place = "final"         -> 22
      [] place = "except"        -> 23
      [] place \in Ended         -> 24

\* A later place, or the next step of the plan at the same one.
Onward ==
    \/ Order(pc) < Order(pc')
    \/ pc' = pc /\ next' = next + 1

\* A place is left for one that comes after it.
LEMMA LaterPlace ==
    ASSUME TypeOK, Runner \/ Interrupt, ~UploadIBEC, ~SendRestore
    PROVE  Order(pc) < Order(pc')
<1> USE DEF Order, Ended, Goto
<1>1. CASE CreateStorage         BY <1>1 DEF CreateStorage, Fails
<1>2. CASE Spawn                 BY <1>2 DEF Spawn, Fails
<1>3. CASE WaitForSocket         BY <1>3 DEF WaitForSocket, Fails
<1>4. CASE Gate                  BY <1>4 DEF Gate
<1>5. CASE Observe               BY <1>5 DEF Observe
<1>6. CASE GiveUpWithoutEvidence BY <1>6 DEF GiveUpWithoutEvidence
<1>7. CASE Watch                 BY <1>7 DEF Watch
<1>8. CASE TermWait              BY <1>8 DEF TermWait
<1>9. CASE KillWait              BY <1>9 DEF KillWait, Fails
<1>10. CASE Collect              BY <1>10 DEF Collect
<1>11. CASE Personalise          BY <1>11 DEF Personalise, Identify, Ticket, Fails
<1>12. CASE UploadIBSS
  <2>1. pc = "dfu" /\ pc' \in {"probe", "except"}
    BY <1>12, TransferEnds DEF UploadIBSS
  <2> QED BY <2>1
<1>13. CASE Probe                BY <1>13 DEF Probe
<1>14. CASE WaitForPrompt
  <2>1. pc = "marker" /\ pc' \in {"prepare", "loop", "final"}
    BY <1>14 DEF WaitForPrompt
  <2> QED BY <2>1
<1>15. CASE PrepareRestore
  <2>1. pc = "prepare" /\ pc' \in {"restore", "loop", "except"}
    BY <1>15 DEF PrepareRestore, Fails
  <2> QED BY <2>1
<1>16. CASE Loop
  <2>1. pc = "loop" /\ pc' = "final"
    BY <1>16 DEF Loop
  <2> QED BY <2>1
<1>17. CASE Final                BY <1>17 DEF Final
<1>18. CASE Except               BY <1>18 DEF Except
<1>19. CASE Interrupt            BY <1>19 DEF Interrupt, Fails, Waiting
<1> QED
  BY <1>1, <1>2, <1>3, <1>4, <1>5, <1>6, <1>7, <1>8, <1>9, <1>10, <1>11, <1>12, <1>13, <1>14,
     <1>15, <1>16, <1>17, <1>18, <1>19 DEF Runner

\* The uploads and the restore chain go on to their next step, or end.
LEMMA NextTransfer ==
    ASSUME TypeOK, UploadIBEC \/ SendRestore
    PROVE  Order(pc) < Order(pc') \/ (pc' = pc /\ next' = next + 1)
<1> USE DEF Order, Ended, Goto
<1>1. CASE UploadIBEC
  <2>1. PICK after : Transfer(after) /\ after \in {"marker", "loop", "iBEC"}
    BY <1>1 DEF UploadIBEC
  <2>2. pc = "iBEC" /\ (pc' = "except" \/ (pc' = after /\ next' = next + 1))
    BY <1>1, <2>1, TransferEnds DEF UploadIBEC
  <2>3. CASE pc' \in {"marker", "loop", "except"}
    BY <2>2, <2>3
  <2>4. CASE pc' = "iBEC"
    BY <2>2, <2>4
  <2> QED BY <2>1, <2>2, <2>3, <2>4
<1>2. CASE SendRestore
  <2>1. pc = "restore" /\ (pc' = "loop" \/ (pc' = "restore" /\ next' = next + 1))
    BY <1>2 DEF SendRestore
  <2>2. CASE pc' = "loop"
    BY <2>1, <2>2
  <2> QED BY <2>1, <2>2
<1> QED BY <1>1, <1>2

\* Whatever the guest answers, each step of the runner, its exception handler and
\* an interrupt lead on, to a later place or to the next transfer of the plan,
\* which RunnerTypes bounds: no transfer is repeated and no wait entered twice.
THEOREM RunGoesOn == Spec => [][Runner \/ Interrupt => Onward]_vars
<1>1. TypeOK /\ [Next]_vars => [Runner \/ Interrupt => Onward]_vars
  BY LaterPlace, NextTransfer DEF Onward
<1> QED BY <1>1, RunnerTypes, PTL DEF Spec

=============================================================================
