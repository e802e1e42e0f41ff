------------------------------ MODULE VMapple ------------------------------
(***************************************************************************)
(* The VMApple runner of x86/vmapple.py: run() starts QEMU and either      *)
(* watches the UART of a direct macOS boot, or drives a recovery guest     *)
(* over the USB socket: personalised iBSS by DFU, iBEC, and the restore    *)
(* chain of x86/vmapple_restore.py, one exchange at a time.  The guest may *)
(* accept, refuse, lose an answer, panic or reset; QEMU may exit, or stay  *)
(* after SIGTERM and SIGKILL; the caller's inputs may be edited once.      *)
(*                                                                         *)
(* A timeout may come at any moment of the wait it bounds.  The UART is    *)
(* the order in which the marks first appear; the log's bounded tail is    *)
(* taken to hold them.                                                     *)
(***************************************************************************)
EXTENDS Naturals, Sequences

CONSTANTS Configs,      \* the requests the runner is given
          Systems,      \* the macOS releases the guest's disk may hold
          MaxResets     \* how often the guest resets by itself (a bound)

Requests == [boot : {"macos", "recovery"}, live : BOOLEAN, ibec : BOOLEAN, chain : BOOLEAN,
             logo : BOOLEAN, duration : BOOLEAN, target : Nat]

ASSUME ConfigsAssumption == Configs \subseteq Requests
ASSUME SystemsAssumption == Systems \subseteq Nat
ASSUME ResetsAssumption  == MaxResets \in Nat

VARIABLES config,       \* VMappleConfig, validated
          pc,           \* where run() is
          qemu,         \* the child process
          signalled,    \* the runner sent it a signal (history)
          stage,        \* what the guest executes
          nonce,        \* of its USB identity, new after every reset
          system,       \* what its disk holds
          uart,         \* the marks in serial.log
          got,          \* the steps the guest received over USB, in order (history)
          inputs,       \* the caller's files: original, or edited
          stop,         \* the stop file
          identity,     \* the live identity a ticket is requested for
          sources,      \* the inputs when the present step recorded them
          ticket,       \* the nonce the current image is personalised for
          next,         \* the next step of the plan
          held,         \* the restore transport is kept open
          report        \* launch.json

guest  == <<stage, nonce, uart, got>>
fixed  == <<config, system>>
helper == <<identity, sources, ticket, next>>
vars   == <<fixed, pc, qemu, signalled, guest, inputs, stop, helper, held, report>>

Uploads == <<"policy", "lpolrestore", "iBEC", "go">>
Logo    == <<"RestoreLogo", "setpicture", "bgcolor">>
Chain   == <<"RestoreTrustCache", "firmware", "RestoreRamDisk", "ramdisk",
             "RestoreDeviceTree", "devicetree", "RestoreKernelCache",
             "notify", "extra", "setenv", "bootx">>
Optional == {"notify", "extra"}

IBECSteps(c)  == IF c.live THEN Uploads ELSE <<"iBEC">>
ChainSteps(c) == (IF c.logo THEN Logo ELSE <<>>) \o Chain
Plan(c) == <<"iBSS">> \o IBECSteps(c) \o (IF c.chain THEN ChainSteps(c) ELSE <<>>)

\* A step is known by its position in the plan; received: got, as a set, and
\* what the report acknowledges of it.
Steps    == DOMAIN Plan(config)
Required == {k \in Steps : Plan(config)[k] \notin Optional}
Received == {got[i] : i \in DOMAIN got}
Acked    == {report.acked[i] : i \in DOMAIN report.acked}

\* The Darwin major of a macOS release, from os_data.
Darwin(release) == release - 1

Ended == {"returned", "raised"}
Waiting == {"storage", "spawn", "socket", "gate", "observe", "verdict", "watch",
            "term-wait", "kill-wait", "collect", "iBSS-identity", "iBSS-ticket",
            "dfu", "probe", "iBEC-identity", "iBEC-ticket", "policy-ticket",
            "iBEC", "marker", "prepare", "restore", "loop", "final", "except"}
Stages == {"off", "avp", "rom", "iBSS", "recovery", "loading", "stage2",
           "prompt", "booting", "kernel", "user", "panicked"}
Firmware == {"avp", "iBSS", "recovery", "loading", "stage2", "prompt", "booting"}
Marks == {"banner", "prompt", "panic", "xnu", "userspace"}

NoReport == [inputs |-> "none", termination |-> "none", started |-> FALSE, acked |-> <<>>,
             executed |-> FALSE, chain |-> "none", bootx |-> FALSE,
             seen |-> <<>>, version |-> FALSE, verified |-> FALSE, cleanup |-> "none",
             integrity |-> "unchecked", gated |-> FALSE, error |-> FALSE]

Terminations == {"none", "guest_exit", "time_budget", "stop_file", "evidence",
                 "stage2-panic", "stage2-timeout", "error"}
ChainStates  == {"none", "failed", "sent", "post-bootx-panic"}
Cleanups     == {"none", "complete", "incomplete"}

Reports ==
    [inputs : {"none", "original", "edited"}, termination : Terminations,
     started : BOOLEAN, acked : Seq(Nat), executed : BOOLEAN, chain : ChainStates,
     bootx : BOOLEAN, seen : Seq(Marks), version : BOOLEAN, verified : BOOLEAN,
     cleanup : Cleanups,
     integrity : {"unchecked", "same", "changed"}, gated : BOOLEAN, error : BOOLEAN]

TypeOK ==
    /\ config \in Configs /\ system \in Systems
    /\ pc \in Waiting \union Ended
    /\ qemu \in {"none", "running", "exited"} /\ signalled \in BOOLEAN
    /\ stage \in Stages /\ nonce \in 0..MaxResets
    /\ uart \in Seq(Marks) /\ got \in Seq(Steps)
    /\ inputs \in {"original", "edited"} /\ sources \in {"original", "edited"}
    /\ stop \in BOOLEAN /\ held \in BOOLEAN
    /\ identity \in Stages \X (0..MaxResets) /\ ticket \in 0..MaxResets
    /\ next \in 1..(Len(Plan(config)) + 1)
    /\ report \in Reports

Init ==
    /\ config \in Configs /\ system \in Systems
    /\ pc = "storage" /\ qemu = "none" /\ signalled = FALSE
    /\ stage = "off" /\ nonce = 0 /\ uart = <<>> /\ got = <<>>
    /\ inputs = "original" /\ sources = "original" /\ stop = FALSE
    /\ identity = <<"off", 0>> /\ ticket = 0 /\ next = 1 /\ held = FALSE
    /\ report = NoReport

-----------------------------------------------------------------------------
(* The guest, its host and the user.                                       *)

\* Both marks are in the log, a not after b; every mark is there once.
Before(log, a, b) == \E i, j \in DOMAIN log : i <= j /\ log[i] = a /\ log[j] = b
Has(mark) == \E i \in DOMAIN uart : uart[i] = mark
Emit(mark) == uart' = IF Has(mark) THEN uart ELSE Append(uart, mark)

\* The firmware goes on to its next stage and prints the mark of it.
Advance ==
    /\ qemu = "running"
    /\ \/ stage = "iBSS" /\ stage' = "recovery" /\ UNCHANGED uart
       \/ stage = "loading" /\ stage' = "stage2" /\ Emit("banner")
       \/ stage = "stage2" /\ stage' = "prompt" /\ Emit("prompt")
       \/ stage \in {"avp", "booting"} /\ stage' = "kernel" /\ Emit("xnu")
       \/ stage = "kernel" /\ stage' = "user" /\ Emit("userspace")
    /\ UNCHANGED <<fixed, pc, qemu, signalled, nonce, got, inputs, stop, helper,
                   held, report>>

\* The firmware's own text may hold a word that the userspace marks list.
Stray ==
    /\ qemu = "running" /\ stage = "avp" /\ nonce = 0 /\ ~Has("userspace")
    /\ Emit("userspace")
    /\ UNCHANGED <<fixed, pc, qemu, signalled, stage, nonce, got, inputs, stop,
                   helper, held, report>>

Panic ==
    /\ qemu = "running" /\ stage \in Firmware
    /\ stage' = "panicked" /\ Emit("panic")
    /\ UNCHANGED <<fixed, pc, qemu, signalled, nonce, got, inputs, stop, helper,
                   held, report>>

Reset ==
    /\ qemu = "running" /\ nonce < MaxResets
    /\ stage' = IF config.boot = "macos" THEN "avp" ELSE "rom"
    /\ nonce' = nonce + 1
    /\ UNCHANGED <<fixed, pc, qemu, signalled, uart, got, inputs, stop, helper,
                   held, report>>

Exit ==
    /\ qemu = "running" /\ qemu' = "exited"
    /\ UNCHANGED <<fixed, pc, signalled, guest, inputs, stop, helper, held, report>>

Edit ==
    /\ inputs = "original" /\ inputs' = "edited"
    /\ UNCHANGED <<fixed, pc, qemu, signalled, guest, stop, helper, held, report>>

RequestStop ==
    /\ ~stop /\ pc \notin Ended /\ stop' = TRUE
    /\ UNCHANGED <<fixed, pc, qemu, signalled, guest, inputs, helper, held, report>>

\* What the guest makes of a transfer: iBSS starts only in the ROM, iBEC only
\* from iBSS, and only with a ticket for the identity it has.
Fresh == ~config.live \/ ticket = nonce
Listens(step) ==
    CASE step = "iBSS" -> stage = "rom"
      [] step \in {"policy", "lpolrestore", "iBEC", "go"} -> stage = "recovery"
      [] OTHER -> stage = "prompt"
After(step) ==
    CASE step = "iBSS" /\ Fresh -> "iBSS"
      [] step = "go" /\ Fresh -> "loading"
      [] step = "bootx" -> "booting"
      [] OTHER -> stage

-----------------------------------------------------------------------------
(* The runner.  A failure in the body of run() goes to its handler.        *)

RunnerOnly == UNCHANGED <<fixed, inputs, stop>>
Steady == RunnerOnly /\ UNCHANGED <<qemu, signalled, guest>>
Goto(place) == pc' = place
Fails == /\ Goto("except")
         /\ Steady /\ UNCHANGED <<helper, held, report>>

\* _terminate_process: SIGTERM, a wait, SIGKILL, a wait; a child in the kernel
\* may survive them all.  gone tells whether the child has exited after it.
Cleanup(gone) == IF gone THEN "complete" ELSE "incomplete"
TerminateProcess(gone) ==
    /\ qemu \in {"none", "exited"} => gone
    /\ qemu' = IF gone /\ qemu = "running" THEN "exited" ELSE qemu
    /\ signalled' = (signalled \/ qemu = "running")

\* The run's directory, its copy-on-write storage, the command and the hashes
\* of the inputs; without them there is no report to complete.
CreateStorage ==
    /\ pc = "storage"
    /\ \/ /\ Goto("spawn") /\ report' = [report EXCEPT !.inputs = inputs]
          /\ Steady /\ UNCHANGED <<helper, held>>
       \/ Fails

Spawn ==
    /\ pc = "spawn"
    /\ \/ /\ Goto("socket") /\ qemu' = "running"
          /\ stage' = IF config.boot = "macos" THEN "avp" ELSE "rom"
          /\ report' = [report EXCEPT !.started = TRUE]
          /\ RunnerOnly
          /\ UNCHANGED <<signalled, nonce, uart, got, helper, held>>
       \/ Fails

\* The recovery socket appears; a direct boot only looks whether QEMU lives.
WaitForSocket ==
    /\ pc = "socket"
    /\ \/ /\ qemu = "running" /\ Goto("gate")
          /\ Steady /\ UNCHANGED <<helper, held, report>>
       \/ /\ qemu = "exited" \/ config.boot = "recovery"
          /\ Fails

Gate ==
    /\ pc = "gate"
    /\ Goto(IF config.boot = "macos" THEN "observe"
            ELSE IF config.live THEN "iBSS-identity" ELSE "dfu")
    /\ Steady /\ UNCHANGED <<helper, held, report>>

(* Direct boot. *)

TargetMatches == Darwin(system) = config.target

\* _observe_direct_macos_boot: both marks, in any order, and the version, which
\* is read from the kernel's mark when that is found; a mark still cut short
\* then has none, and is not read again.
Observe ==
    /\ pc = "observe" /\ Goto("verdict")
    /\ \E version \in {FALSE, Has("xnu")} :
          report' = [report EXCEPT
            !.seen = uart, !.version = version,
            !.verified = Has("userspace") /\ version /\ TargetMatches]
    /\ Steady /\ UNCHANGED <<helper, held>>

\* Mutant: the signal is sent and the reason is not recorded.
GiveUpQuietly ==
    /\ pc = "verdict" /\ Goto("watch")
    /\ signalled' = (signalled \/ (~report.verified /\ qemu = "running"))
    /\ RunnerOnly /\ UNCHANGED <<qemu, guest, helper, held, report>>

GiveUpWithoutEvidence ==
    /\ pc = "verdict" /\ Goto("watch")
    /\ IF ~report.verified /\ qemu = "running"
       THEN /\ report' = [report EXCEPT !.termination = "evidence"]
            /\ signalled' = TRUE
       ELSE UNCHANGED <<report, signalled>>
    /\ RunnerOnly /\ UNCHANGED <<qemu, guest, helper, held>>

\* Mutant: the stop file is looked for only under a time budget.
StopOnlyInBudget ==
    IF config.duration
    THEN {"time_budget"} \union (IF stop THEN {"stop_file"} ELSE {}) ELSE {}

\* Why a loop over a living guest ends: its time budget, or the stop file.
Reasons == (IF config.duration THEN {"time_budget"} ELSE {})
           \union (IF stop THEN {"stop_file"} ELSE {})

Watch ==
    /\ pc = "watch"
    /\ \/ /\ qemu = "exited" /\ Goto("collect")
          /\ UNCHANGED <<report, signalled>>
       \/ \E reason \in Reasons :
             /\ qemu = "running" /\ Goto("term-wait")
             /\ report' = [report EXCEPT !.termination = reason]
             /\ signalled' = TRUE
    /\ RunnerOnly /\ UNCHANGED <<qemu, guest, helper, held>>

TermWait ==
    /\ pc = "term-wait"
    /\ \/ qemu = "exited" /\ Goto("collect") /\ UNCHANGED qemu
       \/ qemu = "running" /\ Goto("kill-wait") /\ qemu' \in {"running", "exited"}
    /\ RunnerOnly /\ UNCHANGED <<signalled, guest, helper, held, report>>

KillWait ==
    /\ pc = "kill-wait"
    /\ \/ /\ qemu = "exited" /\ Goto("collect")
          /\ Steady /\ UNCHANGED <<helper, held, report>>
       \/ qemu = "running" /\ Fails

OwnExit(r) == IF r.termination = "none" THEN "guest_exit" ELSE r.termination
Integrity == IF inputs = report.inputs THEN "same" ELSE "changed"

\* Mutant: the marks count in any order.
HandoffUnordered(r) ==
    /\ config.boot = "macos" /\ r.started
    /\ \A mark \in {"xnu", "userspace"} : Before(r.seen, mark, mark)
    /\ r.version /\ TargetMatches
    /\ Integrity = "same"

\* _apply_iboot_xnu_handoff_gate: XNU first, this target, unchanged inputs.
Handoff(r) == /\ config.boot = "macos" /\ r.started
              /\ Before(r.seen, "xnu", "userspace") /\ r.version /\ TargetMatches
              /\ Integrity = "same"

Collect ==
    /\ pc = "collect" /\ Goto("returned")
    /\ report' = [report EXCEPT
         !.termination = OwnExit(report), !.integrity = Integrity,
         !.verified = Handoff(report), !.gated = TRUE,
         !.error = Integrity = "changed" \/ ~Handoff(report)]
    /\ Steady /\ UNCHANGED <<helper, held>>

(* Recovery. *)

\* personalize_firmware reads the live identity; the iBSS needs an idle ROM,
\* the iBEC the iBSS or, as the check is written, an idle ROM as well.
Identify(place, stages, after) ==
    /\ pc = place
    /\ \/ /\ qemu = "running" /\ stage \in stages
          /\ identity' = <<stage, nonce>> /\ sources' = inputs
          /\ Goto(after)
          /\ Steady /\ UNCHANGED <<ticket, next, held, report>>
       \/ Fails

\* A ticket counts when the identity and the inputs are still the same; that
\* of the restore policy is bound to the one of the iBEC.
Ticket(place, after) ==
    /\ pc = place
    /\ \/ /\ qemu = "running" /\ identity = <<stage, nonce>> /\ sources = inputs
          /\ ticket' = nonce /\ Goto(after)
          /\ Steady /\ UNCHANGED <<identity, sources, next, held, report>>
       \/ Fails

Personalise ==
    \/ Identify("iBSS-identity", {"rom"}, "iBSS-ticket")
    \/ Ticket("iBSS-ticket", "dfu")
    \/ Identify("iBEC-identity", {"rom", "recovery"}, "iBEC-ticket")
    \/ Ticket("iBEC-ticket", "policy-ticket")
    \/ Ticket("policy-ticket", "iBEC")

\* A transfer is answered; or received and its answer lost; or refused, or
\* never heard of.
Step == Plan(config)[next]
Receive ==
    /\ qemu = "running" /\ Listens(Step)
    /\ stage' = After(Step) /\ got' = Append(got, next)
    /\ UNCHANGED <<nonce, uart>>
Acknowledged == [report EXCEPT !.acked = Append(@, next)]
Transferring == RunnerOnly /\ UNCHANGED <<qemu, signalled, identity, sources, ticket>>
Lost == Receive \/ UNCHANGED guest

\* Mutant: a step without an answer is sent again.
TransferAgain(after) ==
    /\ Transferring /\ UNCHANGED held
    /\ \/ Receive /\ report' = Acknowledged /\ next' = next + 1 /\ Goto(after)
       \/ Receive /\ UNCHANGED <<report, next, pc>> /\ Len(got) < Len(Plan(config))
       \/ UNCHANGED <<guest, report, next>> /\ Goto("except")

Transfer(after) ==
    /\ Transferring /\ UNCHANGED held
    /\ \/ Receive /\ report' = Acknowledged /\ next' = next + 1 /\ Goto(after)
       \/ Lost /\ UNCHANGED <<report, next>> /\ Goto("except")

UploadIBSS == pc = "dfu" /\ Transfer("probe")

\* _probe_transition asks until endpoint 4 is advertised, or the time is over.
Probe ==
    /\ pc = "probe"
    /\ \/ /\ qemu = "running" /\ stage = "recovery"
          /\ Goto(IF config.live THEN "iBEC-identity"
                  ELSE IF config.ibec THEN "iBEC" ELSE "loop")
       \/ Goto("loop")
    /\ Steady /\ UNCHANGED <<helper, held, report>>

UploadIBEC ==
    /\ pc = "iBEC"
    /\ Transfer(CASE Step = "go" -> "marker"
                  [] ~config.live -> "loop"
                  [] OTHER -> "iBEC")

\* _wait_serial_marker: the prompt, unless a panic came before it.
First(mark) == Has(mark) /\ (Has("panic") => Before(uart, mark, "panic"))

WaitForPrompt ==
    /\ pc = "marker"
    /\ \/ /\ First("prompt")
          /\ report' = [report EXCEPT !.executed = TRUE]
          /\ Goto(IF config.chain THEN "prepare" ELSE "loop")
          /\ UNCHANGED <<qemu, signalled>>
       \/ \E gone \in BOOLEAN :
             /\ ~First("prompt") /\ TerminateProcess(gone)
             /\ report' = [report EXCEPT
                  !.executed = First("banner"), !.cleanup = Cleanup(gone),
                  !.chain = IF config.chain THEN "failed" ELSE @,
                  !.termination = IF Has("panic") THEN "stage2-panic"
                                  ELSE "stage2-timeout"]
             /\ Goto("final")
    /\ RunnerOnly /\ UNCHANGED <<guest, helper, held>>

\* run_restore_sequence: the roles are normalised and wrapped, then sent in
\* order.  An error, or an interrupt, is kept in its report: it ends the chain,
\* and the run goes on.
Completed(r, sent) ==
    [r EXCEPT !.bootx = sent,
              !.chain = IF sent /\ sources = inputs THEN "sent" ELSE "failed"]
PrepareRestore ==
    /\ pc = "prepare"
    /\ \/ /\ Goto("restore") /\ sources' = inputs
          /\ Steady /\ UNCHANGED <<identity, ticket, next, held, report>>
       \/ /\ Goto("loop") /\ report' = Completed(report, FALSE)
          /\ Steady /\ UNCHANGED <<helper, held>>
       \/ Fails

SendRestore ==
    /\ pc = "restore" /\ Transferring
    /\ \/ /\ Receive /\ next' = next + 1
          /\ LET last == Step = "bootx" IN
             /\ report' = IF last THEN Completed(Acknowledged, TRUE) ELSE Acknowledged
             /\ held' = last
             /\ Goto(IF last THEN "loop" ELSE "restore")
       \/ \* a refused notification is passed over; an extra command also when it
          \* arrived and only its answer was broken
          /\ Step \in Optional /\ next' = next + 1
          /\ UNCHANGED guest \/ (Step = "extra" /\ Receive)
          /\ UNCHANGED <<report, held, pc>>
       \/ /\ Lost /\ report' = Completed(report, FALSE) /\ Goto("loop")
          /\ UNCHANGED <<next, held>>

Loop ==
    /\ pc = "loop" /\ Goto("final")
    /\ \/ qemu = "exited" /\ UNCHANGED <<qemu, signalled, report>>
       \/ \E reason \in Reasons, gone \in BOOLEAN :
             /\ qemu = "running" /\ TerminateProcess(gone)
             /\ report' = [report EXCEPT !.termination = reason,
                                         !.cleanup = Cleanup(gone)]
    /\ RunnerOnly /\ UNCHANGED <<guest, helper, held>>

\* A last attempt on a child that is still there; a panic found in the log
\* takes the completed chain back.
Final ==
    /\ pc = "final" /\ Goto("returned") /\ held' = FALSE
    /\ \E gone \in BOOLEAN :
          /\ TerminateProcess(gone)
          /\ report' = [report EXCEPT
               !.cleanup = IF qemu = "running" THEN Cleanup(gone) ELSE @,
               !.termination = OwnExit(report),
               !.chain = IF @ = "sent" /\ Has("panic") THEN "post-bootx-panic" ELSE @,
               !.integrity = Integrity, !.gated = TRUE,
               !.error = Integrity = "changed"]
    /\ RunnerOnly /\ UNCHANGED <<guest, helper>>

\* The handler of run(): clean up, complete the report, close what is held; a
\* direct boot returns its report, a recovery raises the error again.
Except ==
    /\ pc = "except" /\ held' = FALSE
    /\ Goto(IF config.boot = "macos" THEN "returned" ELSE "raised")
    /\ \E gone \in BOOLEAN :
          /\ TerminateProcess(gone)
          /\ report' = [report EXCEPT
               !.cleanup = IF qemu = "none" THEN @ ELSE Cleanup(gone),
               !.termination = IF @ = "none" THEN "error" ELSE @,
               !.integrity = Integrity, !.error = TRUE]
    /\ RunnerOnly /\ UNCHANGED <<guest, helper>>

\* Ctrl-C: KeyboardInterrupt reaches the handler from wherever run() is.
Interrupt == pc \in Waiting \ {"except", "restore"} /\ Fails

Over == pc \in Ended /\ UNCHANGED vars

Runner == \/ CreateStorage \/ Spawn \/ WaitForSocket \/ Gate
          \/ Observe \/ GiveUpWithoutEvidence \/ Watch \/ TermWait \/ KillWait
          \/ Collect
          \/ Personalise \/ UploadIBSS \/ Probe \/ UploadIBEC \/ WaitForPrompt
          \/ PrepareRestore \/ SendRestore \/ Loop \/ Final \/ Except
Environment == Advance \/ Stray \/ Panic \/ Reset \/ Exit \/ Edit \/ RequestStop
               \/ Interrupt

Next == Runner \/ Environment \/ Over
Spec == Init /\ [][Next]_vars
FairSpec == Spec /\ WF_vars(Runner)

-----------------------------------------------------------------------------
(* What the reports promise.                                               *)

\* The acknowledged steps are steps the guest received, in the order of the plan;
\* it received none twice, and none with a required one left out before it.  Of
\* what it received only the last step may go unacknowledged, its answer lost, and
\* an extra command.  iBEC is called executed only after the guest was told to go,
\* and the chain sent only when every required step of it arrived.
ReportIsHonest ==
    /\ Acked \subseteq Received
    /\ \A i, j \in DOMAIN report.acked : i < j => report.acked[i] < report.acked[j]
    /\ \A i, j \in DOMAIN got : i < j => got[i] < got[j]
    /\ \A i \in DOMAIN got : \A k \in Required : k < got[i] => k \in Received
    /\ \A i \in DOMAIN got :
          i < Len(got) /\ Plan(config)[got[i]] # "extra" => got[i] \in Acked
    /\ report.executed => \E k \in Received : Plan(config)[k] = "go"
    /\ report.chain \in {"sent", "post-bootx-panic"} => Required \subseteq Received

\* A run that says the guest exited by itself never signalled it, and a run
\* that leaves QEMU behind says so.
LeavesNothingSilently ==
    pc \in Ended =>
        /\ report.termination = "guest_exit" => qemu = "exited" /\ ~signalled
        /\ qemu = "running" => report.cleanup = "incomplete"
        /\ ~held

\* A boot the handoff gate lets stand as verified is one whose guest did reach
\* userspace, after its kernel, on the inputs the run started with, whatever
\* the firmware printed before.
VerifiedIsUserspace ==
    pc \in Ended /\ report.verified /\ report.gated =>
        /\ config.boot = "macos" /\ report.integrity = "same"
        /\ nonce = 0 => stage = "user"

\* Violated: a report that is returned or left behind does not say verified
\* unless the handoff gate accepted it.  The handler of run() passes the gate by.
VerifiedIsGated == pc \in Ended /\ report.verified => report.gated

\* Violated: a boot verified for a target macOS is a boot of that macOS.  The
\* observer compares the Darwin major with the release number.
VerifiedIsTheTarget ==
    pc \in Ended /\ report.verified /\ report.gated => system = config.target

\* A run with a time budget, or told to stop, ends, whatever QEMU does.
Ends == config.duration \/ stop ~> pc \in Ended
=============================================================================
