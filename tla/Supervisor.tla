------------------------------ MODULE Supervisor ------------------------------
(***************************************************************************)
(* run_owned of recovery_supervisor.py: a worker runs in a session of its  *)
(* own; when it ends, is stopped, or runs out of time, the supervisor      *)
(* waits, then terminates, then kills what /proc lists in that session.    *)
(*                                                                         *)
(* A scan reads a list of process numbers first and each process after; a  *)
(* signal goes through two identity checks and a pidfd.  In between, the   *)
(* worker's processes fork, exit and leave the session, and numbers that   *)
(* became free are taken by unrelated processes; the worker's own number   *)
(* too, once the worker was reaped and nobody is left in its session.  A   *)
(* session belongs to the process that made it; the supervisor only looks  *)
(* at its number.  Time is the phase of the cleanup it belongs to.         *)
(***************************************************************************)
EXTENDS Naturals

CONSTANTS
    PIDs,           \* process numbers
    Leader,         \* the number of the worker, and of its session
    Reusable,       \* numbers new processes may get once they are free
    MaxBirths,      \* bound: processes created
    MaxFaults       \* bound: failing scans, failing signals and exceptions

ASSUME SupervisorAssumption ==
    /\ Leader \in PIDs /\ Reusable \subseteq PIDs
    /\ "supervisor" \notin PIDs /\ "others" \notin PIDs
    /\ MaxBirths \in Nat \ {0} /\ MaxFaults \in Nat

VARIABLES
    proc,       \* the process behind each number
    births,     \* processes created so far: their start times
    stage,      \* which loop of run_owned runs
    pc,         \* what the supervisor does next
    listed,     \* the numbers a scan found in /proc
    seen,       \* history: births at that moment
    members,    \* identities the last complete scan found in the session
    todo,       \* members the running loop still has to signal
    sig,        \* signum
    target,     \* identity whose first check passed
    fd,         \* start time of the process the pidfd pins, 0 when it failed
    phase,      \* the age of the cleanup, or how far the deadline is
    stop,       \* cancel.requested
    code,       \* process.returncode is not None
    eof,        \* both pipes were read to their end
    scanOK,     \* scan_ok
    complete,   \* result["cleanup"]["complete"]
    wronged,    \* history: the sessions in which an unrelated process was signalled
    faults

envVars  == <<proc, births>>
scanVars == <<listed, seen, members>>
sigVars  == <<todo, sig, target, fd>>
outVars  == <<code, eof, scanOK, complete>>
vars == <<envVars, stage, pc, scanVars, sigVars, phase, stop, outVars, wronged, faults>>

Times == 0..MaxBirths
Identities == [pid : PIDs, born : Times]
Processes == [born : Times, sess : Identities, kin : BOOLEAN, up : BOOLEAN, killed : BOOLEAN,
              pipe : BOOLEAN, parent : PIDs \union {"supervisor", "others"}]

Stages == {"start", "main", "enter", "last", "end"}
Scan == {"reap", "list", "read"}
PCs == Scan \union {"confirm", "decide", "signal", "open", "send", "test", "drain", "next", "done"}
Phases == {"work", "late", "missed", "grace", "term", "kill", "over"}
Signums == {"none", "TERM", "KILL"}

TypeOK ==
    /\ proc \in [PIDs -> Processes] /\ births \in Times
    /\ stage \in Stages /\ pc \in PCs
    /\ listed \subseteq PIDs /\ seen \in Times /\ members \subseteq Identities
    /\ todo \subseteq Identities /\ sig \in Signums
    /\ target \in Identities /\ fd \in Times
    /\ phase \in Phases
    /\ stop \in BOOLEAN /\ code \in BOOLEAN /\ eof \in BOOLEAN
    /\ scanOK \in BOOLEAN /\ complete \in BOOLEAN
    /\ wronged \subseteq Identities /\ faults \in 0..MaxFaults

\* The worker, and the session it makes.
Worker == [pid |-> Leader, born |-> 1]

Nobody == [born |-> 0, sess |-> Worker, kin |-> FALSE, up |-> FALSE, killed |-> FALSE,
           pipe |-> FALSE, parent |-> "others"]

NoTarget == Worker

Exists(p) == proc[p].born # 0
InSession(p) == Exists(p) /\ proc[p].sess.pid = Leader
Owned(p) == Exists(p) /\ proc[p].sess = Worker
Zombie(p) == Exists(p) /\ ~proc[p].up

\* A number is free when no process has it and no session is named by it.
Unused == {p \in Reusable : ~Exists(p) /\ \A q \in PIDs : Exists(q) => proc[q].sess.pid # p}

\* process_identity(pid) == identity
Matches(id) == InSession(id.pid) /\ proc[id.pid].born = id.born

Init ==
    /\ proc = [p \in PIDs |->
          IF p = Leader THEN [Nobody EXCEPT !.born = 1, !.kin = TRUE, !.up = TRUE, !.pipe = TRUE,
                                            !.parent = "supervisor"]
                        ELSE Nobody]
    /\ births = 1
    /\ stage = "start" /\ pc = "confirm"
    /\ listed = {} /\ seen = 0 /\ members = {}
    /\ todo = {} /\ sig = "none" /\ target = NoTarget /\ fd = 0
    /\ phase = "work" /\ stop = FALSE
    /\ code = FALSE /\ eof = FALSE /\ scanOK = TRUE /\ complete = FALSE
    /\ wronged = {} /\ faults = 0

-----------------------------------------------------------------------------
(* The worker's processes, the others, the user and the clock              *)

selfVars == <<stage, pc, scanVars, sigVars, outVars, wronged, faults>>

Running(p) == proc[p].kin /\ proc[p].up

Born(p, r) ==
    /\ births < MaxBirths
    /\ births' = births + 1
    /\ proc' = [proc EXCEPT ![p] = [r EXCEPT !.born = births + 1]]

Fork(p) ==
    /\ Running(p) /\ ~proc[p].killed
    /\ \E q \in Unused, pipe \in {proc[p].pipe, FALSE} :
          Born(q, [proc[p] EXCEPT !.parent = p, !.pipe = pipe])
    /\ UNCHANGED <<selfVars, phase, stop>>

\* setsid(): a daemon leaves the session.
Leave(p) ==
    /\ Running(p) /\ ~proc[p].killed /\ proc[p].sess.pid # p
    /\ proc' = [proc EXCEPT ![p].sess = [pid |-> p, born |-> proc[p].born]]
    /\ UNCHANGED <<births, selfVars, phase, stop>>

\* Its children are adopted by the nearest subreaper.
Exit(p) ==
    /\ Running(p)
    /\ proc' = [q \in PIDs |->
          IF q = p THEN [proc[q] EXCEPT !.up = FALSE, !.killed = FALSE, !.pipe = FALSE]
          ELSE IF proc[q].parent = p THEN [proc[q] EXCEPT !.parent = "supervisor"]
          ELSE proc[q]]
    /\ UNCHANGED <<births, selfVars, phase, stop>>

ParentReaps(p) ==
    /\ proc[p].kin /\ Zombie(p) /\ proc[p].parent # "supervisor"
    /\ proc' = [proc EXCEPT ![p] = Nobody]
    /\ UNCHANGED <<births, selfVars, phase, stop>>

\* An unrelated process, in a session of its own or of another one.
Stranger(p) == Exists(p) /\ ~proc[p].kin

StrangerStarts(p) ==
    /\ p \in Unused
    /\ \E sess \in {[pid |-> p, born |-> births + 1]}
                     \union {proc[q].sess : q \in {q \in PIDs : Stranger(q)}} :
          Born(p, [Nobody EXCEPT !.sess = sess, !.up = TRUE])
    /\ UNCHANGED <<selfVars, phase, stop>>

StrangerExits(p) ==
    /\ Stranger(p)
    /\ proc' = [proc EXCEPT ![p] = Nobody]
    /\ UNCHANGED <<births, selfVars, phase, stop>>

\* A stop signal or the stop file; once the cleanup runs nobody asks for it.
Stop ==
    /\ ~stop /\ phase \in {"work", "late"}
    /\ stop' = TRUE
    /\ UNCHANGED <<envVars, selfVars, phase>>

\* Past work_end ("late") and past end without a cleanup ("missed"); 20 %, 60 %
\* and 100 % of the cleanup's span.
Tick ==
    /\ \/ phase = "work"  /\ phase' = "late"
       \/ phase = "late"  /\ phase' = "missed"
       \/ phase = "grace" /\ phase' = "term"
       \/ phase = "term"  /\ phase' = "kill"
       \/ phase = "kill"  /\ phase' = "over"
    /\ UNCHANGED <<envVars, selfVars, stop>>

-----------------------------------------------------------------------------
(* refresh()                                                               *)

\* poll() asks for the worker's number until it has a status, and never again.
Adopted == {p \in PIDs : /\ InSession(p) /\ Zombie(p) /\ proc[p].parent = "supervisor"
                         /\ p = Leader => ~code}

Members(numbers) == {id \in Identities : id.pid \in numbers /\ Matches(id)}

\* Mutant: the worker itself is waited for like any other member.
ReapEverybody ==
    /\ pc = "reap"
    /\ members' = Members(PIDs)
    /\ proc' = [p \in PIDs |-> IF p \in Adopted THEN Nobody ELSE proc[p]]
    /\ pc' = "list"
    /\ UNCHANGED <<births, stage, listed, seen, sigVars, phase, stop, outVars, wronged, faults>>

\* The first scan, whose members are waited for: orphans by waitpid, the worker
\* by poll().  Its result only survives when the second scan fails.
Reap ==
    /\ pc = "reap"
    /\ members' = Members(PIDs)
    /\ proc' = [p \in PIDs |-> IF p \in Adopted THEN Nobody ELSE proc[p]]
    /\ code' = (code \/ Leader \in Adopted)
    /\ pc' = "list"
    /\ UNCHANGED <<births, stage, listed, seen, sigVars, phase, stop, eof, scanOK, complete,
                   wronged, faults>>

\* The second scan: the numbers in /proc ...
List ==
    /\ pc = "list"
    /\ listed' = {p \in PIDs : Exists(p)} /\ seen' = births
    /\ pc' = "read"
    /\ UNCHANGED <<envVars, stage, members, sigVars, phase, stop, outVars, wronged, faults>>

\* ... and then who they are.
Read ==
    /\ pc = "read"
    /\ members' = Members(listed)
    /\ listed' = {} /\ pc' = "decide"
    /\ UNCHANGED <<envVars, stage, seen, sigVars, phase, stop, outVars, wronged, faults>>

\* An error in a scan keeps the members of the scan before.
ScanFails ==
    /\ pc \in Scan
    /\ faults < MaxFaults /\ faults' = faults + 1
    /\ scanOK' = FALSE
    /\ listed' = {} /\ pc' = "decide"
    /\ UNCHANGED <<envVars, stage, seen, members, sigVars, phase, stop, code, eof, complete,
                   wronged>>

-----------------------------------------------------------------------------
(* The main loop                                                           *)

Cleaning == phase \in {"grace", "term", "kill", "over"}

\* cleanup_start and cleanup_end are set.
Begun == IF phase = "missed" THEN "over" ELSE "grace"

\* Mutant: the escalation to SIGKILL is forgotten.
SignumGently == IF phase \in {"term", "kill", "over"} THEN "TERM" ELSE "none"

Signum == IF phase \in {"kill", "over"} THEN "KILL" ELSE IF phase = "term" THEN "TERM" ELSE "none"

\* The rest of run_owned, in its finally clause.
EnterFinally == stage' = "enter" /\ pc' = "reap"

\* The worker's identity is read, and the loop entered.
Confirm ==
    /\ pc = "confirm"
    /\ stage' = (IF phase = "missed" THEN "enter" ELSE "main") /\ pc' = "reap"
    /\ UNCHANGED <<envVars, scanVars, sigVars, phase, stop, outVars, wronged, faults>>

\* Without a leader the finally clause has nothing to clean up.
ConfirmFails ==
    /\ pc = "confirm"
    /\ faults < MaxFaults /\ faults' = faults + 1
    /\ stage' = "end" /\ pc' = "done"
    /\ UNCHANGED <<envVars, scanVars, sigVars, phase, stop, outVars, wronged>>

\* No cleanup runs yet.  One that starts too late has no time left.
Watch ==
    /\ pc = "decide" /\ stage = "main" /\ ~Cleaning
    /\ IF code \/ stop \/ phase # "work"
       THEN phase' = Begun /\ pc' = "test"
       ELSE pc' = "drain" /\ UNCHANGED phase
    /\ UNCHANGED <<envVars, stage, scanVars, sigVars, stop, outVars, wronged, faults>>

\* In the main loop, and in the loop of the finally clause.
Aim ==
    /\ pc = "decide" /\ Cleaning
    /\ \/ stage = "main"
       \/ stage = "last" /\ ~(members = {} /\ code)
    /\ sig' = Signum
    /\ todo' = IF Signum = "none" THEN {} ELSE members
    /\ pc' = "signal"
    /\ UNCHANGED <<envVars, stage, scanVars, target, fd, phase, stop, outVars, wronged, faults>>

Test ==
    /\ pc = "test"
    /\ IF (members = {} /\ code /\ eof) \/ phase = "over"
       THEN EnterFinally
       ELSE pc' = "drain" /\ UNCHANGED stage
    /\ UNCHANGED <<envVars, scanVars, sigVars, phase, stop, outVars, wronged, faults>>

\* select() and read; the pipes end when nobody holds them.  The loop ends when
\* the deadline has passed.
Drain ==
    /\ pc = "drain"
    /\ eof' = (eof \/ \A p \in PIDs : ~proc[p].pipe)
    /\ \/ phase \in {"missed", "over"} /\ EnterFinally
       \/ phase # "missed" /\ pc' = "reap" /\ UNCHANGED stage
    /\ UNCHANGED <<envVars, scanVars, sigVars, phase, stop, code, scanOK, complete, wronged, faults>>

\* Mutant: an exception goes straight to the report.
RaiseAway ==
    /\ pc \in {"decide", "test", "drain"} /\ stage = "main"
    /\ faults < MaxFaults /\ faults' = faults + 1
    /\ stage' = "end" /\ pc' = "reap"
    /\ UNCHANGED <<envVars, scanVars, sigVars, phase, stop, outVars, wronged>>

Raise ==
    /\ pc \in {"decide", "test", "drain"} /\ stage = "main"
    /\ faults < MaxFaults /\ faults' = faults + 1
    /\ EnterFinally
    /\ UNCHANGED <<envVars, scanVars, sigVars, phase, stop, outVars, wronged>>

-----------------------------------------------------------------------------
(* signal_member()                                                         *)

\* Mutant: the number is handed on, without the start time.
ChooseNumber ==
    /\ pc = "signal"
    /\ \E id \in todo :
          /\ todo' = todo \ {id} /\ target' = id.pid /\ pc' = "open"
    /\ UNCHANGED <<envVars, stage, scanVars, sig, fd, phase, stop, outVars, wronged, faults>>

\* Mutant: a member is signalled until it is gone.
ChooseUntilGone ==
    /\ pc = "signal"
    /\ \/ /\ todo = {}
          /\ pc' = IF stage = "main" THEN "test" ELSE "next"
          /\ sig' = "none"
          /\ UNCHANGED <<todo, target>>
       \/ \E id \in todo :
             /\ UNCHANGED sig
             /\ IF Matches(id) THEN target' = id /\ pc' = "open" /\ UNCHANGED todo
                               ELSE todo' = todo \ {id} /\ UNCHANGED <<target, pc>>
    /\ UNCHANGED <<envVars, stage, scanVars, fd, phase, stop, outVars, wronged, faults>>

Choose ==
    /\ pc = "signal"
    /\ \/ /\ todo = {}
          /\ pc' = IF stage = "main" THEN "test" ELSE "next"
          /\ sig' = "none"
          /\ UNCHANGED <<todo, target>>
       \/ \E id \in todo :
             /\ todo' = todo \ {id} /\ UNCHANGED sig
             /\ IF Matches(id) THEN target' = id /\ pc' = "open"
                               ELSE UNCHANGED <<target, pc>>
    /\ UNCHANGED <<envVars, stage, scanVars, fd, phase, stop, outVars, wronged, faults>>

\* pidfd_open() pins whatever process has the number now.
Open ==
    /\ pc = "open" /\ Exists(target.pid)
    /\ fd' = proc[target.pid].born
    /\ pc' = "send"
    /\ UNCHANGED <<envVars, stage, scanVars, todo, sig, target, phase, stop, outVars, wronged,
                   faults>>

SignalDone == pc' = "signal" /\ target' = NoTarget /\ fd' = 0

\* ProcessLookupError: nobody has the number any more.
OpenFindsNobody ==
    /\ pc = "open" /\ ~Exists(target.pid)
    /\ SignalDone
    /\ UNCHANGED <<envVars, stage, scanVars, todo, sig, phase, stop, outVars, wronged, faults>>

\* Any other OSError, of the reads of the identity too.
SignalFails ==
    /\ pc \in {"open", "send"}
    /\ faults < MaxFaults /\ faults' = faults + 1
    /\ scanOK' = FALSE
    /\ SignalDone
    /\ UNCHANGED <<envVars, stage, scanVars, todo, sig, phase, stop, code, eof, complete, wronged>>

Deliver ==
    IF proc[target.pid].born = fd
    THEN /\ proc' = [proc EXCEPT ![target.pid].killed = @ \/ (sig = "KILL" /\ proc[target.pid].up)]
         /\ wronged' = IF proc[target.pid].kin THEN wronged
                       ELSE wronged \union {proc[target.pid].sess}
    ELSE UNCHANGED <<proc, wronged>>

\* Mutant: the identity is not checked again behind the pidfd.
SendBlindly ==
    /\ pc = "send"
    /\ Deliver
    /\ SignalDone
    /\ UNCHANGED <<births, stage, scanVars, todo, sig, phase, stop, outVars, faults>>

Send ==
    /\ pc = "send"
    /\ IF Matches(target) THEN Deliver ELSE UNCHANGED <<proc, wronged>>
    /\ SignalDone
    /\ UNCHANGED <<births, stage, scanVars, todo, sig, phase, stop, outVars, faults>>

-----------------------------------------------------------------------------
(* The finally clause                                                      *)

Report == stage' = "end" /\ pc' = "reap"

Enter ==
    /\ pc = "decide" /\ stage = "enter"
    /\ IF members = {}
       THEN Report /\ UNCHANGED phase
       ELSE /\ phase' = IF Cleaning THEN phase ELSE Begun
            /\ pc' = "next" /\ UNCHANGED stage
    /\ UNCHANGED <<envVars, scanVars, sigVars, stop, outVars, wronged, faults>>

Again ==
    /\ pc = "next"
    /\ IF phase = "over" THEN Report ELSE stage' = "last" /\ pc' = "reap"
    /\ UNCHANGED <<envVars, scanVars, sigVars, phase, stop, outVars, wronged, faults>>

AllGone ==
    /\ pc = "decide" /\ stage = "last" /\ members = {} /\ code
    /\ Report
    /\ UNCHANGED <<envVars, scanVars, sigVars, phase, stop, outVars, wronged, faults>>

\* Mutant: the report believes the pipes.
FinishOnEof ==
    /\ pc = "decide" /\ stage = "end"
    /\ complete' = (scanOK /\ code /\ (eof \/ members = {}))
    /\ pc' = "done"
    /\ UNCHANGED <<envVars, stage, scanVars, sigVars, phase, stop, code, eof, scanOK, wronged, faults>>

Finish ==
    /\ pc = "decide" /\ stage = "end"
    /\ complete' = (scanOK /\ code /\ members = {})
    /\ pc' = "done"
    /\ UNCHANGED <<envVars, stage, scanVars, sigVars, phase, stop, code, eof, scanOK, wronged, faults>>

-----------------------------------------------------------------------------

Refresh == Reap \/ List \/ Read
SignalMember == Choose \/ Open \/ OpenFindsNobody \/ Send
SupervisorStep == Confirm \/ Refresh \/ Watch \/ Aim \/ Test \/ Drain \/ SignalMember
                  \/ Enter \/ Again \/ AllGone \/ Finish

Failure == ConfirmFails \/ ScanFails \/ SignalFails \/ Raise

ProcessStep(p) ==
    Fork(p) \/ Leave(p) \/ Exit(p) \/ ParentReaps(p) \/ StrangerStarts(p) \/ StrangerExits(p)

Next ==
    \/ pc # "done" /\ (SupervisorStep \/ Failure \/ Stop \/ Tick)
    \/ pc # "done" /\ \E p \in PIDs : ProcessStep(p)

Spec == Init /\ [][Next]_vars

\* The supervisor is scheduled, what is killed dies, and time passes; only the
\* kill phase may last for ever, because nothing bounds the time a kill takes.
FairSpec ==
    /\ Spec
    /\ WF_vars(pc # "done" /\ SupervisorStep)
    /\ WF_vars(pc # "done" /\ phase # "kill" /\ Tick)
    /\ WF_vars(pc # "done" /\ \E p \in PIDs : proc[p].killed /\ Exit(p))

-----------------------------------------------------------------------------
(* Safety                                                                  *)

\* Only processes the worker started are signalled, whatever happens to a process
\* number between the scan, the checks and the signal.  The one exception is the
\* session of whoever was given the worker's own number, which takes that the
\* worker was reaped and its status reported.
NoStrangerSignalled ==
    \A session \in wronged : session.pid = Leader /\ session.born > 1 /\ code

\* Violated: nobody unrelated is signalled at all.  A session made under the
\* worker's number is taken for the worker's.
NobodyElseSignalled == wronged = {}

\* The worker's exit status is reported exactly when the worker was reaped: the
\* collection of orphans never takes it away.
ExitStatusKept == code <=> proc[Leader].born # 1

\* A cleanup reported complete left nobody in the session, but for a process that
\* was forked after the last scan listed /proc.
CompleteButForked ==
    pc = "done" /\ complete => \A p \in PIDs : Owned(p) => proc[p].born > seen

\* A worker is only given up, unreaped, when all the time there was for its cleanup
\* is over: no exception, early stop or return of the main loop cuts it short, as
\* long as the scans work.
NotGivenUpEarly == pc = "done" /\ seen # 0 /\ scanOK /\ ~code => phase = "over"

\* "Even a scan/pipe exception cannot skip the owned cleanup path": when somebody
\* is left, a cleanup was at least started, or there was no time for it.
CleanupNotSkipped ==
    pc = "done" /\ (\E p \in PIDs : Owned(p) /\ proc[p].up) => Cleaning \/ phase = "missed"

-----------------------------------------------------------------------------
(* Liveness                                                                *)

\* run_owned returns once the clock leaves the kill phase behind, also when a daemon
\* that left the session holds the pipes, nobody waits for a dead child, or a scan,
\* a signal or the loop fails.
Returns == phase # "kill" ~> pc = "done" \/ phase = "kill"

\* A kill phase that lasts kills everybody in the session: those that ignore
\* SIGTERM, lost their parent, or were forked while the others were signalled.
\* What a finished run may have missed was forked after its last scan.
KillsAll ==
    (phase = "kill" /\ stage \in {"main", "enter", "last"} /\ faults = MaxFaults)
        ~> \/ phase = "over"
           \/ \A p \in PIDs : Owned(p) /\ proc[p].up => pc = "done" /\ proc[p].born > seen
=============================================================================
