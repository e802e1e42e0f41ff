--------------------------- MODULE SupervisorProofs ---------------------------
(***************************************************************************)
(* run_owned, for any set of process numbers, any number of processes and  *)
(* any number of failing scans, signals and exceptions: types, the exit    *)
(* status, who is signalled, what a complete cleanup means, and when the   *)
(* worker is given up.                                                     *)
(***************************************************************************)
EXTENDS Supervisor, TLAPS

Step == \/ Confirm \/ Reap \/ List \/ Read \/ Watch \/ Aim \/ Test \/ Drain
        \/ Choose \/ Open \/ OpenFindsNobody \/ Send \/ Enter \/ Again \/ AllGone \/ Finish
        \/ ConfirmFails \/ ScanFails \/ SignalFails \/ Raise \/ Stop \/ Tick

LEMMA NextIsStep ==
    ASSUME Next
    PROVE  pc # "done" /\ (Step \/ \E p \in PIDs : ProcessStep(p))
BY Zenon DEF Next, SupervisorStep, Failure, Refresh, SignalMember, Step

-----------------------------------------------------------------------------
(* Types                                                                   *)

LEMMA NobodyOK == Nobody \in Processes
BY SupervisorAssumption DEF Nobody, Processes, Times, Worker, Identities

LEMMA CountersOK ==
    ASSUME TypeOK
    PROVE  /\ faults < MaxFaults /\ faults' = faults + 1 => faults' \in 0..MaxFaults
           /\ births < MaxBirths => births + 1 \in Times
           /\ births \in Nat /\ seen \in Nat
BY SupervisorAssumption DEF TypeOK, Times

LEMMA MembersOK ==
    ASSUME NEW numbers
    PROVE  Members(numbers) \subseteq Identities
BY DEF Members

\* A process appears.
LEMMA BornTypes ==
    ASSUME TypeOK, NEW p \in PIDs, NEW r \in Processes, Born(p, r)
    PROVE  births' \in Times /\ proc' \in [PIDs -> Processes]
<1>1. births' \in Times /\ births' = births + 1
  BY CountersOK DEF Born
<1>2. [r EXCEPT !.born = births + 1] \in Processes
  BY <1>1 DEF Processes
<1> QED BY <1>1, <1>2 DEF Born, TypeOK

\* The session of a new stranger: its own, or that of another one.
LEMMA StrangerSession ==
    ASSUME TypeOK, NEW p \in PIDs, StrangerStarts(p)
    PROVE  /\ proc[p].born = 0 /\ UNCHANGED selfVars
           /\ \E sess \in Identities :
                 /\ Born(p, [Nobody EXCEPT !.sess = sess, !.up = TRUE])
                 /\ \/ sess = [pid |-> p, born |-> births + 1]
                    \/ \E q \in PIDs : Stranger(q) /\ sess = proc[q].sess
<1>1. PICK sess \in {[pid |-> p, born |-> births + 1]}
                        \union {proc[q].sess : q \in {q \in PIDs : Stranger(q)}} :
          Born(p, [Nobody EXCEPT !.sess = sess, !.up = TRUE])
  BY Zenon DEF StrangerStarts
<1>2. \/ sess = [pid |-> p, born |-> births + 1]
      \/ \E q \in PIDs : Stranger(q) /\ sess = proc[q].sess
  BY Zenon
<1>3. births + 1 \in Times
  BY <1>1, CountersOK DEF Born
<1>4. sess \in Identities
  BY <1>2, <1>3 DEF TypeOK, Processes, Identities
<1>5. proc[p].born = 0 /\ UNCHANGED selfVars
  BY Zenon DEF StrangerStarts, Unused, Exists
<1> QED BY <1>1, <1>2, <1>4, <1>5, Zenon

\* The worker's processes and the others keep the types.
LEMMA ProcessTypes ==
    ASSUME TypeOK, NEW p \in PIDs, ProcessStep(p)
    PROVE  births' \in Times /\ proc' \in [PIDs -> Processes]
<1>1. CASE Fork(p)
  <2>1. PICK q \in Unused, pipe \in {proc[p].pipe, FALSE} :
            Born(q, [proc[p] EXCEPT !.parent = p, !.pipe = pipe])
    BY <1>1 DEF Fork
  <2>2. q \in PIDs
    BY SupervisorAssumption DEF Unused
  <2>3. [proc[p] EXCEPT !.parent = p, !.pipe = pipe] \in Processes
    <3>1. proc[p] \in Processes
      BY DEF TypeOK
    <3> QED BY <3>1 DEF Processes
  <2> QED BY <2>1, <2>2, <2>3, BornTypes, Zenon
<1>2. CASE Leave(p)
  <2>1. [proc[p] EXCEPT !.sess = [pid |-> p, born |-> proc[p].born]] \in Processes
    <3>1. proc[p] \in Processes
      BY DEF TypeOK
    <3>2. [pid |-> p, born |-> proc[p].born] \in Identities
      BY <3>1 DEF Processes, Identities
    <3> QED BY <3>1, <3>2 DEF Processes
  <2> QED BY <1>2, <2>1, Zenon DEF Leave, TypeOK
<1>3. CASE Exit(p)
  <2>1. \A q \in PIDs : /\ [proc[q] EXCEPT !.up = FALSE, !.killed = FALSE, !.pipe = FALSE] \in Processes
                        /\ [proc[q] EXCEPT !.parent = "supervisor"] \in Processes
                        /\ proc[q] \in Processes
    <3> TAKE q \in PIDs
    <3>1. proc[q] \in Processes
      BY DEF TypeOK
    <3> QED BY <3>1 DEF Processes
  <2>2. births' = births
    BY <1>3 DEF Exit
  <2> DEFINE R(q) == IF q = p THEN [proc[q] EXCEPT !.up = FALSE, !.killed = FALSE, !.pipe = FALSE]
                     ELSE IF proc[q].parent = p THEN [proc[q] EXCEPT !.parent = "supervisor"]
                     ELSE proc[q]
  <2>3. \A q \in PIDs : R(q) \in Processes
    BY <2>1, Zenon
  <2>4. proc' = [q \in PIDs |-> R(q)]
    BY <1>3, Zenon DEF Exit
  <2>5. proc' \in [PIDs -> Processes]
    <3> HIDE DEF R
    <3> QED BY <2>3, <2>4, Zenon
  <2> QED BY <2>2, <2>5 DEF TypeOK
<1>4. CASE ParentReaps(p) \/ StrangerExits(p)
  BY <1>4, NobodyOK DEF ParentReaps, StrangerExits, TypeOK
<1>5. CASE StrangerStarts(p)
  <2>1. PICK sess \in Identities : Born(p, [Nobody EXCEPT !.sess = sess, !.up = TRUE])
    BY <1>5, StrangerSession
  <2>2. [Nobody EXCEPT !.sess = sess, !.up = TRUE] \in Processes
    BY NobodyOK DEF Processes
  <2> QED BY <2>1, <2>2, BornTypes
<1> QED BY <1>1, <1>2, <1>3, <1>4, <1>5 DEF ProcessStep

\* The supervisor leaves the process table alone, but for what it reaps and
\* signals.
LEMMA StepTypes ==
    ASSUME TypeOK, Step
    PROVE  births' \in Times /\ proc' \in [PIDs -> Processes]
<1>1. CASE Reap
  BY <1>1, NobodyOK DEF Reap, TypeOK
<1>2. CASE Send
  <2>1. CASE UNCHANGED proc
    BY <2>1, <1>2 DEF Send, TypeOK
  <2>2. CASE proc' = [proc EXCEPT ![target.pid].killed = @ \/ (sig = "KILL" /\ proc[target.pid].up)]
    <3>1. target.pid \in PIDs
      BY DEF TypeOK, Identities
    <3>2. [proc[target.pid] EXCEPT !.killed = @ \/ (sig = "KILL" /\ proc[target.pid].up)] \in Processes
      <4>1. proc[target.pid] \in Processes
        BY <3>1 DEF TypeOK
      <4>2. (proc[target.pid].killed \/ (sig = "KILL" /\ proc[target.pid].up)) \in BOOLEAN
        OBVIOUS
      <4> QED BY <4>1, <4>2 DEF Processes
    <3> QED BY <1>2, <2>2, <3>1, <3>2 DEF Send, TypeOK
  <2> QED BY <1>2, <2>1, <2>2 DEF Send, Deliver
<1>3. CASE ~Reap /\ ~Send
  <2>1. UNCHANGED envVars
    BY <1>3, Zenon DEF Step, Confirm, List, Read, Watch, Aim, Test, Drain, Choose, Open,
       OpenFindsNobody, Enter, Again, AllGone, Finish, ConfirmFails, ScanFails, SignalFails,
       Raise, Stop, Tick
  <2> QED BY <2>1 DEF envVars, TypeOK
<1> QED BY <1>1, <1>2, <1>3

\* Every step keeps the types.
LEMMA TypeStep == TypeOK /\ [Next]_vars => TypeOK'
<1> SUFFICES ASSUME TypeOK, [Next]_vars PROVE TypeOK'
  OBVIOUS
<1>0. /\ faults < MaxFaults /\ faults' = faults + 1 => faults' \in 0..MaxFaults
      /\ Members(PIDs) \subseteq Identities /\ Members(listed) \subseteq Identities
      /\ NoTarget \in Identities /\ 0 \in Times
  BY CountersOK, MembersOK, SupervisorAssumption DEF NoTarget, Worker, Identities, Times
<1>1. ASSUME NEW p \in PIDs, ProcessStep(p) PROVE TypeOK'
  <2>1. births' \in Times /\ proc' \in [PIDs -> Processes]
    BY <1>1, ProcessTypes
  <2>2. UNCHANGED <<selfVars, phase, stop>>
    BY <1>1, Zenon DEF ProcessStep, Fork, Leave, Exit, ParentReaps, StrangerStarts, StrangerExits
  <2> QED BY <2>1, <2>2 DEF TypeOK, selfVars, scanVars, sigVars, outVars
<1>2. CASE Step
  <2>0. births' \in Times /\ proc' \in [PIDs -> Processes]
    BY <1>2, StepTypes
  <2> USE DEF envVars, scanVars, sigVars, outVars, Stages, PCs, Scan, Phases
  <2>1. CASE Confirm \/ ConfirmFails
    BY <2>0, <2>1, <1>0 DEF TypeOK, Confirm, ConfirmFails
  <2>2. CASE Reap \/ Read \/ ScanFails
    <3>1. CASE Reap
      <4>1. code' \in BOOLEAN
        BY <3>1, Zenon DEF TypeOK, Reap
      <4> QED BY <2>0, <3>1, <4>1, <1>0, ZenonT(60) DEF TypeOK, Reap
    <3>2. CASE Read
      BY <2>0, <3>2, <1>0, ZenonT(60) DEF TypeOK, Read
    <3>3. CASE ScanFails
      <4>1. /\ faults' \in 0..MaxFaults /\ scanOK' = FALSE
            /\ listed' = {} /\ pc' = "decide"
        BY <3>3, <1>0, Zenon DEF ScanFails
      <4> QED BY <2>0, <3>3, <4>1, ZenonT(60) DEF TypeOK, ScanFails
    <3> QED BY <2>2, <3>1, <3>2, <3>3
  <2>3. CASE List
    <3>1. births \in Times /\ {p \in PIDs : Exists(p)} \subseteq PIDs
      BY DEF TypeOK
    <3> QED BY <2>0, <2>3, <3>1, ZenonT(60) DEF TypeOK, List
  <2>4. CASE Watch
    BY <2>0, <2>4 DEF TypeOK, Watch, Begun
  <2>5. CASE Aim
    BY <2>0, <2>5 DEF TypeOK, Aim, Signum, Signums
  <2>6. CASE Test \/ Drain \/ Raise
    <3>1. CASE Test
      BY <2>0, <3>1 DEF TypeOK, Test, EnterFinally
    <3>2. CASE Drain
      <4>1. eof' \in BOOLEAN
        BY <3>2, Zenon DEF TypeOK, Drain
      <4>2. stage' \in Stages /\ pc' \in PCs
        BY <3>2 DEF TypeOK, Drain, EnterFinally
      <4> QED BY <2>0, <3>2, <4>1, <4>2, Zenon DEF TypeOK, Drain
    <3>3. CASE Raise
      BY <2>0, <3>3, <1>0 DEF TypeOK, Raise, EnterFinally
    <3> QED BY <2>6, <3>1, <3>2, <3>3
  <2>7. CASE Choose
    BY <2>0, <2>7 DEF TypeOK, Choose, Signums
  <2>8. CASE Open
    <3>1. target.pid \in PIDs
      BY DEF TypeOK, Identities
    <3>2. proc[target.pid].born \in Times
      BY <3>1 DEF TypeOK, Processes
    <3> QED BY <2>0, <2>8, <3>2 DEF TypeOK, Open
  <2>9. CASE OpenFindsNobody \/ SignalFails
    <3>1. CASE OpenFindsNobody
      BY <2>0, <3>1, <1>0, ZenonT(60) DEF TypeOK, OpenFindsNobody, SignalDone
    <3>2. CASE SignalFails
      <4>1. /\ faults' \in 0..MaxFaults /\ scanOK' = FALSE
            /\ pc' = "signal" /\ target' = NoTarget /\ fd' = 0
        BY <3>2, <1>0, Zenon DEF SignalFails, SignalDone
      <4> QED BY <2>0, <3>2, <4>1, <1>0, ZenonT(60) DEF TypeOK, SignalFails
    <3> QED BY <2>9, <3>1, <3>2
  <2>10. CASE Send
    <3>1. target.pid \in PIDs
      BY DEF TypeOK, Identities
    <3>2. proc[target.pid].sess \in Identities
      BY <3>1 DEF TypeOK, Processes
    <3>3. wronged' \subseteq Identities
      BY <2>10, <3>2 DEF TypeOK, Send, Deliver
    <3> QED BY <2>0, <2>10, <3>3, <1>0, ZenonT(60) DEF TypeOK, Send, SignalDone
  <2>11. CASE Enter \/ Again \/ AllGone
    BY <2>0, <2>11 DEF TypeOK, Enter, Again, AllGone, Begun, Report
  <2>12. CASE Finish
    BY <2>0, <2>12 DEF TypeOK, Finish
  <2>13. CASE Stop \/ Tick
    <3>1. phase' \in Phases
      BY <2>13 DEF TypeOK, Stop, Tick
    <3>2. stop' \in BOOLEAN /\ UNCHANGED selfVars
      BY <2>13, Zenon DEF TypeOK, Stop, Tick
    <3> QED BY <2>0, <3>1, <3>2, ZenonT(60) DEF TypeOK, selfVars
  <2> QED BY <1>2, <2>1, <2>2, <2>3, <2>4, <2>5, <2>6, <2>7, <2>8, <2>9, <2>10, <2>11, <2>12,
             <2>13, Zenon DEF Step
<1>3. CASE UNCHANGED vars
  BY <1>3 DEF TypeOK, vars, envVars, scanVars, sigVars, outVars
<1> QED BY <1>1, <1>2, <1>3, NextIsStep

LEMMA InitTypes == Init => TypeOK
<1> SUFFICES ASSUME Init PROVE TypeOK
  OBVIOUS
<1>1. 0 \in Times /\ 1 \in Times /\ 0 \in 0..MaxFaults
  BY SupervisorAssumption DEF Times
<1>2. [Nobody EXCEPT !.born = 1, !.kin = TRUE, !.up = TRUE, !.pipe = TRUE,
                    !.parent = "supervisor"] \in Processes
  BY <1>1, NobodyOK DEF Processes
<1>3. proc \in [PIDs -> Processes]
  BY <1>2, NobodyOK DEF Init
<1>4. NoTarget \in Identities
  BY <1>1, SupervisorAssumption DEF NoTarget, Worker, Identities
<1> QED BY <1>1, <1>3, <1>4 DEF Init, TypeOK, Stages, PCs, Scan, Phases, Signums

\* The variables keep their types: in particular every number that is waited for,
\* listed or signalled is a process number, and every start time lies in the past.
THEOREM TypeCorrect == Spec => []TypeOK
BY InitTypes, TypeStep, PTL DEF Spec

-----------------------------------------------------------------------------
(* What a step of the other processes does to one number                   *)

Kept(q) ==
    /\ proc'[q].born = proc[q].born /\ proc'[q].sess = proc[q].sess /\ proc'[q].kin = proc[q].kin
    /\ proc'[q].parent \in {proc[q].parent, "supervisor"}

Left(q) ==
    /\ proc'[q].born = proc[q].born /\ proc'[q].kin /\ proc[q].kin
    /\ proc'[q].parent = proc[q].parent
    /\ proc[q].sess.pid # q /\ proc'[q].sess = [pid |-> q, born |-> proc[q].born]

Gone(q) ==
    /\ proc'[q] = Nobody
    /\ proc[q].kin => proc[q].parent # "supervisor"

Came(q) ==
    /\ proc[q].born = 0
    /\ births' = births + 1 /\ proc'[q].born = births + 1
    /\ \/ proc'[q].kin
       \/ proc'[q].sess = [pid |-> q, born |-> births + 1]
       \/ \E host \in PIDs : Stranger(host) /\ proc'[q].sess = proc[host].sess

LEMMA BornEffect ==
    ASSUME TypeOK, NEW p \in PIDs, NEW r \in Processes, Born(p, r), NEW q \in PIDs
    PROVE  /\ births' = births + 1
           /\ q # p => proc'[q] = proc[q]
           /\ q = p => /\ proc'[q].born = births + 1
                       /\ proc'[q].kin = r.kin /\ proc'[q].sess = r.sess
<1>1. proc' = [proc EXCEPT ![p] = [r EXCEPT !.born = births + 1]] /\ births' = births + 1
  BY DEF Born
<1>2. /\ [r EXCEPT !.born = births + 1].born = births + 1
      /\ [r EXCEPT !.born = births + 1].kin = r.kin
      /\ [r EXCEPT !.born = births + 1].sess = r.sess
  BY DEF Processes
<1> QED BY <1>1, <1>2, Zenon DEF TypeOK

LEMMA ProcessEffect ==
    ASSUME TypeOK, NEW p \in PIDs, ProcessStep(p), NEW q \in PIDs
    PROVE  /\ UNCHANGED selfVars
           /\ births' = births \/ births' = births + 1
           /\ Kept(q) \/ Left(q) \/ Gone(q) \/ Came(q)
<1>0. proc[q] \in Processes /\ proc[p] \in Processes
  BY DEF TypeOK
<1>1. CASE Fork(p)
  <2>1. PICK n \in Unused, pipe \in {proc[p].pipe, FALSE} :
            Born(n, [proc[p] EXCEPT !.parent = p, !.pipe = pipe])
    BY <1>1 DEF Fork
  <2>2. n \in PIDs /\ proc[n].born = 0
    BY SupervisorAssumption DEF Unused, Exists
  <2>3. [proc[p] EXCEPT !.parent = p, !.pipe = pipe] \in Processes
    BY <1>0 DEF Processes
  <2>4. [proc[p] EXCEPT !.parent = p, !.pipe = pipe].kin
    BY <1>0, <1>1 DEF Processes, Fork, Running
  <2>5. /\ births' = births + 1
        /\ q # n => proc'[q] = proc[q]
        /\ q = n => proc'[q].born = births + 1 /\ proc'[q].kin
    <3>1. PICK new \in Processes : new.kin /\ Born(n, new)
      BY <2>1, <2>3, <2>4, Zenon
    <3>2. \A m \in PIDs : Born(m, new) =>
             /\ births' = births + 1
             /\ q # m => proc'[q] = proc[q]
             /\ q = m => proc'[q].born = births + 1 /\ proc'[q].kin = new.kin
      BY BornEffect, ZenonT(60)
    <3> QED BY <2>2, <3>1, <3>2, Zenon
  <2>6. UNCHANGED selfVars
    BY <1>1, Zenon DEF Fork
  <2> QED BY <2>2, <2>5, <2>6, Zenon DEF Kept, Came
<1>2. CASE Leave(p)
  <2> DEFINE sess == [pid |-> p, born |-> proc[p].born]
             moved == [proc[p] EXCEPT !.sess = sess]
  <2>1. /\ proc' = [proc EXCEPT ![p].sess = sess] /\ births' = births /\ UNCHANGED selfVars
        /\ proc[p].kin /\ proc[p].sess.pid # p
    BY <1>2, Zenon DEF Leave, Running
  <2>2. /\ moved.sess = sess /\ moved.born = proc[p].born /\ moved.kin = proc[p].kin
        /\ moved.parent = proc[p].parent
    BY <1>0 DEF Processes
  <2>3. /\ q # p => proc'[q] = proc[q]
        /\ q = p => proc'[q] = moved
    BY <2>1 DEF TypeOK
  <2>4. \/ Kept(q)
        \/ q = p /\ proc'[q] = moved
    BY <2>3, Zenon DEF Kept
  <2>5. q = p /\ proc'[q] = moved => Left(q)
    <3> HIDE DEF moved
    <3> QED BY <2>1, <2>2, Zenon DEF Left
  <2> QED BY <2>1, <2>4, <2>5, Zenon
<1>3. CASE Exit(p)
  <2>1. proc'[q] = IF q = p THEN [proc[q] EXCEPT !.up = FALSE, !.killed = FALSE, !.pipe = FALSE]
                   ELSE IF proc[q].parent = p THEN [proc[q] EXCEPT !.parent = "supervisor"]
                   ELSE proc[q]
    BY <1>3, Zenon DEF Exit
  <2>2. births' = births /\ UNCHANGED selfVars
    BY <1>3, Zenon DEF Exit
  <2> DEFINE a == [proc[q] EXCEPT !.up = FALSE, !.killed = FALSE, !.pipe = FALSE]
             b == [proc[q] EXCEPT !.parent = "supervisor"]
  <2>3. /\ a.born = proc[q].born /\ a.sess = proc[q].sess /\ a.kin = proc[q].kin
        /\ a.parent = proc[q].parent
        /\ b.born = proc[q].born /\ b.sess = proc[q].sess /\ b.kin = proc[q].kin
        /\ b.parent = "supervisor"
    BY <1>0 DEF Processes
  <2>4. proc'[q] = a \/ proc'[q] = b \/ proc'[q] = proc[q]
    BY <2>1, Zenon
  <2>5. Kept(q)
    <3> HIDE DEF a, b
    <3> QED BY <2>3, <2>4, Zenon DEF Kept
  <2> QED BY <2>2, <2>5
<1>4. CASE ParentReaps(p) \/ StrangerExits(p)
  <2>1. /\ proc' = [proc EXCEPT ![p] = Nobody] /\ births' = births /\ UNCHANGED selfVars
        /\ proc[p].kin => proc[p].parent # "supervisor"
    BY <1>4, Zenon DEF ParentReaps, StrangerExits, Stranger
  <2>2. /\ q # p => proc'[q] = proc[q]
        /\ q = p => proc'[q] = Nobody
    BY <2>1 DEF TypeOK
  <2> QED BY <2>1, <2>2, Zenon DEF Kept, Gone
<1>5. CASE StrangerStarts(p)
  <2>1. PICK sess \in Identities :
            /\ Born(p, [Nobody EXCEPT !.sess = sess, !.up = TRUE])
            /\ \/ sess = [pid |-> p, born |-> births + 1]
               \/ \E host \in PIDs : Stranger(host) /\ sess = proc[host].sess
    BY <1>5, StrangerSession
  <2> DEFINE new == [Nobody EXCEPT !.sess = sess, !.up = TRUE]
  <2>2. new \in Processes /\ new.sess = sess
    BY NobodyOK DEF Processes
  <2>3. Born(p, new)
    BY <2>1, Zenon
  <2>4. proc[p].born = 0 /\ UNCHANGED selfVars
    BY <1>5, StrangerSession
  <2> HIDE DEF new
  <2>5. /\ births' = births + 1
        /\ q # p => proc'[q] = proc[q]
        /\ q = p => proc'[q].born = births + 1 /\ proc'[q].sess = sess
    BY <2>2, <2>3, BornEffect
  <2>6. q # p => Kept(q)
    BY <2>5, Zenon DEF Kept
  <2>7. q = p => Came(q)
    BY <2>1, <2>4, <2>5, Zenon DEF Came
  <2> QED BY <2>4, <2>5, <2>6, <2>7, Zenon
<1> QED BY <1>1, <1>2, <1>3, <1>4, <1>5 DEF ProcessStep

\* The supervisor's own steps: reaping and signalling are all that touches a
\* process, and neither moves it.
LEMMA StepEffect ==
    ASSUME TypeOK, Step, NEW q \in PIDs
    PROVE  /\ births' = births
           /\ \/ Kept(q) /\ proc'[q].parent = proc[q].parent
              \/ Reap /\ q \in Adopted /\ proc'[q] = Nobody
           /\ Reap /\ q \in Adopted => proc'[q] = Nobody
           /\ Reap \/ code' = code
<1>1. CASE Reap
  <2>1. /\ births' = births
        /\ proc'[q] = IF q \in Adopted THEN Nobody ELSE proc[q]
    BY <1>1, Zenon DEF Reap
  <2> QED BY <1>1, <2>1, Zenon DEF Kept
<1>2. CASE Send
  <2>1. births' = births /\ code' = code /\ ~Reap
    BY <1>2 DEF Send, Reap, outVars
  <2>2. CASE UNCHANGED proc
    BY <2>1, <2>2, Zenon DEF Kept
  <2>3. CASE proc' = [proc EXCEPT ![target.pid].killed = @ \/ (sig = "KILL" /\ proc[target.pid].up)]
    <3>1. target.pid \in PIDs
      BY DEF TypeOK, Identities
    <3> DEFINE hit == [proc[target.pid] EXCEPT !.killed = @ \/ (sig = "KILL" /\ proc[target.pid].up)]
    <3>2. proc[target.pid] \in Processes
      BY <3>1 DEF TypeOK
    <3>3. /\ hit.born = proc[target.pid].born /\ hit.sess = proc[target.pid].sess
          /\ hit.kin = proc[target.pid].kin /\ hit.parent = proc[target.pid].parent
      BY <3>2 DEF Processes
    <3>4. /\ q # target.pid => proc'[q] = proc[q]
          /\ q = target.pid => proc'[q] = hit
      BY <2>3, <3>1, Zenon DEF TypeOK
    <3>5. Kept(q) /\ proc'[q].parent = proc[q].parent
      <4> HIDE DEF hit
      <4> QED BY <3>3, <3>4, Zenon DEF Kept
    <3> QED BY <2>1, <3>5
  <2> QED BY <1>2, <2>2, <2>3 DEF Send, Deliver
<1>3. CASE ~Reap /\ ~Send
  <2>1. UNCHANGED envVars /\ code' = code
    BY <1>3, Zenon DEF Step, Confirm, List, Read, Watch, Aim, Test, Drain, Choose, Open,
       OpenFindsNobody, Enter, Again, AllGone, Finish, ConfirmFails, ScanFails, SignalFails,
       Raise, Stop, Tick, outVars, selfVars
  <2> QED BY <1>3, <2>1, Zenon DEF envVars, Kept
<1> QED BY <1>1, <1>2, <1>3

-----------------------------------------------------------------------------
(* The exit status                                                         *)

\* Until the supervisor reaps it, the worker keeps its number, its session and
\* its parent: nobody else can wait for it, and it cannot leave its own session.
StatusInv ==
    /\ births >= 1
    /\ ExitStatusKept
    /\ proc[Leader].born = 1 =>
          proc[Leader].sess = Worker /\ proc[Leader].kin /\ proc[Leader].parent = "supervisor"

LEMMA StatusInit == Init => StatusInv
<1> SUFFICES ASSUME Init PROVE StatusInv
  OBVIOUS
<1>1. Leader \in PIDs
  BY SupervisorAssumption
<1>2. proc[Leader] = [Nobody EXCEPT !.born = 1, !.kin = TRUE, !.up = TRUE, !.pipe = TRUE,
                                    !.parent = "supervisor"]
  BY <1>1 DEF Init
<1>3. /\ proc[Leader].born = 1 /\ proc[Leader].sess = Worker /\ proc[Leader].kin
      /\ proc[Leader].parent = "supervisor"
  BY <1>2 DEF Nobody
<1>4. births >= 1 /\ code = FALSE
  BY DEF Init
<1> QED BY <1>3, <1>4, Zenon DEF StatusInv, ExitStatusKept

LEMMA StatusStep == TypeOK /\ StatusInv /\ [Next]_vars => StatusInv'
<1> SUFFICES ASSUME TypeOK, StatusInv, [Next]_vars PROVE StatusInv'
  OBVIOUS
<1>0. /\ Leader \in PIDs /\ proc[Leader] \in Processes
      /\ births \in Nat /\ births >= 1
  BY SupervisorAssumption, CountersOK DEF TypeOK, StatusInv
<1>n. Nobody.born = 0
  BY DEF Nobody
<1>1. ASSUME NEW p \in PIDs, ProcessStep(p) PROVE StatusInv'
  <2>1. code' = code /\ (births' = births \/ births' = births + 1)
    BY <1>0, <1>1, ProcessEffect, Zenon DEF selfVars, outVars
  <2>2. Kept(Leader) \/ Left(Leader) \/ Gone(Leader) \/ Came(Leader)
    BY <1>0, <1>1, ProcessEffect
  <2>3. births' >= 1
    BY <1>0, <2>1
  <2>4. (proc'[Leader].born = 1) <=> (proc[Leader].born = 1)
    BY <1>0, <1>n, <2>1, <2>2 DEF Kept, Left, Gone, Came, StatusInv
  <2>5. proc'[Leader].born = 1 =>
          proc'[Leader].sess = Worker /\ proc'[Leader].kin /\ proc'[Leader].parent = "supervisor"
    BY <1>0, <1>n, <2>1, <2>2, <2>4 DEF Kept, Left, Gone, Came, StatusInv, Worker
  <2>6. ExitStatusKept'
    BY <1>0, <2>1, <2>4, Zenon DEF StatusInv, ExitStatusKept
  <2> QED BY <2>3, <2>5, <2>6 DEF StatusInv
<1>2. CASE Step
  <2>1. /\ births' = births
        /\ \/ Kept(Leader) /\ proc'[Leader].parent = proc[Leader].parent
           \/ Reap /\ Leader \in Adopted /\ proc'[Leader] = Nobody
        /\ Reap /\ Leader \in Adopted => proc'[Leader] = Nobody
        /\ Reap \/ code' = code
    BY <1>0, <1>2, StepEffect
  <2>2. ExitStatusKept'
    <3>1. CASE Reap /\ Leader \in Adopted
      <4>1. code'
        BY <3>1, Zenon DEF Reap
      <4>2. proc'[Leader].born # 1
        BY <1>n, <2>1, <3>1
      <4> QED BY <4>1, <4>2, Zenon DEF ExitStatusKept
    <3>2. CASE ~(Reap /\ Leader \in Adopted)
      <4>1. proc'[Leader].born = proc[Leader].born
        BY <2>1, <3>2, Zenon DEF Kept
      <4>2. code' <=> code
        <5>1. CASE Reap
          <6>1. Leader \notin Adopted /\ code' = (code \/ Leader \in Adopted)
            BY <3>2, <5>1, Zenon DEF Reap
          <6> QED BY <6>1, Zenon
        <5>2. CASE ~Reap
          <6>1. code' = code
            BY <2>1, <5>2
          <6> QED BY <6>1, Zenon
        <5> QED BY <5>1, <5>2
      <4> QED BY <4>1, <4>2, Zenon DEF StatusInv, ExitStatusKept
    <3> QED BY <3>1, <3>2
  <2>3. births' >= 1
    BY <1>0, <2>1
  <2>4. proc'[Leader].born = 1 =>
          proc'[Leader].sess = Worker /\ proc'[Leader].kin /\ proc'[Leader].parent = "supervisor"
    BY <1>n, <2>1 DEF Kept, StatusInv
  <2> QED BY <2>2, <2>3, <2>4 DEF StatusInv
<1>3. CASE UNCHANGED vars
  BY <1>3, Zenon DEF vars, envVars, outVars, StatusInv, ExitStatusKept
<1> QED BY <1>1, <1>2, <1>3, NextIsStep

\* The worker's exit status is never taken away by the collection of orphans, and
\* it is reported exactly when the worker was reaped, whoever gets its number then.
THEOREM StatusKept == Spec => []ExitStatusKept
<1>1. TypeOK /\ StatusInv /\ [Next]_vars => StatusInv'
  BY StatusStep
<1>2. StatusInv => ExitStatusKept
  BY DEF StatusInv
<1> QED BY <1>1, <1>2, StatusInit, TypeCorrect, PTL DEF Spec

-----------------------------------------------------------------------------
(* The worker is not given up early                                        *)

\* As long as the scans work and the worker is not reaped, every scan finds it, so
\* no loop that ends with an empty session ends.
TimeInv ==
    /\ pc = "confirm" => seen = 0
    /\ pc = "read" /\ ~code => Leader \in listed
    /\ pc = "decide" /\ scanOK /\ ~code => members # {}
    /\ stage = "end" /\ scanOK /\ ~code => phase = "over" \/ (pc = "done" /\ seen = 0)

LEMMA TimeInit == Init => TimeInv
BY DEF Init, TimeInv

\* The worker as a scan finds it.
LEMMA LeaderFound ==
    ASSUME TypeOK, StatusInv, ~code
    PROVE  /\ Exists(Leader) /\ Leader \in PIDs
           /\ \A numbers : Leader \in numbers => Members(numbers) # {}
<1>1. proc[Leader].born = 1 /\ proc[Leader].sess = Worker /\ Leader \in PIDs
  BY SupervisorAssumption, Zenon DEF StatusInv, ExitStatusKept
<1>2. [pid |-> Leader, born |-> 1] \in Identities
  BY <1>1, SupervisorAssumption DEF Identities, Times
<1>3. Matches([pid |-> Leader, born |-> 1])
  BY <1>1 DEF Matches, InSession, Exists, Worker
<1>4. Exists(Leader)
  BY <1>1 DEF Exists
<1>5. ASSUME NEW numbers, Leader \in numbers PROVE Members(numbers) # {}
  BY <1>2, <1>3, <1>5 DEF Members
<1> QED BY <1>1, <1>4, <1>5

LEMMA TimeStep == TypeOK /\ StatusInv /\ TimeInv /\ [Next]_vars => TimeInv'
<1> SUFFICES ASSUME TypeOK, StatusInv, TimeInv, [Next]_vars PROVE TimeInv'
  OBVIOUS
<1>1. ASSUME NEW p \in PIDs, ProcessStep(p) PROVE TimeInv'
  <2>1. UNCHANGED <<stage, pc, listed, seen, members, scanOK, code, phase>>
    BY <1>1, Zenon DEF ProcessStep, Fork, Leave, Exit, ParentReaps, StrangerStarts,
       StrangerExits, selfVars, scanVars, outVars
  <2> QED BY <2>1, Zenon DEF TimeInv
<1>2. CASE Step /\ pc # "done"
  <2> USE <1>2 DEF TimeInv, envVars, scanVars, sigVars, outVars
  <2>1. CASE Confirm \/ ConfirmFails
    BY <2>1 DEF Confirm, ConfirmFails
  <2>2. CASE Reap
    BY <2>2 DEF Reap
  <2>3. CASE List
    <3>1. ~code => Leader \in listed'
      BY <2>3, LeaderFound DEF List
    <3>2. /\ pc' = "read" /\ pc = "list" /\ stage' = stage /\ phase' = phase
          /\ scanOK' = scanOK /\ code' = code
      BY <2>3, Zenon DEF List
    <3> QED BY <3>1, <3>2
  <2>4. CASE Read
    <3>1. ~code => members' # {}
      BY <2>4, LeaderFound DEF Read
    <3> QED BY <2>4, <3>1 DEF Read
  <2>5. CASE ScanFails \/ SignalFails
    BY <2>5 DEF ScanFails, SignalFails, SignalDone
  <2>6. CASE Watch \/ Aim
    BY <2>6 DEF Watch, Aim, Begun, Cleaning
  <2>7. CASE Test \/ Drain \/ Raise
    BY <2>7 DEF Test, Drain, Raise, EnterFinally
  <2>8. CASE Choose \/ Open \/ OpenFindsNobody \/ Send
    BY <2>8 DEF Choose, Open, OpenFindsNobody, Send, SignalDone
  <2>9. CASE Enter \/ Again \/ AllGone \/ Finish
    <3>1. CASE Enter
      <4>1. /\ pc = "decide" /\ stage = "enter" /\ scanOK' = scanOK /\ code' = code
            /\ pc' \in {"reap", "next"}
            /\ members = {} \/ stage' = "enter"
        BY <3>1 DEF Enter, Report
      <4> QED BY <4>1
    <3>2. CASE Again
      <4>1. /\ pc = "next" /\ scanOK' = scanOK /\ code' = code /\ phase' = phase
            /\ pc' = "reap"
            /\ phase = "over" \/ stage' = "last"
        BY <3>2 DEF Again, Report
      <4> QED BY <4>1
    <3>3. CASE AllGone
      <4>1. code' = code /\ code /\ pc' = "reap"
        BY <3>3, Zenon DEF AllGone, Report
      <4> QED BY <4>1, Zenon
    <3>4. CASE Finish
      <4>1. /\ pc = "decide" /\ stage' = stage /\ scanOK' = scanOK /\ code' = code
            /\ phase' = phase /\ pc' = "done"
        BY <3>4, Zenon DEF Finish
      <4> QED BY <4>1
    <3> QED BY <2>9, <3>1, <3>2, <3>3, <3>4
  <2>10. CASE Stop \/ Tick
    BY <2>10 DEF Stop, Tick, selfVars
  <2> QED BY <1>2, <2>1, <2>2, <2>3, <2>4, <2>5, <2>6, <2>7, <2>8, <2>9, <2>10, Zenon DEF Step
<1>3. CASE UNCHANGED vars
  BY <1>3, Zenon DEF vars, scanVars, outVars, TimeInv
<1> QED BY <1>1, <1>2, <1>3, NextIsStep

EndInv == pc = "done" => stage = "end"

LEMMA EndStep == EndInv /\ [Next]_vars => EndInv'
<1> SUFFICES ASSUME EndInv, [Next]_vars PROVE EndInv'
  OBVIOUS
<1>1. ASSUME NEW p \in PIDs, ProcessStep(p) PROVE EndInv'
  BY <1>1, Zenon DEF ProcessStep, Fork, Leave, Exit, ParentReaps, StrangerStarts, StrangerExits,
     selfVars, EndInv
<1>2. CASE Step
  BY <1>2 DEF EndInv, Step, Confirm, Reap, List, Read, Watch, Aim, Test, Drain, Choose, Open,
     OpenFindsNobody, Send, Enter, Again, AllGone, Finish, ConfirmFails, ScanFails, SignalFails,
     Raise, Stop, Tick, EnterFinally, Report, SignalDone, selfVars
<1>3. CASE UNCHANGED vars
  BY <1>3, Zenon DEF vars, EndInv
<1> QED BY <1>1, <1>2, <1>3, NextIsStep

\* A worker that was never reaped was given all the time its cleanup had, unless a
\* scan failed: no exception and no early return of the main loop abandons it.
THEOREM WorkerGetsItsTime == Spec => []NotGivenUpEarly
<1>1. TypeOK /\ StatusInv /\ [Next]_vars => StatusInv'
  BY StatusStep
<1>2. TypeOK /\ StatusInv /\ TimeInv /\ [Next]_vars => TimeInv'
  BY TimeStep
<1>3. TimeInv /\ EndInv => NotGivenUpEarly
  BY DEF TimeInv, EndInv, NotGivenUpEarly
<1>4. EndInv /\ [Next]_vars => EndInv'
  BY EndStep
<1>5. Init => EndInv
  BY DEF Init, EndInv
<1> QED BY <1>1, <1>2, <1>3, <1>4, <1>5, StatusInit, TimeInit, TypeCorrect, PTL DEF Spec

-----------------------------------------------------------------------------
(* Who is signalled                                                        *)

\* A stranger in a session with the worker's number is in one that was made after
\* the worker was reaped.
KinInv ==
    /\ \A p \in PIDs : InSession(p) /\ ~proc[p].kin => proc[p].sess.born > 1 /\ code
    /\ NoStrangerSignalled

LEMMA KinInit == Init => KinInv
<1> SUFFICES ASSUME Init PROVE KinInv
  OBVIOUS
<1>1. Nobody.born = 0
  BY DEF Nobody
<1>2. ASSUME NEW p \in PIDs, InSession(p) PROVE proc[p].kin
  <2>1. p = Leader
    BY <1>1, <1>2 DEF Init, InSession, Exists
  <2>2. proc[Leader] = [Nobody EXCEPT !.born = 1, !.kin = TRUE, !.up = TRUE, !.pipe = TRUE,
                                      !.parent = "supervisor"]
    BY SupervisorAssumption DEF Init
  <2>3. proc[Leader].kin
    BY <2>2 DEF Nobody
  <2> QED BY <2>1, <2>3
<1>3. NoStrangerSignalled
  BY Zenon DEF Init, NoStrangerSignalled
<1> QED BY <1>2, <1>3, Zenon DEF KinInv

\* A new stranger gets into such a session with the worker's number, or from
\* somebody in one.
LEMMA CameInSession ==
    ASSUME TypeOK, StatusInv, KinInv, NEW q \in PIDs, Came(q),
           proc'[q].sess.pid = Leader, ~proc'[q].kin
    PROVE  proc'[q].sess.born > 1 /\ code
<1>0. births \in Nat /\ births >= 1
  BY CountersOK DEF StatusInv
<1>1. CASE proc'[q].sess = [pid |-> q, born |-> births + 1]
  <2>1. q = Leader /\ proc[q].born = 0 /\ proc'[q].sess.born = births + 1
    BY <1>1 DEF Came
  <2>2. code
    BY <2>1 DEF StatusInv, ExitStatusKept
  <2> QED BY <1>0, <2>1, <2>2
<1>2. CASE \E host \in PIDs : Stranger(host) /\ proc'[q].sess = proc[host].sess
  <2>1. PICK host \in PIDs : Stranger(host) /\ proc'[q].sess = proc[host].sess
    BY <1>2
  <2>2. InSession(host) /\ ~proc[host].kin
    BY <2>1, Zenon DEF Stranger, InSession
  <2>3. proc[host].sess.born > 1 /\ code
    BY <2>2, Zenon DEF KinInv
  <2> QED BY <2>1, <2>3, Zenon
<1> QED BY <1>1, <1>2, Zenon DEF Came

LEMMA KinStep == TypeOK /\ StatusInv /\ KinInv /\ [Next]_vars => KinInv'
<1> SUFFICES ASSUME TypeOK, StatusInv, KinInv, [Next]_vars PROVE KinInv'
  OBVIOUS
<1>n. Nobody.born = 0
  BY DEF Nobody
<1>k. ASSUME NEW q \in PIDs, Kept(q), code => code', InSession(q)', ~proc'[q].kin
      PROVE  proc'[q].sess.born > 1 /\ code'
  <2>1. InSession(q) /\ ~proc[q].kin /\ proc'[q].sess = proc[q].sess
    BY <1>k, Zenon DEF Kept, InSession, Exists
  <2>2. proc[q].sess.born > 1 /\ code
    BY <2>1, Zenon DEF KinInv
  <2> QED BY <1>k, <2>1, <2>2, Zenon
<1>1. ASSUME NEW p \in PIDs, ProcessStep(p) PROVE KinInv'
  <2>0. UNCHANGED <<code, wronged>>
    BY <1>1, ProcessEffect, SupervisorAssumption, Zenon DEF selfVars, outVars
  <2>1. ASSUME NEW q \in PIDs, InSession(q)', ~proc'[q].kin
        PROVE  proc'[q].sess.born > 1 /\ code'
    <3>1. Kept(q) \/ Left(q) \/ Gone(q) \/ Came(q)
      BY <1>1, ProcessEffect
    <3>2. CASE Kept(q)
      BY <1>k, <2>0, <2>1, <3>2, Zenon
    <3>3. ~Left(q)
      BY <2>1, Zenon DEF Left
    <3>4. ~Gone(q)
      BY <1>n, <2>1 DEF Gone, InSession, Exists
    <3>5. CASE Came(q)
      <4>1. proc'[q].sess.pid = Leader
        BY <2>1, Zenon DEF InSession
      <4> QED BY <2>0, <2>1, <3>5, <4>1, CameInSession, Zenon
    <3> QED BY <3>1, <3>2, <3>3, <3>4, <3>5
  <2>2. NoStrangerSignalled'
    BY <2>0, Zenon DEF KinInv, NoStrangerSignalled
  <2> QED BY <2>1, <2>2, Zenon DEF KinInv
<1>2. CASE Step
  <2>0. code => code'
    <3>1. CASE Reap
      BY <3>1, Zenon DEF Reap
    <3>2. CASE ~Reap
      <4>1. Leader \in PIDs
        BY SupervisorAssumption
      <4>2. code' = code
        BY <1>2, <3>2, <4>1, StepEffect
      <4> QED BY <4>2, Zenon
    <3> QED BY <3>1, <3>2
  <2>1. ASSUME NEW q \in PIDs, InSession(q)', ~proc'[q].kin
        PROVE  proc'[q].sess.born > 1 /\ code'
    <3>1. Kept(q) \/ proc'[q] = Nobody
      BY <1>2, StepEffect
    <3>2. proc'[q] # Nobody
      BY <1>n, <2>1 DEF InSession, Exists
    <3> QED BY <1>k, <2>0, <2>1, <3>1, <3>2, Zenon
  <2>2. NoStrangerSignalled'
    <3>1. CASE Send
      <4>1. target.pid \in PIDs
        BY DEF TypeOK, Identities
      <4> DEFINE session == proc[target.pid].sess
      <4>2. \/ wronged' = wronged
            \/ /\ Matches(target) /\ ~proc[target.pid].kin
               /\ wronged' = wronged \union {session}
        BY <3>1, Zenon DEF Send, Deliver
      <4>3. Matches(target) /\ ~proc[target.pid].kin =>
               session.pid = Leader /\ session.born > 1 /\ code
        BY <4>1, Zenon DEF Matches, InSession, KinInv
      <4>4. \A s \in wronged : s.pid = Leader /\ s.born > 1 /\ code
        BY Zenon DEF KinInv, NoStrangerSignalled
      <4> HIDE DEF session
      <4>5. \A s \in wronged' : s.pid = Leader /\ s.born > 1 /\ code
        BY <4>2, <4>3, <4>4, Zenon
      <4> QED BY <2>0, <4>5, Zenon DEF NoStrangerSignalled
    <3>2. CASE ~Send
      <4>1. wronged' = wronged
        BY <1>2, <3>2, Zenon DEF Step, Confirm, Reap, List, Read, Watch, Aim, Test, Drain, Choose,
           Open, OpenFindsNobody, Enter, Again, AllGone, Finish, ConfirmFails, ScanFails,
           SignalFails, Raise, Stop, Tick, selfVars
      <4> QED BY <2>0, <4>1, Zenon DEF KinInv, NoStrangerSignalled
    <3> QED BY <3>1, <3>2
  <2> QED BY <2>1, <2>2, Zenon DEF KinInv
<1>3. CASE UNCHANGED vars
  BY <1>3, Zenon DEF vars, envVars, outVars, KinInv, NoStrangerSignalled, InSession, Exists
<1> QED BY <1>1, <1>2, <1>3, NextIsStep

\* Whatever happens to process numbers between a scan, the checks and the signal,
\* nobody but the worker's own is signalled, unless the number of the reaped worker
\* itself was given away: then only those in the session made under it are.
THEOREM OnlyOwnSignalled == Spec => []NoStrangerSignalled
<1>1. TypeOK /\ StatusInv /\ [Next]_vars => StatusInv'
  BY StatusStep
<1>2. TypeOK /\ StatusInv /\ KinInv /\ [Next]_vars => KinInv'
  BY KinStep
<1>3. KinInv => NoStrangerSignalled
  BY DEF KinInv
<1> QED BY <1>1, <1>2, <1>3, StatusInit, KinInit, TypeCorrect, PTL DEF Spec

-----------------------------------------------------------------------------
(* What a complete cleanup means                                           *)

\* A scan counts everybody who was there when it listed /proc: whom it does not
\* list or read was forked later.
ScanInv ==
    /\ seen <= births
    /\ pc = "read" => \A p \in PIDs : Owned(p) => p \in listed \/ proc[p].born > seen
    /\ pc = "decide" /\ scanOK /\ members = {} =>
          \A p \in PIDs : Owned(p) => proc[p].born > seen
    /\ complete => pc = "done" /\ \A p \in PIDs : Owned(p) => proc[p].born > seen

LEMMA ScanInit == Init => ScanInv
<1> SUFFICES ASSUME Init PROVE ScanInv
  OBVIOUS
<1>1. seen <= births /\ pc = "confirm" /\ complete = FALSE
  BY DEF Init
<1> QED BY <1>1 DEF ScanInv

\* Whoever is in the session after a step of the processes was there, or is new.
LEMMA OwnedEffect ==
    ASSUME TypeOK, StatusInv, ScanInv, NEW p \in PIDs, ProcessStep(p), NEW q \in PIDs
    PROVE  /\ Owned(q)' => (Owned(q) /\ proc'[q].born = proc[q].born) \/ proc'[q].born > seen
           /\ births' >= births
<1>0. births \in Nat /\ seen \in Nat /\ seen <= births /\ Nobody.born = 0
  BY CountersOK DEF ScanInv, Nobody
<1>1. births' = births \/ births' = births + 1
  BY ProcessEffect
<1>2. ASSUME Owned(q)'
      PROVE  (Owned(q) /\ proc'[q].born = proc[q].born) \/ proc'[q].born > seen
  <2>1. Kept(q) \/ Left(q) \/ Gone(q) \/ Came(q)
    BY ProcessEffect
  <2>2. CASE Kept(q)
    BY <1>2, <2>2, Zenon DEF Kept, Owned, Exists
  <2>3. ~Left(q)
    <3> SUFFICES ASSUME Left(q) PROVE FALSE
      OBVIOUS
    <3>1. q = Leader /\ proc[q].born = 1 /\ proc[q].sess.pid # q
      BY <1>2 DEF Left, Owned, Worker
    <3>2. proc[Leader].sess.pid = Leader
      BY <3>1 DEF StatusInv, Worker
    <3> QED BY <3>1, <3>2
  <2>4. CASE Gone(q)
    BY <1>0, <1>2, <2>4 DEF Gone, Owned, Exists
  <2>5. CASE Came(q)
    BY <1>0, <2>5 DEF Came
  <2> QED BY <2>1, <2>2, <2>3, <2>4, <2>5
<1> QED BY <1>0, <1>1, <1>2

\* Who is not among the members that were read is not in the session.
LEMMA MembersComplete ==
    ASSUME TypeOK, NEW numbers, NEW p \in numbers, p \in PIDs, Members(numbers) = {}
    PROVE  ~Owned(p)
<1>1. proc[p].born \in Times
  BY DEF TypeOK, Processes
<1> DEFINE id == [pid |-> p, born |-> proc[p].born]
<1>2. id \in Identities /\ id.pid = p /\ id.born = proc[p].born
  BY <1>1 DEF Identities
<1>3. ~Matches(id)
  <2> HIDE DEF id
  <2> QED BY <1>2 DEF Members
<1> HIDE DEF id
<1> QED BY <1>2, <1>3 DEF Matches, Owned, InSession, Worker

LEMMA ScanStep == TypeOK /\ StatusInv /\ ScanInv /\ [Next]_vars => ScanInv'
<1> SUFFICES ASSUME TypeOK, StatusInv, ScanInv, [Next]_vars PROVE ScanInv'
  OBVIOUS
<1>0. /\ births \in Nat /\ seen \in Nat /\ Leader \in PIDs /\ Nobody.born = 0
      /\ \A p \in PIDs : proc[p].born \in Times /\ proc[p].born \in Nat
  BY CountersOK, SupervisorAssumption DEF TypeOK, Times, Processes, Nobody
<1>1. ASSUME NEW p \in PIDs, ProcessStep(p) PROVE ScanInv'
  <2>1. UNCHANGED <<pc, listed, seen, members, scanOK, complete>>
    BY <1>1, Zenon DEF ProcessStep, Fork, Leave, Exit, ParentReaps, StrangerStarts,
       StrangerExits, selfVars, scanVars, outVars
  <2>2. births' >= births /\ births' \in Nat
    BY <1>0, <1>1, OwnedEffect, ProcessEffect
  <2>3. \A q \in PIDs :
            Owned(q)' => (Owned(q) /\ proc'[q].born = proc[q].born) \/ proc'[q].born > seen
    BY <1>1, OwnedEffect
  <2>4. seen' <= births'
    BY <1>0, <2>1, <2>2 DEF ScanInv
  <2> QED BY <2>1, <2>2, <2>3, <2>4, Zenon DEF ScanInv
<1>2. CASE Step /\ pc # "done"
  <2>1. births' = births
    BY <1>0, <1>2, StepEffect
  <2>2. \A q \in PIDs : Owned(q)' => Owned(q) /\ proc'[q].born = proc[q].born
    <3> TAKE q \in PIDs
    <3>1. Kept(q) \/ proc'[q] = Nobody
      BY <1>2, StepEffect
    <3> QED BY <1>0, <3>1, Zenon DEF Kept, Owned, Exists
  <2>3. seen <= births /\ ~complete
    BY <1>2 DEF ScanInv
  <2>4. CASE List
    <3>1. /\ listed' = {p \in PIDs : Exists(p)} /\ seen' = births /\ pc' = "read"
          /\ proc' = proc /\ complete' = complete
      BY <2>4, Zenon DEF List, envVars, outVars
    <3>2. \A q \in PIDs : Owned(q)' => q \in listed'
      BY <3>1, Zenon DEF Owned, Exists
    <3> QED BY <1>0, <2>1, <2>3, <3>1, <3>2 DEF ScanInv
  <2>5. CASE Read
    <3>1. /\ members' = Members(listed) /\ seen' = seen /\ pc = "read" /\ pc' = "decide"
          /\ proc' = proc /\ complete' = complete
      BY <2>5, Zenon DEF Read, envVars, outVars
    <3>2. members' = {} => \A q \in PIDs : Owned(q)' => proc'[q].born > seen'
      <4> SUFFICES ASSUME members' = {}, NEW q \in PIDs, Owned(q)' PROVE proc'[q].born > seen'
        OBVIOUS
      <4>1. Owned(q)
        BY <3>1, Zenon DEF Owned, Exists
      <4>2. q \notin listed
        BY <3>1, <4>1, MembersComplete
      <4> QED BY <3>1, <4>1, <4>2 DEF ScanInv
    <3> QED BY <2>1, <2>3, <3>1, <3>2 DEF ScanInv
  <2>6. CASE Finish
    <3>1. /\ seen' = seen /\ pc = "decide" /\ pc' = "done" /\ proc' = proc
          /\ complete' => scanOK /\ members = {}
      BY <2>6, Zenon DEF Finish, envVars, scanVars
    <3>2. complete' => \A q \in PIDs : Owned(q)' => proc'[q].born > seen'
      BY <3>1, Zenon DEF ScanInv, Owned, Exists
    <3> QED BY <2>1, <2>3, <3>1, <3>2 DEF ScanInv
  <2>7. CASE ScanFails
    <3>1. seen' = seen /\ pc' = "decide" /\ scanOK' = FALSE /\ complete' = complete
      BY <2>7, Zenon DEF ScanFails
    <3> QED BY <2>1, <2>3, <3>1 DEF ScanInv
  <2>8. CASE Stop \/ Tick
    <3>1. UNCHANGED <<proc, seen, pc, listed, members, scanOK, complete>>
      BY <2>8, Zenon DEF Stop, Tick, envVars, selfVars, scanVars, outVars
    <3>2. \A q \in PIDs : Owned(q)' <=> Owned(q)
      BY <3>1, Zenon DEF Owned, Exists
    <3> QED BY <2>1, <2>3, <3>1, <3>2, Zenon DEF ScanInv
  <2>9. CASE ~(List \/ Read \/ Finish \/ ScanFails \/ Stop \/ Tick)
    <3>1. /\ pc' \notin {"read", "decide"} /\ seen' = seen
          /\ complete' = complete
      BY <1>2, <2>9 DEF Step, Confirm, Reap, Watch, Aim, Test, Drain, Choose, Open,
         OpenFindsNobody, Send, Enter, Again, AllGone, ConfirmFails, SignalFails, Raise,
         EnterFinally, Report, SignalDone, scanVars, outVars
    <3> QED BY <2>1, <2>3, <3>1 DEF ScanInv
  <2> QED BY <2>4, <2>5, <2>6, <2>7, <2>8, <2>9
<1>3. CASE UNCHANGED vars
  BY <1>3, Zenon DEF vars, envVars, scanVars, outVars, ScanInv, Owned, Exists
<1> QED BY <1>1, <1>2, <1>3, NextIsStep

\* A cleanup reported complete left nobody in the session who was there when the
\* last scan listed /proc, whatever forked, exited, moved or failed before, and
\* whoever got the worker's number then.
THEOREM CompleteCountsAll == Spec => []CompleteButForked
<1>1. TypeOK /\ StatusInv /\ [Next]_vars => StatusInv'
  BY StatusStep
<1>2. TypeOK /\ StatusInv /\ ScanInv /\ [Next]_vars => ScanInv'
  BY ScanStep
<1>3. ScanInv => CompleteButForked
  BY DEF ScanInv, CompleteButForked
<1> QED BY <1>1, <1>2, <1>3, StatusInit, ScanInit, TypeCorrect, PTL DEF Spec

-----------------------------------------------------------------------------
(* Termination: once the time is over                                      *)

\* Which loop of run_owned is at which of its places, and what has begun there.
PlaceInv ==
    /\ pc = "confirm" <=> stage = "start"
    /\ pc \in {"test", "drain"} => stage = "main"
    /\ pc = "next" => stage \in {"enter", "last"}
    /\ pc \in {"signal", "open", "send"} => stage \in {"main", "last"}
    /\ stage = "last" \/ pc \in {"signal", "open", "send", "test", "next"} => Cleaning

LEMMA PlaceStep == PlaceInv /\ [Next]_vars => PlaceInv'
<1> SUFFICES ASSUME PlaceInv, [Next]_vars PROVE PlaceInv'
  OBVIOUS
<1>1. ASSUME NEW p \in PIDs, ProcessStep(p) PROVE PlaceInv'
  BY <1>1, Zenon DEF ProcessStep, Fork, Leave, Exit, ParentReaps, StrangerStarts, StrangerExits,
     selfVars, PlaceInv, Cleaning
<1>2. CASE Step
  <2> USE DEF PlaceInv, Cleaning
  <2>1. CASE Confirm \/ Reap \/ List \/ Read
    BY <2>1 DEF Confirm, Reap, List, Read
  <2>2. CASE Watch \/ Aim \/ Test \/ Drain
    BY <2>2 DEF Watch, Aim, Test, Drain, Begun, EnterFinally
  <2>3. CASE Choose \/ Open \/ OpenFindsNobody \/ Send
    BY <2>3 DEF Choose, Open, OpenFindsNobody, Send, SignalDone
  <2>4. CASE Enter \/ Again \/ AllGone \/ Finish
    BY <2>4 DEF Enter, Again, AllGone, Finish, Report, Begun
  <2>5. CASE ConfirmFails \/ ScanFails \/ SignalFails \/ Raise
    BY <2>5 DEF ConfirmFails, ScanFails, SignalFails, Raise, SignalDone, EnterFinally, Scan
  <2>6. CASE Stop \/ Tick
    BY <2>6 DEF Stop, Tick, selfVars
  <2> QED BY <1>2, <2>1, <2>2, <2>3, <2>4, <2>5, <2>6 DEF Step
<1>3. CASE UNCHANGED vars
  BY <1>3, Zenon DEF vars, PlaceInv, Cleaning
<1> QED BY <1>1, <1>2, <1>3, NextIsStep

\* The loops of run_owned in their order, and the places of one turn.
Loop(which) ==
    CASE which = "start" -> 0
      [] which = "main"  -> 1
      [] which = "enter" -> 2
      [] which = "last"  -> 3
      [] which = "end"   -> 4

Order(place) ==
    CASE place = "confirm" -> 0
      [] place = "drain"   -> 0
      [] place = "reap"    -> 1
      [] place = "list"    -> 2
      [] place = "read"    -> 3
      [] place = "decide"  -> 4
      [] place \in {"signal", "open", "send"} -> 5
      [] place = "test"    -> 6
      [] place = "next"    -> 7
      [] place = "done"    -> 8

\* A later loop, a later place of the turn, the next member, or a later step of
\* signalling this one.
Onward ==
    \/ Loop(stage) < Loop(stage')
    \/ stage' = stage /\ Order(pc) < Order(pc')
    \/ /\ stage' = stage /\ Order(pc') = Order(pc)
       /\ \/ \E id \in todo : todo' = todo \ {id}
          \/ todo' = todo /\ pc = "open" /\ pc' \in {"send", "signal"}
          \/ todo' = todo /\ pc = "send" /\ pc' = "signal"

\* Once the time for the worker and its cleanup is over, every step of the
\* supervisor leads on, whether or not it fails and whatever the processes do: a
\* loop is turned once more at most, and nobody is waited for.
THEOREM OverdueGoesOn ==
    Spec => [][(SupervisorStep \/ Failure) /\ phase \in {"missed", "over"}
                  => Onward /\ phase' \in {"missed", "over"}]_vars
<1> DEFINE Overdue == phase \in {"missed", "over"}
<1>1. ASSUME PlaceInv, SupervisorStep \/ Failure, Overdue PROVE Onward /\ Overdue'
  <2> USE <1>1 DEF PlaceInv, Cleaning, Loop, Order
  <2>1. CASE Confirm
    BY <2>1 DEF Confirm, Onward
  <2>2. CASE Refresh
    BY <2>2 DEF Refresh, Reap, List, Read, Onward
  <2>3. CASE Watch \/ Aim
    BY <2>3 DEF Watch, Aim, Begun, Onward
  <2>4. CASE Test \/ Drain
    BY <2>4 DEF Test, Drain, EnterFinally, Onward
  <2>5. CASE SignalMember
    BY <2>5 DEF SignalMember, Choose, Open, OpenFindsNobody, Send, SignalDone, Onward
  <2>6. CASE Enter \/ Again \/ AllGone \/ Finish
    BY <2>6 DEF Enter, Again, AllGone, Finish, Report, Begun, Onward
  <2>7. CASE Failure
    BY <2>7 DEF Failure, ConfirmFails, ScanFails, SignalFails, Raise, SignalDone, EnterFinally, Scan,
       Onward
  <2> QED BY <1>1, <2>1, <2>2, <2>3, <2>4, <2>5, <2>6, <2>7 DEF SupervisorStep
<1>2. Init => PlaceInv
  BY DEF Init, PlaceInv, Cleaning
<1>3. PlaceInv /\ [Next]_vars =>
         [(SupervisorStep \/ Failure) /\ phase \in {"missed", "over"}
             => Onward /\ phase' \in {"missed", "over"}]_vars
  BY <1>1
<1> QED BY <1>2, <1>3, PlaceStep, PTL DEF Spec

=============================================================================
