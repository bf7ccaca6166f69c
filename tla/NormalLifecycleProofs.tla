------------------------ MODULE NormalLifecycleProofs ------------------------
(***************************************************************************)
(* The operator's commands, for any number of commands, operations,        *)
(* service instances and boots: LifecycleInv and OneOperator are inductive *)
(* together, and the commands implement RestoreOnce.                       *)
(***************************************************************************)
EXTENDS NormalLifecycle, TLAPS

IInv == LifecycleInv /\ OneOperator

LEMMA RolesAre == Roles = {"cosmic", "worker"} /\ "cosmic" # "worker"
BY DEF Roles

-----------------------------------------------------------------------------
(* The parts of the invariant a step can be looked at by.                  *)
DataInv == HostInv /\ JournalInv /\ CompletedWitnessed
ControlInv == CommandInv /\ GuardInv /\ OneOperator

(* What the counters and intents on disk say follows from Sound.           *)
LEMMA DataMeans ==
    ASSUME JournalInv, TypeOK
    PROVE  WellCountedUnlessTorn /\ IntentFirst
BY DEF JournalInv, Sound, TypeOK, WellCountedUnlessTorn, IntentFirst, Roles,
       NoJournal, Journals, Instances

LEMMA Gathered ==
    (TypeOK /\ DataInv /\ ControlInv) <=> IInv
BY DataMeans DEF DataInv, ControlInv, IInv, LifecycleInv

LEMMA LifecycleInit == Init => IInv
<1> SUFFICES ASSUME Init PROVE IInv
    OBVIOUS
<1> USE DEF Init
<1>1. TypeOK
  <2>1. NoJournal \in Journals /\ NoHandoff \in Handoffs
    BY LifecycleAssumption DEF NoJournal, Journals, NoHandoff, Handoffs, Instances, Roles
  <2>2. Idle \in CommandRecords
    BY <2>1 DEF Idle, CommandRecords, OutsideTry, InsideTry, Roles
  <2>3. \A r \in Roles : 1 \in Instances /\ 0 \in Instances
    BY LifecycleAssumption DEF Instances
  <2>4. boot \in 1..MaxBoots
    BY LifecycleAssumption
  <2>5. receipts \in [Instances -> Instances] /\ asks \in [Ops -> [Roles -> Nat]]
    BY LifecycleAssumption DEF Instances
  <2>6. QED
    BY <2>1, <2>2, <2>3, <2>4, <2>5 DEF TypeOK
<1>2. Active = {}
    BY DEF Active, Idle
<1>3. ControlInv
    BY <1>2 DEF ControlInv, CommandInv, GuardInv, OneOperator, Idle
<1>4. DataInv
    BY DEF DataInv, HostInv, JournalInv, CompletedWitnessed, Sound, Open, NoJournal,
           Roles
<1>5. QED
    BY <1>1, <1>3, <1>4, Gathered

-----------------------------------------------------------------------------
(* The lock of one: who is active is alone, and a guard's owner or nobody  *)
(* is beside a guard.                                                      *)
LEMMA Alone ==
    ASSUME IInv, NEW p \in Commands, p \in Active \/ SerialFree
    PROVE  /\ \A q \in Commands \ {p} : q \notin Active /\ ~cmd[q].world
           /\ SerialFree => Active = {} /\ guards = {}
           /\ p \in Active /\ cmd[p].pc \notin {"wait", "fail"} => guards = {}
<1> USE DEF IInv, LifecycleInv
<1>1. SerialFree => Active = {} /\ guards = {}
  BY DEF GuardInv, SerialFree
<1>2. \A q \in Commands \ {p} : q \notin Active
  BY <1>1 DEF OneOperator, Active
<1>3. \A q \in Commands \ {p} : ~cmd[q].world
  BY <1>2 DEF CommandInv
<1>4. p \in Active /\ cmd[p].pc \notin {"wait", "fail"} => guards = {}
  BY DEF GuardInv
<1>5. QED
  BY <1>1, <1>2, <1>3, <1>4

(* A step of one command that leaves the guards alone.                     *)
LEMMA CommandStep ==
    ASSUME IInv, NEW p \in Commands, p \in Active \/ SerialFree,
           \A q \in Commands \ {p} : cmd'[q] = cmd[q],
           guards' = guards, asks' = asks,
           p \in Active' => Knows(cmd[p])',
           p \notin Active' => ~cmd'[p].world,
           guards = {} \/ p \notin Active' \/
             /\ cmd'[p].pc = "fail" /\ cmd[p].pc \in {"wait", "fail"}
             /\ cmd'[p].op = cmd[p].op /\ cmd'[p].world = cmd[p].world,
           \A o \in Ops : journal[o].status \in {"pending", "failed"}
                              => journal'[o].status \in {"pending", "failed"}
    PROVE  ControlInv'
<1>1. \A q \in Commands \ {p} : q \notin Active' /\ ~cmd'[q].world
    BY Alone DEF Active
<1>2. CommandInv'
    BY <1>1 DEF CommandInv
<1>3. OneOperator'
    BY <1>1, Alone DEF IInv, OneOperator, Active
<1>4. GuardInv'
    BY <1>1, Alone DEF IInv, LifecycleInv, GuardInv, Active, Open, TypeOK, Guards
<1>5. QED
    BY <1>2, <1>3, <1>4 DEF ControlInv

LEMMA DataSame ==
    ASSUME IInv, journal' = journal, guards' = guards, asks' = asks,
           unit' = unit, made' = made, receipts' = receipts, handoff' = handoff
    PROVE  DataInv'
BY DEF IInv, LifecycleInv, DataInv, HostInv, JournalInv, Sound, Open, Latest,
       CompletedWitnessed

(* A journal becomes j, which is sound for its operation and keeps the     *)
(* instances that were named; the operation is the one that is open or to  *)
(* be opened.                                                              *)
LEMMA JournalStep ==
    ASSUME IInv, NEW o \in Ops, NEW j \in Journals,
           journal' = [journal EXCEPT ![o] = j],
           UNCHANGED <<host, guards, asks>>,
           Sound(o, j), Latest(o), j.status # "absent",
           j.status = "completed" =>
               /\ j.intent = Roles
               /\ \A r \in Roles : j.seen[r] > handoff[o].stopped[r]
               /\ receipts[j.seen["worker"]] = j.seen["cosmic"]
    PROVE  DataInv'
<1> USE DEF IInv, LifecycleInv, TypeOK, host
<1>1. journal'[o] = j /\ \A x \in Ops \ {o} : journal'[x] = journal[x]
    OBVIOUS
<1>2. HostInv'
    BY DEF HostInv
<1>3. \A x \in Ops : Sound(x, journal[x])'
    BY <1>1 DEF JournalInv, Sound
<1>4. \A x \in Ops : Open(x)' => Latest(x)'
    BY <1>1 DEF JournalInv, Latest, Open
<1>5. CompletedWitnessed'
    BY <1>1 DEF CompletedWitnessed
<1>6. QED
    BY <1>2, <1>3, <1>4, <1>5 DEF DataInv, JournalInv
-----------------------------------------------------------------------------
LEMMA NextInstance ==
    ASSUME NEW m \in Instances, m < MaxMade
    PROVE  m + 1 \in Instances
BY LifecycleAssumption DEF Instances

(* The host by itself.                                                     *)
LEMMA HostType ==
    ASSUME TypeOK,
           \/ \E r \in Roles : ServiceUp(r) \/ ServiceDown(r)
           \/ WorkerLocks \/ WorkerIdles \/ Reboot
           \/ \E o \in Ops : MakeHandoff(o)
    PROVE  TypeOK'
<1> USE DEF TypeOK
<1>1. ASSUME NEW r \in Roles, ServiceUp(r) PROVE TypeOK'
  <2>1. made[r] + 1 \in Instances
    BY <1>1, NextInstance DEF ServiceUp
  <2>2. QED
    BY <1>1, <2>1 DEF ServiceUp
<1>2. ASSUME NEW r \in Roles, ServiceDown(r) PROVE TypeOK'
  <2>1. unit' \in [Roles -> [up : BOOLEAN, inv : Instances]]
    BY <1>2 DEF ServiceDown
  <2>2. workerLock' \in BOOLEAN
    BY <1>2 DEF ServiceDown
  <2>3. QED
    BY <1>2, <2>1, <2>2 DEF ServiceDown
<1>3. CASE WorkerLocks
  BY <1>3 DEF WorkerLocks
<1>4. CASE WorkerIdles
  BY <1>4 DEF WorkerIdles, Roles
<1>5. CASE Reboot
  <2>1. Idle \in CommandRecords
    BY LifecycleAssumption DEF Idle, CommandRecords, OutsideTry, InsideTry, Roles, NoJournal, Journals,
           Instances
  <2>2. boot' \in 1..MaxBoots /\ 0 \in Instances
    BY <1>5, LifecycleAssumption DEF Reboot, Instances
  <2>3. QED
    BY <1>5, <2>1, <2>2 DEF Reboot
<1>6. ASSUME NEW o \in Ops, MakeHandoff(o) PROVE TypeOK'
  <2>1. [boot |-> boot, stopped |-> [r \in Roles |-> unit[r].inv]] \in Handoffs
    BY LifecycleAssumption DEF Handoffs
  <2>2. QED
    BY <1>6, <2>1 DEF MakeHandoff
<1>7. QED
  BY <1>1, <1>2, <1>3, <1>4, <1>5, <1>6

LEMMA ServiceHost ==
    ASSUME TypeOK, HostInv,
           \/ \E r \in Roles : ServiceUp(r) \/ ServiceDown(r)
           \/ WorkerLocks \/ WorkerIdles
    PROVE  HostInv'
<1>1. ASSUME NEW r \in Roles, ServiceUp(r) PROVE HostInv'
  <2>1. /\ made' = [made EXCEPT ![r] = made[r] + 1] /\ handoff' = handoff
        /\ unit' = [unit EXCEPT ![r] = [up |-> TRUE, inv |-> made[r] + 1]]
    BY <1>1 DEF ServiceUp
  <2>2. \A s \in Roles : made[s] \in Nat
    BY DEF TypeOK, Instances
  <2>3. QED
    BY <2>1, <2>2 DEF HostInv, TypeOK
<1>2. ASSUME NEW r \in Roles, ServiceDown(r) PROVE HostInv'
  BY <1>2 DEF HostInv, ServiceDown, TypeOK
<1>3. CASE WorkerLocks \/ WorkerIdles
  BY <1>3 DEF HostInv, WorkerLocks, WorkerIdles
<1>4. QED
  BY <1>1, <1>2, <1>3

(* Nothing but the services change: instances only get more, and what is   *)
(* known of past ones stays.                                               *)
LEMMA ServiceStep ==
    ASSUME IInv,
           \/ \E r \in Roles : ServiceUp(r) \/ ServiceDown(r)
           \/ WorkerLocks \/ WorkerIdles
    PROVE  DataInv' /\ ControlInv'
<1> USE DEF IInv, LifecycleInv, TypeOK
<1>1. /\ journal' = journal /\ cmd' = cmd /\ guards' = guards
      /\ asks' = asks /\ handoff' = handoff
  BY DEF ServiceUp, ServiceDown, WorkerLocks, WorkerIdles
<1>2. \A r \in Roles : made[r] \in Nat /\ made'[r] \in Nat /\ made[r] <= made'[r]
  BY DEF ServiceUp, ServiceDown, WorkerLocks, WorkerIdles, Instances
<1>3. HostInv'
  BY ServiceHost
<1>4. ASSUME NEW o \in Ops, NEW j \in Journals, Sound(o, j) PROVE Sound(o, j)'
  BY <1>1, <1>2, <1>4 DEF Sound, Journals, Instances
<1>5. JournalInv'
  BY <1>1, <1>4 DEF JournalInv, Open, Latest
<1>6. CompletedWitnessed'
  <2>1. CASE receipts' = receipts
    BY <1>1, <2>1 DEF CompletedWitnessed
  <2>2. CASE WorkerIdles
    BY <1>1, <2>2 DEF CompletedWitnessed, WorkerIdles, Roles, JournalInv, Sound, HostInv,
                      Instances, Journals, Handoffs
  <2>3. QED
    BY <2>1, <2>2 DEF ServiceUp, ServiceDown, WorkerLocks
<1>7. ASSUME NEW c \in CommandRecords, Knows(c) PROVE Knows(c)'
  BY <1>1, <1>4, <1>7 DEF Knows, NonePending, Latest, Open, Grows, CommandRecords
<1>8. ControlInv'
  BY <1>1, <1>7 DEF ControlInv, CommandInv, GuardInv, OneOperator, Active, Open
<1>9. QED
  BY <1>3, <1>5, <1>6, <1>8 DEF DataInv

LEMMA HandoffStep ==
    ASSUME IInv, NEW o \in Ops, MakeHandoff(o)
    PROVE  DataInv' /\ ControlInv'
<1> USE DEF IInv, LifecycleInv, TypeOK
<1>1. Active = {} /\ guards = {}
  BY DEF MakeHandoff, SerialFree, GuardInv
<1>2. journal[o] = NoJournal /\ \A x \in Ops : ~Open(x)
  BY DEF MakeHandoff, NonePending, Open, JournalInv, Sound
<1>3. /\ journal' = journal /\ cmd' = cmd /\ guards' = guards /\ asks' = asks
      /\ made' = made /\ unit' = unit /\ receipts' = receipts
      /\ \A x \in Ops \ {o} : handoff'[x] = handoff[x]
      /\ handoff'[o].stopped = [r \in Roles |-> unit[r].inv]
  BY DEF MakeHandoff
<1>4. HostInv'
  BY <1>3 DEF HostInv, MakeHandoff, Instances
<1>5. JournalInv'
  <2>1. \A x \in Ops : Sound(x, journal[x])'
    BY <1>2, <1>3 DEF JournalInv, Sound, NoJournal
  <2>2. QED
    BY <1>2, <1>3, <2>1 DEF JournalInv, Open
<1>6. CompletedWitnessed'
  BY <1>2, <1>3 DEF CompletedWitnessed, NoJournal
<1>7. ControlInv'
  BY <1>1, <1>3 DEF ControlInv, CommandInv, GuardInv, OneOperator, Active
<1>8. QED
  BY <1>4, <1>5, <1>6, <1>7 DEF DataInv

LEMMA RebootStep ==
    ASSUME IInv, Reboot
    PROVE  DataInv' /\ ControlInv'
<1> USE DEF IInv, LifecycleInv, TypeOK, Reboot
<1>1. Active' = {} /\ guards' = {} /\ \A p \in Commands : ~cmd'[p].world
  BY DEF Active, Idle
<1>2. ControlInv'
  BY <1>1 DEF ControlInv, CommandInv, GuardInv, OneOperator
<1>3. HostInv'
  BY DEF HostInv
<1>4. JournalInv'
  BY <1>1 DEF JournalInv, Sound, Latest, Open
<1>5. CompletedWitnessed'
  BY DEF CompletedWitnessed
<1>6. QED
  BY <1>2, <1>3, <1>4, <1>5 DEF DataInv
-----------------------------------------------------------------------------
(* What a command does without writing the journal or leaving a guard: one *)
(* command changes, and knows what its new step needs.                     *)
LEMMA QuietStep ==
    ASSUME IInv, NEW p \in Commands,
           \/ \E o \in Ops : Begin(p, o)
           \/ Admit(p) \/ Preflight(p) \/ Continue(p) \/ Handoff(p) \/ FirstIdle(p)
           \/ Load(p) \/ ResumeWorker(p) \/ ResumeCosmic(p) \/ Refuse(p) \/ Raise(p)
    PROVE  TypeOK' /\ DataInv' /\ ControlInv'
<1>1. /\ journal' = journal /\ guards' = guards /\ asks' = asks
      /\ boot' = boot /\ unit' = unit /\ made' = made /\ workerLock' = workerLock
      /\ receipts' = receipts /\ handoff' = handoff
  BY DEF Begin, Admit, Preflight, Continue, Handoff, FirstIdle, Load, ResumeWorker,
         ResumeCosmic, Refuse, Raise, host
<1>2. TypeOK /\ HostInv /\ JournalInv /\ CompletedWitnessed /\ CommandInv /\ GuardInv
  BY DEF IInv, LifecycleInv
<1>3. cmd[p] \in CommandRecords /\ Idle \in CommandRecords
  <2>1. Idle \in CommandRecords
    BY LifecycleAssumption DEF Idle, CommandRecords, OutsideTry, InsideTry, Roles,
       NoJournal, Journals, Instances
  <2>2. QED
    BY <1>2, <2>1 DEF TypeOK
<1>4. DataInv'
  BY <1>1, DataSame
<1>5. \A o \in Ops : journal[o].status \in {"pending", "failed"}
                     => journal'[o].status \in {"pending", "failed"}
  BY <1>1
<1>6. \A q \in Commands \ {p} : cmd'[q] = cmd[q]
  BY <1>2 DEF Begin, Admit, Preflight, Continue, Handoff, FirstIdle, Load, ResumeWorker,
         ResumeCosmic, Refuse, Raise, Leave, To, TypeOK
<1>7. ASSUME NEW o \in Ops, Begin(p, o) PROVE TypeOK' /\ ControlInv'
  <2>1. PICK doc \in BOOLEAN, pc \in {"admit", "load"} :
            /\ pc = "load" => journal[o].status \in {"pending", "failed"}
            /\ To(p, [Idle EXCEPT !.pc = pc, !.op = o, !.doc = doc])
    BY <1>7 DEF Begin
  <2>2. [Idle EXCEPT !.pc = pc, !.op = o, !.doc = doc] \in CommandRecords
    BY <1>3 DEF CommandRecords, OutsideTry
  <2>3. TypeOK'
    BY <1>1, <1>2, <2>1, <2>2 DEF TypeOK, To
  <2>4. cmd'[p] = [Idle EXCEPT !.pc = pc, !.op = o, !.doc = doc]
    BY <1>2, <2>1 DEF To, TypeOK
  <2>5. Knows(cmd[p])' /\ SerialFree /\ p \in Active'
    BY <1>1, <1>7, <2>1, <2>4 DEF Begin, Knows, InsideTry, Idle, Open, Active
  <2>6. guards = {}
    BY <2>5, Alone
  <2>7. QED
    BY <1>1, <1>5, <1>6, <2>3, <2>5, <2>6, CommandStep
<1>8. CASE Refuse(p) \/ Raise(p)
  <2>1. p \in Active /\ Knows(cmd[p])
    BY <1>2, <1>8 DEF Refuse, Raise, Active, OutsideTry, InsideTry, CommandInv
  <2>2. CASE Refuse(p)
    <3>1. cmd' = [cmd EXCEPT ![p] = Idle]
      BY <2>2 DEF Refuse, Leave, To
    <3>2. p \notin Active' /\ ~cmd'[p].world
      BY <1>2, <3>1 DEF Active, Idle, TypeOK
    <3>3. TypeOK'
      BY <1>1, <1>2, <1>3, <3>1 DEF TypeOK
    <3>4. QED
      BY <1>1, <1>4, <1>5, <1>6, <2>1, <3>2, <3>3, CommandStep
  <2>3. CASE Raise(p)
    <3>1. cmd' = [cmd EXCEPT ![p] = [cmd[p] EXCEPT !.pc = "fail"]]
          /\ cmd[p].pc \in InsideTry
      BY <2>3 DEF Raise, To
    <3>2. cmd'[p] = [cmd[p] EXCEPT !.pc = "fail"]
      BY <1>2, <3>1 DEF TypeOK
    <3>3. [cmd[p] EXCEPT !.pc = "fail"] \in CommandRecords
      BY <1>3 DEF CommandRecords
    <3>4. TypeOK'
      BY <1>1, <1>2, <3>1, <3>3 DEF TypeOK
    <3>5. p \in Active' /\ cmd'[p].op = cmd[p].op /\ cmd'[p].world = cmd[p].world
          /\ cmd'[p].pc = "fail" /\ cmd'[p].mem = cmd[p].mem /\ cmd'[p].known = cmd[p].known
      BY <1>3, <3>2 DEF Active, CommandRecords
    <3>6. cmd[p].known /\ cmd[p].mem = journal[cmd[p].op] /\ Open(cmd[p].op)
          /\ cmd[p].op \in Ops /\ handoff[cmd[p].op] # NoHandoff
      BY <2>1, <3>1 DEF Knows
    <3>7. Sound(cmd[p].op, cmd[p].mem) /\ Grows(cmd[p].mem, cmd[p].mem)
      BY <1>2, <3>6 DEF JournalInv, Grows, Roles
    <3>8. Sound(cmd[p].op, cmd[p].mem)'
      BY <1>1, <3>5, <3>7 DEF Sound
    <3>9. Knows(cmd[p])'
      BY <1>1, <3>5, <3>6, <3>7, <3>8 DEF Knows, InsideTry, Open, Grows
    <3>10. guards = {} \/ cmd[p].pc \in {"wait", "fail"}
      BY <2>1, Alone
    <3>11. QED
      BY <1>1, <1>4, <1>5, <1>6, <2>1, <3>4, <3>5, <3>9, <3>10, CommandStep
  <2>4. QED
    BY <1>8, <2>2, <2>3
<1>9. CASE \/ Admit(p) \/ Preflight(p) \/ Continue(p) \/ Handoff(p) \/ FirstIdle(p)
           \/ Load(p) \/ ResumeWorker(p) \/ ResumeCosmic(p)
  <2> DEFINE c == cmd[p]
  <2>1. p \in Active /\ c.pc \notin {"wait", "fail"} /\ c.pc # "idle"
    BY <1>9 DEF Admit, Preflight, Continue, Handoff, FirstIdle, Load, ResumeWorker,
         ResumeCosmic, Active
  <2>2. guards = {} /\ Knows(c)
    BY <1>2, <2>1, Alone DEF CommandInv
  <2>3. TypeOK' /\ Knows(cmd[p])' /\ p \in Active'
    <3> USE DEF CommandRecords
    <3>1. c.op \in Ops /\ handoff[c.op] # NoHandoff
      BY <2>2 DEF Knows
    <3>2. ASSUME NEW d \in CommandRecords, To(p, d), d.pc # "idle", Knows(d)
          PROVE  TypeOK' /\ Knows(cmd[p])' /\ p \in Active'
      <4>1. cmd' = [cmd EXCEPT ![p] = d] /\ cmd'[p] = d
        BY <1>2, <3>2 DEF To, TypeOK
      <4>2. TypeOK'
        BY <1>1, <1>2, <4>1 DEF TypeOK
      <4>3. Knows(cmd[p])'
        BY <1>1, <3>2, <4>1 DEF Knows, NonePending, Latest, Open, Sound, Grows
      <4>4. QED
        BY <3>2, <4>1, <4>2, <4>3 DEF Active
    <3>3. CASE Admit(p)
      <4>1. [c EXCEPT !.pc = "preflight", !.world = TRUE] \in CommandRecords
        BY <1>3 DEF OutsideTry
      <4>2. Knows([c EXCEPT !.pc = "preflight", !.world = TRUE])
        BY <3>1, <3>3, <1>3 DEF Admit, Knows, InsideTry
      <4>3. QED
        BY <3>2, <3>3, <4>1, <4>2 DEF Admit
    <3>4. CASE Preflight(p)
      <4>1. NonePending
        BY <2>2, <3>4 DEF Preflight, Knows
      <4>2. Latest(c.op)
        <5>1. \A x \in Ops : ~Open(x)
          BY <4>1 DEF NonePending, Open
        <5>2. \A r \in Roles : made[r] = handoff[c.op].stopped[r]
          BY <1>2, <3>1, <3>4 DEF Preflight, StoppedAsHandedOff, HostInv
        <5>3. \A x \in Ops, r \in Roles : journal[x].seen[r] <= made[r]
          BY <1>2 DEF JournalInv, Sound, TypeOK, Journals, Instances
        <5>4. QED
          BY <5>1, <5>2, <5>3 DEF Latest
      <4>3. [c EXCEPT !.pc = "publish"] \in CommandRecords
        BY <1>3 DEF OutsideTry
      <4>4. Knows([c EXCEPT !.pc = "publish"])
        BY <3>1, <4>1, <4>2, <1>3 DEF Knows, InsideTry
      <4>5. QED
        BY <3>2, <3>4, <4>3, <4>4 DEF Preflight
    <3>5. CASE Handoff(p)
      <4> DEFINE d == [c EXCEPT !.pc = "launch", !.world = FALSE]
      <4>1. d \in CommandRecords
        BY <1>3 DEF InsideTry
      <4>2. Knows(d)
        BY <2>2, <3>5, <1>3 DEF Handoff, Knows, InsideTry, OutsideTry
      <4>3. QED
        BY <3>2, <3>5, <4>1, <4>2 DEF Handoff
    <3>6. CASE FirstIdle(p)
      <4> DEFINE d == [c EXCEPT !.pc = "complete"]
      <4>1. d \in CommandRecords
        BY <1>3 DEF InsideTry
      <4>2. Knows(d)
        BY <2>2, <3>6, <1>3 DEF FirstIdle, Knows, InsideTry, OutsideTry
      <4>3. QED
        BY <3>2, <3>6, <4>1, <4>2 DEF FirstIdle
    <3>7. CASE Load(p)
      <4> DEFINE d == [c EXCEPT !.pc = "resume", !.mem = journal[c.op], !.known = TRUE]
      <4>1. d \in CommandRecords
        BY <1>2, <1>3, <3>1 DEF InsideTry, TypeOK
      <4>2. Knows(d)
        BY <2>2, <3>7, <1>3 DEF Load, Knows, InsideTry, OutsideTry
      <4>3. QED
        BY <3>2, <3>7, <4>1, <4>2 DEF Load
    <3>8. ASSUME NEW pc \in {"native", "intent", "continue", "finish"},
                 NEW r \in Roles, NEW w \in BOOLEAN, c.pc \in InsideTry,
                 To(p, [c EXCEPT !.pc = pc, !.role = r, !.world = w])
          PROVE  TypeOK' /\ Knows(cmd[p])' /\ p \in Active'
      <4> DEFINE d == [c EXCEPT !.pc = pc, !.role = r, !.world = w]
      <4>1. d \in CommandRecords
        BY <1>3 DEF InsideTry
      <4>2. Knows(d)
        BY <2>2, <3>8, <1>3 DEF Knows, InsideTry, OutsideTry
      <4>3. QED
        BY <3>2, <3>8, <4>1, <4>2
    <3>9. CASE Continue(p)
      <4>1. /\ [c EXCEPT !.pc = "native"]
                  = [c EXCEPT !.pc = "native", !.role = c.role, !.world = c.world]
            /\ [c EXCEPT !.pc = "intent", !.role = "cosmic"]
                  = [c EXCEPT !.pc = "intent", !.role = "cosmic", !.world = c.world]
            /\ c.role \in Roles /\ c.world \in BOOLEAN /\ "cosmic" \in Roles
        BY <1>3 DEF Roles
      <4>2. c.pc \in InsideTry
        BY <3>9 DEF Continue, InsideTry
      <4>3. CASE "cosmic" \in c.mem.intent
        BY <3>8, <3>9, <4>1, <4>2, <4>3 DEF Continue
      <4>4. CASE "cosmic" \notin c.mem.intent
        BY <3>8, <3>9, <4>1, <4>2, <4>4 DEF Continue
      <4>5. QED
        BY <4>3, <4>4
    <3>10. ASSUME NEW r \in Roles, NEW w \in BOOLEAN, c.pc = "resume",
                  r \in c.mem.intent, c.mem.seen[r] = 0,
                  To(p, [c EXCEPT !.pc = "adopt", !.role = r, !.world = w])
           PROVE  TypeOK' /\ Knows(cmd[p])' /\ p \in Active'
      <4> DEFINE d == [c EXCEPT !.pc = "adopt", !.role = r, !.world = w]
      <4>1. d \in CommandRecords
        BY <1>3 DEF InsideTry
      <4>2. Knows(d)
        BY <2>2, <3>10, <1>3 DEF Knows, InsideTry, OutsideTry
      <4>3. QED
        BY <3>2, <3>10, <4>1, <4>2
    <3>11. CASE ResumeWorker(p)
      <4>1. \A pc \in {"adopt", "finish"} :
                [c EXCEPT !.pc = pc, !.role = "worker"]
                  = [c EXCEPT !.pc = pc, !.role = "worker", !.world = c.world]
        BY <1>3
      <4>2. c.pc \in InsideTry /\ c.world \in BOOLEAN /\ "worker" \in Roles
        BY <1>3, <3>11 DEF ResumeWorker, InsideTry, Roles
      <4>3. CASE c.mem.seen["worker"] = 0
        BY <3>10, <3>11, <4>1, <4>2, <4>3 DEF ResumeWorker
      <4>4. CASE c.mem.seen["worker"] # 0
        BY <3>8, <3>11, <4>1, <4>2, <4>4 DEF ResumeWorker
      <4>5. QED
        BY <4>3, <4>4
    <3>12. CASE ResumeCosmic(p)
      <4>1. c.pc \in InsideTry /\ "cosmic" \in Roles
        BY <3>12 DEF ResumeCosmic, InsideTry, Roles
      <4>2. CASE "cosmic" \in c.mem.intent /\ c.mem.seen["cosmic"] = 0
        BY <3>10, <3>12, <4>1, <4>2 DEF ResumeCosmic
      <4>3. CASE ~("cosmic" \in c.mem.intent /\ c.mem.seen["cosmic"] = 0)
        BY <3>8, <3>12, <4>1, <4>3 DEF ResumeCosmic
      <4>4. QED
        BY <4>2, <4>3
    <3>13. QED
      BY <1>9, <3>3, <3>4, <3>5, <3>6, <3>7, <3>9, <3>11, <3>12
  <2>4. QED
    BY <1>1, <1>4, <1>5, <1>6, <2>1, <2>2, <2>3, CommandStep
<1>10. QED
  BY <1>4, <1>7, <1>8, <1>9
-----------------------------------------------------------------------------
(* One command changes and the services and guards do not: types.          *)
LEMMA CommandType ==
    ASSUME TypeOK, NEW p \in Commands, NEW d \in CommandRecords,
           cmd' = [cmd EXCEPT ![p] = d],
           UNCHANGED <<host, guards, asks>>,
           journal' \in [Ops -> Journals]
    PROVE  TypeOK' /\ cmd'[p] = d /\ \A q \in Commands \ {p} : cmd'[q] = cmd[q]
BY DEF TypeOK, host

(* What persist() must keep for the invariant, whichever way it ends.      *)
LEMMA PersistStep ==
    ASSUME IInv, NEW p \in Commands,
           cmd[p].pc \in InsideTry, cmd[p].pc # "wait",
           NEW before \in Journals, NEW after \in Journals,
           NEW then \in CommandRecords,
           Persist(p, before, after, then),
           Sound(cmd[p].op, before), Grows(journal[cmd[p].op], before),
           Sound(cmd[p].op, after), Grows(journal[cmd[p].op], after),
           \/ /\ after.status \in {"pending", "failed"}
              /\ then.pc \in InsideTry /\ then.op = cmd[p].op /\ then.known
              /\ then.pc \in {"handoff", "launch", "wait", "observe", "adopt"} =>
                     /\ then.role \in after.intent /\ after.seen[then.role] = 0
                     /\ asks[then.op][then.role] = 0
              /\ then.pc = "handoff" => then.role = "worker"
              /\ then.pc = "launch" => then.role # "worker"
           \/ /\ after.status = "completed" /\ after.intent = Roles
              /\ \A r \in Roles : after.seen[r] > handoff[cmd[p].op].stopped[r]
              /\ receipts[after.seen["worker"]] = after.seen["cosmic"]
              /\ then.pc = "idle" /\ ~then.world
    PROVE  TypeOK' /\ DataInv' /\ ControlInv'
<1> DEFINE c == cmd[p]
<1>1. /\ guards' = guards /\ asks' = asks
      /\ boot' = boot /\ unit' = unit /\ made' = made /\ workerLock' = workerLock
      /\ receipts' = receipts /\ handoff' = handoff /\ c.known
  BY DEF Persist, host
<1>2. TypeOK /\ HostInv /\ JournalInv /\ CompletedWitnessed /\ CommandInv /\ GuardInv
  BY DEF IInv, LifecycleInv
<1>3. p \in Active /\ Knows(c) /\ guards = {} /\ c \in CommandRecords
  <2>1. p \in Active
    BY DEF Active, InsideTry
  <2>2. c.pc \notin {"wait", "fail"}
    BY DEF InsideTry
  <2>3. QED
    BY <1>2, <2>1, <2>2, Alone DEF CommandInv, TypeOK
<1>4. c.op \in Ops /\ handoff[c.op] # NoHandoff /\ Open(c.op) /\ c.mem = journal[c.op]
  BY <1>1, <1>3 DEF Knows
<1>5. Latest(c.op) /\ journal[c.op] \in Journals
  BY <1>2, <1>4 DEF JournalInv, TypeOK
<1>6. after.status \in {"pending", "failed", "completed"} /\ after.status # "absent"
  OBVIOUS
<1>7. CASE /\ journal' = [journal EXCEPT ![c.op] = after]
           /\ \/ To(p, [then EXCEPT !.mem = after])
              \/ To(p, [[c EXCEPT !.pc = "fail"] EXCEPT !.mem = after, !.known = FALSE])
  <2>1. DataInv'
    BY <1>1, <1>4, <1>5, <1>6, <1>7, JournalStep DEF host
  <2>2. journal' \in [Ops -> Journals] /\ journal'[c.op] = after
    BY <1>2, <1>4, <1>7 DEF TypeOK
  <2>3. CASE To(p, [then EXCEPT !.mem = after])
    <3> DEFINE d == [then EXCEPT !.mem = after]
    <3>1. d \in CommandRecords /\ d.mem = after /\ d.pc = then.pc /\ d.op = then.op
          /\ d.role = then.role /\ d.known = then.known /\ d.world = then.world
      BY DEF CommandRecords
    <3>2. TypeOK' /\ cmd'[p] = d /\ \A q \in Commands \ {p} : cmd'[q] = cmd[q]
      BY <1>1, <1>2, <2>2, <2>3, <3>1, CommandType DEF To, host
    <3>3. CASE after.status = "completed"
      <4>1. then.pc = "idle" /\ ~then.world
        BY <3>3
      <4>2. p \notin Active' /\ ~cmd'[p].world
        BY <3>1, <3>2, <4>1 DEF Active
      <4>3. \A o \in Ops : journal[o].status \in {"pending", "failed"} /\ o # c.op
                               => journal'[o].status \in {"pending", "failed"}
        BY <1>2, <1>7 DEF TypeOK
      <4>4. ControlInv'
        <5>0. \A q \in Commands \ {p} : q \notin Active /\ ~cmd[q].world
          BY <1>3, Alone
        <5>1. \A q \in Commands : q \notin Active' /\ ~cmd'[q].world
          BY <3>2, <4>2, <5>0 DEF Active
        <5>2. guards' = {}
          BY <1>1, <1>3
        <5>3. QED
          BY <5>1, <5>2 DEF ControlInv, CommandInv, GuardInv, OneOperator, Active
      <4>5. QED
        BY <2>1, <3>2, <4>4
    <3>4. CASE after.status \in {"pending", "failed"}
      <4>1. /\ then.pc \in InsideTry /\ then.op = c.op /\ then.known
            /\ then.pc \in {"handoff", "launch", "wait", "observe", "adopt"} =>
                   /\ then.role \in after.intent /\ after.seen[then.role] = 0
                   /\ asks[then.op][then.role] = 0
            /\ then.pc = "handoff" => then.role = "worker"
            /\ then.pc = "launch" => then.role # "worker"
        BY <3>4
      <4>2. Knows(cmd[p])' /\ p \in Active'
        <5>1. then.pc \notin {"preflight", "publish", "load", "fail", "idle"}
          BY <4>1 DEF InsideTry
        <5>2. /\ cmd'[p].pc = then.pc /\ cmd'[p].op = c.op /\ cmd'[p].known
              /\ cmd'[p].mem = after /\ cmd'[p].role = then.role
              /\ cmd'[p].world = then.world
          BY <3>1, <3>2, <4>1
        <5>3. p \in Active'
          BY <5>1, <5>2 DEF Active
        <5>4. Knows(cmd[p])'
          BY <1>1, <1>4, <2>2, <3>4, <4>1, <5>1, <5>2 DEF Knows, Open
        <5>5. QED
          BY <5>3, <5>4
      <4>3. \A o \in Ops : journal[o].status \in {"pending", "failed"}
                               => journal'[o].status \in {"pending", "failed"}
        BY <1>2, <1>7, <3>4 DEF TypeOK
      <4>4. QED
        BY <1>1, <1>3, <2>1, <3>2, <4>2, <4>3, CommandStep
    <3>5. QED
      BY <1>6, <3>3, <3>4
  <2>4. CASE To(p, [[c EXCEPT !.pc = "fail"] EXCEPT !.mem = after, !.known = FALSE])
    <3> DEFINE d == [[c EXCEPT !.pc = "fail"] EXCEPT !.mem = after, !.known = FALSE]
    <3>1. d \in CommandRecords /\ d.pc = "fail" /\ d.op = c.op /\ ~d.known
      BY <1>3 DEF CommandRecords
    <3>2. TypeOK' /\ cmd'[p] = d /\ \A q \in Commands \ {p} : cmd'[q] = cmd[q]
      BY <1>1, <1>2, <2>2, <2>4, <3>1, CommandType DEF To, host
    <3>3. Knows(cmd[p])' /\ p \in Active'
      BY <1>1, <1>4, <3>1, <3>2 DEF Knows, Active, InsideTry
    <3>4. ControlInv'
      <4>1. \A q \in Commands \ {p} : q \notin Active' /\ ~cmd'[q].world
        BY <1>3, <3>2, Alone DEF Active
      <4>2. guards' = {}
        BY <1>1, <1>3
      <4>3. QED
        BY <3>3, <4>1, <4>2 DEF ControlInv, CommandInv, GuardInv, OneOperator, Active
    <3>5. QED
      BY <2>1, <3>2, <3>4
  <2>5. QED
    BY <1>7, <2>3, <2>4
<1>8. ASSUME NEW m \in {before, after}, journal' = journal,
             To(p, [[c EXCEPT !.pc = "fail"] EXCEPT !.mem = m])
      PROVE  TypeOK' /\ DataInv' /\ ControlInv'
  <2> DEFINE d == [[c EXCEPT !.pc = "fail"] EXCEPT !.mem = m]
  <2>1. d \in CommandRecords /\ d.pc = "fail" /\ d.op = c.op /\ d.known = c.known
        /\ d.mem = m
    BY <1>3 DEF CommandRecords
  <2>2. TypeOK' /\ cmd'[p] = d /\ \A q \in Commands \ {p} : cmd'[q] = cmd[q]
    <3>1. journal' \in [Ops -> Journals] /\ cmd' = [cmd EXCEPT ![p] = d]
      BY <1>2, <1>8 DEF TypeOK, To
    <3>2. QED
      BY <1>1, <1>2, <2>1, <3>1, CommandType DEF host
  <2>3. DataInv'
    BY <1>1, <1>8, DataSame
  <2>4. cmd'[p].op = c.op /\ cmd'[p].mem = m /\ cmd'[p].known = c.known
        /\ cmd'[p].pc = "fail"
    BY <2>1, <2>2
  <2>5. Knows(cmd[p])' /\ p \in Active'
    <3>1. Sound(cmd[p].op, cmd[p].mem)' /\ Grows(journal[cmd[p].op], cmd[p].mem)'
      BY <1>1, <1>8, <2>4 DEF Sound, Grows
    <3>2. QED
      BY <1>1, <1>4, <1>8, <2>4, <3>1 DEF Knows, Active, InsideTry, Open
  <2>6. QED
    BY <1>1, <1>3, <1>8, <2>2, <2>3, <2>5, CommandStep
<1>9. QED
  BY <1>7, <1>8 DEF Persist
(* What a running command stands on.                                       *)
LEMMA Standing ==
    ASSUME IInv, NEW p \in Commands, cmd[p].pc \in InsideTry
    PROVE  /\ p \in Active /\ Knows(cmd[p]) /\ cmd[p] \in CommandRecords
           /\ cmd[p].op \in Ops /\ handoff[cmd[p].op] # NoHandoff
           /\ cmd[p].known /\ cmd[p].mem = journal[cmd[p].op]
           /\ cmd[p].mem \in Journals /\ Sound(cmd[p].op, cmd[p].mem)
           /\ cmd[p].mem.status \in {"pending", "failed"}
<1>1. p \in Active
  BY DEF Active, InsideTry
<1>2. TypeOK /\ JournalInv /\ CommandInv
  BY DEF IInv, LifecycleInv
<1>3. Knows(cmd[p]) /\ cmd[p] \in CommandRecords
  BY <1>1, <1>2 DEF CommandInv, TypeOK
<1>4. /\ cmd[p].op \in Ops /\ handoff[cmd[p].op] # NoHandoff
      /\ cmd[p].known /\ cmd[p].mem = journal[cmd[p].op] /\ Open(cmd[p].op)
  BY <1>3 DEF Knows
<1>5. QED
  BY <1>1, <1>2, <1>3, <1>4 DEF JournalInv, TypeOK, Open

(* A service that is up and not the one that was handed over is a new one. *)
LEMMA FreshIsNew ==
    ASSUME IInv, NEW o \in Ops, NEW r \in Roles, handoff[o] # NoHandoff,
           unit[r].up, unit[r].inv # handoff[o].stopped[r]
    PROVE  /\ handoff[o].stopped[r] < unit[r].inv /\ unit[r].inv <= made[r]
           /\ unit[r].inv \in Instances /\ unit[r].inv # 0
BY DEF IInv, LifecycleInv, HostInv, TypeOK, Instances

LEMMA IntentStep ==
    ASSUME IInv, NEW p \in Commands, Intent(p)
    PROVE  TypeOK' /\ DataInv' /\ ControlInv'
<1> DEFINE c == cmd[p]
           counted == [c.mem EXCEPT !.starts[c.role] = 1]
           noted == [counted EXCEPT !.intent = @ \cup {c.role}]
           then == [c EXCEPT !.pc = IF c.role = "worker" THEN "handoff" ELSE "launch"]
<1>1. /\ c.pc = "intent" /\ c.mem.starts[c.role] = 0
      /\ c.role = "worker" => Same(p, "cosmic")
      /\ Persist(p, counted, noted, then)
  BY DEF Intent
<1>2. c.pc \in InsideTry /\ c.pc # "wait"
  BY <1>1 DEF InsideTry
<1>3. /\ c.op \in Ops /\ c.mem \in Journals /\ c.mem = journal[c.op] /\ c \in CommandRecords
      /\ Sound(c.op, c.mem) /\ c.mem.status \in {"pending", "failed"} /\ c.role \in Roles
      /\ handoff[c.op] # NoHandoff /\ p \in Active /\ c.known
  BY <1>2, Standing DEF CommandRecords
<1>4. /\ c.role \notin c.mem.intent /\ c.mem.seen[c.role] = 0 /\ asks[c.op][c.role] = 0
  BY <1>1, <1>3 DEF Sound
<1>5. guards = {}
  BY <1>1, <1>3, Alone
<1>6. c.role = "worker" => c.mem.seen["cosmic"] # 0
  BY <1>1 DEF Same, IInv, LifecycleInv, HostInv, Roles
<1>7. counted \in Journals /\ noted \in Journals
      /\ counted.status = c.mem.status /\ noted.status = c.mem.status
      /\ counted.seen = c.mem.seen /\ noted.seen = c.mem.seen
      /\ counted.intent = c.mem.intent /\ noted.intent = c.mem.intent \cup {c.role}
      /\ counted.starts = [c.mem.starts EXCEPT ![c.role] = 1]
      /\ noted.starts = [c.mem.starts EXCEPT ![c.role] = 1]
  <2>1. counted = [status |-> c.mem.status, seen |-> c.mem.seen, intent |-> c.mem.intent,
                   starts |-> [c.mem.starts EXCEPT ![c.role] = 1]]
    BY <1>3 DEF Journals
  <2>2. noted = [status |-> c.mem.status, seen |-> c.mem.seen,
                 intent |-> c.mem.intent \cup {c.role},
                 starts |-> [c.mem.starts EXCEPT ![c.role] = 1]]
    <3>1. noted = [counted EXCEPT !.intent = counted.intent \cup {c.role}]
      OBVIOUS
    <3> HIDE DEF counted
    <3>2. QED
      BY <2>1, <3>1
  <2>3. [c.mem.starts EXCEPT ![c.role] = 1] \in [Roles -> 0..1]
    BY <1>3 DEF Journals
  <2>4. counted \in Journals /\ noted \in Journals
    BY <1>3, <2>1, <2>2, <2>3 DEF Journals
  <2>5. QED
    BY <2>1, <2>2, <2>4
<1>8. Sound(c.op, counted) /\ Sound(c.op, noted)
  <2>1. \A r \in Roles : counted.starts[r] = IF r = c.role THEN 1 ELSE c.mem.starts[r]
    BY <1>3, <1>7 DEF Journals
  <2>2. \A r \in Roles : noted.starts[r] = IF r = c.role THEN 1 ELSE c.mem.starts[r]
    BY <1>3, <1>7 DEF Journals
  <2>3. Sound(c.op, counted)
    BY <1>3, <1>5, <1>7, <2>1 DEF Sound
  <2>4. Sound(c.op, noted)
    <3>1. noted.status # "absent" /\ handoff[c.op] # NoHandoff
      BY <1>3, <1>7
    <3>2. ASSUME NEW r \in Roles
          PROVE  /\ r \in noted.intent => noted.starts[r] = 1
                 /\ r \notin noted.intent => asks[c.op][r] = 0 /\ noted.seen[r] = 0
                 /\ noted.seen[r] # 0 => /\ handoff[c.op].stopped[r] < noted.seen[r]
                                         /\ noted.seen[r] <= made[r]
      BY <1>3, <1>7, <2>2 DEF Sound
    <3>3. "worker" \in noted.intent => noted.seen["cosmic"] # 0
      BY <1>3, <1>6, <1>7 DEF Sound
    <3>4. QED
      BY <1>5, <3>1, <3>2, <3>3 DEF Sound
  <2>5. QED
    BY <2>3, <2>4
<1>9. Grows(journal[c.op], counted) /\ Grows(journal[c.op], noted)
  BY <1>3, <1>7 DEF Grows
<1>10. then \in CommandRecords /\ then.op = c.op /\ then.role = c.role /\ then.known
       /\ then.pc = IF c.role = "worker" THEN "handoff" ELSE "launch"
  BY <1>3 DEF CommandRecords, InsideTry
<1>11. noted.status \in {"pending", "failed"} /\ then.pc \in InsideTry
       /\ then.role \in noted.intent /\ noted.seen[then.role] = 0
       /\ asks[then.op][then.role] = 0 /\ (then.pc = "handoff" => then.role = "worker")
       /\ (then.pc = "launch" => then.role # "worker")
  BY <1>3, <1>4, <1>7, <1>10 DEF InsideTry
<1>12. QED
  BY <1>1, <1>2, <1>7, <1>8, <1>9, <1>10, <1>11, PersistStep

(* Observe and Adopt name the instance that is running.                    *)
LEMMA NamingStep ==
    ASSUME IInv, NEW p \in Commands, cmd[p].pc \in {"observe", "adopt"},
           Fresh(cmd[p].op, cmd[p].role), NEW pc \in {"finish", "native", "continue"},
           Persist(p, cmd[p].mem,
                   [cmd[p].mem EXCEPT !.seen[cmd[p].role] = unit[cmd[p].role].inv],
                   [cmd[p] EXCEPT !.pc = pc])
    PROVE  TypeOK' /\ DataInv' /\ ControlInv'
<1> DEFINE c == cmd[p]
           named == [c.mem EXCEPT !.seen[c.role] = unit[c.role].inv]
           then == [c EXCEPT !.pc = pc]
<1>1. c.pc \in InsideTry /\ c.pc # "wait" /\ c.pc # "fail"
  BY DEF InsideTry
<1>2. /\ c.op \in Ops /\ c.mem \in Journals /\ c.mem = journal[c.op] /\ c \in CommandRecords
      /\ Sound(c.op, c.mem) /\ c.mem.status \in {"pending", "failed"} /\ c.role \in Roles
      /\ handoff[c.op] # NoHandoff /\ p \in Active /\ c.known /\ Knows(c)
  BY <1>1, Standing DEF CommandRecords
<1>3. c.role \in c.mem.intent /\ c.mem.seen[c.role] = 0
  BY <1>2 DEF Knows
<1>4. guards = {}
  BY <1>1, <1>2, Alone
<1>5. LET i == unit[c.role].inv
      IN  /\ handoff[c.op].stopped[c.role] < i /\ i <= made[c.role]
          /\ i \in Instances /\ i # 0
  BY <1>2, FreshIsNew DEF Fresh
<1>6. named \in Journals /\ named.status = c.mem.status /\ named.intent = c.mem.intent
      /\ named.starts = c.mem.starts
      /\ \A r \in Roles : named.seen[r] = IF r = c.role THEN unit[r].inv ELSE c.mem.seen[r]
  BY <1>2, <1>5 DEF Journals
<1>7. Sound(c.op, named)
  <2>1. named.status # "absent" /\ handoff[c.op] # NoHandoff
    BY <1>2, <1>6
  <2>2. ASSUME NEW r \in Roles
        PROVE  /\ r \in named.intent => named.starts[r] = 1
               /\ r \notin named.intent => asks[c.op][r] = 0 /\ named.seen[r] = 0
               /\ named.seen[r] # 0 => /\ handoff[c.op].stopped[r] < named.seen[r]
                                       /\ named.seen[r] <= made[r]
    <3>1. CASE r = c.role
      BY <1>2, <1>3, <1>5, <1>6, <3>1 DEF Sound
    <3>2. CASE r # c.role
      BY <1>2, <1>6, <3>2 DEF Sound
    <3>3. QED
      BY <3>1, <3>2
  <2>3. "worker" \in named.intent => named.seen["cosmic"] # 0
    BY <1>2, <1>5, <1>6, RolesAre DEF Sound
  <2>4. QED
    BY <1>4, <2>1, <2>2, <2>3 DEF Sound
<1>8. Grows(journal[c.op], named) /\ Grows(journal[c.op], c.mem)
  BY <1>2, <1>3, <1>6 DEF Grows
<1>9. then \in CommandRecords /\ then.op = c.op /\ then.known /\ then.pc = pc
      /\ then.pc \in InsideTry
  BY <1>2 DEF CommandRecords, InsideTry
<1>10. QED
  BY <1>1, <1>2, <1>6, <1>7, <1>8, <1>9, PersistStep

LEMMA NativeStep ==
    ASSUME IInv, NEW p \in Commands, Native(p)
    PROVE  TypeOK' /\ DataInv' /\ ControlInv'
<1> DEFINE c == cmd[p]
           then == [c EXCEPT !.pc = "intent", !.role = "worker"]
<1>1. c.pc = "native" /\ c.pc \in InsideTry /\ c.pc # "wait"
      /\ Persist(p, c.mem, c.mem, then)
  BY DEF Native, InsideTry
<1>2. /\ c.op \in Ops /\ c.mem \in Journals /\ c.mem = journal[c.op] /\ c \in CommandRecords
      /\ Sound(c.op, c.mem) /\ c.mem.status \in {"pending", "failed"} /\ c.known
  BY <1>1, Standing
<1>3. Grows(journal[c.op], c.mem)
  BY <1>2 DEF Grows, Roles
<1>4. then \in CommandRecords /\ then.op = c.op /\ then.known /\ then.pc = "intent"
      /\ then.pc \in InsideTry
  BY <1>2 DEF CommandRecords, InsideTry, Roles
<1>5. QED
  BY <1>1, <1>2, <1>3, <1>4, PersistStep

LEMMA CompleteStep ==
    ASSUME IInv, NEW p \in Commands, Complete(p)
    PROVE  TypeOK' /\ DataInv' /\ ControlInv'
<1> DEFINE c == cmd[p]
           done == [c.mem EXCEPT !.status = "completed"]
<1>1. c.pc = "complete" /\ c.pc \in InsideTry /\ c.pc # "wait" /\ WorkerIdle(p)
      /\ Persist(p, c.mem, done, Idle)
  BY DEF Complete, InsideTry
<1>2. /\ c.op \in Ops /\ c.mem \in Journals /\ c.mem = journal[c.op] /\ c \in CommandRecords
      /\ Sound(c.op, c.mem) /\ c.mem.status \in {"pending", "failed"} /\ c.known
  BY <1>1, Standing
<1>3. done \in Journals /\ done.status = "completed" /\ done.intent = c.mem.intent
      /\ done.starts = c.mem.starts /\ done.seen = c.mem.seen
  BY <1>2 DEF Journals
<1>4. Sound(c.op, done)
  BY <1>2, <1>3 DEF Sound
<1>5. Grows(journal[c.op], c.mem) /\ Grows(journal[c.op], done)
  BY <1>2, <1>3 DEF Grows, Roles
<1>6. \A r \in Roles : c.mem.seen[r] # 0
  BY <1>1 DEF WorkerIdle, Same, IInv, LifecycleInv, HostInv, Roles
<1>7. done.intent = Roles /\ \A r \in Roles : done.seen[r] > handoff[c.op].stopped[r]
  <2>1. done.intent = Roles
    BY <1>2, <1>3, <1>6 DEF Sound, Journals
  <2>2. \A r \in Roles : handoff[c.op].stopped[r] \in Nat /\ done.seen[r] \in Nat
    BY <1>2, <1>3 DEF IInv, LifecycleInv, TypeOK, Handoffs, Journals, Instances
  <2>3. QED
    BY <1>2, <1>3, <1>6, <2>1, <2>2 DEF Sound
<1>8. receipts[done.seen["worker"]] = done.seen["cosmic"]
  BY <1>1, <1>3 DEF WorkerIdle
<1>9. Idle \in CommandRecords /\ Idle.pc = "idle" /\ ~Idle.world
  BY LifecycleAssumption DEF Idle, CommandRecords, OutsideTry, InsideTry, Roles,
     NoJournal, Journals, Instances
<1>10. QED
  BY <1>1, <1>2, <1>3, <1>4, <1>5, <1>7, <1>8, <1>9, PersistStep
LEMMA PublishStep ==
    ASSUME IInv, NEW p \in Commands, Publish(p)
    PROVE  TypeOK' /\ DataInv' /\ ControlInv'
<1> DEFINE c == cmd[p]
           first == [NoJournal EXCEPT !.status = "pending"]
           d == [c EXCEPT !.pc = "continue", !.mem = first, !.known = TRUE]
<1>1. /\ c.pc = "publish" /\ journal[c.op] = NoJournal
      /\ journal' = [journal EXCEPT ![c.op] = first]
      /\ cmd' = [cmd EXCEPT ![p] = d] /\ UNCHANGED <<host, guards, asks>>
      /\ guards' = guards /\ asks' = asks /\ handoff' = handoff
  BY DEF Publish, To, host
<1>2. TypeOK /\ JournalInv /\ CommandInv
  BY DEF IInv, LifecycleInv
<1>3. p \in Active /\ Knows(c) /\ guards = {} /\ c \in CommandRecords
  BY <1>1, <1>2, Alone DEF Active, CommandInv, TypeOK
<1>4. c.op \in Ops /\ handoff[c.op] # NoHandoff /\ Latest(c.op)
  BY <1>1, <1>3 DEF Knows
<1>5. first \in Journals /\ first.status = "pending" /\ first.starts = NoJournal.starts
      /\ first.intent = {} /\ first.seen = [r \in Roles |-> 0]
  BY LifecycleAssumption DEF NoJournal, Journals, Instances
<1>6. Sound(c.op, first)
  <2>1. Sound(c.op, NoJournal)
    BY <1>1, <1>2, <1>4 DEF JournalInv
  <2>2. \A r \in Roles : asks[c.op][r] = 0
    BY <2>1 DEF Sound, NoJournal
  <2>3. QED
    BY <1>3, <1>4, <1>5, <2>2 DEF Sound
<1>7. DataInv'
  BY <1>1, <1>4, <1>5, <1>6, JournalStep
<1>8. d \in CommandRecords /\ d.pc = "continue" /\ d.op = c.op /\ d.mem = first /\ d.known
  BY <1>3, <1>5 DEF CommandRecords, InsideTry
<1>9. journal' \in [Ops -> Journals] /\ journal'[c.op] = first
  BY <1>1, <1>2, <1>4, <1>5 DEF TypeOK
<1>10. TypeOK' /\ cmd'[p] = d /\ \A q \in Commands \ {p} : cmd'[q] = cmd[q]
  BY <1>1, <1>2, <1>8, <1>9, CommandType
<1>11. Knows(cmd[p])' /\ p \in Active'
  BY <1>1, <1>4, <1>5, <1>8, <1>9, <1>10 DEF Knows, Open, Active, InsideTry
<1>12. \A o \in Ops : journal[o].status \in {"pending", "failed"}
                          => journal'[o].status \in {"pending", "failed"}
  BY <1>1, <1>2, <1>5 DEF TypeOK
<1>13. QED
  BY <1>1, <1>3, <1>7, <1>10, <1>11, <1>12, CommandStep

LEMMA FailedStep ==
    ASSUME IInv, NEW p \in Commands, Failed(p)
    PROVE  TypeOK' /\ DataInv' /\ ControlInv'
<1> DEFINE c == cmd[p]
           said == [c.mem EXCEPT !.status = "failed"]
<1>1. /\ c.pc = "fail" /\ cmd' = [cmd EXCEPT ![p] = Idle]
      /\ UNCHANGED <<host, guards, asks>> /\ guards' = guards /\ asks' = asks
      /\ \/ journal' = journal
         \/ c.known /\ journal' = [journal EXCEPT ![c.op] = said]
  BY DEF Failed, Leave, To, host
<1>2. TypeOK /\ JournalInv /\ CommandInv
  BY DEF IInv, LifecycleInv
<1>3. p \in Active /\ Knows(c) /\ c \in CommandRecords /\ c.op \in Ops
      /\ handoff[c.op] # NoHandoff
  BY <1>1, <1>2 DEF Active, CommandInv, TypeOK, Knows
<1>4. Idle \in CommandRecords /\ Idle.pc = "idle" /\ ~Idle.world
  BY LifecycleAssumption DEF Idle, CommandRecords, OutsideTry, InsideTry, Roles,
     NoJournal, Journals, Instances
<1>5. ASSUME c.known, journal' = [journal EXCEPT ![c.op] = said] PROVE DataInv'
  <2>1. Sound(c.op, c.mem) /\ Open(c.op) /\ Latest(c.op) /\ c.mem \in Journals
    BY <1>1, <1>2, <1>3, <1>5 DEF Knows, JournalInv, CommandRecords
  <2>2. said \in Journals /\ said.status = "failed" /\ said.intent = c.mem.intent
        /\ said.starts = c.mem.starts /\ said.seen = c.mem.seen
    BY <2>1 DEF Journals
  <2>3. Sound(c.op, said)
    <3>1. CASE c.mem.status = "absent"
      BY <1>3, <2>1, <2>2, <3>1 DEF Sound, NoJournal
    <3>2. CASE c.mem.status # "absent"
      BY <2>1, <2>2, <3>2 DEF Sound
    <3>3. QED
      BY <3>1, <3>2
  <2>4. QED
    BY <1>1, <1>3, <1>5, <2>1, <2>2, <2>3, JournalStep
<1>6. DataInv'
  <2>1. CASE journal' = journal
    BY <1>1, <2>1, DataSame DEF host
  <2>2. QED
    BY <1>1, <1>5, <2>1
<1>7. /\ journal' \in [Ops -> Journals]
      /\ \A o \in Ops : journal[o].status \in {"pending", "failed"}
                         => journal'[o].status \in {"pending", "failed"}
  <2>1. said \in Journals /\ said.status = "failed"
    BY <1>3 DEF CommandRecords, Journals
  <2>2. QED
    BY <1>1, <1>2, <2>1 DEF TypeOK
<1>8. TypeOK' /\ cmd'[p] = Idle /\ \A q \in Commands \ {p} : cmd'[q] = cmd[q]
  BY <1>1, <1>2, <1>4, <1>7, CommandType
<1>9. p \notin Active' /\ ~cmd'[p].world
  BY <1>4, <1>8 DEF Active
<1>10. QED
  BY <1>1, <1>3, <1>6, <1>7, <1>8, <1>9, CommandStep

-----------------------------------------------------------------------------
(* The guards.                                                             *)
LEMMA LaunchStep ==
    ASSUME IInv, NEW p \in Commands, Launch(p)
    PROVE  TypeOK' /\ DataInv' /\ ControlInv'
<1> DEFINE c == cmd[p]
           g == Inherited(p, c.role)
           d == [c EXCEPT !.pc = "wait"]
<1>1. /\ c.pc = "launch" /\ c.pc \in InsideTry
      /\ cmd' = [cmd EXCEPT ![p] = d] /\ guards' = guards \cup {g}
      /\ boot' = boot /\ unit' = unit /\ made' = made /\ workerLock' = workerLock
      /\ receipts' = receipts /\ handoff' = handoff /\ journal' = journal /\ asks' = asks
  BY DEF Launch, To, host, InsideTry
<1>2. TypeOK /\ HostInv /\ JournalInv /\ CommandInv /\ CompletedWitnessed
  BY DEF IInv, LifecycleInv
<1>3. /\ p \in Active /\ Knows(c) /\ c \in CommandRecords /\ c.op \in Ops
      /\ handoff[c.op] # NoHandoff /\ c.known /\ c.mem = journal[c.op]
      /\ c.role \in Roles
  BY <1>1, Standing DEF CommandRecords
<1>4. guards = {} /\ guards' = {g}
  BY <1>1, <1>3, Alone
<1>5. /\ Open(c.op) /\ c.role \in c.mem.intent /\ c.mem.seen[c.role] = 0
      /\ asks[c.op][c.role] = 0 /\ (c.role = "worker" => ~c.world)
  BY <1>1, <1>3 DEF Knows
<1>6. g = [owner |-> p, op |-> c.op, role |-> c.role, serial |-> TRUE,
           world |-> c.world, sent |-> FALSE]
  BY DEF Inherited
<1>7. /\ d \in CommandRecords /\ d.pc = "wait" /\ d.op = c.op /\ d.mem = c.mem
      /\ d.known = c.known /\ d.role = c.role /\ d.world = c.world
  BY <1>3 DEF CommandRecords, InsideTry
<1>8. TypeOK'
  <2>1. g \in Guards
    BY <1>3, <1>6 DEF Guards, CommandRecords
  <2>2. QED
    BY <1>1, <1>2, <1>4, <1>7, <2>1 DEF TypeOK
<1>9. cmd'[p] = d /\ \A q \in Commands \ {p} : q \notin Active' /\ ~cmd'[q].world
  <2>1. \A q \in Commands \ {p} : q \notin Active /\ ~cmd[q].world
    BY <1>3, Alone
  <2>2. QED
    BY <1>1, <1>2, <2>1 DEF TypeOK, Active
<1>10. \A x \in Ops : Sound(x, journal[x])'
  <2>1. \A x \in Ops : Sound(x, journal[x])
    BY <1>2 DEF JournalInv
  <2>2. QED
    BY <1>1, <1>3, <1>4, <1>5, <1>6, <2>1 DEF Sound
<1>11. DataInv'
  BY <1>1, <1>2, <1>10 DEF DataInv, HostInv, JournalInv, CompletedWitnessed, Open, Latest
<1>12. Knows(cmd[p])' /\ p \in Active'
  BY <1>1, <1>3, <1>5, <1>7, <1>9 DEF Knows, Open, Active, InsideTry
<1>13. CommandInv'
  BY <1>9, <1>12 DEF CommandInv
<1>14. /\ g.owner = p /\ g.op = c.op /\ g.serial /\ ~g.sent
       /\ (g.role = "worker" => ~g.world /\ ~c.world) /\ asks[g.op][g.role] = 0
  BY <1>5, <1>6
<1>15. /\ cmd'[p].pc = "wait" /\ cmd'[p].op = c.op /\ cmd'[p].world = c.world
       /\ \A q \in Active' : q = p
  BY <1>7, <1>9 DEF Active
<1> HIDE DEF g, d, c
<1>16. OneOperator'
  <2>1. \A q \in Commands : g.role = "worker" => ~cmd'[q].world
    BY <1>9, <1>14, <1>15
  <2>2. QED
    BY <1>4, <1>14, <1>15, <2>1 DEF OneOperator
<1>17. GuardInv'
  <2>1. /\ \A q \in Active' : cmd'[q].pc \in {"wait", "fail"} /\ cmd'[q].op = g.op
                              /\ (g.role = "worker" => ~cmd'[q].world)
        /\ journal'[g.op].status \in {"pending", "failed"} /\ asks'[g.op][g.role] = 0
    BY <1>1, <1>5, <1>14, <1>15 DEF Open
  <2>2. QED
    BY <1>4, <1>14, <2>1 DEF GuardInv, Open
<1>18. QED
  BY <1>8, <1>11, <1>13, <1>16, <1>17 DEF ControlInv

LEMMA SystemctlStep ==
    ASSUME IInv, NEW g \in guards, Systemctl(g)
    PROVE  TypeOK' /\ DataInv' /\ ControlInv'
<1> DEFINE h == [g EXCEPT !.sent = TRUE]
<1>1. /\ g.role # None /\ ~g.sent /\ guards' = (guards \ {g}) \cup {h}
      /\ asks' = [asks EXCEPT ![g.op][g.role] = asks[g.op][g.role] + 1]
      /\ boot' = boot /\ unit' = unit /\ made' = made /\ workerLock' = workerLock
      /\ receipts' = receipts /\ handoff' = handoff /\ journal' = journal /\ cmd' = cmd
  BY DEF Systemctl, host
<1>2. TypeOK /\ HostInv /\ JournalInv /\ CommandInv /\ CompletedWitnessed /\ GuardInv
      /\ OneOperator
  BY DEF IInv, LifecycleInv
<1>3. g \in Guards /\ g.owner \in Commands /\ g.op \in Ops /\ g.role \in Roles
  BY <1>1, <1>2 DEF TypeOK, Guards
<1>4. /\ h \in Guards /\ h.owner = g.owner /\ h.op = g.op /\ h.role = g.role
      /\ h.serial = g.serial /\ h.world = g.world /\ h.sent
  BY <1>3 DEF Guards
<1>5. guards = {g} /\ guards' = {h}
  BY <1>1, <1>2 DEF OneOperator
<1>6. asks[g.op][g.role] = 0 /\ Open(g.op) /\ g.serial /\ (g.role = "worker" => ~g.world)
  BY <1>1, <1>2 DEF GuardInv
<1>7. /\ asks' \in [Ops -> [Roles -> Nat]]
      /\ \A x \in Ops, r \in Roles :
             asks'[x][r] = IF x = g.op /\ r = g.role THEN 1 ELSE asks[x][r]
  BY <1>1, <1>2, <1>3, <1>6 DEF TypeOK
<1>8. TypeOK'
  BY <1>1, <1>2, <1>4, <1>5, <1>7 DEF TypeOK
<1> HIDE DEF h
<1>9. ASSUME NEW x \in Ops, NEW j, Sound(x, j) PROVE Sound(x, j)'
  <2>1. \A y \in guards' : \A r \in Roles : y.op = x /\ y.role = r => r \in j.intent
    BY <1>3, <1>4, <1>5, <1>9 DEF Sound
  <2>2. \A r \in Roles : r \notin j.intent => asks'[x][r] = 0
    <3>1. x = g.op => g.role \in j.intent
      BY <1>3, <1>9 DEF Sound
    <3>2. \A r \in Roles : r \notin j.intent => asks[x][r] = 0
      BY <1>9 DEF Sound
    <3>3. QED
      BY <1>7, <3>1, <3>2
  <2>3. QED
    BY <1>1, <1>9, <2>1, <2>2 DEF Sound
<1>10. \A x \in Ops : Sound(x, journal[x])'
  BY <1>1, <1>2, <1>9 DEF JournalInv
<1>11. DataInv'
  BY <1>1, <1>2, <1>7, <1>10 DEF DataInv, HostInv, JournalInv, CompletedWitnessed,
     Open, Latest
<1>12. \A p \in Active : cmd[p].pc \in {"wait", "fail"} /\ cmd[p].op = g.op
                         /\ (g.role = "worker" => ~cmd[p].world)
  BY <1>2 DEF GuardInv
<1>13. ASSUME NEW p \in Active PROVE Knows(cmd[p])'
  <2>1. Knows(cmd[p]) /\ cmd[p].pc \in {"wait", "fail"}
    BY <1>2, <1>12, <1>13 DEF CommandInv, Active
  <2>2. Sound(cmd[p].op, cmd[p].mem) => Sound(cmd[p].op, cmd[p].mem)'
    BY <1>1, <1>9, <2>1 DEF Knows
  <2>3. QED
    BY <1>1, <2>1, <2>2 DEF Knows, Open, Grows
<1>14. CommandInv'
  BY <1>1, <1>2, <1>13 DEF CommandInv, Active
<1>15. OneOperator'
  BY <1>1, <1>2, <1>4, <1>5 DEF OneOperator, Active
<1>16. GuardInv'
  BY <1>1, <1>4, <1>5, <1>6, <1>12 DEF GuardInv, Open, Active
<1>17. QED
  BY <1>8, <1>11, <1>14, <1>15, <1>16 DEF ControlInv
(* A guard ends, and its command goes on.                                  *)
LEMMA GuardEnds ==
    ASSUME IInv, NEW g \in guards, NEW pc \in {"observe", "fail"},
           guards' = guards \ {g}, UNCHANGED <<host, journal, asks>>,
           \/ cmd' = cmd
           \/ /\ cmd[g.owner].pc = "wait"
              /\ cmd' = [cmd EXCEPT ![g.owner] = [cmd[g.owner] EXCEPT !.pc = pc]]
    PROVE  TypeOK' /\ DataInv' /\ ControlInv'
<1>1. /\ boot' = boot /\ unit' = unit /\ made' = made /\ workerLock' = workerLock
      /\ receipts' = receipts /\ handoff' = handoff /\ journal' = journal /\ asks' = asks
  BY DEF host
<1>2. TypeOK /\ HostInv /\ JournalInv /\ CommandInv /\ CompletedWitnessed /\ GuardInv
      /\ OneOperator
  BY DEF IInv, LifecycleInv
<1>3. g.owner \in Commands /\ guards' = {}
  BY <1>2 DEF TypeOK, Guards, OneOperator
<1>4. ASSUME NEW x \in Ops, NEW j, Sound(x, j) PROVE Sound(x, j)'
  BY <1>1, <1>3, <1>4 DEF Sound
<1>5. \A x \in Ops : Sound(x, journal[x])'
  BY <1>1, <1>2, <1>4 DEF JournalInv
<1>6. DataInv'
  BY <1>1, <1>2, <1>5 DEF DataInv, HostInv, JournalInv, CompletedWitnessed, Open, Latest
<1>7. ASSUME NEW c, Knows(c) PROVE Knows(c)'
  <2>1. c.op \in Ops
    BY <1>7 DEF Knows
  <2>2. Sound(c.op, c.mem) => Sound(c.op, c.mem)'
    BY <1>4, <2>1
  <2>3. QED
    BY <1>1, <1>7, <2>2 DEF Knows, NonePending, Latest, Open, Grows
<1>8. CASE cmd' = cmd
  <2>1. Active' = Active
    BY <1>8 DEF Active
  <2>2. CommandInv'
    BY <1>2, <1>7, <1>8, <2>1 DEF CommandInv
  <2>3. OneOperator' /\ GuardInv'
    BY <1>2, <1>3, <2>1 DEF OneOperator, GuardInv
  <2>4. TypeOK'
    BY <1>1, <1>2, <1>3, <1>8 DEF TypeOK
  <2>5. QED
    BY <1>6, <2>2, <2>3, <2>4 DEF ControlInv
<1>9. CASE /\ cmd[g.owner].pc = "wait"
           /\ cmd' = [cmd EXCEPT ![g.owner] = [cmd[g.owner] EXCEPT !.pc = pc]]
  <2> DEFINE p == g.owner
             c == cmd[p]
             d == [c EXCEPT !.pc = pc]
  <2>1. c.pc = "wait" /\ c.pc \in InsideTry /\ cmd' = [cmd EXCEPT ![p] = d]
    BY <1>9 DEF InsideTry
  <2>2. /\ p \in Active /\ Knows(c) /\ c \in CommandRecords /\ c.op \in Ops
        /\ handoff[c.op] # NoHandoff /\ c.known /\ c.mem = journal[c.op]
        /\ Sound(c.op, c.mem) /\ c.role \in Roles
    BY <1>3, <2>1, Standing DEF CommandRecords
  <2>3. /\ Open(c.op) /\ c.role \in c.mem.intent /\ c.mem.seen[c.role] = 0
    BY <2>1, <2>2 DEF Knows
  <2>4. /\ d \in CommandRecords /\ d.pc = pc /\ d.op = c.op /\ d.mem = c.mem
        /\ d.known = c.known /\ d.role = c.role /\ d.world = c.world
    BY <2>2 DEF CommandRecords, InsideTry
  <2>5. cmd'[p] = d /\ \A q \in Commands \ {p} : q \notin Active' /\ ~cmd'[q].world
    <3>1. \A q \in Commands \ {p} : q \notin Active /\ ~cmd[q].world
      BY <1>3, <2>2, Alone
    <3>2. QED
      BY <1>2, <1>3, <2>1, <3>1 DEF TypeOK, Active
  <2>6. TypeOK'
    BY <1>1, <1>2, <1>3, <2>1, <2>4 DEF TypeOK
  <2>7. Knows(d)
    <3>1. Grows(journal[c.op], c.mem)
      BY <2>2 DEF Grows, Roles
    <3>2. QED
      BY <2>2, <2>3, <2>4, <3>1 DEF Knows, InsideTry
  <2>8. Knows(cmd[p])'
    BY <1>7, <2>5, <2>7
  <2>9. CommandInv'
    <3>1. p \in Active'
      BY <1>3, <2>4, <2>5 DEF Active
    <3> HIDE DEF p, c, d
    <3>2. QED
      BY <2>5, <2>8, <3>1 DEF CommandInv
  <2>10. OneOperator' /\ GuardInv'
    BY <1>3, <2>5 DEF OneOperator, GuardInv, Active
  <2>11. QED
    BY <1>6, <2>6, <2>9, <2>10 DEF ControlInv
<1>10. QED
  BY <1>8, <1>9

LEMMA KillStep ==
    ASSUME IInv, NEW p \in Commands, Kill(p)
    PROVE  TypeOK' /\ DataInv' /\ ControlInv'
<1> DEFINE c == cmd[p]
           g == Inherited(p, None)
<1>1. /\ boot' = boot /\ unit' = unit /\ made' = made /\ workerLock' = workerLock
      /\ receipts' = receipts /\ handoff' = handoff /\ journal' = journal /\ asks' = asks
      /\ cmd' = [cmd EXCEPT ![p] = Idle] /\ c.pc # "idle"
      /\ \/ guards' = guards
         \/ c.pc \notin {"wait", "fail"} /\ guards' = guards \cup {g}
  BY DEF Kill, Leave, To, host
<1>2. TypeOK /\ HostInv /\ JournalInv /\ CommandInv /\ CompletedWitnessed /\ GuardInv
      /\ OneOperator
  BY DEF IInv, LifecycleInv
<1>3. p \in Active /\ Knows(c) /\ c \in CommandRecords /\ c.op \in Ops
  BY <1>1, <1>2 DEF Active, CommandInv, TypeOK, Knows
<1>4. Idle \in CommandRecords /\ Idle.pc = "idle" /\ ~Idle.world
  BY LifecycleAssumption DEF Idle, CommandRecords, OutsideTry, InsideTry, Roles,
     NoJournal, Journals, Instances
<1>5. /\ g \in Guards /\ g.role = None /\ g.serial /\ g.owner = p
      /\ None \notin Roles
  BY <1>3, LifecycleAssumption DEF Guards, Inherited, CommandRecords
<1>6. guards' = guards \/ guards' = {g}
  BY <1>1, <1>3, Alone
<1>7. TypeOK'
  BY <1>1, <1>2, <1>4, <1>5, <1>6 DEF TypeOK
<1>8. \A q \in Commands : q \notin Active' /\ ~cmd'[q].world
  <2>1. \A q \in Commands \ {p} : q \notin Active /\ ~cmd[q].world
    BY <1>3, Alone
  <2>2. QED
    BY <1>1, <1>2, <1>4, <2>1 DEF TypeOK, Active
<1> HIDE DEF g, c
<1>9. \A x \in Ops : Sound(x, journal[x])'
  BY <1>1, <1>2, <1>5, <1>6 DEF JournalInv, Sound
<1>10. DataInv'
  BY <1>1, <1>2, <1>9 DEF DataInv, HostInv, JournalInv, CompletedWitnessed, Open, Latest
<1>11. Active' = {}
  BY <1>8 DEF Active
<1>12. CommandInv'
  BY <1>8 DEF CommandInv
<1>13. OneOperator' /\ GuardInv'
  <2>1. CASE guards' = guards
    BY <1>1, <1>2, <1>8, <1>11, <2>1 DEF OneOperator, GuardInv, Open
  <2>2. CASE guards' = {g}
    BY <1>5, <1>8, <1>11, <2>2, RolesAre DEF OneOperator, GuardInv
  <2>3. QED
    BY <1>6, <2>1, <2>2
<1>14. QED
  BY <1>7, <1>10, <1>12, <1>13 DEF ControlInv

-----------------------------------------------------------------------------
(* Observe and Adopt, as NamingStep sees them.                             *)
LEMMA ObserveStep ==
    ASSUME IInv, NEW p \in Commands, Observe(p) \/ Adopt(p)
    PROVE  TypeOK' /\ DataInv' /\ ControlInv'
<1>1. CASE Observe(p)
  <2>1. CASE cmd[p].role = "worker"
    BY <1>1, <2>1, NamingStep DEF Observe
  <2>2. CASE cmd[p].role # "worker"
    BY <1>1, <2>2, NamingStep DEF Observe
  <2>3. QED
    BY <2>1, <2>2
<1>2. CASE Adopt(p)
  <2>1. CASE cmd[p].role = "worker"
    BY <1>2, <2>1, NamingStep DEF Adopt
  <2>2. CASE cmd[p].role # "worker"
    BY <1>2, <2>2, NamingStep DEF Adopt
  <2>3. QED
    BY <2>1, <2>2
<1>3. QED
  BY <1>1, <1>2

LEMMA GuardStep ==
    ASSUME IInv, NEW g \in guards, GuardReturns(g) \/ GuardStops(g)
    PROVE  TypeOK' /\ DataInv' /\ ControlInv'
<1>1. CASE GuardReturns(g)
  BY <1>1, GuardEnds DEF GuardReturns, To
<1>2. CASE GuardStops(g)
  BY <1>2, GuardEnds DEF GuardStops, To
<1>3. QED
  BY <1>1, <1>2

LEMMA LifecycleNext ==
    ASSUME IInv, [Next]_vars
    PROVE  TypeOK' /\ DataInv' /\ ControlInv'
<1>1. TypeOK
  BY DEF IInv, LifecycleInv
<1>2. ASSUME NEW r \in Roles, ServiceUp(r) \/ ServiceDown(r)
      PROVE  TypeOK' /\ DataInv' /\ ControlInv'
  BY <1>1, <1>2, HostType, ServiceStep
<1>3. CASE WorkerLocks \/ WorkerIdles
  BY <1>1, <1>3, HostType, ServiceStep
<1>4. CASE Reboot
  BY <1>1, <1>4, HostType, RebootStep
<1>5. ASSUME NEW o \in Ops, MakeHandoff(o) PROVE TypeOK' /\ DataInv' /\ ControlInv'
  BY <1>1, <1>5, HostType, HandoffStep
<1>6. ASSUME NEW p \in Commands, (\E o \in Ops : Begin(p, o)) \/ Step(p) \/ Kill(p)
      PROVE  TypeOK' /\ DataInv' /\ ControlInv'
  BY <1>6, QuietStep, PublishStep, IntentStep, LaunchStep, ObserveStep, NativeStep,
     CompleteStep, FailedStep, KillStep DEF Step
<1>7. ASSUME NEW g \in guards, Systemctl(g) \/ GuardReturns(g) \/ GuardStops(g)
      PROVE  TypeOK' /\ DataInv' /\ ControlInv'
  BY <1>7, SystemctlStep, GuardStep
<1>8. CASE UNCHANGED vars
  <2>1. /\ boot' = boot /\ unit' = unit /\ made' = made /\ workerLock' = workerLock
        /\ receipts' = receipts /\ handoff' = handoff /\ journal' = journal
        /\ asks' = asks /\ cmd' = cmd /\ guards' = guards
    BY <1>8 DEF vars
  <2>2. DataInv'
    BY <2>1, DataSame
  <2>3. TypeOK' /\ CommandInv' /\ GuardInv' /\ OneOperator'
    BY <2>1 DEF IInv, LifecycleInv, TypeOK, CommandInv, GuardInv, OneOperator, Active,
       Knows, Open, NonePending, Latest, Sound, Grows
  <2>4. QED
    BY <2>2, <2>3 DEF ControlInv
<1>9. QED
  BY <1>2, <1>3, <1>4, <1>5, <1>6, <1>7, <1>8 DEF Next

(* IInv holds always.                                                      *)
LEMMA LifecycleIInv == Spec => []IInv
<1> DEFINE Core == TypeOK /\ DataInv /\ ControlInv
<1>1. Core <=> IInv
  BY Gathered
<1>2. Init => Core
  BY <1>1, LifecycleInit
<1>3. Core /\ [Next]_vars => Core'
  BY <1>1, LifecycleNext
<1> HIDE DEF Core
<1>4. QED
  BY <1>1, <1>2, <1>3, PTL DEF Spec

(* The journals on disk say enough for whoever takes them up: counters,    *)
(* intents before starts, and a completion only of what was witnessed      *)
(* (docs/FULL_CLIENT_LIFECYCLE.md, persist(), adopt_observation()).        *)
THEOREM LifecycleSafety == Spec => []LifecycleInv
<1>1. IInv => LifecycleInv
  BY DEF IInv
<1>2. QED
  BY <1>1, LifecycleIInv, PTL

(* The lifecycle lock is one command's or one guard's, and nobody stands   *)
(* in the way of a worker that is being started (guard_fds,                *)
(* close_world_locks).                                                     *)
THEOREM LifecycleOneOperator == Spec => []OneOperator
<1>1. IInv => OneOperator
  BY DEF IInv
<1>2. QED
  BY <1>1, LifecycleIInv, PTL
-----------------------------------------------------------------------------
(* RestoreOnce.  A step that writes no journal and asks for nothing        *)
(* stutters; the others are the promise's actions.                         *)
SameView == restoreStage' = restoreStage /\ asks' = asks /\ restoreNamed' = restoreNamed

LEMMA StageIs ==
    \A o \in Ops :
        /\ restoreStage[o] = "none" <=> journal[o].status = "absent"
        /\ restoreStage[o] = "done" <=> journal[o].status = "completed"
        /\ restoreStage[o] = "open" <=> journal[o].status \notin {"absent", "completed"}
        /\ restoreNamed[o] = journal[o].seen
BY DEF restoreStage, restoreNamed

(* The open journal stays open, and names at most one more instance.       *)
LEMMA OpenStays ==
    ASSUME TypeOK, JournalInv, JournalInv', handoff' = handoff, asks' = asks,
           NEW o \in Ops, NEW j \in Journals, journal' = [journal EXCEPT ![o] = j],
           Open(o), j.status \in {"pending", "failed"}, Grows(journal[o], j)
    PROVE  Promise!Next \/ SameView
<1>1. /\ journal'[o] = j /\ \A x \in Ops \ {o} : journal'[x] = journal[x]
      /\ journal[o] \in Journals
  BY DEF TypeOK
<1>2. restoreStage' = restoreStage
  BY <1>1 DEF restoreStage, Open
<1>3. PICK r \in Roles : /\ journal[o].seen[r] \in {0, j.seen[r]}
                         /\ \A s \in Roles \ {r} : j.seen[s] = journal[o].seen[s]
  BY DEF Grows
<1>4. journal[o].seen \in [Roles -> Instances] /\ j.seen \in [Roles -> Instances]
  BY <1>1 DEF Journals
<1>5. CASE journal[o].seen[r] = j.seen[r]
  <2>1. j.seen = journal[o].seen
    BY <1>3, <1>4, <1>5
  <2>2. restoreNamed' = restoreNamed
    BY <1>1, <2>1 DEF restoreNamed
  <2>3. QED
    BY <1>2, <2>2 DEF SameView
<1>6. CASE journal[o].seen[r] # j.seen[r]
  <2> DEFINE i == j.seen[r]
  <2>1. i # 0 /\ journal[o].seen[r] = 0 /\ i \in Nat
    BY <1>3, <1>4, <1>6 DEF Instances
  <2>2. handoff[o].stopped[r] < i
    BY <1>1, <2>1 DEF JournalInv, Sound
  <2>3. handoff[o].stopped[r] \in Nat /\ \A x \in Ops : journal[x].seen[r] \in Nat
    BY DEF TypeOK, Handoffs, Journals, Instances
  <2>4. \A x \in Ops : journal[x].seen[r] # i
    BY <2>1, <2>2, <2>3 DEF JournalInv, Latest
  <2>5. restoreNamed' = [restoreNamed EXCEPT ![o][r] = i]
    <3>1. \A x \in Ops \ {o} : restoreNamed'[x] = restoreNamed[x]
      BY <1>1 DEF restoreNamed
    <3>2. j.seen = [journal[o].seen EXCEPT ![r] = i]
      BY <1>3, <1>4
    <3>3. restoreNamed'[o] = [restoreNamed[o] EXCEPT ![r] = i]
      BY <1>1, <3>2 DEF restoreNamed
    <3>4. restoreNamed = [x \in Ops |-> restoreNamed[x]]
          /\ restoreNamed' = [x \in Ops |-> restoreNamed'[x]]
      BY DEF restoreNamed
    <3>5. QED
      BY <3>1, <3>3, <3>4
  <2>6. restoreNamed'[o][r] = i
    BY <1>1 DEF restoreNamed
  <2>7. Promise!Name(o, r)
    <3>1. restoreStage[o] = "open" /\ restoreNamed[o][r] = 0
      BY <2>1, StageIs DEF Open
    <3>2. \A x \in Ops : restoreNamed[x][r] # i
      BY <2>4, StageIs
    <3> HIDE DEF i
    <3>3. QED
      BY <1>2, <2>1, <2>5, <2>6, <3>1, <3>2 DEF Promise!Name
  <2>8. QED
    BY <2>7 DEF Promise!Next
<1>7. QED
  BY <1>5, <1>6

LEMMA PromiseStep ==
    ASSUME IInv, IInv', [Next]_vars
    PROVE  Promise!Next \/ SameView
<1>1. TypeOK /\ JournalInv /\ JournalInv' /\ CommandInv /\ GuardInv
  BY DEF IInv, LifecycleInv
<1>2. CASE journal' = journal /\ asks' = asks
  BY <1>2 DEF SameView, restoreStage, restoreNamed
<1>3. ASSUME NEW p \in Commands, Publish(p) PROVE Promise!Open(cmd[p].op)
                                                 /\ cmd[p].op \in Ops
  <2> DEFINE o == cmd[p].op
  <2>1. p \in Active /\ Knows(cmd[p])
    BY <1>1, <1>3 DEF Publish, Active, CommandInv
  <2>2. o \in Ops /\ NonePending
    BY <1>3, <2>1 DEF Publish, Knows
  <2>3. /\ journal[o] = NoJournal /\ asks' = asks
        /\ journal' = [journal EXCEPT ![o] = [NoJournal EXCEPT !.status = "pending"]]
    BY <1>3 DEF Publish
  <2>4. /\ journal'[o].status = "pending" /\ journal'[o].seen = journal[o].seen
        /\ journal[o].status = "absent"
        /\ \A x \in Ops \ {o} : journal'[x] = journal[x]
    BY <1>1, <2>2, <2>3 DEF TypeOK, NoJournal
  <2>5. restoreNamed' = restoreNamed
    BY <2>4 DEF restoreNamed
  <2>6. restoreStage' = [restoreStage EXCEPT ![o] = "open"]
    BY <2>2, <2>4 DEF restoreStage
  <2>7. restoreStage[o] = "none" /\ \A x \in Ops : restoreStage[x] # "open"
    BY <2>2, <2>4, StageIs DEF NonePending
  <2>8. QED
    BY <2>2, <2>3, <2>5, <2>6, <2>7 DEF Promise!Open
<1>4. ASSUME NEW p \in Commands, cmd[p].pc \in InsideTry, NEW before, NEW then,
             NEW after \in Journals, Persist(p, before, after, then),
             after.status \in {"pending", "failed"}, Grows(journal[cmd[p].op], after)
      PROVE  Promise!Next \/ SameView
  <2>1. cmd[p].op \in Ops /\ Open(cmd[p].op)
    BY <1>4, Standing DEF Open
  <2>2. /\ asks' = asks /\ handoff' = handoff
        /\ \/ journal' = journal
           \/ journal' = [journal EXCEPT ![cmd[p].op] = after]
    BY <1>4 DEF Persist, host
  <2>3. QED
    BY <1>1, <1>2, <1>4, <2>1, <2>2, OpenStays
<1>5. ASSUME NEW p \in Commands, Intent(p) \/ Observe(p) \/ Adopt(p) \/ Native(p)
      PROVE  Promise!Next \/ SameView
  <2> DEFINE c == cmd[p]
  <2>1. c.pc \in InsideTry
    BY <1>5 DEF Intent, Observe, Adopt, Native, InsideTry
  <2>2. /\ c.op \in Ops /\ c.mem \in Journals /\ c.mem = journal[c.op] /\ c.role \in Roles
        /\ c.mem.status \in {"pending", "failed"} /\ handoff[c.op] # NoHandoff /\ Knows(c)
    BY <2>1, Standing DEF CommandRecords
  <2>3. CASE Native(p)
    BY <1>4, <2>1, <2>2, <2>3 DEF Native, Grows, Roles
  <2>4. CASE Observe(p) \/ Adopt(p)
    <3> DEFINE named == [c.mem EXCEPT !.seen[c.role] = unit[c.role].inv]
    <3>1. /\ c.mem.seen[c.role] = 0 /\ Fresh(c.op, c.role)
          /\ \E then : Persist(p, c.mem, named, then)
      BY <2>2, <2>4 DEF Observe, Adopt, Knows
    <3>2. unit[c.role].inv \in Instances
      BY <1>1, <2>2 DEF TypeOK
    <3>3. /\ named \in Journals /\ named.status = c.mem.status
          /\ \A r \in Roles \ {c.role} : named.seen[r] = c.mem.seen[r]
      BY <2>2, <3>2 DEF Journals
    <3>4. Grows(journal[c.op], named)
      BY <2>2, <3>1, <3>3 DEF Grows
    <3>5. QED
      BY <1>4, <2>1, <2>2, <3>1, <3>3, <3>4
  <2>5. CASE Intent(p)
    <3> DEFINE counted == [c.mem EXCEPT !.starts[c.role] = 1]
               noted == [counted EXCEPT !.intent = @ \cup {c.role}]
    <3>1. \E then : Persist(p, counted, noted, then)
      BY <2>5 DEF Intent
    <3>2. [c.mem.starts EXCEPT ![c.role] = 1] \in [Roles -> 0..1]
      BY <2>2 DEF Journals
    <3>3. counted \in Journals /\ counted.status = c.mem.status /\ counted.seen = c.mem.seen
      BY <2>2, <3>2 DEF Journals
    <3>4. noted \in Journals /\ noted.status = c.mem.status /\ noted.seen = c.mem.seen
      <4>1. noted = [counted EXCEPT !.intent = counted.intent \cup {c.role}]
        OBVIOUS
      <4> HIDE DEF counted, noted
      <4>2. QED
        BY <2>2, <3>3, <4>1 DEF Journals
    <3>5. Grows(journal[c.op], noted)
      BY <2>2, <3>4 DEF Grows
    <3>6. QED
      BY <1>4, <2>1, <2>2, <3>1, <3>4, <3>5
  <2>6. QED
    BY <1>5, <2>3, <2>4, <2>5
<1>6. ASSUME NEW p \in Commands, Failed(p) PROVE Promise!Next \/ SameView
  <2> DEFINE c == cmd[p]
             said == [c.mem EXCEPT !.status = "failed"]
  <2>1. /\ c.pc = "fail" /\ asks' = asks /\ handoff' = handoff
        /\ \/ journal' = journal
           \/ c.known /\ journal' = [journal EXCEPT ![c.op] = said]
    BY <1>6 DEF Failed, host
  <2>2. CASE c.known /\ journal' = [journal EXCEPT ![c.op] = said]
    <3>1. Knows(c) /\ c \in CommandRecords
      BY <1>1, <2>1 DEF Active, CommandInv, TypeOK
    <3>2. c.op \in Ops /\ Open(c.op) /\ Grows(journal[c.op], c.mem)
      BY <2>1, <2>2, <3>1 DEF Knows
    <3>3. said \in Journals /\ said.status = "failed" /\ said.seen = c.mem.seen
      BY <3>1 DEF CommandRecords, Journals
    <3>4. Grows(journal[c.op], said)
      BY <3>2, <3>3 DEF Grows
    <3>5. QED
      BY <1>1, <2>1, <2>2, <3>2, <3>3, <3>4, OpenStays
  <2>3. QED
    BY <1>2, <2>1, <2>2
<1>7. ASSUME NEW p \in Commands, Complete(p) PROVE Promise!Next \/ SameView
  <2> DEFINE c == cmd[p]
             o == c.op
             done == [c.mem EXCEPT !.status = "completed"]
  <2>1. /\ c.pc \in InsideTry /\ WorkerIdle(p) /\ asks' = asks
        /\ \/ journal' = journal
           \/ journal' = [journal EXCEPT ![o] = done]
    BY <1>7 DEF Complete, Persist, InsideTry
  <2>2. /\ o \in Ops /\ c.mem \in Journals /\ c.mem = journal[o]
        /\ c.mem.status \in {"pending", "failed"}
    BY <2>1, Standing
  <2>3. CASE journal' = [journal EXCEPT ![o] = done]
    <3>1. /\ journal'[o].status = "completed" /\ journal'[o].seen = journal[o].seen
          /\ \A x \in Ops \ {o} : journal'[x] = journal[x]
      BY <1>1, <2>2, <2>3 DEF TypeOK, Journals
    <3>2. restoreNamed' = restoreNamed
      BY <3>1 DEF restoreNamed
    <3>3. restoreStage' = [restoreStage EXCEPT ![o] = "done"]
      BY <2>2, <3>1 DEF restoreStage
    <3>4. \A r \in Roles : journal[o].seen[r] # 0
      BY <2>1, <2>2 DEF WorkerIdle, Same, IInv, LifecycleInv, HostInv, Roles
    <3>5. Promise!Finish(o)
      BY <2>1, <2>2, <3>2, <3>3, <3>4, StageIs DEF Promise!Finish
    <3>6. QED
      BY <2>2, <3>5 DEF Promise!Next
  <2>4. QED
    BY <1>2, <2>1, <2>3
<1>8. ASSUME NEW g \in guards, Systemctl(g) PROVE Promise!Next
  <2>1. g.op \in Ops /\ g.role \in Roles
    BY <1>1, <1>8 DEF Systemctl, TypeOK, Guards
  <2>2. Open(g.op) /\ asks[g.op][g.role] = 0
    BY <1>1, <1>8 DEF Systemctl, GuardInv
  <2>3. journal' = journal /\ asks' = [asks EXCEPT ![g.op][g.role] = 1]
    BY <1>8, <2>2 DEF Systemctl
  <2>4. restoreStage' = restoreStage /\ restoreNamed' = restoreNamed
    BY <2>3 DEF restoreStage, restoreNamed
  <2>5. restoreStage[g.op] = "open"
    BY <2>1, <2>2, StageIs DEF Open
  <2>6. Promise!Ask(g.op, g.role)
    BY <2>2, <2>3, <2>4, <2>5 DEF Promise!Ask
  <2>7. QED
    BY <2>1, <2>6 DEF Promise!Next
<1>9. \/ journal' = journal /\ asks' = asks
      \/ \E p \in Commands : \/ Publish(p) \/ Intent(p) \/ Observe(p) \/ Adopt(p)
                             \/ Native(p) \/ Failed(p) \/ Complete(p)
      \/ \E g \in guards : Systemctl(g)
  <2>1. ASSUME NEW p \in Commands, NEW o \in Ops, Begin(p, o)
        PROVE  journal' = journal /\ asks' = asks
    BY <2>1 DEF Begin
  <2>2. ASSUME NEW p \in Commands,
               \/ Admit(p) \/ Preflight(p) \/ Continue(p) \/ Handoff(p) \/ Launch(p)
               \/ FirstIdle(p) \/ Load(p) \/ ResumeWorker(p) \/ ResumeCosmic(p)
               \/ Refuse(p) \/ Raise(p) \/ Kill(p)
        PROVE  journal' = journal /\ asks' = asks
    BY <2>2 DEF Admit, Preflight, Continue, Handoff, Launch, FirstIdle, Load,
       ResumeWorker, ResumeCosmic, Refuse, Raise, Kill
  <2>3. ASSUME NEW g \in guards, GuardReturns(g) \/ GuardStops(g)
        PROVE  journal' = journal /\ asks' = asks
    BY <2>3 DEF GuardReturns, GuardStops
  <2>4. ASSUME \/ \E r \in Roles : ServiceUp(r) \/ ServiceDown(r)
               \/ WorkerLocks \/ WorkerIdles \/ Reboot
               \/ \E o \in Ops : MakeHandoff(o)
               \/ UNCHANGED vars
        PROVE  journal' = journal /\ asks' = asks
    BY <2>4 DEF ServiceUp, ServiceDown, WorkerLocks, WorkerIdles, Reboot,
       MakeHandoff, vars
  <2>5. QED
    BY <2>1, <2>2, <2>3, <2>4 DEF Next, Step
<1>10. QED
  BY <1>2, <1>3, <1>5, <1>6, <1>7, <1>8, <1>9 DEF Promise!Next

LEMMA PromiseInit == Init => Promise!Init
BY DEF Init, Promise!Init, restoreStage, restoreNamed, NoJournal

(* One restoration is open at a time, asks for each service at most once,  *)
(* stands for the instances it named first, and is finished only when it   *)
(* has named both: start_service(), adopt_observation() and require_no_    *)
(* pending() keep what docs/FULL_CLIENT_LIFECYCLE.md promises.             *)
THEOREM LifecycleImplementsRestoreOnce == Spec => ImplementsRestoreOnce
<1>1. Init => Promise!Init
  BY PromiseInit
<1>2. IInv /\ IInv' /\ [Next]_vars
          => [Promise!Next]_<<restoreStage, asks, restoreNamed>>
  BY PromiseStep DEF SameView
<1>3. QED
  BY <1>1, <1>2, LifecycleIInv, PTL DEF Spec, ImplementsRestoreOnce, Promise!Spec
=============================================================================
