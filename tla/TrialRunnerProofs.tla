-------------------------- MODULE TrialRunnerProofs --------------------------
(***************************************************************************)
(* The trial runner for any number of commands and attempts and any        *)
(* sequence of operations: TrialInv is inductive, the safety properties    *)
(* follow from it, and the runner implements AttemptLedger.                *)
(***************************************************************************)
EXTENDS TrialRunner, TLAPS

LEMMA Steps ==
    /\ Writing = {"create", "recovering", "pending", "returned", "usage",
                  "confirmed", "evidence", "finish", "quarantine"}
    /\ Following["create"] = "call" /\ Following["recovering"] = "call"
    /\ Following["pending"] = "perform" /\ Following["returned"] = "handle"
    /\ Following["usage"] = "confirm" /\ Following["confirmed"] = "call"
    /\ Following["evidence"] = "call" /\ Following["finish"] = "exit"
    /\ Following["quarantine"] = "exit"
BY DEF Writing, Following

LEMMA Plans ==
    ASSUME NEW c \in Commands
    PROVE  /\ Len(Plan(c)) \in Nat
           /\ \A i \in 1 .. Len(Plan(c)) : Plan(c)[i] \in Operations
<1>1. Phases \in Seq(STRING)
    BY TrialAssumption
<1>2. Len(RecoverPlan) \in Nat
      /\ \A i \in 1 .. Len(RecoverPlan) : RecoverPlan[i] \in Operations
    BY DEF RecoverPlan, Operations
<1>3. Len(RunPlan) \in Nat
      /\ \A i \in 1 .. Len(RunPlan) : RunPlan[i] \in Operations
  <2>1. Len(RunPlan) = Len(Phases) + 2
    BY <1>1 DEF RunPlan
  <2>2. ASSUME NEW i \in 1 .. Len(RunPlan) PROVE RunPlan[i] \in Operations
    <3>1. RunPlan[i] = IF i = 1 \/ i = Len(Phases) + 2 THEN "status" ELSE Phases[i - 1]
        BY <1>1, <2>1 DEF RunPlan
    <3>2. i # 1 /\ i # Len(Phases) + 2 => i - 1 \in DOMAIN Phases
        BY <1>1, <2>1
    <3>3. QED
        BY <3>1, <3>2 DEF Operations
  <2>3. QED
    BY <1>1, <2>2
<1>4. QED
    BY <1>2, <1>3 DEF Plan

(* Whoever is inside is alone. *)
LEMMA Alone ==
    ASSUME NEW c \in Commands, copies[c] # {}, TypeOK, LockInv
    PROVE  \A d \in Commands \ {c} :
               /\ copies[d] = {} /\ pc[d] = "idle"
               /\ guard[d].state \notin Live /\ d \notin bridge.leased
BY DEF TypeOK, LockInv, HolderOK

(* A step of a runner inside, that may write its own journal. *)
LEMMA RunnerStep ==
    ASSUME NEW c \in Commands, TrialInv, TypeOK',
           pc[c] # "idle", pc'[c] # "idle",
           job' = job, bridge' = bridge, used' = used,
           \A d \in Commands \ {c} :
               /\ pc'[d] = pc[d] /\ mem'[d] = mem[d] /\ step'[d] = step[d]
               /\ guard'[d] = guard[d] /\ copies'[d] = copies[d],
           journal' = journal \/ (pc[c] \in Writing /\ Saved(c)),
           HolderOK(c)', CommandOK(c)', MemoryOK(c)',
           guard'[c] = guard[c] \/ guard'[c].state \in {"none", "starting"},
           guard'[c].state = "starting" => guard'[c] = guard[c] \/ GuardOK(c)'
    PROVE  TrialInv'
<1> USE DEF TrialInv
<1> DEFINE a == job[c].attempt
           j == mem[c]
<1>1. copies[c] # {} /\ copies'[c] # {}
    BY DEF LockInv, HolderOK
<1>2. \A d \in Commands \ {c} :
          /\ copies[d] = {} /\ pc[d] = "idle"
          /\ guard[d].state \notin Live /\ d \notin bridge.leased
    BY <1>1, Alone
<1>3. LockInv'
    BY <1>1, <1>2 DEF LockInv, HolderOK
<1>4. a \in Attempts /\ CommandOK(c) /\ MemoryOK(c)
    BY DEF CommandInv, CommandOK, UsageInv, TypeOK, Jobs
<1>5. \A b \in Attempts \ {a} : journal'[b] = journal[b] /\ Closed(journal[b])
    BY <1>4 DEF CommandOK, Saved, TypeOK
<1>6. OneUnrecovered'
    BY <1>4, <1>5 DEF OneUnrecovered, Unrecovered, Closed
<1>7. ASSUME journal' # journal
      PROVE  /\ journal'[a] = j
             /\ j.status # "absent"
             /\ j.api = "not_started" => journal[a].api = "not_started"
             /\ Charges(j, a)
             /\ Closed(j) => ~Playing(a) /\ guard[c].state = "none"
  <2>1. pc[c] \in Writing /\ journal'[a] = j
    BY <1>4, <1>7 DEF Saved, TypeOK
  <2>2. j.status # "absent"
    BY <1>4, <2>1 DEF CommandOK, StatusOK
  <2>3. Charges(j, a) /\ (j.api = "not_started" => journal[a].api = "not_started")
    BY <1>4 DEF MemoryOK
  <2>4. ASSUME Closed(j) PROVE ~Playing(a) /\ guard[c].state = "none"
    <3>1. pc[c] = "finish"
        BY <1>4, <2>1, <2>4, Steps
           DEF CommandOK, StatusOK, Closed, Terminal, Trying, PCs, NoJournal
    <3>2. guard[c].state = "none"
        BY <1>4, <3>1 DEF CommandOK, CallOK
    <3>3. ASSUME job[c].recover PROVE ~Playing(a)
        BY <1>4, <3>3 DEF CommandOK, Playing
    <3>4. ASSUME ~job[c].recover PROVE ~Playing(a)
      <4>1. j.api # "uncertain"
        BY <1>4, <3>1, <3>4, Steps DEF MemoryOK, Trying, PCs, InCall
      <4>2. j.api \in {"not_started", "confirmed"}
        BY <4>1 DEF TypeOK, Journal
      <4>3. CASE j.api = "not_started"
        BY <1>4, <2>3, <4>3 DEF UsageInv, AttemptOK
      <4>4. CASE j.api = "confirmed"
        BY <2>3, <4>4 DEF Charges, Settled
      <4>5. QED
        BY <4>2, <4>3, <4>4
    <3>5. QED
        BY <3>2, <3>3, <3>4
  <2>5. QED
    BY <2>1, <2>2, <2>3, <2>4
<1>8. CommandInv'
    BY <1>2 DEF CommandInv, CommandOK
<1>9. GuardInv'
  <2>1. ASSUME NEW d \in Commands, guard'[d] = guard[d] PROVE GuardOK(d)'
    <3>1. GuardOK(d)
        BY DEF GuardInv
    <3>2. CASE journal' = journal
        BY <2>1, <3>1, <3>2 DEF GuardOK, Settled, Playing
    <3>3. CASE journal' # journal
      <4> SUFFICES ASSUME guard[d].state # "none" PROVE GuardOK(d)'
          BY <2>1 DEF GuardOK
      <4>1. guard[d].attempt \in Attempts
        BY <3>1 DEF GuardOK, TypeOK, Guards
      <4>2. d # c => guard[d].state \notin Live
        BY <1>2
      <4>3. QED
        BY <1>5, <1>7, <2>1, <3>1, <3>3, <4>1, <4>2 DEF GuardOK, Settled, Playing, Live
    <3>4. QED
        BY <3>2, <3>3
  <2>2. GuardOK(c)'
    BY <2>1 DEF GuardOK
  <2>3. QED
    BY <2>1, <2>2 DEF GuardInv
<1>10. UsageInv'
  <2>1. ASSUME NEW b \in Attempts PROVE AttemptOK(b)'
    <3>1. AttemptOK(b)
        BY DEF UsageInv
    <3>2. CASE journal'[b] = journal[b]
        BY <3>1, <3>2 DEF AttemptOK, Charges, Settled, Playing
    <3>3. CASE journal'[b] # journal[b]
      <4>1. b = a /\ journal' # journal
        BY <1>5, <3>3
      <4>2. QED
        BY <1>7, <3>1, <4>1 DEF AttemptOK, Charges, Settled, Playing
    <3>4. QED
        BY <3>2, <3>3
  <2>2. QED
    BY <1>2, <2>1 DEF UsageInv
<1>11. QED
    BY <1>3, <1>6, <1>8, <1>9, <1>10

LEMMA NoGuardType == NoGuard \in Guards
BY DEF NoGuard, Guards, Operations

LEMMA Inner ==
    ASSUME NEW c \in Commands, TrialInv, pc[c] # "idle"
    PROVE  /\ job[c].attempt \in Attempts /\ job[c].recover \in BOOLEAN
           /\ journal[job[c].attempt] \in Journal /\ mem[c] \in Journal
           /\ CommandOK(c) /\ MemoryOK(c) /\ GuardOK(c) /\ HolderOK(c)
BY DEF TrialInv, TypeOK, Jobs, CommandInv, CommandOK, UsageInv, GuardInv, LockInv

(* Every step that ends in _quarantine(). *)
LEMMA RaiseStep ==
    ASSUME NEW c \in Commands, TrialInv, pc[c] \in Trying, Raise(c),
           job' = job, step' = step, bridge' = bridge, used' = used, copies' = copies,
           journal' = journal \/ (pc[c] \in Writing /\ Saved(c)),
           \/ guard' = guard
           \/ guard' = [guard EXCEPT ![c] = NoGuard] /\ guard[c].state \notin Live
    PROVE  TrialInv'
<1> DEFINE a == job[c].attempt
<1>1. pc[c] # "idle" /\ TypeOK
    BY DEF Trying, TrialInv
<1>2. /\ a \in Attempts /\ job[c].recover \in BOOLEAN
      /\ journal[a] \in Journal /\ mem[c] \in Journal
      /\ CommandOK(c) /\ MemoryOK(c) /\ HolderOK(c)
    BY <1>1, Inner
<1>3. /\ pc' = [pc EXCEPT ![c] = "quarantine"] /\ pc'[c] = "quarantine"
      /\ mem' = [mem EXCEPT ![c].status = "failed"]
      /\ mem'[c] = [mem[c] EXCEPT !.status = "failed"]
    BY <1>1 DEF Raise, Goto, TypeOK
<1>4. journal' = journal \/ (journal' = [journal EXCEPT ![a] = mem[c]] /\ journal'[a] = mem[c])
    BY <1>1, <1>2 DEF Saved, TypeOK
<1>5. guard'[c] = guard[c] \/ guard'[c] = NoGuard
    BY <1>1 DEF TypeOK
<1>6. TypeOK'
  <2>1. mem'[c] \in Journal
    BY <1>2, <1>3 DEF Journal, Statuses
  <2>2. guard' \in [Commands -> Guards]
    BY <1>1, NoGuardType DEF TypeOK
  <2>3. QED
    BY <1>1, <1>2, <1>3, <1>4, <2>1, <2>2, Steps DEF TypeOK, PCs
<1>7. HolderOK(c)'
    BY <1>2, <1>3, <1>1 DEF HolderOK, Live, NoGuard, TypeOK
<1>8. CommandOK(c)'
  <2>1. StatusOK(journal'[a], mem'[c], "quarantine", job[c].recover)
    BY <1>2, <1>3, <1>4, <1>1, Steps DEF CommandOK, StatusOK, Trying, Journal
  <2>2. CallOK(c)'
    BY <1>3 DEF CallOK, InCall
  <2>3. \A b \in Attempts \ {a} : Closed(journal'[b])
    BY <1>1, <1>2, <1>4 DEF CommandOK, TypeOK
  <2>4. job[c].recover => /\ bridge.state \notin {"requested", "active"}
                          /\ guard'[c].op = "run_controller" => guard'[c].state = "none"
    BY <1>1, <1>2, <1>5 DEF CommandOK, NoGuard
  <2>5. QED
    BY <1>2, <1>3, <2>1, <2>2, <2>3, <2>4, <1>1 DEF CommandOK
<1>9. MemoryOK(c)'
  <2>1. mem'[c].api = mem[c].api /\ mem'[c].charged = mem[c].charged
    BY <1>2, <1>3 DEF Journal
  <2>2. pc'[c] \notin Trying
    BY <1>3 DEF Trying
  <2>3. QED
    BY <1>2, <1>4, <2>1, <2>2 DEF MemoryOK, Charges, Settled, Playing, Journal
<1>10. \A d \in Commands \ {c} :
           /\ pc'[d] = pc[d] /\ mem'[d] = mem[d] /\ step'[d] = step[d]
           /\ guard'[d] = guard[d] /\ copies'[d] = copies[d]
    BY <1>1, <1>3 DEF TypeOK
<1>11. guard'[c].state # "starting" \/ guard'[c] = guard[c]
    BY <1>5 DEF NoGuard
<1>13. QED
    BY <1>1, <1>3, <1>5, <1>6, <1>7, <1>8, <1>9, <1>10, <1>11, RunnerStep DEF NoGuard

(* The journal is replaced, and the command goes on. *)
LEMMA WriteStep ==
    ASSUME NEW c \in Commands, TrialInv, Write(c)
    PROVE  TrialInv'
<1> DEFINE a == job[c].attempt
<1>1. /\ pc[c] # "idle" /\ pc[c] \in Writing /\ TypeOK
      /\ pc' = [pc EXCEPT ![c] = Following[pc[c]]] /\ pc'[c] = Following[pc[c]]
      /\ Saved(c)
      /\ UNCHANGED <<mem, job, step, guard, copies, bridge, used>>
    BY Steps DEF Write, Goto, TrialInv, TypeOK
<1>2. /\ a \in Attempts /\ job[c].recover \in BOOLEAN
      /\ journal[a] \in Journal /\ mem[c] \in Journal
      /\ CommandOK(c) /\ MemoryOK(c) /\ HolderOK(c)
    BY <1>1, Inner
<1>3. journal' = [journal EXCEPT ![a] = mem[c]] /\ journal'[a] = mem[c]
    BY <1>1, <1>2 DEF Saved, TypeOK
<1>4. pc'[c] \in {"call", "perform", "handle", "confirm", "exit"}
    BY <1>1, Steps
<1>5. TypeOK'
    BY <1>1, <1>2, <1>3, <1>4 DEF TypeOK, PCs
<1>6. HolderOK(c)'
    BY <1>1, <1>2, <1>4 DEF HolderOK
<1>7. CommandOK(c)'
  <2>1. StatusOK(mem[c], mem[c], pc'[c], job[c].recover)
    BY <1>1, <1>2, <1>4, Steps DEF CommandOK, StatusOK, Trying, PCs, NoJournal, Journal
  <2>2. CallOK(c)'
    BY <1>1, <1>2, Steps DEF CommandOK, CallOK, InCall, Plan, Op
  <2>3. \A b \in Attempts \ {a} : Closed(journal'[b])
    BY <1>1, <1>2, <1>3 DEF CommandOK, TypeOK
  <2>4. QED
    BY <1>1, <1>2, <1>3, <1>4, <2>1, <2>2, <2>3 DEF CommandOK
<1>8. MemoryOK(c)'
  <2>1. Charges(mem[c], a)' /\ (mem[c].charged = 0 => mem[c].charged \in {0, Reservation})
    BY <1>1, <1>2 DEF MemoryOK, Charges, Settled, Playing
  <2>2. ASSUME ~job[c].recover, pc'[c] \in Trying
        PROVE  IF pc'[c] \in InCall /\ Op(c)' = "run_controller"
               THEN /\ mem[c].api = "uncertain"
                    /\ pc'[c] \in {"returned", "handle", "usage", "confirm"} => Settled(a)'
               ELSE mem[c].api # "uncertain"
    <3>1. Op(c)' = Op(c) /\ Settled(a)' = Settled(a)
        BY <1>1 DEF Op, Plan, Settled, Playing
    <3>2. CASE pc[c] = "create"
        BY <1>1, <1>2, <2>2, <3>1, <3>2, Steps DEF CommandOK, StatusOK, NoJournal, InCall
    <3>3. CASE pc[c] # "create"
      <4>1. pc[c] \in Trying /\ (pc[c] \in InCall <=> pc'[c] \in InCall)
        BY <1>1, <1>2, <2>2, <3>3, Steps DEF Trying, PCs, InCall, CommandOK, StatusOK
      <4>2. QED
        BY <1>1, <1>2, <1>4, <2>2, <3>1, <4>1, Steps DEF MemoryOK
    <3>4. QED
        BY <3>2, <3>3
  <2>3. QED
    BY <1>1, <1>3, <1>4, <2>1, <2>2 DEF MemoryOK
<1>9. \A d \in Commands \ {c} :
          /\ pc'[d] = pc[d] /\ mem'[d] = mem[d] /\ step'[d] = step[d]
          /\ guard'[d] = guard[d] /\ copies'[d] = copies[d]
    BY <1>1 DEF TypeOK
<1>10. QED
    BY <1>1, <1>4, <1>5, <1>6, <1>7, <1>8, <1>9, RunnerStep

LEMMA WriteRaisesStep ==
    ASSUME NEW c \in Commands, TrialInv, WriteRaises(c)
    PROVE  TrialInv'
<1> DEFINE a == job[c].attempt
<1>1. CASE pc[c] \in Trying
    BY <1>1, RaiseStep DEF WriteRaises
<1>2. CASE pc[c] \notin Trying
  <2>1. /\ pc[c] \in {"create", "recovering", "quarantine"} /\ pc[c] \in Writing /\ TypeOK
        /\ pc' = [pc EXCEPT ![c] = "exit"] /\ pc'[c] = "exit"
        /\ Saved(c) \/ journal' = journal
        /\ UNCHANGED <<mem, job, step, guard, copies, bridge, used>>
    BY <1>2, Steps DEF WriteRaises, Goto, TrialInv, TypeOK, Trying, PCs
  <2>2. /\ a \in Attempts /\ job[c].recover \in BOOLEAN
        /\ journal[a] \in Journal /\ mem[c] \in Journal
        /\ CommandOK(c) /\ MemoryOK(c) /\ HolderOK(c)
    BY <2>1, Inner
  <2>3. journal' = journal \/ (journal' = [journal EXCEPT ![a] = mem[c]] /\ journal'[a] = mem[c])
    BY <2>1, <2>2 DEF Saved, TypeOK
  <2>4. TypeOK' /\ HolderOK(c)'
    BY <2>1, <2>2, <2>3 DEF TypeOK, PCs, HolderOK
  <2>5. CommandOK(c)'
    <3>1. StatusOK(journal'[a], mem[c], "exit", job[c].recover)
        BY <2>1, <2>2, <2>3 DEF CommandOK, StatusOK, Trying
    <3>2. CallOK(c)'
        BY <2>1 DEF CallOK, InCall
    <3>3. \A b \in Attempts \ {a} : Closed(journal'[b])
        BY <2>1, <2>2, <2>3 DEF CommandOK, TypeOK
    <3>4. QED
        BY <2>1, <2>2, <3>1, <3>2, <3>3 DEF CommandOK
  <2>6. MemoryOK(c)'
    BY <2>1, <2>2, <2>3 DEF MemoryOK, Charges, Settled, Playing, Trying, Journal
  <2>7. \A d \in Commands \ {c} :
            /\ pc'[d] = pc[d] /\ mem'[d] = mem[d] /\ step'[d] = step[d]
            /\ guard'[d] = guard[d] /\ copies'[d] = copies[d]
    BY <2>1 DEF TypeOK
  <2>8. QED
    BY <2>1, <2>4, <2>5, <2>6, <2>7, RunnerStep
<1>3. QED
    BY <1>1, <1>2

(* The steps of a call that go on and write nothing.                       *)
LEMMA CallStep ==
    ASSUME NEW c \in Commands, TrialInv, Call(c)
    PROVE  TrialInv'
<1> DEFINE a == job[c].attempt
           r == [mem[c] EXCEPT !.api = "uncertain", !.charged = Reservation]
<1>1. /\ pc[c] = "call" /\ More(c) /\ TypeOK
      /\ pc' = [pc EXCEPT ![c] = "pending"] /\ pc'[c] = "pending"
      /\ UNCHANGED <<journal, job, step, guard, copies, bridge, used>>
    BY DEF Call, Goto, TrialInv, TypeOK
<1>2. /\ a \in Attempts /\ job[c].recover \in BOOLEAN
      /\ journal[a] \in Journal /\ mem[c] \in Journal
      /\ CommandOK(c) /\ MemoryOK(c) /\ HolderOK(c)
    BY <1>1, Inner
<1>3. mem' \in [Commands -> Journal] /\ \A d \in Commands \ {c} : mem'[d] = mem[d]
  <2>1. r \in Journal
    BY <1>2, TrialAssumption DEF Journal
  <2>2. mem' = mem \/ mem' = [mem EXCEPT ![c] = r]
    BY DEF Call
  <2>3. QED
    BY <1>1, <2>1, <2>2 DEF TypeOK
<1>4. /\ mem'[c].status = mem[c].status
      /\ Op(c) # "run_controller" => mem'[c] = mem[c]
      /\ Op(c) = "run_controller" =>
             /\ mem[c].api = "not_started" /\ ~job[c].recover
             /\ mem'[c].api = "uncertain" /\ mem'[c].charged = Reservation
  <2>1. job[c].recover => Op(c) # "run_controller"
    <3>1. step[c] \in 1 .. Len(Plan(c))
        BY <1>1, Plans DEF TypeOK, More
    <3>2. QED
        BY <3>1 DEF Plan, Op, RecoverPlan
  <2>2. CASE Op(c) = "run_controller"
    <3>1. mem[c].api = "not_started" /\ mem'[c] = r
        BY <1>1, <2>2 DEF Call, TypeOK
    <3>2. r.status = mem[c].status /\ r.api = "uncertain" /\ r.charged = Reservation
        BY <1>2 DEF Journal
    <3>3. QED
        BY <1>2, <2>1, <2>2, <3>1, <3>2
  <2>3. CASE Op(c) # "run_controller"
    BY <2>3 DEF Call
  <2>4. QED
    BY <2>2, <2>3
<1>5. TypeOK'
    BY <1>1, <1>3, Steps DEF TypeOK, PCs
<1>6. HolderOK(c)'
    BY <1>1, <1>2 DEF HolderOK
<1>7. CommandOK(c)'
  <2>1. pc[c] \in Trying \ {"finish"} /\ "pending" \in Trying \ {"finish"}
    BY <1>1, Steps DEF Trying, PCs
  <2>2. StatusOK(journal[a], mem'[c], "pending", job[c].recover)
    BY <1>1, <1>2, <1>4, <2>1 DEF CommandOK, StatusOK
  <2>3. CallOK(c)'
    BY <1>1, <1>2 DEF CommandOK, CallOK, InCall, Plan, More
  <2>4. QED
    BY <1>1, <1>2, <2>2, <2>3 DEF CommandOK
<1>8. MemoryOK(c)'
  <2>1. Op(c)' = Op(c) /\ pc[c] \in Trying /\ pc[c] \notin InCall
    BY <1>1, Steps DEF Op, Plan, Trying, PCs, InCall
  <2>2. CASE Op(c) = "run_controller"
    BY <1>1, <1>2, <1>4, <2>1, <2>2, TrialAssumption
       DEF MemoryOK, Charges, Settled, Playing, InCall
  <2>3. CASE Op(c) # "run_controller"
    BY <1>1, <1>2, <1>4, <2>1, <2>3 DEF MemoryOK, Charges, Settled, Playing
  <2>4. QED
    BY <2>2, <2>3
<1>9. \A d \in Commands \ {c} :
          /\ pc'[d] = pc[d] /\ mem'[d] = mem[d] /\ step'[d] = step[d]
          /\ guard'[d] = guard[d] /\ copies'[d] = copies[d]
    BY <1>1, <1>3 DEF TypeOK
<1>10. QED
    BY <1>1, <1>5, <1>6, <1>7, <1>8, <1>9, RunnerStep

LEMMA PerformStep ==
    ASSUME NEW c \in Commands, TrialInv, Perform(c)
    PROVE  TrialInv'
<1> DEFINE a == job[c].attempt
           g == [state |-> "starting", attempt |-> a, op |-> Op(c), ok |-> FALSE]
<1>1. /\ pc[c] = "perform" /\ TypeOK
      /\ pc' = [pc EXCEPT ![c] = "waiting"] /\ pc'[c] = "waiting"
      /\ guard' = [guard EXCEPT ![c] = g] /\ guard'[c] = g
      /\ copies' = [copies EXCEPT ![c] = @ \cup {"guard"}]
      /\ copies'[c] = copies[c] \cup {"guard"}
      /\ UNCHANGED <<journal, mem, job, step, bridge, used>>
    BY DEF Perform, Goto, TrialInv, TypeOK
<1>2. /\ a \in Attempts /\ job[c].recover \in BOOLEAN
      /\ journal[a] \in Journal /\ mem[c] \in Journal
      /\ CommandOK(c) /\ MemoryOK(c) /\ HolderOK(c)
    BY <1>1, Inner
<1>3. /\ step[c] \in 1 .. Len(Plan(c)) /\ Op(c) \in Operations
      /\ Op(c)' = Op(c) /\ CallOK(c)'
      /\ pc[c] \in Trying \ {"finish"} /\ pc'[c] \in Trying \ {"finish"}
      /\ pc[c] \in InCall /\ pc'[c] \in InCall
  <2>1. step[c] \in 1 .. Len(Plan(c))
    BY <1>1, <1>2, Plans DEF CommandOK, CallOK, InCall, TypeOK
  <2>2. QED
    BY <1>1, <1>2, <2>1, Plans, Steps DEF Op, Plan, CallOK, InCall, Trying, PCs
<1>4. TypeOK'
  <2>1. g \in Guards
    BY <1>2, <1>3 DEF Guards
  <2>2. QED
    BY <1>1, <2>1, Steps DEF TypeOK, PCs
<1>5. HolderOK(c)'
    BY <1>1, <1>2 DEF HolderOK, Live
<1>6. CommandOK(c)'
  <2>1. job[c].recover => Op(c) # "run_controller"
    BY <1>3 DEF Plan, Op, RecoverPlan
  <2>2. StatusOK(journal[a], mem[c], "waiting", job[c].recover)
    BY <1>1, <1>2, <1>3 DEF CommandOK, StatusOK
  <2>3. QED
    BY <1>1, <1>2, <1>3, <2>1, <2>2 DEF CommandOK
<1>7. MemoryOK(c)'
    BY <1>1, <1>2, <1>3 DEF MemoryOK, Charges, Settled, Playing
<1>8. GuardOK(c)'
  <2>1. ~Closed(journal[a])
    BY <1>1, <1>2, <1>3 DEF CommandOK, StatusOK, Closed, Terminal
  <2>2. Op(c) = "run_controller" => journal[a].api # "not_started"
    <3>1. job[c].recover => Op(c) # "run_controller"
        BY <1>3 DEF Plan, Op, RecoverPlan
    <3>2. QED
        BY <1>1, <1>2, <1>3, <3>1 DEF MemoryOK
  <2>3. a # None
    BY <1>1, <1>2 DEF CommandOK
  <2>4. QED
    BY <1>1, <2>1, <2>2, <2>3 DEF GuardOK
<1>9. \A d \in Commands \ {c} :
          /\ pc'[d] = pc[d] /\ mem'[d] = mem[d] /\ step'[d] = step[d]
          /\ guard'[d] = guard[d] /\ copies'[d] = copies[d]
    BY <1>1 DEF TypeOK
<1>10. QED
    BY <1>1, <1>4, <1>5, <1>6, <1>7, <1>8, <1>9, RunnerStep

(* The answer of the guard is taken. *)
LEMMA ReceiveStep ==
    ASSUME NEW c \in Commands, TrialInv, Receive(c)
    PROVE  TrialInv'
<1> DEFINE a == job[c].attempt
           r == [mem[c] EXCEPT !.receipts = @ \cup {Op(c)}]
<1>1. /\ pc[c] = "waiting" /\ guard[c].state = "done" /\ guard[c].ok /\ TypeOK
      /\ pc' = [pc EXCEPT ![c] = "returned"] /\ pc'[c] = "returned"
      /\ guard' = [guard EXCEPT ![c] = NoGuard] /\ guard'[c] = NoGuard
      /\ mem' = [mem EXCEPT ![c] = r] /\ mem'[c] = r
      /\ UNCHANGED <<journal, job, step, copies, bridge, used>>
    BY DEF Receive, Goto, TrialInv, TypeOK
<1>2. /\ a \in Attempts /\ job[c].recover \in BOOLEAN
      /\ journal[a] \in Journal /\ mem[c] \in Journal
      /\ CommandOK(c) /\ MemoryOK(c) /\ GuardOK(c) /\ HolderOK(c)
    BY <1>1, Inner
<1>3. /\ step[c] \in 1 .. Len(Plan(c)) /\ Op(c) \in Operations /\ Op(c)' = Op(c)
      /\ pc[c] \in Trying \ {"finish"} /\ pc'[c] \in Trying \ {"finish"}
      /\ pc[c] \in InCall /\ pc'[c] \in InCall
  <2>1. step[c] \in 1 .. Len(Plan(c))
    BY <1>1, <1>2, Plans DEF CommandOK, CallOK, InCall, TypeOK
  <2>2. QED
    BY <1>1, <2>1, Plans, Steps DEF Op, Plan, InCall, Trying, PCs
<1>4. r \in Journal /\ r.status = mem[c].status /\ r.api = mem[c].api /\ r.charged = mem[c].charged
    BY <1>2, <1>3 DEF Journal
<1>5. TypeOK'
    BY <1>1, <1>4, NoGuardType, Steps DEF TypeOK, PCs
<1>6. HolderOK(c)'
    BY <1>1, <1>2 DEF HolderOK, Live, NoGuard
<1>7. CommandOK(c)'
  <2>1. StatusOK(journal[a], mem'[c], "returned", job[c].recover)
    BY <1>1, <1>2, <1>3, <1>4 DEF CommandOK, StatusOK
  <2>2. CallOK(c)'
    BY <1>1, <1>2, <1>3 DEF CallOK, NoGuard, Plan
  <2>3. QED
    BY <1>1, <1>2, <2>1, <2>2 DEF CommandOK, NoGuard
<1>8. MemoryOK(c)'
  <2>1. Op(c) = "run_controller" => Settled(a)
    BY <1>1, <1>2 DEF CommandOK, CallOK, GuardOK
  <2>2. QED
    BY <1>1, <1>2, <1>3, <1>4, <2>1 DEF MemoryOK, Charges, Settled, Playing
<1>9. \A d \in Commands \ {c} :
          /\ pc'[d] = pc[d] /\ mem'[d] = mem[d] /\ step'[d] = step[d]
          /\ guard'[d] = guard[d] /\ copies'[d] = copies[d]
    BY <1>1 DEF TypeOK
<1>10. QED
    BY <1>1, <1>5, <1>6, <1>7, <1>8, <1>9, RunnerStep DEF NoGuard

(* The receipt is used. *)
LEMMA HandleStep ==
    ASSUME NEW c \in Commands, TrialInv, Handle(c)
    PROVE  TrialInv'
<1> DEFINE a == job[c].attempt
<1>1. /\ pc[c] = "handle" /\ TypeOK
      /\ UNCHANGED <<journal, job, guard, copies, bridge, used>>
    BY DEF Handle, TrialInv
<1>2. /\ a \in Attempts /\ job[c].recover \in BOOLEAN
      /\ journal[a] \in Journal /\ mem[c] \in Journal /\ used[a] \in Nat
      /\ CommandOK(c) /\ MemoryOK(c) /\ HolderOK(c)
    BY <1>1, Inner DEF TypeOK
<1>3. /\ step[c] \in 1 .. Len(Plan(c))
      /\ pc[c] \in Trying \ {"finish"} /\ pc[c] \in InCall
    BY <1>1, <1>2, Plans, Steps DEF CommandOK, CallOK, InCall, TypeOK, Trying, PCs
<1>4. job[c].recover => Op(c) # "run_controller"
    BY <1>3 DEF Plan, Op, RecoverPlan
<1>5. CASE Op(c) = "run_controller"
  <2> DEFINE r == [mem[c] EXCEPT !.charged = Larger(@, used[a])]
  <2>1. /\ pc' = [pc EXCEPT ![c] = "usage"] /\ pc'[c] = "usage" /\ step' = step
        /\ mem' = [mem EXCEPT ![c] = r] /\ mem'[c] = r
    BY <1>1, <1>5 DEF Handle, Goto, TypeOK
  <2>2. /\ r \in Journal /\ r.status = mem[c].status /\ r.api = mem[c].api
        /\ r.charged \in Nat /\ r.charged >= mem[c].charged
    BY <1>2 DEF Journal, Larger
  <2>3. TypeOK'
    BY <1>1, <2>1, <2>2, Steps DEF TypeOK, PCs
  <2>4. HolderOK(c)'
    BY <1>1, <1>2, <2>1 DEF HolderOK
  <2>5. Op(c)' = Op(c) /\ ~job[c].recover /\ pc'[c] \in Trying \ {"finish"} /\ pc'[c] \in InCall
    BY <1>1, <1>4, <1>5, <1>2, <2>1, Steps DEF Op, Plan, Trying, PCs, InCall
  <2>6. CommandOK(c)'
    <3>1. StatusOK(journal[a], mem'[c], "usage", job[c].recover)
        BY <1>1, <1>2, <1>3, <2>1, <2>2, <2>5 DEF CommandOK, StatusOK
    <3>2. CallOK(c)'
        BY <1>1, <1>2, <1>3, <1>5, <2>1, <2>5 DEF CommandOK, CallOK, Plan
    <3>3. QED
        BY <1>1, <1>2, <2>1, <2>5, <3>1, <3>2 DEF CommandOK
  <2>7. MemoryOK(c)'
    <3>1. mem[c].api = "uncertain" /\ journal[a].api = "uncertain" /\ Settled(a)
        BY <1>1, <1>2, <1>3, <1>5, <2>5 DEF MemoryOK
    <3>2. mem[c].charged >= Reservation /\ journal[a].charged >= Reservation
      <4>1. Charges(mem[c], a) /\ Charges(journal[a], a)
        BY <1>2 DEF MemoryOK, TrialInv, UsageInv, AttemptOK
      <4>2. QED
        BY <3>1, <4>1 DEF Charges
    <3>3. r.charged >= Reservation /\ journal[a].charged # 0
        BY <1>2, <2>2, <3>2, TrialAssumption DEF Journal
    <3>4. Settled(a)'
        BY <1>1, <3>1 DEF Settled, Playing
    <3>5. QED
        BY <1>1, <1>5, <2>1, <2>2, <2>5, <3>1, <3>3, <3>4 DEF MemoryOK, Charges
  <2>8. \A d \in Commands \ {c} :
            /\ pc'[d] = pc[d] /\ mem'[d] = mem[d] /\ step'[d] = step[d]
            /\ guard'[d] = guard[d] /\ copies'[d] = copies[d]
    BY <1>1, <2>1 DEF TypeOK
  <2>9. QED
    BY <1>1, <2>1, <2>3, <2>4, <2>6, <2>7, <2>8, RunnerStep
<1>6. CASE Op(c) # "run_controller"
  <2> DEFINE r == [mem[c] EXCEPT !.scored = TRUE]
  <2>1. /\ \/ pc' = [pc EXCEPT ![c] = "evidence"] /\ mem' = [mem EXCEPT ![c] = r]
           \/ pc' = [pc EXCEPT ![c] = "call"] /\ mem' = mem
        /\ step' = [step EXCEPT ![c] = @ + 1]
    <3>1. CASE Op(c) = "collect_final"
        BY <1>6, <3>1 DEF Handle, Goto
    <3>2. CASE Op(c) # "collect_final"
        BY <1>6, <3>2 DEF Handle, Goto
    <3>3. QED
        BY <3>1, <3>2
  <2>2. r \in Journal /\ r.status = mem[c].status /\ r.api = mem[c].api /\ r.charged = mem[c].charged
    BY <1>2 DEF Journal
  <2>3. /\ pc'[c] \in {"evidence", "call"}
        /\ mem'[c] \in Journal /\ mem'[c].status = mem[c].status
        /\ mem'[c].api = mem[c].api /\ mem'[c].charged = mem[c].charged
        /\ \A d \in Commands \ {c} :
               /\ pc'[d] = pc[d] /\ mem'[d] = mem[d] /\ step'[d] = step[d]
               /\ guard'[d] = guard[d] /\ copies'[d] = copies[d]
    BY <1>1, <1>2, <2>1, <2>2 DEF TypeOK
  <2>4. TypeOK'
    <3>1. step' \in [Commands -> Nat \ {0}]
        BY <1>1, <2>1 DEF TypeOK
    <3>2. mem' = mem \/ mem' = [mem EXCEPT ![c] = r]
        BY <2>1
    <3>3. "evidence" \in PCs /\ "call" \in PCs
        BY Steps DEF PCs
    <3>4. pc' \in [Commands -> PCs]
        BY <1>1, <2>1, <3>3 DEF TypeOK
    <3>5. mem' \in [Commands -> Journal]
        BY <1>1, <2>2, <3>2 DEF TypeOK
    <3>6. QED
        BY <1>1, <3>1, <3>4, <3>5 DEF TypeOK
  <2>5. HolderOK(c)'
    BY <1>1, <1>2, <2>3 DEF HolderOK
  <2>6. pc'[c] \in Trying \ {"finish"} /\ pc'[c] \notin InCall
    BY <2>3, Steps DEF Trying, PCs, InCall
  <2>7. CommandOK(c)'
    <3>1. StatusOK(journal[a], mem'[c], pc'[c], job[c].recover)
        BY <1>1, <1>2, <1>3, <2>3, <2>6 DEF CommandOK, StatusOK
    <3>2. CallOK(c)'
        BY <1>1, <1>2, <2>3, <2>6 DEF CommandOK, CallOK
    <3>3. QED
        BY <1>1, <1>2, <2>3, <3>1, <3>2 DEF CommandOK
  <2>8. MemoryOK(c)'
    BY <1>1, <1>2, <1>3, <1>6, <2>3, <2>6 DEF MemoryOK, Charges, Settled, Playing
  <2>9. QED
    BY <1>1, <2>3, <2>4, <2>5, <2>7, <2>8, RunnerStep
<1>7. QED
    BY <1>5, <1>6

LEMMA ConfirmStep ==
    ASSUME NEW c \in Commands, TrialInv, Confirm(c)
    PROVE  TrialInv'
<1> DEFINE a == job[c].attempt
           r == [mem[c] EXCEPT !.api = "confirmed", !.charged = used[a]]
<1>1. /\ pc[c] = "confirm" /\ TypeOK /\ pc[c] \in Trying /\ pc[c] \in InCall
      /\ UNCHANGED <<journal, job, guard, copies, bridge, used>>
    BY Steps DEF Confirm, TrialInv, Trying, PCs, InCall
<1>2. /\ a \in Attempts /\ job[c].recover \in BOOLEAN
      /\ journal[a] \in Journal /\ mem[c] \in Journal /\ used[a] \in Nat
      /\ CommandOK(c) /\ MemoryOK(c) /\ HolderOK(c)
    BY <1>1, Inner DEF TypeOK
<1>3. CASE ~(used[a] <= Reservation)
    BY <1>1, <1>3, RaiseStep DEF Confirm
<1>4. CASE used[a] <= Reservation
  <2>1. /\ pc' = [pc EXCEPT ![c] = "confirmed"] /\ pc'[c] = "confirmed"
        /\ mem' = [mem EXCEPT ![c] = r] /\ mem'[c] = r
        /\ step' = [step EXCEPT ![c] = @ + 1]
    BY <1>1, <1>4 DEF Confirm, Goto, TypeOK
  <2>2. r \in Journal /\ r.status = mem[c].status /\ r.api = "confirmed" /\ r.charged = used[a]
    BY <1>2 DEF Journal
  <2>3. ~job[c].recover /\ Op(c) = "run_controller"
    <3>1. step[c] \in 1 .. Len(Plan(c)) /\ Op(c) = "run_controller"
        BY <1>1, <1>2, Plans DEF CommandOK, CallOK, TypeOK
    <3>2. QED
        BY <1>2, <3>1 DEF Plan, Op, RecoverPlan
  <2>4. TypeOK'
    <3>1. step' \in [Commands -> Nat \ {0}]
        BY <1>1, <2>1 DEF TypeOK
    <3>2. pc' \in [Commands -> PCs] /\ mem' \in [Commands -> Journal]
        BY <1>1, <2>1, <2>2, Steps DEF TypeOK, PCs
    <3>3. QED
        BY <1>1, <3>1, <3>2 DEF TypeOK
  <2>5. HolderOK(c)'
    BY <1>1, <1>2, <2>1 DEF HolderOK
  <2>6. pc[c] # "finish" /\ pc'[c] \in Trying \ {"finish"} /\ pc'[c] \notin InCall
    BY <1>1, <2>1, Steps DEF Trying, PCs, InCall
  <2>7. CommandOK(c)'
    <3>1. StatusOK(journal[a], mem'[c], pc'[c], job[c].recover)
        BY <1>1, <1>2, <2>1, <2>2, <2>3, <2>6 DEF CommandOK, StatusOK
    <3>2. CallOK(c)'
        BY <1>1, <1>2, <2>1, <2>6 DEF CommandOK, CallOK
    <3>3. QED
        BY <1>1, <1>2, <2>1, <2>3, <3>1, <3>2 DEF CommandOK
  <2>8. MemoryOK(c)'
    <3>1. journal[a].api = "uncertain" /\ Settled(a)
        BY <1>1, <1>2, <2>3 DEF MemoryOK
    <3>2. journal[a].charged # 0
        BY <1>2, <3>1, TrialAssumption DEF TrialInv, UsageInv, AttemptOK, Charges, Journal
    <3>3. Settled(a)'
        BY <1>1, <3>1 DEF Settled, Playing
    <3>4. QED
        BY <1>1, <2>1, <2>2, <2>3, <2>6, <3>2, <3>3 DEF MemoryOK, Charges
  <2>9. \A d \in Commands \ {c} :
            /\ pc'[d] = pc[d] /\ mem'[d] = mem[d] /\ step'[d] = step[d]
            /\ guard'[d] = guard[d] /\ copies'[d] = copies[d]
    BY <1>1, <2>1 DEF TypeOK
  <2>10. QED
    BY <1>1, <2>1, <2>4, <2>5, <2>7, <2>8, <2>9, RunnerStep
<1>5. QED
    BY <1>3, <1>4

LEMMA FinishStep ==
    ASSUME NEW c \in Commands, TrialInv, Finish(c)
    PROVE  TrialInv'
<1> DEFINE a == job[c].attempt
           last == IF job[c].recover THEN "recovered" ELSE "completed"
           r == [mem[c] EXCEPT !.status = last]
<1>1. /\ pc[c] = "call" /\ TypeOK
      /\ pc' = [pc EXCEPT ![c] = "finish"] /\ pc'[c] = "finish"
      /\ mem' = [mem EXCEPT ![c] = r] /\ mem'[c] = r
      /\ UNCHANGED <<journal, job, step, guard, copies, bridge, used>>
    BY DEF Finish, Goto, TrialInv, TypeOK
<1>2. /\ a \in Attempts /\ job[c].recover \in BOOLEAN
      /\ journal[a] \in Journal /\ mem[c] \in Journal
      /\ CommandOK(c) /\ MemoryOK(c) /\ HolderOK(c)
    BY <1>1, Inner
<1>3. r \in Journal /\ r.status = last /\ r.api = mem[c].api /\ r.charged = mem[c].charged
    BY <1>2 DEF Journal, Statuses
<1>4. pc[c] \in Trying \ {"finish"} /\ pc[c] \notin InCall /\ "finish" \in Trying /\ "finish" \notin InCall
    BY <1>1, Steps DEF Trying, PCs, InCall
<1>5. TypeOK'
    BY <1>1, <1>3, Steps DEF TypeOK, PCs
<1>6. HolderOK(c)'
    BY <1>1, <1>2 DEF HolderOK
<1>7. CommandOK(c)'
  <2>1. StatusOK(journal[a], r, "finish", job[c].recover)
    BY <1>1, <1>2, <1>3, <1>4 DEF CommandOK, StatusOK
  <2>2. CallOK(c)'
    BY <1>1, <1>2, <1>4 DEF CommandOK, CallOK
  <2>3. QED
    BY <1>1, <1>2, <2>1, <2>2 DEF CommandOK
<1>8. MemoryOK(c)'
    BY <1>1, <1>2, <1>3, <1>4 DEF MemoryOK, Charges, Settled, Playing
<1>9. \A d \in Commands \ {c} :
          /\ pc'[d] = pc[d] /\ mem'[d] = mem[d] /\ step'[d] = step[d]
          /\ guard'[d] = guard[d] /\ copies'[d] = copies[d]
    BY <1>1 DEF TypeOK
<1>10. QED
    BY <1>1, <1>5, <1>6, <1>7, <1>8, <1>9, RunnerStep

LEMMA TimesOutStep ==
    ASSUME NEW c \in Commands, TrialInv, TimesOut(c)
    PROVE  TrialInv'
<1> DEFINE a == job[c].attempt
<1>1. /\ pc[c] = "waiting" /\ TypeOK
      /\ pc' = [pc EXCEPT ![c] = "closing"] /\ pc'[c] = "closing"
      /\ UNCHANGED <<journal, mem, job, step, guard, copies, bridge, used>>
    BY DEF TimesOut, Goto, TrialInv, TypeOK
<1>2. /\ a \in Attempts /\ job[c].recover \in BOOLEAN
      /\ CommandOK(c) /\ MemoryOK(c) /\ HolderOK(c)
    BY <1>1, Inner
<1>3. /\ pc[c] \in Trying \ {"finish"} /\ "closing" \in Trying \ {"finish"}
      /\ pc[c] \in InCall /\ "closing" \in InCall /\ Op(c)' = Op(c)
    BY <1>1, Steps DEF Trying, PCs, InCall, Op, Plan
<1>4. TypeOK' /\ HolderOK(c)'
    BY <1>1, <1>2, Steps DEF TypeOK, PCs, HolderOK
<1>5. CommandOK(c)'
  <2>1. StatusOK(journal[a], mem[c], "closing", job[c].recover)
    BY <1>1, <1>2, <1>3 DEF CommandOK, StatusOK
  <2>2. CallOK(c)'
    BY <1>1, <1>2, <1>3 DEF CommandOK, CallOK, Plan
  <2>3. QED
    BY <1>1, <1>2, <2>1, <2>2 DEF CommandOK
<1>6. MemoryOK(c)'
    BY <1>1, <1>2, <1>3 DEF MemoryOK, Charges, Settled, Playing
<1>7. \A d \in Commands \ {c} :
          /\ pc'[d] = pc[d] /\ mem'[d] = mem[d] /\ step'[d] = step[d]
          /\ guard'[d] = guard[d] /\ copies'[d] = copies[d]
    BY <1>1 DEF TypeOK
<1>8. QED
    BY <1>1, <1>4, <1>5, <1>6, <1>7, RunnerStep

LEMMA CallRaisesStep ==
    ASSUME NEW c \in Commands, TrialInv,
           CallFails(c) \/ GuardPending(c) \/ Interrupted(c)
    PROVE  TrialInv'
<1>1. pc[c] \in Trying /\ Raise(c) /\ UNCHANGED <<journal, job, step, copies, bridge, used>>
    BY Steps DEF CallFails, GuardPending, Interrupted, Trying, PCs
<1>2. \/ guard' = guard
      \/ guard' = [guard EXCEPT ![c] = NoGuard] /\ guard[c].state \notin Live
    BY DEF CallFails, GuardPending, Interrupted, Live
<1>3. QED
    BY <1>1, <1>2, RaiseStep

(* Nobody is inside a free world. *)
LEMMA Empty ==
    ASSUME TrialInv, LockFree
    PROVE  /\ \A d \in Commands : pc[d] = "idle" /\ guard[d].state \notin Live
           /\ bridge.leased = {} /\ bridge.state \notin {"requested", "active"}
<1>1. \A d \in Commands : HolderOK(d) /\ copies[d] = {}
    BY DEF TrialInv, LockInv, LockFree
<1>2. bridge.leased \in SUBSET Commands
    BY DEF TrialInv, TypeOK, Bridges
<1>3. QED
    BY <1>1, <1>2 DEF HolderOK, TrialInv, LockInv

(* A command comes in, with the journal m that it will write first. *)
LEMMA EnterStep ==
    ASSUME NEW c \in Commands, NEW a \in Attempts, NEW recover \in BOOLEAN,
           NEW m \in Journal, NEW next \in {"create", "recovering"},
           TrialInv, Enter(c, [attempt |-> a, recover |-> recover], m, next),
           \A b \in Attempts \ {a} : Closed(journal[b]),
           StatusOK(journal[a], m, next, recover),
           m.api = journal[a].api, m.charged = journal[a].charged
    PROVE  TrialInv'
<1> USE DEF TrialInv
<1> DEFINE w == [attempt |-> a, recover |-> recover]
<1>1. /\ pc[c] = "idle" /\ guard[c].state = "none" /\ LockFree
      /\ copies' = [copies EXCEPT ![c] = {"runner"}] /\ copies'[c] = {"runner"}
      /\ job' = [job EXCEPT ![c] = w] /\ job'[c] = w
      /\ mem' = [mem EXCEPT ![c] = m] /\ mem'[c] = m
      /\ pc' = [pc EXCEPT ![c] = next] /\ pc'[c] = next
      /\ UNCHANGED <<journal, step, guard, bridge, used>>
    BY DEF Enter, TypeOK
<1>2. /\ \A d \in Commands : pc[d] = "idle" /\ guard[d].state \notin Live /\ copies[d] = {}
      /\ bridge.leased = {} /\ bridge.state \notin {"requested", "active"}
    BY <1>1, Empty DEF LockFree
<1>3. \A d \in Commands \ {c} :
          copies'[d] = copies[d] /\ job'[d] = job[d] /\ mem'[d] = mem[d] /\ pc'[d] = pc[d]
    BY <1>1 DEF TypeOK
<1>4. TypeOK'
    BY <1>1, Steps DEF TypeOK, Jobs, PCs
<1>5. LockInv'
    BY <1>1, <1>2, <1>3 DEF LockInv, HolderOK
<1>6. OneUnrecovered'
    BY <1>1 DEF OneUnrecovered, Unrecovered
<1>7. CommandOK(c)'
  <2>1. CallOK(c)'
    BY <1>1 DEF CallOK, InCall
  <2>2. a # None
    BY TrialAssumption
  <2>3. QED
    BY <1>1, <1>2, <2>1, <2>2 DEF CommandOK
<1>8. CommandInv'
    BY <1>1, <1>2, <1>3, <1>7 DEF CommandInv, CommandOK
<1>9. GuardInv'
    BY <1>1 DEF GuardInv, GuardOK, Settled, Playing
<1>10. UsageInv'
  <2>1. \A b \in Attempts : AttemptOK(b) /\ AttemptOK(b)'
    BY <1>1 DEF UsageInv, AttemptOK, Charges, Settled, Playing
  <2>2. MemoryOK(c)'
    <3>1. Charges(m, a)'
        BY <1>1, <2>1 DEF AttemptOK, Charges, Settled, Playing
    <3>2. next \notin Trying
        BY DEF Trying
    <3>3. QED
        BY <1>1, <3>1, <3>2 DEF MemoryOK
  <2>3. QED
    BY <1>2, <1>3, <2>1, <2>2 DEF UsageInv
<1>11. QED
    BY <1>4, <1>5, <1>6, <1>8, <1>9, <1>10

LEMMA BeginStep ==
    ASSUME NEW c \in Commands, TrialInv, Begin(c)
    PROVE  TrialInv'
<1> PICK a \in Attempts : RunAttempt(c, a) \/ RecoverAttempt(c, a)
    BY DEF Begin
<1>1. journal[a] \in Journal
    BY DEF TrialInv, TypeOK
<1>2. CASE RunAttempt(c, a)
  <2> DEFINE m == [NoJournal EXCEPT !.status = "running"]
  <2>1. journal[a] = NoJournal
    BY <1>2 DEF RunAttempt, TrialInv, UsageInv, AttemptOK
  <2>2. m \in Journal /\ m.status = "running" /\ m.api = NoJournal.api /\ m.charged = NoJournal.charged
    BY DEF NoJournal, Journal, Statuses
  <2>3. StatusOK(journal[a], m, "create", FALSE)
    BY <2>1, <2>2 DEF StatusOK, Trying, NoJournal
  <2>4. \A b \in Attempts : Closed(journal[b])
    BY <1>2 DEF RunAttempt, Closed
  <2>5. QED
    BY <1>2, <2>1, <2>2, <2>3, <2>4, EnterStep DEF RunAttempt
<1>3. CASE RecoverAttempt(c, a)
  <2> DEFINE m == [journal[a] EXCEPT !.status = "recovering"]
  <2>1. m \in Journal /\ m.status = "recovering" /\ m.api = journal[a].api /\ m.charged = journal[a].charged
    BY <1>1 DEF Journal, Statuses
  <2>2. ~Closed(journal[a])
    BY <1>3 DEF RecoverAttempt, Closed
  <2>3. StatusOK(journal[a], m, "recovering", TRUE)
    BY <2>1, <2>2 DEF StatusOK, Trying, Closed
  <2>4. \A b \in Attempts \ {a} : Closed(journal[b])
    BY <2>2 DEF TrialInv, OneUnrecovered, Unrecovered, Closed
  <2>5. QED
    BY <1>3, <2>1, <2>3, <2>4, EnterStep DEF RecoverAttempt
<1>4. QED
    BY <1>2, <1>3

(* The runner is gone, and only its own copy of the locks with it. *)
LEMMA LeaveStep ==
    ASSUME NEW c \in Commands, TrialInv, Exit(c) \/ Crash(c)
    PROVE  TrialInv'
<1> USE DEF TrialInv
<1>1. /\ pc[c] # "idle"
      /\ pc' = [pc EXCEPT ![c] = "idle"] /\ mem' = [mem EXCEPT ![c] = NoJournal]
      /\ job' = [job EXCEPT ![c] = NoJob] /\ step' = [step EXCEPT ![c] = 1]
      /\ copies' = [copies EXCEPT ![c] = @ \ {"runner"}]
      /\ UNCHANGED <<journal, guard, bridge, used>>
    BY DEF Exit, Crash, Gone
<1>2. /\ pc'[c] = "idle" /\ mem'[c] = NoJournal /\ job'[c] = NoJob /\ step'[c] = 1
      /\ copies'[c] = copies[c] \ {"runner"}
      /\ \A d \in Commands \ {c} :
             /\ copies'[d] = copies[d] /\ job'[d] = job[d] /\ mem'[d] = mem[d]
             /\ pc'[d] = pc[d] /\ step'[d] = step[d]
    BY <1>1 DEF TypeOK
<1>3. copies[c] # {}
    BY <1>1 DEF LockInv, HolderOK
<1>4. \A d \in Commands \ {c} : pc[d] = "idle" /\ copies[d] = {}
    BY <1>3, Alone
<1>5. TypeOK'
  <2>1. NoJournal \in Journal /\ NoJob \in Jobs /\ "idle" \in PCs
    BY DEF NoJournal, Journal, Statuses, NoJob, Jobs, PCs
  <2>2. QED
    BY <1>1, <2>1 DEF TypeOK
<1>6. LockInv'
    BY <1>1, <1>2, <1>4 DEF LockInv, HolderOK
<1>7. OneUnrecovered'
    BY <1>1 DEF OneUnrecovered, Unrecovered
<1>8. CommandInv'
    BY <1>2, <1>4 DEF CommandInv, CommandOK
<1>9. GuardInv'
    BY <1>1 DEF GuardInv, GuardOK, Settled, Playing
<1>10. UsageInv'
    BY <1>1, <1>2, <1>4 DEF UsageInv, AttemptOK, Charges, Settled, Playing
<1>11. QED
    BY <1>5, <1>6, <1>7, <1>8, <1>9, <1>10

(* A step of the guard: it goes on, ends or is forgotten. *)
LEMMA GuardFrame ==
    ASSUME NEW c \in Commands, NEW g \in Guards, TrialInv,
           guard[c].state # "none",
           \/ g.state # "none" /\ g.attempt = guard[c].attempt /\ g.op = guard[c].op
           \/ g = NoGuard /\ pc[c] \notin {"waiting", "closing"},
           g.state \in Live => guard[c].state \in Live,
           g.op = "run_controller" /\ g.ok => guard[c].ok \/ Settled(guard[c].attempt),
           guard' = [guard EXCEPT ![c] = g],
           \/ copies' = copies /\ (g.state \in Live <=> guard[c].state \in Live)
           \/ copies' = [copies EXCEPT ![c] = @ \ {"guard"}] /\ g.state \notin Live,
           UNCHANGED <<journal, mem, pc, job, step, bridge, used>>
    PROVE  TrialInv'
<1> USE DEF TrialInv
<1>1. /\ guard'[c] = g
      /\ copies'[c] \subseteq copies[c]
      /\ copies'[c] = copies[c] \/ copies'[c] = copies[c] \ {"guard"}
      /\ \A d \in Commands \ {c} : guard'[d] = guard[d] /\ copies'[d] = copies[d]
    BY DEF TypeOK
<1>2. TypeOK'
    BY DEF TypeOK
<1>3. HolderOK(c)'
    BY <1>1 DEF LockInv, HolderOK, TypeOK
<1>4. LockInv'
    BY <1>1, <1>3 DEF LockInv, HolderOK
<1>5. OneUnrecovered'
    BY DEF OneUnrecovered, Unrecovered
<1>6. CommandInv'
  <2>1. \A d \in Commands \ {c} : CommandOK(d)'
    BY <1>1 DEF CommandInv, CommandOK, CallOK, Plan, Op
  <2>2. CommandOK(c)'
    BY <1>1 DEF CommandInv, CommandOK, CallOK, Plan, Op, NoGuard
  <2>3. QED
    BY <2>1, <2>2 DEF CommandInv
<1>7. GuardInv'
  <2>1. \A d \in Commands \ {c} : GuardOK(d)'
    BY <1>1 DEF GuardInv, GuardOK, Settled, Playing
  <2>2. GuardOK(c)'
    BY <1>1 DEF GuardInv, GuardOK, Settled, Playing, NoGuard
  <2>3. QED
    BY <2>1, <2>2 DEF GuardInv
<1>8. UsageInv'
    BY DEF UsageInv, AttemptOK, MemoryOK, Charges, Settled, Playing, Op, Plan
<1>9. QED
    BY <1>2, <1>4, <1>5, <1>6, <1>7, <1>8

LEMMA GuardSteps ==
    ASSUME NEW c \in Commands, TrialInv,
           GuardStep(c) \/ \E ok \in BOOLEAN : BackendReturns(c, ok)
    PROVE  TrialInv'
<1>1. guard[c] \in Guards /\ GuardOK(c) /\ guard \in [Commands -> Guards]
    BY DEF TrialInv, TypeOK, GuardInv
<1>2. CASE GuardStarts(c)
  <2> DEFINE g == [guard[c] EXCEPT !.state = "running"]
  <2>1. g \in Guards /\ g.state = "running" /\ g.attempt = guard[c].attempt
        /\ g.op = guard[c].op /\ g.ok = guard[c].ok
    BY <1>1 DEF Guards
  <2>2. guard' = [guard EXCEPT ![c] = g]
    BY <1>2 DEF GuardStarts
  <2>3. QED
    BY <1>1, <1>2, <2>1, <2>2, GuardFrame DEF GuardStarts, Live
<1>3. CASE GuardRefuses(c) \/ GuardReaps(c)
  <2> DEFINE g == [guard[c] EXCEPT !.state = "done"]
  <2>1. g \in Guards /\ g.state = "done" /\ g.attempt = guard[c].attempt
        /\ g.op = guard[c].op /\ g.ok = guard[c].ok
    BY <1>1 DEF Guards
  <2>2. guard' = [guard EXCEPT ![c] = g]
    BY <1>3 DEF GuardRefuses, GuardReaps
  <2>3. QED
    BY <1>1, <1>3, <2>1, <2>2, GuardFrame DEF GuardRefuses, GuardReaps, Live
<1>4. CASE GuardStops(c)
  <2> DEFINE g == [guard[c] EXCEPT !.state = "stopping"]
  <2>1. g \in Guards /\ g.state = "stopping" /\ g.attempt = guard[c].attempt
        /\ g.op = guard[c].op /\ g.ok = guard[c].ok
    BY <1>1 DEF Guards
  <2>2. guard' = [guard EXCEPT ![c] = g]
    BY <1>4 DEF GuardStops
  <2>3. QED
    BY <1>1, <1>4, <2>1, <2>2, GuardFrame DEF GuardStops, Live
<1>5. CASE GuardForgotten(c)
    BY <1>5, NoGuardType, GuardFrame DEF GuardForgotten, Live, NoGuard
<1>6. ASSUME NEW ok \in BOOLEAN, BackendReturns(c, ok) PROVE TrialInv'
  <2> DEFINE g == [guard[c] EXCEPT !.state = "stopping", !.ok = ok]
  <2>1. g \in Guards /\ g.state = "stopping" /\ g.attempt = guard[c].attempt
        /\ g.op = guard[c].op /\ g.ok = ok
    BY <1>1 DEF Guards
  <2>2. guard' = [guard EXCEPT ![c] = g]
    BY <1>1, <1>6 DEF BackendReturns
  <2>3. ASSUME ok, guard[c].op = "run_controller" PROVE Settled(guard[c].attempt)
    <3>1. bridge.run = guard[c].attempt /\ bridge.state = "completed"
        BY <1>6, <2>3 DEF BackendReturns
    <3>2. guard[c].attempt \in Attempts
        BY <1>1, <1>6 DEF GuardOK, Guards, BackendReturns
    <3>3. AttemptOK(guard[c].attempt)
        BY <3>2 DEF TrialInv, UsageInv
    <3>4. QED
        BY <3>1, <3>3 DEF AttemptOK, Settled, Playing
  <2>4. g.op = "run_controller" /\ g.ok => guard[c].ok \/ Settled(guard[c].attempt)
    BY <2>1, <2>3
  <2>5. /\ guard[c].state = "running" /\ copies' = copies
        /\ UNCHANGED <<journal, mem, pc, job, step, bridge, used>>
    BY <1>6 DEF BackendReturns
  <2> HIDE DEF g
  <2>6. QED
    BY <2>1, <2>2, <2>4, <2>5, GuardFrame DEF Live
<1>7. QED
    BY <1>2, <1>3, <1>4, <1>5, <1>6 DEF GuardStep

(* A step of the bridge leaves what is settled alone, and uses or plays    *)
(* nothing for an attempt whose journal has no reservation yet.            *)
LEMMA BridgeFrame ==
    ASSUME TrialInv, TypeOK', LockInv',
           UNCHANGED <<journal, mem, pc, job, step, guard>>,
           \A b \in Attempts :
               /\ Settled(b) => Settled(b)' /\ used'[b] = used[b]
               /\ journal[b].api = "not_started" =>
                      used'[b] = used[b] /\ b \notin bridge'.claims /\ ~Playing(b)'
               /\ Playing(b)' => ~Closed(journal[b])
               /\ bridge'.run = b => (bridge'.state = "requested" <=> b \notin bridge'.claims),
           bridge'.state \in {"requested", "active"} =>
               \A c \in Commands : pc[c] # "idle" => ~job[c].recover
    PROVE  TrialInv'
<1> USE DEF TrialInv
<1>1. OneUnrecovered'
    BY DEF OneUnrecovered, Unrecovered
<1>2. CommandInv'
  <2>1. ASSUME NEW c \in Commands PROVE CommandOK(c)'
    <3>1. CommandOK(c)
        BY DEF CommandInv
    <3>2. CallOK(c)' = CallOK(c)
        BY DEF CallOK, Op, Plan
    <3>3. QED
        BY <3>1, <3>2 DEF CommandOK, StatusOK
  <2>2. QED
    BY <2>1 DEF CommandInv
<1>3. GuardInv'
    BY DEF GuardInv, GuardOK, TypeOK, Guards
<1>4. ASSUME NEW b \in Attempts, NEW j, Charges(j, b) PROVE Charges(j, b)'
    BY <1>4 DEF Charges
<1>5. UsageInv'
  <2>1. ASSUME NEW b \in Attempts PROVE AttemptOK(b)'
    BY <1>4 DEF UsageInv, AttemptOK
  <2>2. ASSUME NEW c \in Commands, pc[c] # "idle" PROVE MemoryOK(c)'
    <3>1. MemoryOK(c) /\ job[c].attempt \in Attempts
        BY <2>2, Inner
    <3>2. Charges(mem[c], job[c].attempt)'
        BY <1>4, <3>1 DEF MemoryOK
    <3>3. Op(c)' = Op(c)
        BY DEF Op, Plan
    <3>4. QED
        BY <3>1, <3>2, <3>3 DEF MemoryOK
  <2>3. QED
    BY <2>1, <2>2 DEF UsageInv
<1>6. QED
    BY <1>1, <1>2, <1>3, <1>5

LEMMA RequestStep ==
    ASSUME NEW c \in Commands, TrialInv, RequestController(c)
    PROVE  TrialInv'
<1> DEFINE a == guard[c].attempt
<1>1. /\ guard[c].state = "running" /\ guard[c].op = "run_controller"
      /\ bridge.leased = {} /\ a \notin bridge.claims
      /\ bridge' = [bridge EXCEPT !.run = a, !.state = "requested", !.leased = {c}]
      /\ copies' = [copies EXCEPT ![c] = @ \cup {"bridge"}]
      /\ UNCHANGED <<journal, mem, pc, job, step, guard, used>>
      /\ TypeOK
    BY DEF RequestController, TrialInv
<1>2. GuardOK(c) /\ a \in Attempts /\ journal[a].api # "not_started" /\ ~Closed(journal[a])
    BY <1>1 DEF TrialInv, GuardInv, GuardOK, TypeOK, Guards, Live
<1>3. /\ bridge'.run = a /\ bridge'.state = "requested" /\ bridge'.leased = {c}
      /\ bridge'.claims = bridge.claims
      /\ copies'[c] = copies[c] \cup {"bridge"}
      /\ \A d \in Commands \ {c} : copies'[d] = copies[d]
    BY <1>1 DEF TypeOK, Bridges
<1>4. copies[c] # {} /\ bridge.state \notin {"requested", "active"}
    BY <1>1 DEF TrialInv, LockInv, HolderOK, Live
<1>5. \A d \in Commands \ {c} : copies[d] = {} /\ pc[d] = "idle" /\ guard[d].state \notin Live
    BY <1>1, <1>4, Alone DEF TrialInv
<1>6. TypeOK'
    BY <1>1, <1>2 DEF TypeOK, Bridges
<1>7. LockInv'
  <2>1. \A d \in Commands : HolderOK(d)'
    BY <1>1, <1>3, <1>5 DEF TrialInv, LockInv, HolderOK
  <2>2. a # None
    BY <1>2, TrialAssumption
  <2>3. QED
    BY <1>1, <1>3, <1>5, <2>1, <2>2 DEF LockInv
<1>8. \A b \in Attempts : journal[b].api = "not_started" => b \notin bridge.claims /\ ~Playing(b)
    BY DEF TrialInv, UsageInv, AttemptOK
<1>9. pc[c] # "idle" => ~job[c].recover
    BY <1>1 DEF TrialInv, CommandInv, CommandOK
<1>10. QED
    BY <1>1, <1>2, <1>3, <1>5, <1>6, <1>7, <1>8, <1>9, BridgeFrame DEF Settled, Playing

(* The bridge closes its descriptors. *)
LEMMA ReleaseLocks ==
    ASSUME TrialInv, Released, UNCHANGED <<pc, guard>>, TypeOK',
           bridge'.leased = {}, bridge'.state \notin {"requested", "active"}
    PROVE  LockInv'
BY DEF TrialInv, LockInv, HolderOK, Released

LEMMA BridgeSteps ==
    ASSUME TrialInv, Bridge
    PROVE  TrialInv'
<1> DEFINE a == bridge.run
<1>1. TypeOK /\ bridge \in Bridges /\ LockInv /\ UNCHANGED <<journal, mem, pc, job, step, guard>>
    BY DEF TrialInv, TypeOK, Bridge, ControllerStarts, ControllerUses, ControllerFails,
           ControllerCompletes, BrowserReleases, BridgeLoses
<1>2. \A b \in Attempts : AttemptOK(b)
    BY DEF TrialInv, UsageInv
<1>3. bridge.state \in {"requested", "active"} =>
          /\ a \in Attempts
          /\ \A c \in Commands : pc[c] # "idle" => ~job[c].recover
    BY <1>1 DEF TrialInv, LockInv, Bridges, CommandInv, CommandOK
<1>4. CASE ControllerStarts
  <2>1. /\ bridge.state = "requested" /\ bridge'.state = "active" /\ bridge'.run = a
        /\ bridge'.leased = bridge.leased /\ bridge'.claims = bridge.claims \cup {a}
        /\ bridge' \in Bridges /\ UNCHANGED <<copies, used>>
    BY <1>1, <1>3, <1>4 DEF ControllerStarts, Bridges
  <2>2. TypeOK' /\ LockInv'
    BY <1>1, <2>1 DEF TypeOK, LockInv, HolderOK
  <2>3. QED
    BY <1>1, <1>2, <1>3, <2>1, <2>2, BridgeFrame DEF AttemptOK, Settled, Playing
<1>5. CASE ControllerUses
  <2>1. /\ bridge.state = "active" /\ UNCHANGED <<bridge, copies>>
        /\ used' \in [Attempts -> Nat]
        /\ \A b \in Attempts \ {a} : used'[b] = used[b]
    BY <1>1, <1>5, TrialAssumption DEF ControllerUses, TypeOK
  <2>2. TypeOK' /\ LockInv'
    BY <1>1, <2>1 DEF TypeOK, LockInv, HolderOK
  <2>3. QED
    BY <1>1, <1>2, <1>3, <2>1, <2>2, BridgeFrame DEF AttemptOK, Settled, Playing
<1>6. CASE ControllerFails
  <2>1. /\ bridge.state = "active" /\ bridge'.state = "failed" /\ bridge'.run = a
        /\ bridge'.leased = bridge.leased /\ bridge'.claims = bridge.claims
        /\ bridge' \in Bridges /\ UNCHANGED <<copies, used>>
    BY <1>1, <1>6 DEF ControllerFails, Bridges
  <2>2. TypeOK' /\ LockInv'
    BY <1>1, <2>1 DEF TypeOK, LockInv, HolderOK
  <2>3. QED
    BY <1>1, <1>2, <2>1, <2>2, BridgeFrame DEF AttemptOK, Settled, Playing
<1>7. CASE ControllerCompletes \/ BrowserReleases \/ BridgeLoses
  <2>1. /\ bridge'.state \in {"idle", "completed", "failed"} /\ bridge'.run \in {a, None}
        /\ bridge'.run = a => bridge.state # "requested" \/ a = None
        /\ bridge'.leased = {} /\ bridge'.claims = bridge.claims
        /\ bridge' \in Bridges /\ Released /\ used' = used
    BY <1>1, <1>7 DEF ControllerCompletes, BrowserReleases, BridgeLoses, Bridges
  <2>2. TypeOK'
    BY <1>1, <2>1 DEF TypeOK, Released
  <2>3. LockInv'
    BY <1>1, <2>1, <2>2, ReleaseLocks
  <2>4. QED
    BY <1>1, <1>2, <2>1, <2>2, <2>3, BridgeFrame, TrialAssumption DEF AttemptOK, Settled, Playing
<1>8. QED
    BY <1>4, <1>5, <1>6, <1>7 DEF Bridge

LEMMA HostStep ==
    ASSUME TrialInv, HostRestarts
    PROVE  TrialInv'
<1> USE DEF TrialInv
<1>1. /\ \A c \in Commands : /\ mem'[c] = NoJournal /\ pc'[c] = "idle" /\ job'[c] = NoJob
                             /\ step'[c] = 1 /\ guard'[c] = NoGuard /\ copies'[c] = {}
      /\ bridge'.run = None /\ bridge'.state = "idle" /\ bridge'.leased = {}
      /\ bridge'.claims = bridge.claims
      /\ UNCHANGED <<journal, used>>
    BY DEF HostRestarts, TypeOK, Bridges
<1>2. TypeOK'
  <2>1. NoJournal \in Journal /\ NoJob \in Jobs /\ "idle" \in PCs
    BY DEF NoJournal, Journal, Statuses, NoJob, Jobs, PCs
  <2>2. bridge' \in Bridges
    BY DEF HostRestarts, TypeOK, Bridges
  <2>3. QED
    BY <2>1, <2>2, NoGuardType DEF HostRestarts, TypeOK
<1>3. LockInv'
    BY <1>1 DEF LockInv, HolderOK, NoGuard, Live
<1>4. OneUnrecovered' /\ CommandInv' /\ GuardInv'
    BY <1>1 DEF OneUnrecovered, Unrecovered, CommandInv, CommandOK, GuardInv, GuardOK, NoGuard
<1>5. UsageInv'
    BY <1>1, TrialAssumption DEF UsageInv, AttemptOK, Charges, Settled, Playing
<1>6. QED
    BY <1>2, <1>3, <1>4, <1>5

LEMMA InitInv ==
    ASSUME Init
    PROVE  TrialInv
<1>1. TypeOK
  <2>1. NoJournal \in Journal /\ NoJob \in Jobs /\ "idle" \in PCs
    BY DEF NoJournal, Journal, Statuses, NoJob, Jobs, PCs
  <2>2. QED
    BY <2>1, NoGuardType DEF Init, TypeOK, Bridges
<1>2. LockInv
    BY DEF Init, LockInv, HolderOK, NoGuard, Live
<1>3. OneUnrecovered /\ CommandInv /\ GuardInv
    BY DEF Init, OneUnrecovered, Unrecovered, CommandInv, CommandOK, GuardInv, GuardOK,
           NoGuard, NoJournal
<1>4. UsageInv
    BY TrialAssumption DEF Init, UsageInv, AttemptOK, Charges, Settled, Playing, NoJournal
<1>5. QED
    BY <1>1, <1>2, <1>3, <1>4 DEF TrialInv

LEMMA StutterStep ==
    ASSUME TrialInv, UNCHANGED vars
    PROVE  TrialInv'
<1> USE DEF vars, TrialInv
<1>1. TypeOK' /\ LockInv' /\ OneUnrecovered' /\ GuardInv'
    BY DEF TypeOK, LockInv, HolderOK, OneUnrecovered, Unrecovered, GuardInv, GuardOK, Settled, Playing
<1>2. CommandInv'
    BY DEF CommandInv, CommandOK, CallOK, Op, Plan
<1>3. UsageInv'
    BY DEF UsageInv, AttemptOK, MemoryOK, Charges, Settled, Playing, Op, Plan
<1>4. QED
    BY <1>1, <1>2, <1>3

LEMMA NextInv ==
    ASSUME TrialInv, [Next]_vars
    PROVE  TrialInv'
<1>1. ASSUME NEW c \in Commands, Step(c) \/ Fault(c) PROVE TrialInv'
    BY <1>1, WriteStep, CallStep, PerformStep, ReceiveStep, CallRaisesStep, TimesOutStep,
       HandleStep, ConfirmStep, FinishStep, LeaveStep, WriteRaisesStep DEF Step, Fault
<1>2. QED
    BY <1>1, BeginStep, GuardSteps, RequestStep, BridgeSteps, HostStep, StutterStep DEF Next

(* TrialInv holds of every reachable state: the locks have one command     *)
(* behind them, at most one attempt is unrecovered, each command's journal *)
(* is where its next step says, and reservations are on disk before a      *)
(* controller is asked for (full_client_trial.py:484-850).                 *)
THEOREM TrialSafety == Spec => []TrialInv
BY InitInv, NextInv, PTL DEF Spec

(* One process tree at a time can act on the world. *)
THEOREM TrialOneActor == Spec => []OneActor
<1>1. TrialInv => OneActor
  <2> SUFFICES ASSUME TrialInv, NEW c \in Commands, ActsOnWorld(c) PROVE copies[c] # {}
    BY DEF OneActor, TrialInv, LockInv
  <2>1. QED
    BY DEF ActsOnWorld, TrialInv, LockInv, HolderOK
<1>2. QED
    BY <1>1, TrialSafety, PTL

(* At most one attempt waits for its recovery. *)
THEOREM TrialOneUnrecovered == Spec => []OneUnrecovered
<1>1. TrialInv => OneUnrecovered
    BY DEF TrialInv
<1>2. QED
    BY <1>1, TrialSafety, PTL

(* No controller is still playing when its attempt is closed. *)
THEOREM TrialNoControllerAfterClose == Spec => []NoControllerAfterClose
<1>1. ASSUME TrialInv, bridge.state \in {"requested", "active"}
      PROVE  bridge.run \in Unrecovered
  <2>1. bridge.run \in Attempts
    BY <1>1 DEF TrialInv, TypeOK, Bridges, LockInv
  <2>2. ~Closed(journal[bridge.run])
    BY <1>1, <2>1 DEF TrialInv, UsageInv, AttemptOK, Playing
  <2>3. QED
    BY <2>1, <2>2 DEF Unrecovered, Closed
<1>2. TrialInv => NoControllerAfterClose
    BY <1>1 DEF NoControllerAfterClose
<1>3. QED
    BY <1>2, TrialSafety, PTL

(* The journal of an attempt charges what its controller used, or no less  *)
(* than its reservation.                                                   *)
THEOREM TrialUsageIsCharged == Spec => []UsageIsCharged
<1>1. ASSUME TrialInv, NEW a \in Attempts
      PROVE  journal[a].charged = used[a] \/ journal[a].charged >= Reservation
  <2>1. AttemptOK(a) /\ journal[a].api \in {"not_started", "uncertain", "confirmed"}
    BY <1>1 DEF TrialInv, UsageInv, TypeOK, Journal
  <2>2. QED
    BY <2>1 DEF AttemptOK, Charges
<1>2. TrialInv => UsageIsCharged
    BY <1>1 DEF UsageIsCharged
<1>3. QED
    BY <1>2, TrialSafety, PTL

(* What the steps do to the journals and to who is inside. *)
LEMMA JournalSteps ==
    ASSUME TrialInv, Next
    PROVE  \/ journal' = journal /\ job' = job
           \/ \E c \in Commands : pc[c] \in Writing /\ Saved(c) /\ job' = job
           \/ \E c \in Commands, a \in Attempts :
                  /\ pc[c] = "idle" /\ journal[a].status \notin Terminal /\ journal' = journal
                  /\ \E x \in BOOLEAN : job' = [job EXCEPT ![c] = [attempt |-> a, recover |-> x]]
           \/ \E c \in Commands : pc[c] # "idle" /\ journal' = journal
                                     /\ job' = [job EXCEPT ![c] = NoJob]
           \/ journal' = journal /\ job' = [c \in Commands |-> NoJob]
<1>1. ASSUME NEW c \in Commands, Write(c) \/ WriteRaises(c)
      PROVE  job' = job /\ (journal' = journal \/ (pc[c] \in Writing /\ Saved(c)))
    BY <1>1 DEF Write, WriteRaises
<1>2. ASSUME NEW c \in Commands, NEW a \in Attempts, RunAttempt(c, a) \/ RecoverAttempt(c, a)
      PROVE  /\ pc[c] = "idle" /\ journal[a].status \notin Terminal /\ journal' = journal
             /\ \E x \in BOOLEAN : job' = [job EXCEPT ![c] = [attempt |-> a, recover |-> x]]
    BY <1>2 DEF RunAttempt, RecoverAttempt, Enter, Terminal
<1>3. ASSUME NEW c \in Commands, Exit(c) \/ Crash(c)
      PROVE  pc[c] # "idle" /\ journal' = journal /\ job' = [job EXCEPT ![c] = NoJob]
    BY <1>3 DEF Exit, Crash, Gone
<1>4. ASSUME NEW c \in Commands,
             \/ Call(c) \/ Perform(c) \/ Receive(c) \/ CallFails(c) \/ TimesOut(c)
             \/ GuardPending(c) \/ Handle(c) \/ Confirm(c) \/ Finish(c) \/ Interrupted(c)
      PROVE  journal' = journal /\ job' = job
    BY <1>4 DEF Call, Perform, Receive, CallFails, TimesOut, GuardPending, Handle, Confirm,
                Finish, Interrupted
<1>5. ASSUME NEW c \in Commands,
             \/ GuardStep(c) \/ RequestController(c)
             \/ \E ok \in BOOLEAN : BackendReturns(c, ok)
      PROVE  journal' = journal /\ job' = job
    BY <1>5 DEF GuardStep, GuardStarts, GuardRefuses, GuardStops, GuardReaps, GuardForgotten,
                RequestController, BackendReturns
<1>6. Bridge => journal' = journal /\ job' = job
    BY DEF Bridge, ControllerStarts, ControllerUses, ControllerFails, ControllerCompletes,
           BrowserReleases, BridgeLoses
<1>7. HostRestarts => journal' = journal /\ job' = [c \in Commands |-> NoJob]
    BY DEF HostRestarts
<1>8. QED
    BY <1>1, <1>2, <1>3, <1>4, <1>5, <1>6, <1>7 DEF Next, Begin, Step, Fault

(* At most one attempt is inside, and it is not the attempt None. *)
LEMMA OneInside ==
    ASSUME TrialInv, NEW c \in Commands, pc[c] # "idle"
    PROVE  /\ \A d \in Commands \ {c} : pc[d] = "idle" /\ job[d] = NoJob
           /\ \A a \in Attempts : Inside(a) <=> a = job[c].attempt
<1>1. copies[c] # {}
    BY DEF TrialInv, LockInv, HolderOK
<1>2. \A d \in Commands \ {c} : pc[d] = "idle" /\ job[d] = NoJob
    BY <1>1, Alone DEF TrialInv, CommandInv, CommandOK
<1>3. \A d \in Commands \ {c} : job[d].attempt = None
    BY <1>2 DEF NoJob
<1>4. QED
    BY <1>2, <1>3, TrialAssumption DEF Inside

(* LedgerPhase, case by case. *)
PhaseIs(a) ==
    /\ LedgerPhase(a) = "unused" <=> journal[a].status = "absent"
    /\ LedgerPhase(a) = "closed" <=> (journal[a].status \in Terminal /\ ~Inside(a))
    /\ LedgerPhase(a) = "running" <=>
           (journal[a].status = "running" \/ (journal[a].status = "completed" /\ Inside(a)))
    /\ LedgerPhase(a) = "broken" <=>
           \/ journal[a].status \in {"failed", "recovering"}
           \/ journal[a].status = "recovered" /\ Inside(a)

LEMMA Phase ==
    ASSUME NEW a \in Attempts, TypeOK, TypeOK'
    PROVE  PhaseIs(a) /\ PhaseIs(a)'
<1> DEFINE known == {"absent", "running", "failed", "recovering", "completed", "recovered"}
<1>1. journal[a].status \in known /\ journal'[a].status \in known
    BY DEF TypeOK, Journal, Statuses
<1>2. PhaseIs(a)
  <2>1. CASE journal[a].status \in {"absent", "running"}
    BY <2>1 DEF PhaseIs, LedgerPhase, Terminal
  <2>2. CASE journal[a].status \in {"failed", "recovering"}
    BY <2>2 DEF PhaseIs, LedgerPhase, Terminal
  <2>3. CASE journal[a].status \in Terminal /\ Inside(a)
    BY <2>3 DEF PhaseIs, LedgerPhase, Terminal
  <2>4. CASE journal[a].status \in Terminal /\ ~Inside(a)
    BY <2>4 DEF PhaseIs, LedgerPhase, Terminal
  <2>5. QED
    BY <1>1, <2>1, <2>2, <2>3, <2>4 DEF Terminal
<1>3. PhaseIs(a)'
  <2>1. CASE journal'[a].status \in {"absent", "running"}
    BY <2>1 DEF PhaseIs, LedgerPhase, Terminal
  <2>2. CASE journal'[a].status \in {"failed", "recovering"}
    BY <2>2 DEF PhaseIs, LedgerPhase, Terminal
  <2>3. CASE journal'[a].status \in Terminal /\ Inside(a)'
    BY <2>3 DEF PhaseIs, LedgerPhase, Terminal
  <2>4. CASE journal'[a].status \in Terminal /\ ~Inside(a)'
    BY <2>4 DEF PhaseIs, LedgerPhase, Terminal
  <2>5. QED
    BY <1>1, <2>1, <2>2, <2>3, <2>4 DEF Terminal
<1>4. QED
    BY <1>2, <1>3

LEMMA SamePhase ==
    ASSUME NEW a \in Attempts, journal'[a] = journal[a], Inside(a)' = Inside(a)
    PROVE  LedgerPhase(a)' = LedgerPhase(a)
BY DEF LedgerPhase

LEMMA ClosedStep ==
    ASSUME NEW a \in Attempts, TrialInv, [Next]_vars, LedgerPhase(a) = "closed"
    PROVE  LedgerPhase(a)' = "closed" /\ journal'[a] = journal[a] /\ used'[a] = used[a]
<1>1. TypeOK /\ TypeOK'
    BY NextInv DEF TrialInv
<1>2. journal[a].status \in Terminal /\ ~Inside(a)
    BY <1>1, Phase DEF PhaseIs
<1>3. journal'[a] = journal[a] /\ ~Inside(a)'
  <2>1. CASE UNCHANGED vars
    BY <1>2, <2>1 DEF vars, Inside
  <2>2. ASSUME NEW c \in Commands, pc[c] \in Writing, Saved(c), job' = job
        PROVE  journal'[a] = journal[a] /\ ~Inside(a)'
    BY <1>2, <2>2 DEF Saved, Inside, TrialInv, TypeOK
  <2>3. ASSUME NEW c \in Commands, NEW b \in Attempts, NEW x \in BOOLEAN,
               journal[b].status \notin Terminal,
               job' = [job EXCEPT ![c] = [attempt |-> b, recover |-> x]]
        PROVE  ~Inside(a)'
    <3>1. a # b
        BY <1>2, <2>3
    <3>2. \A d \in Commands : job'[d] = job[d] \/ job'[d].attempt = b
        BY <1>1, <2>3 DEF TypeOK
    <3>3. QED
        BY <1>2, <3>1, <3>2 DEF Inside
  <2>4. ASSUME \A d \in Commands : job'[d] = job[d] \/ job'[d] = NoJob
        PROVE  ~Inside(a)'
    BY <1>2, <2>4, TrialAssumption DEF Inside, NoJob
  <2>5. ASSUME NEW c \in Commands, job' = [job EXCEPT ![c] = NoJob]
        PROVE  \A d \in Commands : job'[d] = job[d] \/ job'[d] = NoJob
    BY <1>1, <2>5 DEF TypeOK
  <2>6. CASE Next
    BY <1>2, <2>2, <2>3, <2>4, <2>5, <2>6, JournalSteps DEF Inside
  <2>7. QED
    BY <2>1, <2>6
<1>4. used'[a] = used[a]
  <2>1. CASE ControllerUses
    <3>1. bridge.run \in Attempts /\ Playing(bridge.run)
        BY <1>1, <2>1 DEF ControllerUses, TypeOK, Bridges, TrialInv, LockInv, Playing
    <3>2. bridge.run # a
        BY <1>2, <3>1 DEF TrialInv, UsageInv, AttemptOK, Closed
    <3>3. QED
        BY <1>1, <2>1, <3>2 DEF ControllerUses, TypeOK
  <2>2. ASSUME NEW c \in Commands,
               \/ Begin(c) \/ Step(c) \/ Fault(c) \/ GuardStep(c)
               \/ \E ok \in BOOLEAN : BackendReturns(c, ok)
               \/ RequestController(c)
        PROVE  used' = used
    BY <2>2 DEF Begin, RunAttempt, RecoverAttempt, Enter, Step, Write, Call, Perform, Receive,
                CallFails, TimesOut, GuardPending, Handle, Confirm, Finish, Exit, Fault,
                WriteRaises, Interrupted, Crash, GuardStep, GuardStarts, GuardRefuses,
                GuardStops, GuardReaps, GuardForgotten, BackendReturns, RequestController
  <2>3. ControllerStarts \/ ControllerFails \/ ControllerCompletes \/ BrowserReleases
        \/ BridgeLoses \/ HostRestarts => used' = used
    BY DEF ControllerStarts, ControllerFails, ControllerCompletes, BrowserReleases, BridgeLoses,
           HostRestarts
  <2>4. QED
    BY <2>1, <2>2, <2>3 DEF Next, Bridge, vars
<1>5. PhaseIs(a)'
    BY <1>1, Phase
<1>6. LedgerPhase(a)' = "closed"
    BY <1>2, <1>3, <1>5 DEF PhaseIs
<1>7. QED
    BY <1>3, <1>4, <1>6

(* A closed attempt stays as it is: nothing enters, writes or uses it. *)
THEOREM TrialClosedStays == Spec => ClosedStays
<1>1. ASSUME TrialInv, [Next]_vars
      PROVE  [\A a \in Attempts : LedgerPhase(a) = "closed" =>
                 LedgerPhase(a)' = "closed" /\ journal'[a] = journal[a] /\ used'[a] = used[a]]_vars
    BY <1>1, ClosedStep
<1>2. QED
    BY <1>1, TrialSafety, PTL DEF Spec, ClosedStays

(* One attempt moves, the others stay: a step of the ledger. *)
LEMMA LedgerMove ==
    ASSUME NEW a \in Attempts,
           \A b \in Attempts \ {a} : ledgerPhase'[b] = ledgerPhase[b]
                                     /\ ledgerCharge'[b] = ledgerCharge[b],
           ledgerCharge'[a] \in Nat,
           \/ /\ ledgerCharge'[a] = ledgerCharge[a]
              /\ \/ ledgerPhase'[a] = ledgerPhase[a]
                 \/ /\ ledgerPhase[a] = "unused" /\ ledgerPhase'[a] = "running"
                    /\ \A b \in Attempts : ledgerPhase[b] \in {"unused", "closed"}
                 \/ ledgerPhase[a] \in {"running", "broken"} /\ ledgerPhase'[a] = "closed"
           \/ /\ ledgerCharge[a] = 0 => ledgerCharge'[a] \in {0, Reservation}
              /\ ledgerPhase[a] = "running" /\ ledgerPhase'[a] \in {"running", "broken"}
    PROVE  [Ledger!Next]_<<ledgerPhase, ledgerCharge>>
<1>1. /\ ledgerPhase' = [ledgerPhase EXCEPT ![a] = ledgerPhase'[a]]
      /\ ledgerCharge' = [ledgerCharge EXCEPT ![a] = ledgerCharge'[a]]
    BY DEF ledgerPhase, ledgerCharge
<1>2. ledgerPhase'[a] = ledgerPhase[a] => ledgerPhase' = ledgerPhase
    BY DEF ledgerPhase
<1>3. ledgerCharge'[a] = ledgerCharge[a] => ledgerCharge' = ledgerCharge
    BY DEF ledgerCharge
<1>4. (ledgerCharge[a] = 0 => ledgerCharge'[a] \in {0, Reservation}) => Ledger!Charge(a)
    BY <1>1 DEF Ledger!Charge
<1>5. CASE ledgerPhase'[a] = ledgerPhase[a] /\ ledgerCharge'[a] = ledgerCharge[a]
    BY <1>2, <1>3, <1>5
<1>6. CASE /\ ledgerPhase[a] = "unused" /\ ledgerPhase'[a] = "running"
           /\ ledgerCharge'[a] = ledgerCharge[a]
           /\ \A b \in Attempts : ledgerPhase[b] \in {"unused", "closed"}
    BY <1>1, <1>3, <1>6 DEF Ledger!Next, Ledger!Begin
<1>7. CASE /\ ledgerPhase[a] \in {"running", "broken"} /\ ledgerPhase'[a] = "closed"
           /\ ledgerCharge'[a] = ledgerCharge[a]
    BY <1>1, <1>3, <1>7 DEF Ledger!Next, Ledger!Close
<1>8. CASE /\ ledgerCharge[a] = 0 => ledgerCharge'[a] \in {0, Reservation}
           /\ ledgerPhase[a] = "running" /\ ledgerPhase'[a] = "running"
    BY <1>2, <1>4, <1>8 DEF Ledger!Next, Ledger!Run
<1>9. CASE /\ ledgerCharge[a] = 0 => ledgerCharge'[a] \in {0, Reservation}
           /\ ledgerPhase[a] = "running" /\ ledgerPhase'[a] = "broken"
    BY <1>1, <1>4, <1>9 DEF Ledger!Next, Ledger!Break
<1>10. QED
    BY <1>5, <1>6, <1>7, <1>8, <1>9

(* A write of the journal begins, runs or breaks its attempt. *)
LEMMA WriteMoves ==
    ASSUME NEW c \in Commands, TrialInv, TypeOK', pc[c] \in Writing, Saved(c), job' = job
    PROVE  [Ledger!Next]_<<ledgerPhase, ledgerCharge>>
<1> DEFINE a == job[c].attempt
           j == journal[a]
           m == mem[c]
<1>1. pc[c] # "idle" /\ TypeOK
    BY Steps DEF TrialInv
<1>2. /\ a \in Attempts /\ job[c].recover \in BOOLEAN /\ j \in Journal /\ m \in Journal
      /\ CommandOK(c) /\ MemoryOK(c)
    BY <1>1, Inner
<1>3. journal'[a] = m /\ \A b \in Attempts \ {a} : journal'[b] = journal[b] /\ Closed(journal[b])
    BY <1>1, <1>2 DEF Saved, TypeOK, CommandOK
<1>4. \A b \in Attempts : (Inside(b) <=> b = a) /\ Inside(b)' = Inside(b)
    BY <1>1, OneInside DEF Inside
<1>5. \A b \in Attempts \ {a} : ledgerPhase'[b] = ledgerPhase[b] /\ ledgerCharge'[b] = ledgerCharge[b]
  <2>1. \A b \in Attempts \ {a} : LedgerPhase(b)' = LedgerPhase(b)
    BY <1>3, <1>4, SamePhase
  <2>2. QED
    BY <1>3, <2>1 DEF ledgerPhase, ledgerCharge
<1>6. /\ ledgerCharge[a] = j.charged /\ ledgerCharge'[a] = m.charged
      /\ ledgerPhase[a] = LedgerPhase(a) /\ ledgerPhase'[a] = LedgerPhase(a)'
      /\ m.charged \in Nat
    BY <1>2, <1>3 DEF ledgerCharge, ledgerPhase, Journal
<1>7. PhaseIs(a) /\ PhaseIs(a)'
    BY <1>1, <1>2, Phase
<1>8. CASE pc[c] = "create"
  <2>1. j = NoJournal /\ m.status = "running" /\ m.charged = j.charged
    BY <1>1, <1>2, <1>8 DEF CommandOK, StatusOK, NoJournal
  <2>2. ledgerPhase[a] = "unused" /\ ledgerPhase'[a] = "running"
    BY <1>3, <1>6, <1>7, <2>1 DEF PhaseIs, NoJournal
  <2>3. \A b \in Attempts \ {a} : LedgerPhase(b) \in {"unused", "closed"}
    BY <1>1, <1>3, <1>4, Phase DEF PhaseIs, Closed
  <2>4. \A b \in Attempts : ledgerPhase[b] \in {"unused", "closed"}
    BY <2>2, <2>3 DEF ledgerPhase
  <2>5. QED
    BY <1>2, <1>5, <1>6, <2>1, <2>2, <2>4, LedgerMove
<1>9. CASE pc[c] # "create" /\ ~job[c].recover
  <2>1. j.status \in {"running", "completed"} /\ m.status \in {"running", "completed", "failed"}
    BY <1>1, <1>2, <1>9, Steps DEF CommandOK, StatusOK, Trying, PCs
  <2>2. ledgerPhase[a] = "running" /\ ledgerPhase'[a] \in {"running", "broken"}
    BY <1>2, <1>3, <1>4, <1>6, <1>7, <2>1 DEF PhaseIs
  <2>3. ledgerCharge[a] = 0 => ledgerCharge'[a] \in {0, Reservation}
    BY <1>2, <1>6 DEF MemoryOK
  <2>4. QED
    BY <1>2, <1>5, <1>6, <2>2, <2>3, LedgerMove
<1>10. CASE pc[c] # "create" /\ job[c].recover
  <2>1. j.status # "absent" /\ m.status \in {"recovering", "recovered", "failed"}
        /\ m.charged = j.charged
    BY <1>1, <1>2, <1>10, Steps DEF CommandOK, StatusOK, Trying, PCs, Closed
  <2>2. ledgerPhase'[a] = "broken"
    BY <1>2, <1>3, <1>4, <1>6, <1>7, <2>1 DEF PhaseIs
  <2>3. ledgerPhase[a] \in {"running", "broken"}
    <3>1. j.status \in {"absent", "running", "failed", "recovering", "completed", "recovered"}
        BY <1>2 DEF Journal, Statuses
    <3>2. QED
        BY <1>2, <1>4, <1>6, <1>7, <2>1, <3>1 DEF PhaseIs
  <2>4. ledgerCharge[a] = 0 => ledgerCharge'[a] \in {0, Reservation}
    BY <1>6, <2>1
  <2>5. QED
    BY <1>2, <1>5, <1>6, <2>1, <2>2, <2>3, <2>4, LedgerMove
<1>11. QED
    BY <1>2, <1>8, <1>9, <1>10

(* Whoever leaves may close its attempt, and no other one. *)
LEMMA LeaveMoves ==
    ASSUME NEW c \in Commands, TrialInv, TypeOK', pc[c] # "idle", journal' = journal,
           \A d \in Commands : job'[d] = NoJob
    PROVE  [Ledger!Next]_<<ledgerPhase, ledgerCharge>>
<1> PICK a \in Attempts : a = job[c].attempt
    BY Inner
<1>1. TypeOK
    BY DEF TrialInv
<1>2. \A b \in Attempts : (Inside(b) <=> b = a) /\ ~Inside(b)'
    BY OneInside, TrialAssumption DEF Inside, NoJob
<1>3. \A b \in Attempts \ {a} : LedgerPhase(b)' = LedgerPhase(b)
  <2>1. \A b \in Attempts \ {a} : Inside(b)' = Inside(b)
    BY <1>2 DEF Inside
  <2>2. QED
    BY <2>1, SamePhase
<1>4. \A b \in Attempts \ {a} : ledgerPhase'[b] = ledgerPhase[b] /\ ledgerCharge'[b] = ledgerCharge[b]
    BY <1>3 DEF ledgerPhase, ledgerCharge
<1>5. /\ ledgerCharge[a] \in Nat /\ ledgerCharge'[a] = ledgerCharge[a]
      /\ ledgerPhase[a] = LedgerPhase(a) /\ ledgerPhase'[a] = LedgerPhase(a)'
    BY <1>1 DEF ledgerCharge, ledgerPhase, TypeOK, Journal
<1>6. PhaseIs(a) /\ PhaseIs(a)'
    BY <1>1, Phase
<1>7. CASE journal[a].status \in Terminal
  <2>1. ledgerPhase'[a] = "closed" /\ ledgerPhase[a] \in {"running", "broken"}
    BY <1>1, <1>2, <1>5, <1>6, <1>7 DEF PhaseIs, Terminal
  <2>2. QED
    BY <1>1, <1>4, <1>5, <2>1, LedgerMove
<1>8. CASE journal[a].status \notin Terminal
  <2>1. LedgerPhase(a)' = LedgerPhase(a)
    BY <1>8 DEF LedgerPhase, Terminal
  <2>2. QED
    BY <1>1, <1>4, <1>5, <2>1, LedgerMove
<1>9. QED
    BY <1>7, <1>8

(* Coming in changes neither phase nor charge. *)
LEMMA EnterMoves ==
    ASSUME NEW c \in Commands, NEW a \in Attempts, NEW x \in BOOLEAN, TrialInv,
           pc[c] = "idle", journal' = journal, journal[a].status \notin Terminal,
           job' = [job EXCEPT ![c] = [attempt |-> a, recover |-> x]]
    PROVE  UNCHANGED <<ledgerPhase, ledgerCharge>>
<1>1. LedgerPhase(a)' = LedgerPhase(a)
    BY DEF LedgerPhase, Terminal
<1>2. /\ job[c] = NoJob /\ job'[c].attempt = a
      /\ \A d \in Commands \ {c} : job'[d] = job[d]
    BY DEF TrialInv, TypeOK, CommandInv, CommandOK
<1>3. \A b \in Attempts \ {a} : Inside(b)' = Inside(b)
    BY <1>2, TrialAssumption DEF Inside, NoJob
<1>4. \A b \in Attempts \ {a} : LedgerPhase(b)' = LedgerPhase(b)
    BY <1>3, SamePhase
<1>5. QED
    BY <1>1, <1>4 DEF ledgerPhase, ledgerCharge

(* The trial runner implements AttemptLedger: an identity is used once and *)
(* alone, a broken attempt is only closed, and charges start with the      *)
(* reservation and are final once the attempt is broken or closed.         *)
THEOREM TrialImplementsLedger == Spec => ImplementsLedger
<1>1. Init => Ledger!Init
  <2> SUFFICES ASSUME Init PROVE Ledger!Init
    OBVIOUS
  <2>1. \A a \in Attempts : LedgerPhase(a) = "unused" /\ journal[a].charged = 0
    BY DEF Init, NoJournal, LedgerPhase, Terminal
  <2>2. QED
    BY <2>1 DEF Ledger!Init, ledgerPhase, ledgerCharge
<1>2. ASSUME TrialInv, [Next]_vars
      PROVE  [Ledger!Next]_<<ledgerPhase, ledgerCharge>>
  <2>1. TypeOK /\ TypeOK'
    BY <1>2, NextInv DEF TrialInv
  <2>2. CASE journal' = journal /\ job' = job
    <3>1. \A a \in Attempts : LedgerPhase(a)' = LedgerPhase(a)
        BY <2>2, SamePhase DEF Inside
    <3>2. QED
        BY <2>2, <3>1 DEF ledgerPhase, ledgerCharge
  <2>3. ASSUME NEW c \in Commands, pc[c] # "idle", journal' = journal,
               job' = [job EXCEPT ![c] = NoJob]
        PROVE  [Ledger!Next]_<<ledgerPhase, ledgerCharge>>
    <3>1. \A d \in Commands : job'[d] = NoJob
        BY <1>2, <2>1, <2>3, OneInside DEF TypeOK
    <3>2. QED
        BY <1>2, <2>1, <2>3, <3>1, LeaveMoves
  <2>4. ASSUME journal' = journal, job' = [c \in Commands |-> NoJob]
        PROVE  [Ledger!Next]_<<ledgerPhase, ledgerCharge>>
    <3>1. \A d \in Commands : job'[d] = NoJob
        BY <2>4
    <3>2. CASE \E c \in Commands : pc[c] # "idle"
        BY <1>2, <2>1, <2>4, <3>1, <3>2, LeaveMoves
    <3>3. CASE \A c \in Commands : pc[c] = "idle"
      <4>1. job' = job
        BY <1>2, <2>1, <2>4, <3>3 DEF TrialInv, CommandInv, CommandOK, TypeOK
      <4>2. QED
        BY <2>2, <2>4, <4>1
    <3>4. QED
        BY <3>2, <3>3
  <2>5. CASE UNCHANGED vars
    BY <2>2, <2>5 DEF vars
  <2>6. CASE Next
    BY <1>2, <2>1, <2>2, <2>3, <2>4, <2>6, JournalSteps, WriteMoves, EnterMoves
  <2>7. QED
    BY <1>2, <2>5, <2>6
<1>3. QED
    BY <1>1, <1>2, TrialSafety, PTL DEF Spec, ImplementsLedger, Ledger!Spec
=============================================================================
