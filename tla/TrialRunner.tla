---------------------------- MODULE TrialRunner ----------------------------
(***************************************************************************)
(* One world, many trial commands: class TrialRunner of                    *)
(* scripts/full_client_trial.py (run, recover), the guard process that     *)
(* supervises each backend call (CommandAdapter.perform, adapter_guard)    *)
(* and who keeps the world and queue locks alive.                          *)
(*                                                                         *)
(* A command takes both locks with flock and hands the descriptors on:     *)
(* to the guard, to the backend the guard runs, and during run_controller  *)
(* to the browser bridge, which lives on.  All share one open file         *)
(* description per command; the locks are free again when the last copy    *)
(* is closed.  Commands can be interrupted or killed between any two       *)
(* steps.  What the backend does to the world is left open here; what it   *)
(* spends at the provider is not.                                          *)
(***************************************************************************)
EXTENDS Integers, Sequences, FiniteSets

CONSTANTS
    Commands,     \* invocations, each a process tree of its own
    Attempts,     \* attempt identities
    None,
    Phases,       \* PHASES, the operations of a run between two status calls
    Reservation,  \* what an attempt may use: max_api_requests and
                  \* max_total_tokens follow one rule, kept as one
    Amounts       \* what a controller can have used in the end

ASSUME TrialAssumption ==
    /\ None \notin Attempts
    /\ Phases \in Seq(STRING)
    /\ Reservation \in Nat \ {0}
    /\ Amounts \subseteq Nat

VARIABLES
    journal,   \* journal[a]: the attempt's journal.json
    mem,       \* mem[c]: self.state
    pc,        \* pc[c]: next step of the command
    job,       \* job[c]: what the command was asked
    step,      \* step[c]: position in its sequence of operations
    guard,     \* guard[c]: the guard of its backend call
    copies,    \* copies[c]: who has the lock descriptors c opened
    bridge,    \* the controller run of the browser bridge
    used       \* used[a]: history, what a's controller used at the provider

vars == <<journal, mem, pc, job, step, guard, copies, bridge, used>>

-----------------------------------------------------------------------------
(* The journal: phase and phase_status are in the events too, and left out *)
(* with them; "failed" stands for interrupted as well.                     *)
RunPlan == <<"status">> \o Phases \o <<"status">>
RecoverPlan == <<"status", "cleanup", "status">>

Plan(c) == IF job[c].recover THEN RecoverPlan ELSE RunPlan

Operations == {"status", "cleanup"} \cup {Phases[i] : i \in DOMAIN Phases}
Statuses == {"absent", "running", "failed", "recovering", "completed", "recovered"}
Terminal == {"completed", "recovered"}

Journal == [status : Statuses, api : {"not_started", "uncertain", "confirmed"},
            charged : Nat, receipts : SUBSET Operations, scored : BOOLEAN]

NoJournal == [status |-> "absent", api |-> "not_started", charged |-> 0,
              receipts |-> {}, scored |-> FALSE]

(* The writes of the journal and what follows each of them.                *)
Following == [create     |-> "call",       \* publish_attempt
              recovering |-> "call",       \* recovery_started
              pending    |-> "perform",    \* operation_pending
              returned   |-> "handle",     \* operation_returned
              usage      |-> "confirm",    \* api_usage_reported
              confirmed  |-> "call",       \* api_usage_confirmed
              evidence   |-> "call",       \* evidence_verified
              finish     |-> "exit",       \* attempt_completed, attempt_recovered
              quarantine |-> "exit"]       \* recovery_required

Writing == DOMAIN Following
PCs     == Writing \cup {"idle", "call", "perform", "waiting", "closing",
                         "handle", "confirm", "exit"}

(* The body of the try statement: what it raises is quarantined.           *)
Trying == PCs \ {"idle", "create", "recovering", "quarantine", "exit"}

(* job.attempt is None while the command does not run.                     *)
Jobs   == [attempt : Attempts \cup {None}, recover : BOOLEAN]
NoJob  == [attempt |-> None, recover |-> FALSE]

(* The guard process, the backend under it and the answer it leaves.       *)
Guards == [state : {"none", "starting", "running", "stopping", "done"},
           attempt : Attempts \cup {None}, op : Operations, ok : BOOLEAN]

NoGuard == [state |-> "none", attempt |-> None, op |-> "status", ok |-> FALSE]

(* leased: whose descriptors the bridge has, those of a request it has not *)
(* read yet included; claims: runs it has ever started, kept on disk.      *)
Bridges == [run : Attempts \cup {None},
            state : {"idle", "requested", "active", "completed", "failed"},
            leased : SUBSET Commands, claims : SUBSET Attempts]

TypeOK ==
    /\ journal \in [Attempts -> Journal]
    /\ mem \in [Commands -> Journal]
    /\ pc \in [Commands -> PCs]
    /\ job \in [Commands -> Jobs]
    /\ step \in [Commands -> Nat \ {0}]
    /\ guard \in [Commands -> Guards]
    /\ copies \in [Commands -> SUBSET {"runner", "guard", "bridge"}]
    /\ bridge \in Bridges
    /\ used \in [Attempts -> Nat]

Init ==
    /\ journal = [a \in Attempts |-> NoJournal]
    /\ mem = [c \in Commands |-> NoJournal]
    /\ pc = [c \in Commands |-> "idle"]
    /\ job = [c \in Commands |-> NoJob]
    /\ step = [c \in Commands |-> 1]
    /\ guard = [c \in Commands |-> NoGuard]
    /\ copies = [c \in Commands |-> {}]
    /\ bridge = [run |-> None, state |-> "idle", leased |-> {}, claims |-> {}]
    /\ used = [a \in Attempts |-> 0]

-----------------------------------------------------------------------------
(* Entering and leaving. *)
LockFree == \A c \in Commands : copies[c] = {}

Enter(c, what, state, next) ==
    /\ pc[c] = "idle" /\ guard[c].state = "none"
    /\ LockFree
    /\ copies' = [copies EXCEPT ![c] = {"runner"}]
    /\ job' = [job EXCEPT ![c] = what]
    /\ mem' = [mem EXCEPT ![c] = state]
    /\ pc' = [pc EXCEPT ![c] = next]
    /\ UNCHANGED <<journal, step, guard, bridge, used>>

RunAttempt(c, a) ==
    /\ \A b \in Attempts : journal[b].status \in Terminal \cup {"absent"}
    /\ journal[a].status = "absent"
    /\ Enter(c, [attempt |-> a, recover |-> FALSE],
             [NoJournal EXCEPT !.status = "running"], "create")

RecoverRefunds(c, a) ==                                                  \* variant
    /\ journal[a].status \notin Terminal \cup {"absent"}
    /\ Enter(c, [attempt |-> a, recover |-> TRUE],
             [journal[a] EXCEPT !.status = "recovering", !.charged = 0], "recovering")

RecoverAttempt(c, a) ==
    /\ journal[a].status \notin Terminal \cup {"absent"}
    /\ Enter(c, [attempt |-> a, recover |-> TRUE],
             [journal[a] EXCEPT !.status = "recovering"], "recovering")

(* The runner is gone: its descriptors are closed, the others' are not.    *)
Gone(c) ==
    /\ pc' = [pc EXCEPT ![c] = "idle"]
    /\ mem' = [mem EXCEPT ![c] = NoJournal]
    /\ job' = [job EXCEPT ![c] = NoJob]
    /\ step' = [step EXCEPT ![c] = 1]

ExitUnlocks(c) ==                                                        \* variant
    /\ pc[c] = "exit"
    /\ Gone(c)
    /\ copies' = [copies EXCEPT ![c] = {}]
    /\ UNCHANGED <<journal, guard, bridge, used>>

Exit(c) ==
    /\ pc[c] = "exit"
    /\ Gone(c)
    /\ copies' = [copies EXCEPT ![c] = @ \ {"runner"}]
    /\ UNCHANGED <<journal, guard, bridge, used>>

(* SIGKILL. *)
Crash(c) ==
    /\ pc[c] # "idle"
    /\ Gone(c)
    /\ copies' = [copies EXCEPT ![c] = @ \ {"runner"}]
    /\ UNCHANGED <<journal, guard, bridge, used>>

-----------------------------------------------------------------------------
(* The journal. *)
Goto(c, next) == pc' = [pc EXCEPT ![c] = next]

(* An exception in the try statement, and _quarantine().                   *)
Raise(c) ==
    /\ Goto(c, "quarantine")
    /\ mem' = [mem EXCEPT ![c].status = "failed"]

Saved(c) == journal' = [journal EXCEPT ![job[c].attempt] = mem[c]]

Write(c) ==
    /\ pc[c] \in Writing
    /\ Saved(c)
    /\ Goto(c, Following[pc[c]])
    /\ UNCHANGED <<mem, job, step, guard, copies, bridge, used>>

(* atomic_json raises, before the file is replaced or after. *)
WriteRaises(c) ==
    /\ pc[c] \in Writing
    /\ Saved(c) \/ UNCHANGED journal
    /\ IF pc[c] \in Trying THEN Raise(c) ELSE Goto(c, "exit") /\ UNCHANGED mem
    /\ UNCHANGED <<job, step, guard, copies, bridge, used>>

-----------------------------------------------------------------------------
(* One operation of the sequence.                                          *)
Op(c) == Plan(c)[step[c]]

More(c) == step[c] <= Len(Plan(c))

CallReservesLate(c) ==                                                   \* variant
    /\ pc[c] = "call" /\ More(c)
    /\ Goto(c, "pending")
    /\ UNCHANGED <<journal, mem, job, step, guard, copies, bridge, used>>

(* _call(): the reservation of the controller is made here. *)
Call(c) ==
    /\ pc[c] = "call" /\ More(c)
    /\ IF Op(c) = "run_controller"
       THEN /\ mem[c].api = "not_started"
            /\ mem' = [mem EXCEPT ![c] = [@ EXCEPT !.api = "uncertain", !.charged = Reservation]]
       ELSE UNCHANGED mem
    /\ Goto(c, "pending")
    /\ UNCHANGED <<journal, job, step, guard, copies, bridge, used>>

Perform(c) ==
    /\ pc[c] = "perform"
    /\ guard' = [guard EXCEPT ![c] = [state |-> "starting", attempt |-> job[c].attempt,
                                      op |-> Op(c), ok |-> FALSE]]
    /\ copies' = [copies EXCEPT ![c] = @ \cup {"guard"}]
    /\ Goto(c, "waiting")
    /\ UNCHANGED <<journal, mem, job, step, bridge, used>>

(* perform() returns the backend's answer. *)
Receive(c) ==
    /\ pc[c] = "waiting" /\ guard[c].state = "done" /\ guard[c].ok
    /\ guard' = [guard EXCEPT ![c] = NoGuard]
    /\ mem' = [mem EXCEPT ![c].receipts = @ \cup {Op(c)}]
    /\ Goto(c, "returned")
    /\ UNCHANGED <<journal, job, step, copies, bridge, used>>

(* No answer, an invalid one, or one that is late. *)
CallFails(c) ==
    /\ pc[c] \in {"waiting", "closing"} /\ guard[c].state = "done"
    /\ guard' = [guard EXCEPT ![c] = NoGuard]
    /\ Raise(c)
    /\ UNCHANGED <<journal, job, step, copies, bridge, used>>

(* operation_timeout or an interrupt: the pipe is closed, which asks the   *)
(* guard to stop; the runner waits for it only so long.                    *)
TimesOut(c) ==
    /\ pc[c] = "waiting"
    /\ Goto(c, "closing")
    /\ UNCHANGED <<journal, mem, job, step, guard, copies, bridge, used>>

GuardPending(c) ==
    /\ pc[c] = "closing" /\ guard[c].state # "done"
    /\ Raise(c)
    /\ UNCHANGED <<journal, job, step, guard, copies, bridge, used>>

Larger(m, n) == IF m >= n THEN m ELSE n

(* What run() and recover() do with the receipt. *)
Handle(c) ==
    /\ pc[c] = "handle"
    /\ CASE Op(c) = "run_controller" ->
              /\ mem' = [mem EXCEPT ![c].charged = Larger(@, used[job[c].attempt])]
              /\ Goto(c, "usage")
              /\ UNCHANGED step
         [] Op(c) = "collect_final" ->
              /\ mem' = [mem EXCEPT ![c].scored = TRUE]
              /\ Goto(c, "evidence")
              /\ step' = [step EXCEPT ![c] = @ + 1]
         [] OTHER ->
              /\ Goto(c, "call")
              /\ step' = [step EXCEPT ![c] = @ + 1]
              /\ UNCHANGED mem
    /\ UNCHANGED <<journal, job, guard, copies, bridge, used>>

(* _controller(): a confirmed usage replaces the reservation. *)
Confirm(c) ==
    /\ pc[c] = "confirm"
    /\ IF used[job[c].attempt] <= Reservation
       THEN /\ mem' = [mem EXCEPT ![c] = [@ EXCEPT !.api = "confirmed",
                                                   !.charged = used[job[c].attempt]]]
            /\ Goto(c, "confirmed")
            /\ step' = [step EXCEPT ![c] = @ + 1]
       ELSE Raise(c) /\ UNCHANGED step
    /\ UNCHANGED <<journal, job, guard, copies, bridge, used>>

Finish(c) ==
    /\ pc[c] = "call" /\ ~More(c)
    /\ mem' = [mem EXCEPT ![c].status = IF job[c].recover THEN "recovered" ELSE "completed"]
    /\ Goto(c, "finish")
    /\ UNCHANGED <<journal, job, step, guard, copies, bridge, used>>

(* A check that fails, the trial's deadline, or an interrupt. *)
Interrupted(c) ==
    /\ pc[c] \in {"call", "perform", "handle", "confirm"}
    /\ Raise(c)
    /\ UNCHANGED <<journal, job, step, guard, copies, bridge, used>>

-----------------------------------------------------------------------------
(* The guard: adapter_guard(). *)
Live == {"starting", "running", "stopping"}

(* It looks for its parent, then starts the backend. *)
GuardStarts(c) ==
    /\ guard[c].state = "starting" /\ pc[c] = "waiting"
    /\ guard' = [guard EXCEPT ![c].state = "running"]
    /\ UNCHANGED <<journal, mem, pc, job, step, copies, bridge, used>>

GuardRefuses(c) ==
    /\ guard[c].state = "starting"
    /\ guard' = [guard EXCEPT ![c].state = "done"]
    /\ copies' = [copies EXCEPT ![c] = @ \ {"guard"}]
    /\ UNCHANGED <<journal, mem, pc, job, step, bridge, used>>

BackendReturns(c, ok) ==
    /\ guard[c].state = "running"
    /\ ok /\ guard[c].op = "run_controller" =>
           bridge.run = guard[c].attempt /\ bridge.state = "completed"
    /\ guard' = [guard EXCEPT ![c].state = "stopping", ![c].ok = ok]
    /\ UNCHANGED <<journal, mem, pc, job, step, copies, bridge, used>>

GuardStopsOnEOF(c) ==                                                    \* variant
    /\ guard[c].state = "running" /\ pc[c] = "closing"
    /\ guard' = [guard EXCEPT ![c].state = "stopping"]
    /\ UNCHANGED <<journal, mem, pc, job, step, copies, bridge, used>>

GuardStopsUnreaped(c) ==                                                 \* variant
    /\ guard[c].state = "running"
    /\ guard' = [guard EXCEPT ![c].state = "stopping"]
    /\ copies' = [copies EXCEPT ![c] = @ \ {"guard"}]
    /\ UNCHANGED <<journal, mem, pc, job, step, bridge, used>>

(* Its own timeout, the closed pipe, a parent that is gone, or a signal.   *)
GuardStops(c) ==
    /\ guard[c].state = "running"
    /\ guard' = [guard EXCEPT ![c].state = "stopping"]
    /\ UNCHANGED <<journal, mem, pc, job, step, copies, bridge, used>>

(* _stop_backend_group(): it ends once the whole group is gone.            *)
GuardReaps(c) ==
    /\ guard[c].state = "stopping"
    /\ guard' = [guard EXCEPT ![c].state = "done"]
    /\ copies' = [copies EXCEPT ![c] = @ \ {"guard"}]
    /\ UNCHANGED <<journal, mem, pc, job, step, bridge, used>>

(* Nobody waits for its answer any more. *)
GuardForgotten(c) ==
    /\ guard[c].state = "done" /\ pc[c] \notin {"waiting", "closing"}
    /\ guard' = [guard EXCEPT ![c] = NoGuard]
    /\ UNCHANGED <<journal, mem, pc, job, step, copies, bridge, used>>

-----------------------------------------------------------------------------
(* The browser bridge, as far as locks and usage go.                       *)

RequestWithoutLease(c) ==                                                \* variant
    /\ guard[c].state = "running" /\ guard[c].op = "run_controller"
    /\ bridge.leased = {} /\ guard[c].attempt \notin bridge.claims
    /\ bridge' = [bridge EXCEPT !.run = guard[c].attempt, !.state = "requested",
                                !.leased = {}]
    /\ UNCHANGED <<journal, mem, pc, job, step, guard, copies, used>>

(* The backend sends its start request, with the descriptors. *)
RequestController(c) ==
    /\ guard[c].state = "running" /\ guard[c].op = "run_controller"
    /\ bridge.leased = {} /\ guard[c].attempt \notin bridge.claims
    /\ bridge' = [bridge EXCEPT !.run = guard[c].attempt, !.state = "requested",
                                !.leased = {c}]
    /\ copies' = [copies EXCEPT ![c] = @ \cup {"bridge"}]
    /\ UNCHANGED <<journal, mem, pc, job, step, guard, used>>

(* The bridge dups them, records its claim and starts the worker.          *)
ControllerStarts ==
    /\ bridge.state = "requested"
    /\ bridge' = [bridge EXCEPT !.state = "active", !.claims = @ \cup {bridge.run}]
    /\ UNCHANGED <<journal, mem, pc, job, step, guard, copies, used>>

ControllerUses ==
    /\ bridge.state = "active"
    /\ \E n \in Amounts :
           /\ n > used[bridge.run]
           /\ used' = [used EXCEPT ![bridge.run] = n]
    /\ UNCHANGED <<journal, mem, pc, job, step, guard, copies, bridge>>

Released == copies' = [c \in Commands |-> copies[c] \ {"bridge"}]

(* A completed worker closes its descriptors; a failed one keeps them      *)
(* until the browser has let go of the keys.                               *)
ControllerFails ==
    /\ bridge.state = "active"
    /\ bridge' = [bridge EXCEPT !.state = "failed"]
    /\ UNCHANGED <<journal, mem, pc, job, step, guard, copies, used>>

ControllerCompletes ==
    /\ bridge.state = "active"
    /\ bridge' = [bridge EXCEPT !.state = "completed", !.leased = {}]
    /\ Released
    /\ UNCHANGED <<journal, mem, pc, job, step, guard, used>>

BrowserReleases ==
    /\ bridge.state = "failed" /\ bridge.leased # {}
    /\ bridge' = [bridge EXCEPT !.leased = {}]
    /\ Released
    /\ UNCHANGED <<journal, mem, pc, job, step, guard, used>>

(* A refused request, or a bridge that restarts. *)
BridgeLoses ==
    /\ bridge.state # "idle"
    /\ bridge' = [bridge EXCEPT !.run = None, !.state = "idle", !.leased = {}]
    /\ Released
    /\ UNCHANGED <<journal, mem, pc, job, step, guard, used>>

(* The host goes down: no process is left. *)
HostRestarts ==
    /\ \E c \in Commands : copies[c] # {}
    /\ mem' = [c \in Commands |-> NoJournal]
    /\ pc' = [c \in Commands |-> "idle"]
    /\ job' = [c \in Commands |-> NoJob]
    /\ step' = [c \in Commands |-> 1]
    /\ guard' = [c \in Commands |-> NoGuard]
    /\ copies' = [c \in Commands |-> {}]
    /\ bridge' = [bridge EXCEPT !.run = None, !.state = "idle", !.leased = {}]
    /\ UNCHANGED <<journal, used>>

-----------------------------------------------------------------------------
Begin(c) == \E a \in Attempts : RunAttempt(c, a) \/ RecoverAttempt(c, a)

Step(c) == \/ Write(c) \/ Call(c) \/ Perform(c) \/ Receive(c) \/ CallFails(c)
           \/ TimesOut(c) \/ GuardPending(c) \/ Handle(c) \/ Confirm(c)
           \/ Finish(c) \/ Exit(c)

Fault(c) == WriteRaises(c) \/ Interrupted(c) \/ Crash(c)

GuardStep(c) == \/ GuardStarts(c) \/ GuardRefuses(c) \/ GuardStops(c)
                \/ GuardReaps(c) \/ GuardForgotten(c)

Bridge == \/ ControllerStarts \/ ControllerUses \/ ControllerFails
          \/ ControllerCompletes \/ BrowserReleases \/ BridgeLoses

Next ==
    \/ \E c \in Commands :
           \/ Begin(c) \/ Step(c) \/ Fault(c) \/ GuardStep(c)
           \/ \E ok \in BOOLEAN : BackendReturns(c, ok)
           \/ RequestController(c)
    \/ Bridge \/ HostRestarts

Spec == Init /\ [][Next]_vars

(* The runner and the guard keep running, and a killed backend group goes  *)
(* away; the backend's answer and the bridge are not relied on.            *)
FairSpec == Spec /\ \A c \in Commands : WF_vars(Step(c)) /\ WF_vars(GuardStep(c))

-----------------------------------------------------------------------------
(* Properties.                                                             *)

(* One process tree at a time can act on the world: while a runner, its    *)
(* guard or the controller it asked for is still there, no other command   *)
(* is inside, whatever was killed or gave up waiting.                      *)
ActsOnWorld(c) ==
    \/ pc[c] # "idle"
    \/ guard[c].state \in Live
    \/ bridge.state \in {"requested", "active"} /\ c \in bridge.leased

OneActor == \A c, d \in Commands : ActsOnWorld(c) /\ ActsOnWorld(d) => c = d

(* At most one attempt is neither untouched nor terminal. *)
Unrecovered == {a \in Attempts : journal[a].status \notin Terminal \cup {"absent"}}

OneUnrecovered == \A a, b \in Unrecovered : a = b

(* No controller plays for an attempt that is closed: "recovered" is only  *)
(* written when nothing of the attempt can act or be charged any more.     *)
NoControllerAfterClose ==
    bridge.state \in {"requested", "active"} => bridge.run \in Unrecovered

(* An attempt is charged exactly what its controller used, or no less than *)
(* its reservation: "an absent response never refunds uncertain provider   *)
(* usage", and nothing is used before the reservation is on disk.          *)
UsageIsCharged ==
    \A a \in Attempts : \/ journal[a].charged = used[a]
                        \/ journal[a].charged >= Reservation

(* The inductive invariant behind these.  Locks: one command has copies,   *)
(* and each copy belongs to a process that is there.                       *)
HolderOK(c) ==
    /\ "runner" \in copies[c] <=> pc[c] # "idle"
    /\ "guard" \in copies[c] <=> guard[c].state \in Live
    /\ "bridge" \in copies[c] <=> c \in bridge.leased

LockInv ==
    /\ \A c, d \in Commands : copies[c] # {} /\ copies[d] # {} => c = d
    /\ \A c \in Commands : HolderOK(c)
    /\ bridge.state \in {"requested", "active"} => bridge.leased # {} /\ bridge.run # None
    /\ bridge.state \in {"idle", "completed"} => bridge.leased = {}

Playing(a) == bridge.run = a /\ bridge.state \in {"requested", "active"}

(* The controller of a has played, and will not play again. *)
Settled(a) == a \in bridge.claims /\ ~Playing(a)

(* A command is alone, and its journal is where its next step says.        *)
InCall == {"pending", "perform", "waiting", "closing", "returned", "handle",
           "usage", "confirm"}

Closed(j) == j.status \in Terminal \cup {"absent"}

StatusOK(j, m, at, recover) ==
    LET doing == IF recover THEN "recovering" ELSE "running" IN
    /\ m.status # "absent"
    /\ at = "create" => j = NoJournal /\ m = [NoJournal EXCEPT !.status = "running"] /\ ~recover
    /\ at = "recovering" => ~Closed(j) /\ m.status = doing /\ recover
    /\ at \notin {"create", "exit"} => j.status # "absent"
    /\ at \in Trying => j.status = doing
    /\ at \in Trying \ {"finish"} => m.status = doing
    /\ at = "finish" => m.status = IF recover THEN "recovered" ELSE "completed"
    /\ at = "quarantine" => m.status = "failed"
    /\ at = "quarantine" /\ ~recover => j.status \in {"running", "completed"}
    /\ recover => m.api = j.api /\ m.charged = j.charged

CallOK(c) ==
    /\ pc[c] \in InCall => step[c] <= Len(Plan(c))
    /\ pc[c] \in {"usage", "confirm"} => Op(c) = "run_controller"
    /\ IF pc[c] \in {"waiting", "closing"}
       THEN guard[c].state # "none" /\ guard[c].attempt = job[c].attempt /\ guard[c].op = Op(c)
       ELSE pc[c] \in {"quarantine", "exit"} \/ guard[c].state = "none"

CommandOK(c) ==
    IF pc[c] = "idle" THEN mem[c] = NoJournal /\ job[c] = NoJob /\ step[c] = 1
    ELSE /\ job[c].attempt # None
         /\ \A b \in Attempts \ {job[c].attempt} : Closed(journal[b])
         /\ StatusOK(journal[job[c].attempt], mem[c], pc[c], job[c].recover)
         /\ CallOK(c)
         /\ job[c].recover =>
                /\ bridge.state \notin {"requested", "active"}
                /\ guard[c].op = "run_controller" => guard[c].state = "none"

GuardOK(c) ==
    guard[c].state # "none" =>
        /\ guard[c].attempt # None
        /\ guard[c].state \in Live => ~Closed(journal[guard[c].attempt])
        /\ guard[c].op = "run_controller" =>
               journal[guard[c].attempt].api # "not_started"
        /\ guard[c].op = "run_controller" /\ guard[c].ok => Settled(guard[c].attempt)

(* What a journal charges, on disk or in memory, and what is known of the  *)
(* controller meanwhile.                                                   *)
Charges(j, a) ==
    /\ j.api = "not_started" => j.charged = 0
    /\ j.api = "uncertain" => j.charged >= Reservation
    /\ j.api = "confirmed" => j.charged = used[a] /\ Settled(a)

AttemptOK(a) ==
    /\ Charges(journal[a], a)
    /\ journal[a].api = "not_started" => used[a] = 0 /\ a \notin bridge.claims /\ ~Playing(a)
    /\ Playing(a) => ~Closed(journal[a])
    /\ bridge.run = a => (bridge.state = "requested" <=> a \notin bridge.claims)
    /\ journal[a].status = "absent" => journal[a] = NoJournal

MemoryOK(c) ==
    LET j == journal[job[c].attempt] IN
    /\ Charges(mem[c], job[c].attempt)
    /\ mem[c].api = "not_started" => j.api = "not_started"
    /\ j.charged = 0 => mem[c].charged \in {0, Reservation}
    /\ ~job[c].recover /\ pc[c] \in Trying =>
           IF pc[c] \in InCall /\ Op(c) = "run_controller"
           THEN /\ mem[c].api = "uncertain"
                /\ pc[c] # "pending" => j.api = "uncertain"
                /\ pc[c] \in {"returned", "handle", "usage", "confirm"}
                       => Settled(job[c].attempt)
           ELSE mem[c].api # "uncertain"

CommandInv == \A c \in Commands : CommandOK(c)
GuardInv   == \A c \in Commands : GuardOK(c)
UsageInv   == /\ \A a \in Attempts : AttemptOK(a)
              /\ \A c \in Commands : pc[c] # "idle" => MemoryOK(c)

TrialInv == TypeOK /\ LockInv /\ OneUnrecovered /\ CommandInv /\ GuardInv /\ UsageInv

Inside(a) == \E c \in Commands : job[c].attempt = a

(* An attempt is closed once its journal is terminal and the command that  *)
(* wrote it is gone.                                                       *)
LedgerPhase(a) ==
    CASE journal[a].status = "absent" -> "unused"
      [] journal[a].status = "running" -> "running"
      [] journal[a].status = "completed" /\ Inside(a) -> "running"
      [] journal[a].status \in Terminal /\ ~Inside(a) -> "closed"
      [] OTHER -> "broken"

(* A closed attempt stays as it is: no command enters it again, its        *)
(* journal is not written and its controller uses nothing more.            *)
ClosedStays ==
    [][\A a \in Attempts : LedgerPhase(a) = "closed" =>
           LedgerPhase(a)' = "closed" /\ journal'[a] = journal[a] /\ used'[a] = used[a]]_vars

(* The promise, in the terms of AttemptLedger. *)
ledgerPhase  == [a \in Attempts |-> LedgerPhase(a)]
ledgerCharge == [a \in Attempts |-> journal[a].charged]

Ledger == INSTANCE AttemptLedger WITH phase <- ledgerPhase, charge <- ledgerCharge

ImplementsLedger == Ledger!Spec

(* A command's own hold on the world ends, even if it is killed in the     *)
(* middle of a backend call that never answers.                            *)
WorldReleased ==
    \A c \in Commands : copies[c] \cap {"runner", "guard"} # {}
                          ~> copies[c] \cap {"runner", "guard"} = {}
=============================================================================
