------------------------ MODULE ExperimentCoordinator ------------------------
(***************************************************************************)
(* The finite-experiment coordinator: class Experiment of                  *)
(* scripts/full_client_experiment.py (run, resume, seal), the journal that *)
(* validate_state() accepts, and the trials it launches, as far as the     *)
(* coordinator sees them (inspect_attempt, the launcher, the child's own   *)
(* admission in inherited_trial()).                                        *)
(*                                                                         *)
(* One invocation holds .experiment.lock.  It keeps the journal in memory, *)
(* writes it whole by an atomic replace, and can raise or be killed        *)
(* between any two steps; what it raises in run() is followed by one more  *)
(* write, "operator_attention_required".  The trials run in processes of   *)
(* their own and go on when the coordinator is gone.                       *)
(***************************************************************************)
EXTENDS Integers, Sequences, FiniteSets, Functions

CONSTANTS
    N,               \* planned entries, launched in the order 1..N
    Reservation,     \* Reservation[e]: what entry e reserves of the aggregate limits
    Limit,           \* aggregate_limits; API requests, tokens and wall seconds
                     \* are three instances of the same rule, kept as one
    Usages,          \* what a trial can report as charged_usage
    Need,            \* Need[e]: time of a full trial of e, launch margin included
    Deadline,        \* deadline_at_ms, counted from started_at_ms
    MaxEvents,       \* 2000 in validate_state()
    MaxInvocations   \* bound: run, resume and seal commands given

Entries == 1 .. N

(* validate_plan(): the aggregate limits cover every entry. *)
ASSUME CoordinatorAssumption ==
    /\ N \in Nat \ {0}
    /\ Reservation \in [Entries -> Nat] /\ Usages \subseteq Nat
    /\ Limit \in Nat /\ SumFunction(Reservation) <= Limit
    /\ Need \in [Entries -> Nat \ {0}]
    /\ Deadline \in Nat /\ SumFunction(Need) <= Deadline
    /\ MaxEvents \in Nat /\ MaxInvocations \in Nat

VARIABLES
    disk,         \* coordinator.json; status "absent" before it exists
    mem,          \* self.state of the running invocation
    pc,           \* next step of the running invocation, "idle" when there is none
    clock,        \* time since the experiment started, pauses included
    attempt,      \* attempt[e]: status of the trial journal, "missing" without one
    usage,        \* usage[e]: its charged_usage
    child,        \* child[e]: the trial process of entry e
    launches,     \* launches[e]: history, how often the launcher was entered for e
    invocations   \* history, for the bound

vars == <<disk, mem, pc, clock, attempt, usage, child, launches, invocations>>
trialVars == <<attempt, usage, child, launches>>

-----------------------------------------------------------------------------
(* The journal. *)
EventKinds == {"experiment_started", "execution_admitted", "submission_intent",
               "submission_retired_unlaunched", "child_returned",
               "attempt_settled", "experiment_completed",
               "operator_attention_required", "experiment_sealed"}

(* retired: 0, or the position of the intent event (intent_sequence).      *)
Submission == [returncode : {"none", "zero", "error"}, retired : Nat]

Journal == [status  : {"absent", "running", "stopped", "completed"},
            subs    : Seq(Submission),
            settled : SUBSET Entries,
            events  : Seq(EventKinds),
            sealed  : BOOLEAN]

NoJournal == [status |-> "absent", subs |-> <<>>, settled |-> {},
              events |-> <<>>, sealed |-> FALSE]

Terminal  == {"completed", "recovered"}
Attempts  == {"missing", "running", "failed"} \cup Terminal
Children  == {"none", "launched", "admitted"}

(* persist(event): where the journal is written, with which event, and     *)
(* what comes next.                                                        *)
Event == [admitted |-> "execution_admitted",   \* or explicit_resume
          intent   |-> "submission_intent",
          retire   |-> "submission_retired_unlaunched",
          returned |-> "child_returned",
          settle   |-> "attempt_settled",
          complete |-> "experiment_completed",
          stop     |-> "operator_attention_required",
          seal     |-> "experiment_sealed"]

Following == [admitted |-> "next", intent |-> "dispatch", retire |-> "stop",
              returned |-> "check", settle |-> "next", complete |-> "idle",
              stop |-> "idle", seal |-> "idle"]

Persisting == DOMAIN Event
PCs        == Persisting \cup {"idle", "admit", "next", "dispatch", "waiting", "check"}

(* The body of run()'s try statement. *)
Trying == PCs \ {"idle", "stop", "seal"}

TypeOK ==
    /\ disk \in Journal /\ mem \in Journal
    /\ pc \in PCs
    /\ clock \in Nat
    /\ attempt \in [Entries -> Attempts]
    /\ usage \in [Entries -> Nat]
    /\ child \in [Entries -> Children]
    /\ launches \in [Entries -> Nat]
    /\ invocations \in 0 .. MaxInvocations

Retired(j)   == {e \in DOMAIN j.subs : j.subs[e].retired # 0}
Submitted(j) == DOMAIN j.subs \ Retired(j)
Positions(j, kind) == {i \in DOMAIN j.events : j.events[i] = kind}

(* The i-th intent event is the intent of the i-th submission.             *)
IntentAt(j, e) ==
    CHOOSE i \in Positions(j, "submission_intent") :
        Cardinality({k \in Positions(j, "submission_intent") : k <= i}) = e

(* Events of entry e run from its intent to the next one. *)
EventsOf(j, e) ==
    {i \in DOMAIN j.events :
        /\ i > IntentAt(j, e)
        /\ e < Len(j.subs) => i < IntentAt(j, e + 1)}

(* validate_state(): the conditions that relate parts of the journal.      *)
ValidState(j) ==
    /\ Len(j.events) \in 1 .. MaxEvents
    /\ Len(j.subs) <= N
    /\ \A e \in Retired(j) : j.subs[e].returncode = "none"
    /\ j.settled \subseteq Submitted(j)
    /\ Cardinality(Positions(j, "submission_intent")) = Len(j.subs)
    /\ \A e \in Retired(j) :
           LET i == IntentAt(j, e) IN
           /\ j.subs[e].retired = i
           /\ i < Len(j.events)
           /\ j.events[i + 1] = "submission_retired_unlaunched"
           /\ \A k \in EventsOf(j, e) :
                  j.events[k] \notin {"child_returned", "attempt_settled"}
    /\ Positions(j, "submission_retired_unlaunched") =
           {IntentAt(j, e) + 1 : e \in Retired(j)}
    /\ j.status = "completed" => Cardinality(j.settled) + Cardinality(Retired(j)) = N
    /\ Positions(j, "experiment_sealed") = IF j.sealed THEN {Len(j.events)} ELSE {}
    /\ j.sealed => j.settled = Submitted(j) /\ j.status # "running"

Init ==
    /\ disk = NoJournal /\ mem = NoJournal
    /\ pc = "idle"
    /\ clock = 0
    /\ attempt = [e \in Entries |-> "missing"]
    /\ usage = [e \in Entries |-> 0]
    /\ child = [e \in Entries |-> "none"]
    /\ launches = [e \in Entries |-> 0]
    /\ invocations = 0

-----------------------------------------------------------------------------
(* reconcile(): every submitted attempt is terminal and clean, every       *)
(* retired one is still absent, and what is charged (the reservation, or a *)
(* larger reported usage) fits the limits.                                 *)
Larger(a, b) == IF a >= b THEN a ELSE b

Charge == [e \in Entries |-> Larger(Reservation[e], usage[e])]

Charged(j) == SumFunctionOnSet(Charge, DOMAIN j.subs)

ResolvedIfEnded(j, e) ==                                                 \* variant
    attempt[e] \in IF e \in Retired(j) THEN {"missing"} ELSE Terminal \cup {"failed"}

Resolved(j, e) == attempt[e] \in IF e \in Retired(j) THEN {"missing"} ELSE Terminal

Reconciles(j) == (\A e \in DOMAIN j.subs : Resolved(j, e)) /\ Charged(j) <= Limit

(* What it has recorded by the time it returns or refuses. *)
Reconciled(j) ==
    [j EXCEPT !.settled = @ \cup {e \in Submitted(j) : \A d \in 1 .. e : Resolved(j, d)}]

Idle == pc' = "idle" /\ mem' = NoJournal

(* run()'s except clause: the state becomes "stopped", one more write.     *)
Raise(j) == pc' = "stop" /\ mem' = [j EXCEPT !.status = "stopped"]

Written == [mem EXCEPT !.events = Append(@, Event[pc])]

-----------------------------------------------------------------------------
(* Commands.  Each takes .experiment.lock for its whole life.              *)
Invoke == pc = "idle" /\ invocations < MaxInvocations /\ invocations' = invocations + 1

Run ==
    /\ Invoke
    /\ disk.status = "absent"
    /\ mem' = [NoJournal EXCEPT !.status = "running", !.events = <<"experiment_started">>]
    /\ disk' = mem'
    /\ pc' = "admit"
    /\ UNCHANGED <<clock, trialVars>>

LastMissing ==
    /\ disk.subs # <<>>
    /\ Len(disk.subs) \notin Retired(disk)
    /\ attempt[Len(disk.subs)] = "missing"

ResumeRetries ==                                                         \* variant
    /\ Invoke
    /\ disk.status # "absent" /\ ~disk.sealed
    /\ mem' = IF LastMissing
              THEN [disk EXCEPT !.subs = SubSeq(@, 1, Len(@) - 1)] ELSE disk
    /\ pc' = "admit"
    /\ UNCHANGED <<disk, clock, trialVars>>

Resume ==
    /\ Invoke
    /\ disk.status # "absent" /\ ValidState(disk) /\ ~disk.sealed
    /\ mem' = disk
    /\ pc' = "admit"
    /\ UNCHANGED <<disk, clock, trialVars>>

SealUnreconciled ==                                                      \* variant
    /\ Invoke
    /\ disk.status # "absent" /\ ValidState(disk) /\ ~disk.sealed
    /\ Len(disk.events) < MaxEvents
    /\ mem' = [disk EXCEPT !.sealed = TRUE, !.status = IF @ = "completed" THEN @ ELSE "stopped"]
    /\ pc' = "seal"
    /\ UNCHANGED <<disk, clock, trialVars>>

Seal ==
    /\ Invoke
    /\ disk.status # "absent" /\ ValidState(disk) /\ ~disk.sealed
    /\ Len(disk.events) < MaxEvents
    /\ Reconciles(disk)
    /\ \A e \in Entries \ DOMAIN disk.subs : attempt[e] = "missing"
    /\ mem' = [Reconciled(disk) EXCEPT !.sealed = TRUE,
                   !.status = IF @ = "completed" THEN @ ELSE "stopped"]
    /\ pc' = "seal"
    /\ UNCHANGED <<disk, clock, trialVars>>

-----------------------------------------------------------------------------
(* The steps of run() and resume(). *)
Admit ==
    /\ pc = "admit"
    /\ IF Reconciles(mem)
       THEN pc' = "admitted" /\ mem' = [Reconciled(mem) EXCEPT !.status = "running"]
       ELSE Raise(Reconciled(mem))
    /\ UNCHANGED <<disk, clock, trialVars, invocations>>

(* persist(): append the event, replace the file.  *)
Persist ==
    /\ pc \in Persisting
    /\ disk' = Written
    /\ pc' = Following[pc]
    /\ mem' = CASE pc' = "idle" -> NoJournal
                [] pc' = "stop" -> [Written EXCEPT !.status = "stopped"]
                [] OTHER        -> Written
    /\ UNCHANGED <<clock, trialVars, invocations>>

Current == Len(mem.subs)   \* the entry submitted last

AllSubmitted ==
    /\ pc = "next" /\ Current = N
    /\ mem' = [mem EXCEPT !.status = "completed"]
    /\ pc' = "complete"
    /\ UNCHANGED <<disk, clock, trialVars, invocations>>

(* The checks before an entry, and the submission in memory. *)
MaySubmitUnreserved(e) ==                                                \* variant
    /\ clock < Deadline /\ clock + Need[e] <= Deadline
    /\ attempt[e] = "missing"
    /\ Reconciles(mem)

MaySubmit(e) ==
    /\ clock < Deadline
    /\ attempt[e] = "missing"
    /\ Reconciles(mem)
    /\ Charged(mem) + Reservation[e] <= Limit
    /\ clock + Need[e] <= Deadline

Submit ==
    /\ pc = "next" /\ Current < N
    /\ IF MaySubmit(Current + 1)
       THEN /\ pc' = "intent"
            /\ mem' = [Reconciled(mem) EXCEPT
                          !.subs = Append(@, [returncode |-> "none", retired |-> 0])]
       ELSE Raise(Reconciled(mem))
    /\ UNCHANGED <<disk, clock, trialVars, invocations>>

(* The intent is durable.  The time is looked at again: too late retires   *)
(* the entry, otherwise the child is launched.                             *)
RetireUnlaunched ==
    /\ pc = "dispatch"
    /\ clock + Need[Current] > Deadline
    /\ attempt[Current] = "missing"
    /\ mem' = [mem EXCEPT !.subs[Current].retired = Len(mem.events)]
    /\ pc' = "retire"
    /\ UNCHANGED <<disk, clock, trialVars, invocations>>

Launch ==
    /\ pc = "dispatch"
    /\ clock + Need[Current] <= Deadline
    /\ child' = [child EXCEPT ![Current] = "launched"]
    /\ launches' = [launches EXCEPT ![Current] = @ + 1]
    /\ pc' = "waiting"
    /\ UNCHANGED <<disk, mem, clock, attempt, usage, invocations>>

ChildReturned ==
    /\ pc = "waiting"
    /\ child[Current] = "none"
    /\ mem' = [mem EXCEPT !.subs[Current].returncode =
                  IF attempt[Current] = "completed" THEN "zero" ELSE "error"]
    /\ pc' = "returned"
    /\ UNCHANGED <<disk, clock, trialVars, invocations>>

CheckReturnedTrusting ==                                                 \* variant
    /\ pc = "check"
    /\ pc' = "settle" /\ mem' = Reconciled(mem)
    /\ UNCHANGED <<disk, clock, trialVars, invocations>>

CheckReturned ==
    /\ pc = "check"
    /\ IF /\ clock <= Deadline
          /\ Reconciles(mem)
          /\ mem.subs[Current].returncode = "zero"
       THEN pc' = "settle" /\ mem' = Reconciled(mem)
       ELSE Raise(IF clock <= Deadline THEN Reconciled(mem) ELSE mem)
    /\ UNCHANGED <<disk, clock, trialVars, invocations>>

(* The launcher's timeout, or any exception while it waits: the runner is  *)
(* killed, its journal stays where it was or says so.                      *)
Killed(e) ==
    /\ child' = [child EXCEPT ![e] = "none"]
    /\ \/ UNCHANGED attempt
       \/ attempt[e] = "running" /\ attempt' = [attempt EXCEPT ![e] = "failed"]
    /\ UNCHANGED <<usage, launches>>

LauncherRaises ==
    /\ pc = "waiting"
    /\ Killed(Current)
    /\ Raise(mem)
    /\ UNCHANGED <<disk, clock, invocations>>

-----------------------------------------------------------------------------
(* Failures of the coordinator. *)

(* An exception inside the try statement (KeyboardInterrupt, an OSError, a *)
(* clock step).  In persist() it comes before the event is appended, or    *)
(* after that and before the file is replaced.                             *)
Interrupted ==
    /\ pc \in Trying \ {"waiting"}
    /\ \/ Raise(mem)
       \/ pc \in Persisting /\ Raise(Written)
    /\ UNCHANGED <<disk, clock, trialVars, invocations>>

(* The file is replaced but persist() raises before it notes the new hash: *)
(* the handler finds a journal it does not know and writes nothing.        *)
LostReply ==
    /\ pc \in Persisting
    /\ disk' = Written
    /\ Idle
    /\ UNCHANGED <<clock, trialVars, invocations>>

(* The handler's own write, or that of seal(), fails. *)
WriteFails ==
    /\ pc \in {"stop", "seal"}
    /\ Idle
    /\ UNCHANGED <<disk, clock, trialVars, invocations>>

(* SIGKILL.  The children get SIGTERM, or outlive it. *)
Crash ==
    /\ pc # "idle"
    /\ Idle
    /\ UNCHANGED <<disk, clock, trialVars, invocations>>

-----------------------------------------------------------------------------
(* The trials. *)

(* inherited_trial(): the child accepts only the coordinator's current     *)
(* submission.                                                             *)
ChildAdmitted(e) ==
    /\ child[e] = "launched"
    /\ disk.status = "running" /\ ~disk.sealed
    /\ Len(disk.subs) = e
    /\ disk.subs[e] = [returncode |-> "none", retired |-> 0]
    /\ e \notin disk.settled
    /\ disk.events[Len(disk.events)] = "submission_intent"
    /\ child' = [child EXCEPT ![e] = "admitted"]
    /\ UNCHANGED <<disk, mem, pc, clock, attempt, usage, launches, invocations>>

TrialBegins(e) ==
    /\ child[e] = "admitted" /\ attempt[e] = "missing"
    /\ attempt' = [attempt EXCEPT ![e] = "running"]
    /\ UNCHANGED <<disk, mem, pc, clock, usage, child, launches, invocations>>

TrialEnds(e) ==
    /\ child[e] = "admitted" /\ attempt[e] = "running"
    /\ \E status \in {"completed", "failed"} : attempt' = [attempt EXCEPT ![e] = status]
    /\ \E u \in Usages : usage' = [usage EXCEPT ![e] = u]
    /\ child' = [child EXCEPT ![e] = "none"]
    /\ UNCHANGED <<disk, mem, pc, clock, launches, invocations>>

(* Refused by its own admission, killed, or terminated with its parent. *)
TrialDies(e) ==
    /\ child[e] # "none"
    /\ Killed(e)
    /\ UNCHANGED <<disk, mem, pc, clock, invocations>>

(* Explicit recovery, by recover-entry or the trial's own command. *)
Recover(e) ==
    /\ child[e] = "none" /\ attempt[e] \in {"running", "failed"}
    /\ attempt' = [attempt EXCEPT ![e] = "recovered"]
    /\ UNCHANGED <<disk, mem, pc, clock, usage, child, launches, invocations>>

(* The wall clock, until it has passed the deadline. *)
Tick ==
    /\ disk.status # "absent" /\ clock <= Deadline
    /\ clock' = clock + 1
    /\ UNCHANGED <<disk, mem, pc, trialVars, invocations>>

-----------------------------------------------------------------------------
Step ==
    \/ Admit \/ Persist \/ AllSubmitted \/ Submit \/ RetireUnlaunched \/ Launch
    \/ ChildReturned \/ CheckReturned \/ LauncherRaises

Faults == Interrupted \/ LostReply \/ WriteFails \/ Crash

Trials == \E e \in Entries : \/ ChildAdmitted(e) \/ TrialBegins(e) \/ TrialEnds(e)
                              \/ TrialDies(e) \/ Recover(e)

Next == Run \/ Resume \/ Seal \/ Step \/ Faults \/ Trials \/ Tick

Spec == Init /\ [][Next]_vars

-----------------------------------------------------------------------------
(* Properties.                                                             *)

(* "Already submitted IDs are never invoked again", over any sequence of   *)
(* crashes, interrupts and resumes; and "no child may exist before this    *)
(* fsync": whoever reads the journal knows of every trial launched, and a  *)
(* retired entry stays without one.                                        *)
LaunchedOnce ==
    /\ \A e \in Entries : /\ launches[e] <= 1
                          /\ launches[e] > 0 => e \in Submitted(disk)
    /\ \A e \in Retired(disk) : attempt[e] = "missing" /\ child[e] = "none"

(* One trial at a time is unresolved, whatever was interrupted: the others *)
(* are terminal and clean, or retired.                                     *)
Unresolved == {e \in Entries : launches[e] > 0 /\ attempt[e] \notin Terminal}

OneUnresolved == \A d, e \in Unresolved : d = e

(* No trial is launched unless the limits cover its whole reservation next *)
(* to what everything before it reserved or used, whichever is larger: a   *)
(* trial that used more takes room from the later ones, a trial that used  *)
(* less (or was retired) gives nothing back.                               *)
LaunchWithinLimit ==
    [][launches' # launches => Charged(disk) <= Limit]_vars

(* A sealed or completed journal is final evidence: every entry submitted  *)
(* is settled and no trial is left that could still start or run.          *)
FinalIsQuiet ==
    disk.sealed \/ disk.status = "completed" =>
        /\ Unresolved = {}
        /\ disk.settled = Submitted(disk)
        /\ \A e \in Entries : child[e] = "none" \/ attempt[e] \in Terminal

(* The journal only grows: submissions stay in order with their outcome,   *)
(* settled entries stay settled, events stay.                              *)
JournalGrows ==
    [][/\ Len(disk.subs) <= Len(disk'.subs)
       /\ \A e \in DOMAIN disk.subs :
              disk.subs[e].retired # 0 => disk'.subs[e] = disk.subs[e]
       /\ disk.settled \subseteq disk'.settled
       /\ Len(disk.events) <= Len(disk'.events)
       /\ \A i \in DOMAIN disk.events : disk'.events[i] = disk.events[i]]_vars

(* Nothing recorded is taken back: sealing is the last write and forbids   *)
(* every launch, the journal only grows, and no launch exceeds the limits. *)
HistoryKept ==
    JournalGrows /\ LaunchWithinLimit /\ [][disk.sealed => UNCHANGED <<disk, launches>>]_vars

(* The inductive invariant behind these: what memory and disk have in      *)
(* common at each step, and what is known of the trials.                   *)
MemoryExtendsDisk ==
    /\ pc = "idle" => mem = NoJournal
    /\ pc # "idle" =>
        /\ disk.status # "absent" /\ mem.status # "absent" /\ ~disk.sealed
        /\ Len(mem.subs) = Len(disk.subs)
             \/ (pc \in {"intent", "stop"} /\ Len(mem.subs) = Len(disk.subs) + 1)
        /\ pc = "intent" => Len(mem.subs) = Len(disk.subs) + 1
        /\ Retired(disk) \subseteq Retired(mem)
        /\ \A e \in Retired(disk) : mem.subs[e] = disk.subs[e]
        /\ disk.settled \subseteq mem.settled
        /\ Len(disk.events) <= Len(mem.events)
        /\ \A i \in DOMAIN disk.events : mem.events[i] = disk.events[i]
        /\ mem.sealed <=> pc = "seal"
    /\ disk.status = "absent" => disk = NoJournal
    /\ Len(disk.subs) <= N /\ Len(mem.subs) <= N

(* A trial exists only for a launched entry, an entry is launched only     *)
(* once recorded and settled only once launched, and a retirement in       *)
(* memory is that of an entry that was not launched.                       *)
LaunchInv ==
    /\ \A e \in Entries :
           /\ launches[e] \in {0, 1}
           /\ launches[e] = 1 => e \in Submitted(disk) /\ (pc # "idle" => e \in Submitted(mem))
           /\ launches[e] = 0 => attempt[e] = "missing" /\ child[e] = "none"
    /\ pc \in {"dispatch", "retire"} => Current > 0 /\ launches[Current] = 0
    /\ pc \in {"intent", "dispatch"} => Current \in Submitted(mem)
    /\ \A e \in disk.settled \cup mem.settled : launches[e] = 1
    /\ pc \in {"waiting", "returned", "check"} => Current > 0 /\ launches[Current] = 1

(* Everything before the last recorded entry is resolved, and everything   *)
(* recorded is, while the coordinator is between entries.                  *)
Quiet(e) == launches[e] = 1 => attempt[e] \in Terminal

AllSettled(j) ==
    /\ j.settled = Submitted(j)
    /\ \A e \in DOMAIN j.subs : Quiet(e) /\ (launches[e] = 0 => e \in Retired(j))

OrderInv ==
    /\ \A e \in Entries : e < Len(disk.subs) => Quiet(e)
    /\ pc # "idle" => \A e \in Entries : e < Len(mem.subs) => Quiet(e)
    /\ pc \in {"admitted", "next", "settle", "complete", "seal"} => AllSettled(mem)
    /\ mem.status = "completed" => pc \in {"admit", "complete", "seal"}
    /\ mem.status = "completed" /\ pc = "admit" => disk.status = "completed"
    /\ disk.sealed \/ disk.status = "completed" => AllSettled(disk)

(* Nothing is used before the launch, and what was submitted is covered    *)
(* until then.                                                             *)
ChargeInv ==
    /\ \A e \in Entries : launches[e] = 0 => usage[e] = 0
    /\ pc \in {"intent", "dispatch"} => Charged(mem) <= Limit

CoordinatorInv ==
    /\ TypeOK /\ MemoryExtendsDisk /\ LaunchInv /\ OrderInv /\ ChargeInv
    /\ OneUnresolved

(* The journals validate_state() refuses are those an exception tore (a    *)
(* submission without its intent event, a retirement without its own) and  *)
(* those that grew too long.  Every other one can be read back, whatever   *)
(* happened.                                                               *)
LoadableUnlessTorn ==
    /\ disk.status # "absent"
    /\ Len(disk.events) <= MaxEvents
    /\ Cardinality(Positions(disk, "submission_intent")) = Len(disk.subs)
    /\ Cardinality(Positions(disk, "submission_retired_unlaunched")) = Cardinality(Retired(disk))
    => ValidState(disk)

=============================================================================
