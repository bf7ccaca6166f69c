--------------------------- MODULE GroupOperation ---------------------------
(***************************************************************************)
(* One claimed finite group from its first submission to its terminal      *)
(* receipt: scripts/full_client_operations.py (run and reconcile, which    *)
(* seal the group and restore the normal services), the commands of        *)
(* scripts/full_client_experiment.py when they own the claim (run, resume, *)
(* seal, recover-entry), the children that join the operation              *)
(* (scripts/full_client_operation_join.py), and the two closeouts of a     *)
(* failure: scripts/full_client_post_cleanup_status.py and                 *)
(* scripts/full_client_pre_runtime_abort.py.                               *)
(*                                                                         *)
(* Every command holds the operation gate from start to end and a child    *)
(* inherits its descriptor, so one command acts at a time; it may raise or *)
(* be killed at every step, and a child may outlive it.  A reference is    *)
(* the bytes it was made of: what an operator quotes is current, and what  *)
(* a journal quotes is marked "stale" when the file is written again.  The *)
(* coordinator is that of ExperimentCoordinator without its charges and    *)
(* limits, the normal lifecycle that of RestoreOnce with one service.      *)
(* What is only read and compared may refuse at any step (Raise).          *)
(***************************************************************************)
EXTENDS Naturals, FiniteSets

CONSTANTS
    N,            \* entries of the plan (the abort insists on four)
    MaxCommands   \* bound: commands given

ASSUME GroupAssumption ==
    N \in Nat \ {0} /\ MaxCommands \in Nat \ {0}

VARIABLES
    claim,    \* the operation's claim in the registry
    receipt,  \* terminal-receipt.json
    owner,    \* which program's authority the claim names
    coord,    \* coordinator.json
    att,      \* att[e]: journal.json and backend-state.json of entry e
    files,    \* create-only files that exist
    journal,  \* the wrapper's journal.json
    life,     \* the lifecycle's journal of the restoration
    up,       \* the instance the lifecycle named is running
    over,     \* deadlines that have passed
    waiting,  \* the browser is in the waiting transition an operator quotes
    op,       \* the command that holds the gate
    child,    \* the trial child that shares the gate
    other,    \* a trial of another operation was started after this one
    asked,    \* history: service starts requested
    commands  \* how many were given

registry == <<claim, receipt, owner>>
trials == <<coord, att>>
disk == <<registry, trials, files, journal, life>>
host == <<up, over, waiting, other>>
rest == <<host, child, asked, commands>>
vars == <<disk, rest, op>>

-----------------------------------------------------------------------------
Entries == 1..N

Phase == [absent |-> 0, admitted |-> 1, experiment_running |-> 2,
          seal_intent |-> 3, group_sealed |-> 4, handoff_intent |-> 5,
          handoff_prepared |-> 6, restoration_intent |-> 7,
          normal_restoring |-> 8, normal_verified |-> 9, completed |-> 10]

Phases == {Phase[p] : p \in DOMAIN Phase}

(* The wrapper's journal.  coordinator and lifecycle say what its two      *)
(* references are worth; writes counts the completed journals written.     *)
Journals == [phase : Phases,
             status : {"pending", "needs_reconciliation", "completed"},
             coordinator : {"none", "current", "stale"},
             lifecycle : {"none", "current", "stale"}, writes : 0..2]

NoJournal == [phase |-> Phase.absent, status |-> "pending",
              coordinator |-> "none", lifecycle |-> "none", writes |-> 0]

(* coordinator.json; parent says that closure.previous_journal_sha256 is   *)
(* the coordinator the wrapper's journal names.                            *)
Coordinators == [made : BOOLEAN, submissions : 0..N, retired : BOOLEAN,
                 settled : SUBSET Entries, closed : BOOLEAN, parent : BOOLEAN]

NoCoordinator == [made |-> FALSE, submissions |-> 0, retired |-> FALSE,
                  settled |-> {}, closed |-> FALSE, parent |-> FALSE]

(* What an attempt's journal says.  early: failed before the runtime was   *)
(* asked for anything; untouched: and its one recovery stopped before any  *)
(* cleanup (untouched()); unready: cleanup returned, the status after it   *)
(* was not ready; reconciled: that status was observed later.              *)
Clean == {"completed", "recovered", "reconciled"}
Broken == {"early", "failed"}
Statuses == Clean \cup Broken
                  \cup {"missing", "running", "untouched", "unready"}

(* untouched() and validate_failed_cleanup() over an attempt's events *)
NeverTouched(e) == att[e].st = "untouched" /\ ~att[e].final
CleanupReturned(e) == att[e].st = "unready"

(* final: collect_final's artifacts are in the journal *)
Attempts == [st : Statuses, final : BOOLEAN]

Last == coord.submissions

(* submitted entries that must have an attempt *)
Expected == {e \in 1..Last : ~(coord.retired /\ e = Last)}

Resolved == /\ \A e \in Expected : att[e].st \in Clean
            /\ \A e \in Entries \ Expected : att[e].st = "missing"

WrapperKinds == {"run", "reconcile"}
ExperimentKinds == {"begin", "resume", "seal"}
Kinds == WrapperKinds \cup ExperimentKinds \cup {"recover", "status", "abort"}

Idle == [kind |-> "none", pc |-> "idle", quoted |-> FALSE]
NoChild == [entry |-> 0, entered |-> FALSE, recovery |-> FALSE,
            orphan |-> FALSE]

(* remaining(): neither the operation nor the stage has run out of time    *)
InTime == over = {}

(* A file of the group, as opposed to one of an entry *)
The(file) == <<file, 0>>

Go(pc) == op' = [op EXCEPT !.pc = pc]
End == op' = Idle

(* persist(): the journal is replaced and its references are as given.     *)
Journal(phase, coordinator, lifecycle) ==
    journal' = [journal EXCEPT !.phase = phase, !.coordinator = coordinator,
                !.lifecycle = lifecycle,
                !.status = IF phase = Phase.completed THEN "completed" ELSE @,
                !.writes = IF phase = Phase.completed /\ @ < 2
                           THEN @ + 1 ELSE @]

Persist(phase) == Journal(phase, journal.coordinator, journal.lifecycle)

(* The coordinator or the lifecycle was written: a reference to it is old. *)
Outdated(ref) == IF ref = "none" THEN ref ELSE "stale"
CoordinatorWritten == journal' = [journal EXCEPT !.coordinator = Outdated(@)]
LifecycleWritten == journal' = [journal EXCEPT !.lifecycle = Outdated(@)]

-----------------------------------------------------------------------------
(* load(): a journal the wrapper accepts back *)
Loads ==
    /\ journal.phase > Phase.absent
    /\ (journal.status = "completed") = (journal.phase = Phase.completed)
    /\ journal.phase >= Phase.group_sealed => journal.coordinator # "none"
    /\ journal.phase >= Phase.normal_verified => journal.lifecycle # "none"

(* The create-only check of run() *)
Unused == journal.phase = Phase.absent /\ ~coord.made /\ life = "none"

Free == op.kind = "none" /\ child = NoChild

(* Which command may take the gate for this claim: the first one begins    *)
(* it, later ones quote it and must have its authority.                    *)
Admits(kind) ==
    \/ kind = "run" /\ claim = "none" /\ Unused
    \/ kind = "begin" /\ claim = "none"
    \/ kind = "reconcile" /\ claim # "none" /\ owner = "group" /\ Loads
    \/ kind \in {"resume", "seal"} /\ claim # "none" /\ owner = "experiment"
    \/ kind = "recover" /\ claim = "pending" /\ owner = "experiment"
    \/ kind = "status" /\ claim = "pending"
    \/ kind = "abort" /\ claim # "none"

Opening(kind) ==
    CASE kind = "run" -> "create" [] kind = "reconcile" -> "load"
      [] kind = "begin" -> "submit" [] kind \in {"resume", "seal"} -> "open"
      [] kind = "recover" -> "describe" [] kind = "status" -> "save"
      [] kind = "abort" -> "folder"

(* admitted(): a claim is begun or reconciled under the gate's lock        *)
Command ==
    /\ Free /\ commands < MaxCommands
    /\ \E kind \in Kinds, quoted \in BOOLEAN :
           /\ Admits(kind)
           /\ quoted => kind = "reconcile" /\ life # "none"
           /\ op' = [kind |-> kind, pc |-> Opening(kind), quoted |-> quoted]
           /\ owner' = CASE kind = "run" -> "group"
                         [] kind = "begin" -> "experiment"
                         [] OTHER -> owner
    /\ claim' = IF claim = "none" THEN "pending" ELSE claim
    /\ commands' = commands + 1
    /\ UNCHANGED <<receipt, trials, files, journal, life, host, child, asked>>

(* An exception: Operations.fail notes it in the journal, at its phase,    *)
(* unless the journal is completed, changed, or cannot be written.         *)
Raise ==
    /\ op.kind # "none" /\ op.pc # "wait"
    /\ End
    /\ \/ UNCHANGED journal
       \/ /\ op.kind \in WrapperKinds /\ op.pc # "create" /\ claim = "pending"
          /\ journal.status # "completed"
          /\ journal' = [journal EXCEPT !.status = "needs_reconciliation"]
    /\ UNCHANGED <<registry, trials, files, life, rest>>

(* The command is killed; its child, if any, is an orphan. *)
Kill ==
    /\ op.kind # "none"
    /\ End
    /\ child' = IF child = NoChild THEN child
                ELSE [child EXCEPT !.orphan = TRUE]
    /\ UNCHANGED <<disk, host, asked, commands>>

-----------------------------------------------------------------------------
(* Experiment.run and resume, and the children *)

(* reconcile(): the saved attempts decide what is settled *)
Open ==
    /\ op.pc = "open" /\ claim = "pending" /\ coord.made
    /\ Resolved
    /\ IF coord.closed
       THEN Go("receipt") /\ UNCHANGED <<coord, journal>>
       ELSE /\ coord' = [coord EXCEPT !.settled = Expected]
            /\ CoordinatorWritten
            /\ Go(IF op.kind = "seal" THEN "seal" ELSE "submit")
    /\ UNCHANGED <<registry, att, files, life, rest>>

(* The claim is completed already: nothing is done again. *)
AlreadyCompleted ==
    /\ op.pc = "open" /\ claim = "completed"
    /\ End
    /\ UNCHANGED <<disk, rest>>

(* The intent to submit the next entry is durable before anything is run.  *)
Submit ==
    /\ op.pc = "submit" /\ Last < N /\ ~coord.retired /\ ~coord.closed
    /\ Resolved /\ att[Last + 1].st = "missing"
    /\ coord' = [coord EXCEPT !.made = TRUE, !.submissions = @ + 1]
    /\ CoordinatorWritten
    /\ Go("dispatch")
    /\ UNCHANGED <<registry, att, files, life, rest>>

AfterRun == IF op.kind = "run" THEN "continue" ELSE "seal"

AllSubmitted ==
    /\ op.pc = "submit" /\ Last = N /\ ~coord.retired
    /\ Go(AfterRun)
    /\ UNCHANGED <<disk, rest>>

(* trial_dispatch: the claim is the lease's active one and the submission  *)
(* is the coordinator's current one.                                       *)
MayDispatch == claim = "pending" /\ ~coord.closed /\ Last \notin coord.settled

(* prepare_join publishes the one envelope of this action and attempt and  *)
(* the child is started with the gate's descriptor.                        *)
Dispatch ==
    /\ op.pc = "dispatch" /\ MayDispatch
    /\ <<"run", Last>> \notin files
    /\ files' = files \cup {<<"run", Last>>}
    /\ child' = [NoChild EXCEPT !.entry = Last]
    /\ Go("wait")
    /\ UNCHANGED <<registry, trials, journal, life, host, asked, commands>>

(* The launch raised before a process existed: the entry is retired and    *)
(* the run stops, which the wrapper tolerates.                             *)
Retire ==
    /\ op.pc = "dispatch" /\ att[Last].st = "missing"
    /\ coord' = [coord EXCEPT !.retired = TRUE]
    /\ CoordinatorWritten
    /\ IF op.kind = "run" THEN Go("continue") ELSE End
    /\ UNCHANGED <<registry, att, files, life, rest>>

(* _identity, os.getppid(): the parent that published is still the parent  *)
DirectParent == ~child.orphan /\ op.pc = "wait"

(* _claim: the claim's folder holds nothing but the claim *)
ClaimPending == claim = "pending"

Entered ==
    <<IF child.recovery THEN "recover_entered" ELSE "run_entered", child.entry>>

(* inherited_trial: for a run the submission is current, for a recovery    *)
(* the journal is still the failed one                                     *)
ChildCurrent ==
    /\ child.entry = Last /\ ~coord.closed /\ Last \notin coord.settled
    /\ att[Last].st \in IF child.recovery THEN Broken ELSE {"missing"}

(* joined: the entry is published after every check *)
ChildEnters ==
    /\ child # NoChild /\ ~child.entered
    /\ DirectParent /\ ClaimPending /\ ChildCurrent
    /\ Entered \notin files
    /\ files' = files \cup {Entered}
    /\ child' = [child EXCEPT !.entered = TRUE]
    /\ att' = IF child.recovery THEN att
              ELSE [att EXCEPT ![child.entry].st = "running"]
    /\ UNCHANGED <<registry, coord, journal, life, host, op, asked, commands>>

(* A child that may not enter, or whose directories, configuration or      *)
(* locks are not those of the envelope (_resources), leaves.               *)
ChildRefused ==
    /\ child # NoChild /\ ~child.entered
    /\ child' = NoChild
    /\ UNCHANGED <<disk, host, op, asked, commands>>

(* How a trial or a recovery (trial.py) ends that is not killed.  A        *)
(* recovery keeps what was collected.                                      *)
Outcomes(e) ==
    IF ~child.recovery
    THEN {[st |-> "completed", final |-> TRUE],
          [st |-> "early", final |-> FALSE]}
         \cup [st : {"failed"}, final : BOOLEAN]
    ELSE [st : {"recovered", "unready", "failed"}
               \cup (IF att[e].st = "early" THEN {"untouched"} ELSE {}),
          final : {att[e].final}]

ChildEnds ==
    /\ child.entered
    /\ \E a \in Outcomes(child.entry) : att' = [att EXCEPT ![child.entry] = a]
    /\ child' = NoChild
    /\ UNCHANGED <<registry, coord, files, journal, life, host, op, asked, commands>>

(* It is killed, by itself or by its parent's deadline, and its journal    *)
(* stays as it is.                                                         *)
ChildKilled ==
    /\ child # NoChild
    /\ child' = NoChild
    /\ UNCHANGED <<disk, host, op, asked, commands>>

(* The child is gone: its attempt is inspected, never assumed. *)
Returned ==
    /\ op.pc = "wait" /\ child = NoChild /\ op.kind # "recover"
    /\ IF att[Last].st \in Clean
       THEN /\ coord' = [coord EXCEPT !.settled = @ \cup {Last}]
            /\ CoordinatorWritten
            /\ Go("submit")
       ELSE /\ UNCHANGED <<coord, journal>>
            /\ IF op.kind = "run" THEN Go("continue") ELSE End
    /\ UNCHANGED <<registry, att, files, life, rest>>

(* Experiment.seal: all submitted entries are resolved, the others are     *)
(* withdrawn for ever.                                                     *)
Seal ==
    /\ op.pc = "seal" /\ coord.made /\ ~coord.closed /\ Resolved
    /\ coord' = [coord EXCEPT !.closed = TRUE, !.settled = Expected,
                 !.parent = journal.coordinator = "current"]
    /\ CoordinatorWritten
    /\ Go(IF op.kind \in WrapperKinds THEN "sealed" ELSE "receipt")
    /\ UNCHANGED <<registry, att, files, life, rest>>

-----------------------------------------------------------------------------
(* recover-entry: one cleanup child for the last, failed attempt *)

(* The failed journal is copied and the descriptor written, both durable   *)
(* and create-only, before the child is prepared.                          *)
Describe ==
    /\ op.pc = "describe" /\ Last > 0 /\ ~coord.retired /\ ~coord.closed
    /\ Last \notin coord.settled
    /\ \A e \in 1..(Last - 1) : att[e].st \in Clean
    /\ \A e \in (Last + 1)..N : att[e].st = "missing"
    /\ IF <<"descriptor", Last>> \in files
       THEN Go("conclude") /\ UNCHANGED files
       ELSE /\ att[Last].st \in Broken
            /\ files' = files \cup {<<"descriptor", Last>>}
            /\ Go("recover")
    /\ UNCHANGED <<registry, trials, journal, life, rest>>

RecoveryDispatch ==
    /\ op.pc = "recover" /\ att[Last].st \in Broken
    /\ <<"recover", Last>> \notin files
    /\ files' = files \cup {<<"recover", Last>>}
    /\ child' = [NoChild EXCEPT !.entry = Last, !.recovery = TRUE]
    /\ Go("wait")
    /\ UNCHANGED <<registry, trials, journal, life, host, asked, commands>>

RecoveryReturned ==
    /\ op.pc = "wait" /\ child = NoChild /\ op.kind = "recover"
    /\ Go("conclude")
    /\ UNCHANGED <<disk, rest>>

(* complete(): the saved cleanup evidence alone decides *)
Conclude ==
    /\ op.pc = "conclude"
    /\ files' = IF att[Last].st \in {"recovered", "reconciled"}
                THEN files \cup {<<"recovered", Last>>} ELSE files
    /\ End
    /\ UNCHANGED <<registry, trials, journal, life, rest>>

-----------------------------------------------------------------------------
(* Operations.run and continue_clean *)

(* run(): the journal is created in a new directory *)
Create ==
    /\ op.pc = "create"
    /\ Persist(Phase.admitted)
    /\ Go("check")
    /\ UNCHANGED <<registry, trials, files, life, rest>>

(* Nothing planned exists yet and the whole reserve is still there. *)
Check ==
    /\ op.pc = "check" /\ InTime
    /\ \A e \in Entries : att[e].st = "missing"
    /\ Persist(Phase.experiment_running)
    /\ Go("submit")
    /\ UNCHANGED <<registry, trials, files, life, rest>>

(* Whatever is not claimed as completed is continued. *)
LoadRewrites ==                                                       \* variant
    /\ op.pc = "load" /\ claim = "pending"
    /\ Go("continue")
    /\ UNCHANGED <<disk, rest>>

(* reconcile(): a completed claim is only reported, a completed journal    *)
(* only finished, anything else continued.                                 *)
Load ==
    /\ op.pc = "load"
    /\ \/ claim = "completed" /\ journal.status = "completed" /\ End
       \/ claim = "pending" /\ journal.status = "completed" /\ Go("reverify")
       \/ claim = "pending" /\ journal.status # "completed" /\ Go("continue")
    /\ UNCHANGED <<disk, rest>>

(* group_evidence: every submitted attempt terminal and clean or retired   *)
(* and absent, the inventory complete, and the last attempt's final        *)
(* snapshot there                                                          *)
Evidence ==
    /\ coord.made /\ Resolved
    /\ coord.closed => coord.settled = Expected
    /\ Expected # {} =>
           att[CHOOSE e \in Expected : \A f \in Expected : f <= e].final

(* continue_clean up to the life of the restoration                        *)
Continue ==
    /\ op.pc = "continue" /\ InTime /\ Evidence
    /\ IF journal.phase <= Phase.seal_intent
       THEN IF coord.closed
            THEN Go("sealed") /\ UNCHANGED journal
            ELSE /\ Journal(Phase.seal_intent, "current", journal.lifecycle)
                 /\ Go("seal")
       ELSE /\ journal.coordinator = "current"
            /\ Go("handoff")
            /\ UNCHANGED journal
    /\ UNCHANGED <<registry, trials, files, life, rest>>

(* seal(): the closure's parent is the coordinator whose sealing was       *)
(* intended; the report is written once                                    *)
Sealed ==
    /\ op.pc = "sealed" /\ coord.closed /\ Evidence
    /\ journal.phase = Phase.seal_intent => coord.parent
    /\ files' = files \cup {The("report")}
    /\ Journal(Phase.group_sealed, "current", journal.lifecycle)
    /\ Go("handoff")
    /\ UNCHANGED <<registry, trials, life, rest>>

HandedOver == journal.phase >= Phase.handoff_prepared

HandoffIntent ==
    /\ op.pc = "handoff" /\ ~HandedOver /\ InTime
    /\ Persist(Phase.handoff_intent)
    /\ Go("prepare")
    /\ UNCHANGED <<registry, trials, files, life, rest>>

(* handoff_refs under the serialization and world locks: prepared once, or *)
(* found as prepared, with the lifecycle's preflight                       *)
Prepare ==
    /\ op.pc = "prepare" /\ life = "none" /\ InTime
    /\ files' = files \cup {The("handoff")}
    /\ Go("prepared")
    /\ UNCHANGED <<registry, trials, journal, life, rest>>

Prepared ==
    /\ op.pc = "prepared"
    /\ Persist(Phase.handoff_prepared)
    /\ Go("handoff")
    /\ UNCHANGED <<registry, trials, files, life, rest>>

(* The restoration's deadline is set once and never again. *)
Intend ==
    /\ op.pc = "handoff" /\ HandedOver /\ InTime
    /\ IF journal.phase < Phase.restoration_intent
       THEN Persist(Phase.restoration_intent) ELSE UNCHANGED journal
    /\ Go("restore")
    /\ UNCHANGED <<registry, trials, files, life, rest>>

(* The target's journal is taken for absent. *)
RestoreAfresh ==                                                      \* variant
    /\ op.pc = "restore" /\ InTime /\ life # "done"
    /\ Journal(Phase.normal_restoring, journal.coordinator, "none")
    /\ life' = "none"
    /\ Go("restoring")
    /\ UNCHANGED <<registry, trials, files, rest>>

(* An absent lifecycle journal is started, an unfinished one reconciled on *)
(* an exact reference only, a completed one verified.                      *)
Restore ==
    /\ op.pc = "restore" /\ InTime
    /\ \/ /\ life = "none" /\ ~op.quoted /\ journal.lifecycle = "none"
          /\ Persist(Phase.normal_restoring)
          /\ Go("restoring")
       \/ /\ life \notin {"none", "done"}
          /\ op.quoted \/ journal.lifecycle = "current"
          /\ Journal(Phase.normal_restoring, journal.coordinator, "current")
          /\ Go("restoring")
       \/ /\ life = "done"
          /\ Go("verify") /\ UNCHANGED journal
    /\ UNCHANGED <<registry, trials, files, life, rest>>

(* The normal lifecycle, started or reconciled with the remaining time of  *)
(* the operation (BoundLifecycle): publish, ask once, name the instance,   *)
(* finish.                                                                 *)
LifecycleStep(from, to) ==
    /\ op.pc = "restoring" /\ InTime /\ life = from
    /\ life' = to
    /\ LifecycleWritten
    /\ IF to = "done" THEN Go("verify") ELSE UNCHANGED op
    /\ UNCHANGED <<registry, trials, files, over, waiting, other, child, commands>>

LifecyclePublish == LifecycleStep("none", "open") /\ UNCHANGED <<asked, up>>
LifecycleAsk ==
    LifecycleStep("open", "asked") /\ asked' = asked + 1 /\ UNCHANGED up
LifecycleName ==
    LifecycleStep("asked", "named") /\ up' = TRUE /\ UNCHANGED asked
LifecycleFinish ==
    LifecycleStep("named", "done") /\ up /\ UNCHANGED <<asked, up>>

(* verify_normal: the completed journal and the instance it names, which   *)
(* is still the one running; the verification is written once.             *)
Verified == life = "done" /\ up /\ InTime

Verify ==
    /\ op.pc = "verify" /\ Verified
    /\ files' = files \cup {The("verification")}
    /\ Journal(Phase.normal_verified, journal.coordinator, "current")
    /\ Go("complete")
    /\ UNCHANGED <<registry, trials, life, rest>>

Complete ==
    /\ op.pc = "complete"
    /\ Persist(Phase.completed)
    /\ Go("receipt")
    /\ UNCHANGED <<registry, trials, files, life, rest>>

(* The terminal marker was lost after the journal was completed: verify    *)
(* again, write nothing but the same receipt.                              *)
Reverify ==
    /\ op.pc = "reverify" /\ Verified
    /\ Go("receipt")
    /\ UNCHANGED <<disk, rest>>

-----------------------------------------------------------------------------
(* Admission.finish *)
NoReceipt == [by |-> "none", writes |-> 0]

Evidenced ==
    [by |-> IF op.kind \in WrapperKinds THEN "group"
            ELSE IF op.kind = "abort" THEN "abort" ELSE "experiment",
     writes |-> IF op.kind \in WrapperKinds THEN journal.writes ELSE 0]

(* The receipt is created, or the one that is there is this very receipt.  *)
Receipt ==
    /\ op.pc = "receipt" /\ claim = "pending"
    /\ receipt \in {NoReceipt, Evidenced}
    /\ receipt' = Evidenced
    /\ Go("marker")
    /\ UNCHANGED <<claim, owner, trials, files, journal, life, rest>>

Marker ==
    /\ op.pc = "marker"
    /\ claim' = "completed"
    /\ IF op.kind = "abort" THEN Go("certify") ELSE End
    /\ UNCHANGED <<receipt, owner, trials, files, journal, life, rest>>

-----------------------------------------------------------------------------
(* reconcile_locked: the status after a cleanup that returned *)

(* The failed journal is kept before anything of the runtime is read.      *)
Save ==
    /\ op.pc = "save" /\ Last > 0 /\ Last \notin coord.settled /\ ~coord.closed
    /\ <<"descriptor", Last>> \in files
    /\ The("failed_status") \in files \/ CleanupReturned(Last)
    /\ files' = files \cup {The("failed_status")}
    /\ IF att[Last].st = "reconciled" THEN Go("report")
       ELSE CleanupReturned(Last) /\ Go("observe")
    /\ \A e \in 1..(Last - 1) : att[e].st \in Clean
    /\ \A e \in (Last + 1)..N : att[e].st = "missing"
    /\ UNCHANGED <<registry, trials, journal, life, rest>>

(* observed_status(), in the transition the configuration names *)
Observe ==
    /\ op.pc = "observe" /\ waiting
    /\ Go("prove_status")
    /\ UNCHANGED <<disk, rest>>

(* The proof is written once; a later observation confirms it, and neither *)
(* counts if the failed journal is no longer what was kept.                *)
ProveStatus ==
    /\ op.pc = "prove_status" /\ CleanupReturned(Last)
    /\ files' = files \cup {The("status_proof")}
    /\ Go("commit")
    /\ UNCHANGED <<registry, trials, journal, life, rest>>

(* commit_reconciliation(): the proved status replaces the failed one      *)
Commit ==
    /\ op.pc = "commit"
    /\ att' = [att EXCEPT ![Last].st = "reconciled"]
    /\ Go("report")
    /\ UNCHANGED <<registry, coord, files, journal, life, rest>>

Report ==
    /\ op.pc = "report"
    /\ files' = files \cup {The("status_complete")}
    /\ End
    /\ UNCHANGED <<registry, trials, journal, life, rest>>

-----------------------------------------------------------------------------
(* execute() of the abort *)

(* validate_proof: one submission, never touched, and nothing else exists  *)
Untouched ==
    /\ coord.made /\ Last = 1 /\ ~coord.retired /\ coord.settled = {}
    /\ ~coord.closed
    /\ NeverTouched(1)
    /\ \A e \in 2..N : att[e].st = "missing"

Folder ==
    /\ op.pc = "folder"
    /\ files' = files \cup {The("abort")}
    /\ IF claim = "completed" THEN Go("certify") ELSE Go("intent")
    /\ UNCHANGED <<registry, trials, journal, life, rest>>

AbortIntent ==
    /\ op.pc = "intent"
    /\ files' = files \cup {The("intent")}
    /\ Go("prove")
    /\ UNCHANGED <<registry, trials, journal, life, rest>>

(* observe(): the services are stopped and the browser waits *)
AbortObserves == ~up

(* The proof is written once, with an observation before it and another    *)
(* just before the claim is finished.                                      *)
Prove ==
    /\ op.pc = "prove" /\ Untouched /\ AbortObserves
    /\ files' = files \cup {The("proof")}
    /\ Go("receipt")
    /\ UNCHANGED <<registry, trials, journal, life, rest>>

(* The certificate, also after its loss; certified() then accepts it.      *)
Certify ==
    /\ op.pc = "certify" /\ claim = "completed"
    /\ The("proof") \in files /\ Untouched /\ receipt.by = "abort"
    /\ files' = files \cup {The("certificate")}
    /\ End
    /\ UNCHANGED <<registry, trials, journal, life, rest>>

(* certified(), content with a proof. *)
CertifiedIfProved == The("proof") \in files /\ claim = "completed"    \* variant

(* certified(): a partial abort fails closed *)
Certified == /\ The("certificate") \in files /\ Untouched
             /\ claim = "completed" /\ receipt.by = "abort"

(* TrialRunner._require_no_unrecovered for a trial of another operation,   *)
(* which the gate lets begin when nothing is pending                       *)
OtherTrial ==
    /\ Free /\ claim = "completed" /\ ~other
    /\ The("abort") \in files => Certified
    /\ \A e \in Entries :
           \/ att[e].st \in Clean \cup {"missing"}
           \/ The("abort") \in files /\ e = 1
    /\ other' = TRUE
    /\ UNCHANGED <<disk, up, over, waiting, op, child, asked, commands>>

-----------------------------------------------------------------------------
(* The host *)
TimePasses ==
    /\ "total" \notin over
    /\ over' = IF /\ journal.phase >= Phase.restoration_intent
                  /\ "restoration" \notin over
               THEN over \cup {"restoration"} ELSE {"restoration", "total"}
    /\ UNCHANGED <<disk, up, waiting, other, op, child, asked, commands>>

BrowserMoves ==
    /\ waiting /\ waiting' = FALSE
    /\ UNCHANGED <<disk, up, over, other, op, child, asked, commands>>

ServicesStop ==
    /\ up /\ up' = FALSE
    /\ UNCHANGED <<disk, over, waiting, other, op, child, asked, commands>>

Work == \/ Open \/ AlreadyCompleted \/ Submit \/ AllSubmitted \/ Dispatch
        \/ Returned \/ Seal
        \/ Describe \/ RecoveryDispatch \/ RecoveryReturned \/ Conclude
        \/ Create \/ Check \/ Load \/ Continue \/ Sealed \/ HandoffIntent
        \/ Prepare \/ Prepared \/ Intend \/ Restore
        \/ LifecyclePublish \/ LifecycleAsk \/ LifecycleName \/ LifecycleFinish
        \/ Verify \/ Complete \/ Reverify \/ Receipt \/ Marker
        \/ Save \/ Observe \/ ProveStatus \/ Commit \/ Report
        \/ Folder \/ AbortIntent \/ Prove \/ Certify

ChildWork == ChildEnters \/ ChildRefused \/ ChildEnds \/ ChildKilled

Next == \/ Command \/ Work \/ ChildWork \/ Raise \/ Kill \/ Retire
        \/ OtherTrial \/ TimePasses \/ BrowserMoves \/ ServicesStop

Init ==
    /\ claim = "none" /\ receipt = NoReceipt /\ owner = "none"
    /\ coord = NoCoordinator
    /\ att = [e \in Entries |-> [st |-> "missing", final |-> FALSE]]
    /\ files = {} /\ journal = NoJournal /\ life = "none"
    /\ up = FALSE /\ over = {} /\ waiting = TRUE /\ other = FALSE
    /\ op = Idle /\ child = NoChild /\ asked = 0 /\ commands = 0

Spec == Init /\ [][Next]_vars

-----------------------------------------------------------------------------
(* Properties *)

(* The steps of each program *)
Continuing == {"continue", "seal", "sealed", "handoff", "prepare", "prepared",
               "restore", "restoring", "verify", "complete", "receipt", "marker"}
Submitting == {"submit", "dispatch", "wait", "seal", "receipt", "marker"}

StepsOf(kind) ==
    CASE kind = "none"      -> {"idle"}
      [] kind = "run"       -> {"create", "check"} \cup Submitting \cup Continuing
      [] kind = "reconcile" -> {"load", "reverify"} \cup Continuing
      [] kind = "begin"     -> Submitting
      [] kind = "resume"    -> {"open"} \cup Submitting
      [] kind = "seal"      -> {"open", "seal", "receipt", "marker"}
      [] kind = "recover"   -> {"describe", "recover", "wait", "conclude"}
      [] kind = "status"    -> {"save", "observe", "prove_status", "commit", "report"}
      [] kind = "abort"     -> {"folder", "intent", "prove", "receipt", "marker", "certify"}

PCs == UNION {StepsOf(kind) : kind \in Kinds \cup {"none"}}

TypeOK ==
    /\ claim \in {"none", "pending", "completed"}
    /\ receipt \in [by : {"none", "group", "experiment", "abort"},
                    writes : 0..2]
    /\ owner \in {"none", "group", "experiment"}
    /\ coord \in Coordinators
    /\ att \in [Entries -> Attempts]
    /\ journal \in Journals
    /\ life \in {"none", "open", "asked", "named", "done"}
    /\ up \in BOOLEAN /\ waiting \in BOOLEAN /\ other \in BOOLEAN
    /\ over \subseteq {"restoration", "total"}
    /\ op \in [kind : Kinds \cup {"none"}, pc : PCs, quoted : BOOLEAN]
    /\ child \in [entry : 0..N, entered : BOOLEAN, recovery : BOOLEAN,
                  orphan : BOOLEAN]
    /\ asked \in 0..2 /\ commands \in 0..MaxCommands

(* Whatever was interrupted, the wrapper can read its journal back, and    *)
(* what the journal and the trial's own journal say is backed by the file  *)
(* that was to be written first: a reconciled status by the kept failure   *)
(* and the proof of its observation, a phase by its evidence.              *)
Backed ==
    /\ journal.phase > Phase.absent => Loads
    /\ journal.phase >= Phase.group_sealed =>
           coord.closed /\ The("report") \in files
    /\ journal.phase >= Phase.handoff_prepared => The("handoff") \in files
    /\ journal.phase >= Phase.normal_verified => The("verification") \in files
    /\ \A e \in Entries : att[e].st = "reconciled" =>
           {<<"descriptor", e>>, The("failed_status"), The("status_proof")}
               \subseteq files

(* A claim ends one way, and what its receipt names stays as it was: the   *)
(* wrapper's by the one completed journal that was ever written, of a      *)
(* group whose normal services came back; the coordinator's by a sealed    *)
(* group; the abort's by a group that nothing was run for.                 *)
OneEnd ==
    /\ claim = "completed" => receipt # NoReceipt
    /\ receipt.by = "group" =>
           /\ journal.status = "completed" /\ journal.writes = receipt.writes
           /\ life = "done"
    /\ receipt.by = "experiment" => coord.closed /\ Resolved /\ life = "none"
    /\ receipt.by = "abort" => Untouched /\ life = "none"

(* No other trial starts on the root while an attempt of this group is     *)
(* unresolved: not while the claim is pending, and after an abort not      *)
(* before its certificate exists, wherever the abort was interrupted.      *)
NoTrialOverFailure ==
    other => \A e \in Entries :
        \/ att[e].st \in Clean \cup {"missing"}
        \/ e = 1 /\ att[e].st = "untouched" /\ The("certificate") \in files

(* run() and reconcile() restore the normal services at most once for a    *)
(* group, however often they are interrupted and repeated; only when no    *)
(* child of the group is left, the rest of the plan is withdrawn and every *)
(* attempt that was made is clean; and never after the deadline that was   *)
(* recorded with the intent to restore them, by any later command.         *)
RestoredOnce ==
    /\ [](asked <= 1)
    /\ [](life # "none" => /\ child = NoChild
                           /\ coord.closed /\ Resolved
                           /\ coord.settled = Expected)
    /\ [][asked' > asked => over = {}]_vars

-----------------------------------------------------------------------------
(* The inductive invariant behind these *)

(* The phases of the wrapper's journal at each step of its programs *)
PhasesAt(pc) ==
    CASE pc = "create" -> {Phase.absent}
      [] pc = "check" -> {Phase.admitted}
      [] pc \in {"submit", "dispatch", "wait"} -> {Phase.experiment_running}
      [] pc = "continue" -> Phase.admitted..Phase.normal_verified
      [] pc = "seal" -> {Phase.seal_intent}
      [] pc = "sealed" -> Phase.admitted..Phase.seal_intent
      [] pc = "handoff" -> Phase.group_sealed..Phase.normal_verified
      [] pc \in {"prepare", "prepared"} -> {Phase.handoff_intent}
      [] pc \in {"restore", "verify"} -> Phase.restoration_intent..Phase.normal_verified
      [] pc = "restoring" -> {Phase.normal_restoring}
      [] pc = "complete" -> {Phase.normal_verified}
      [] pc \in {"reverify", "receipt", "marker"} -> {Phase.completed}
      [] OTHER -> Phases \ {Phase.absent}

(* The last submission, while it is not decided *)
Current == Last > 0 /\ ~coord.closed /\ ~coord.retired /\ Last \notin coord.settled

(* A command acts for the program that owns the claim, and what it found   *)
(* or wrote before its next step is still so.                              *)
CommandInv ==
    /\ op.pc \in StepsOf(op.kind)
    /\ op.kind # "none" => claim # "none"
    /\ op.kind \in WrapperKinds => owner = "group" /\ journal.phase \in PhasesAt(op.pc)
    /\ op.kind \in ExperimentKinds \cup {"recover"} => owner = "experiment"
    /\ op.pc = "wait" \/ op.kind \in {"recover", "status"} => claim = "pending"
    /\ child # NoChild => op.pc = "wait" \/ op.kind = "none"
    /\ op.pc \in {"dispatch", "wait", "recover"} => Current
    /\ op.pc = "dispatch" => att[Last].st = "missing"
    /\ op.pc \in {"observe", "prove_status", "commit"} =>
           /\ Current /\ att[Last].st = "unready"
           /\ {<<"descriptor", Last>>, The("failed_status")} \subseteq files
    /\ op.pc = "commit" => The("status_proof") \in files
    /\ op.pc \in {"sealed", "handoff", "prepare", "prepared", "restore", "restoring"}
           => coord.closed
    /\ op.pc = "prepared" => The("handoff") \in files
    /\ op.pc = "verify" => life = "done"
    /\ op.pc \in {"receipt", "marker"} =>
           /\ op.kind \in ExperimentKinds => coord.closed
           /\ op.kind = "abort" => Untouched
    /\ op.pc = "marker" => receipt # NoReceipt

(* A child runs for the last submission only, under a pending claim.       *)
ChildInv ==
    child # NoChild =>
        /\ child.entry = Last /\ claim = "pending" /\ Current
        /\ att[Last].st \in CASE child.recovery -> Broken
                             [] child.entered /\ ~child.recovery -> {"running"}
                             [] OTHER -> {"missing"}

(* Only the last submission can be unresolved. *)
TrialsInv ==
    /\ \A e \in Entries : e < Last => att[e].st \in Clean
    /\ \A e \in Entries : e > Last => att[e].st = "missing"
    /\ coord.retired => Last > 0 /\ att[Last].st = "missing"
    /\ coord.settled \subseteq Expected
    /\ coord.closed => coord.made /\ Resolved /\ coord.settled = Expected

(* Only the owner's program writes the wrapper's journal or restores the   *)
(* services, and both only of a sealed group.                              *)
WrapperInv ==
    /\ journal.phase = Phase.absent => journal = NoJournal
    /\ owner # "group" => journal = NoJournal /\ life = "none"
    /\ journal.writes = IF journal.phase = Phase.completed THEN 1 ELSE 0
    /\ journal.phase >= Phase.normal_verified => life = "done"
    /\ life # "none" => coord.closed
    /\ asked = IF life \in {"none", "open"} THEN 0 ELSE 1

(* The claim is begun once, by its owner, and other trials wait for its    *)
(* end.                                                                    *)
ClaimInv ==
    /\ claim = "none" <=> owner = "none"
    /\ other => claim = "completed"
    /\ receipt.by \in {"group", "experiment"} => owner = receipt.by

(* The journals, the files and the claim of a group agree at every step,   *)
(* whatever was interrupted.                                               *)
GroupInv ==
    /\ TypeOK /\ Backed /\ OneEnd
    /\ ChildInv /\ TrialsInv /\ WrapperInv /\ ClaimInv /\ CommandInv

=============================================================================
