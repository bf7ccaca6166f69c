----------------------------- MODULE BatchQueue -----------------------------
(***************************************************************************)
(* The durable batch queue of scripts/maplebench.py: class Queue over      *)
(* SQLite, the single worker (worker_loop), the child process that         *)
(* executes an attempt (execute_trial, reset_world), rendering, and the    *)
(* commands that run beside the worker without its locks: submit, cancel,  *)
(* status and render.                                                      *)
(*                                                                         *)
(* One batch.  A transaction is a step; so is what lies between two        *)
(* transactions, and the worker can die between any two steps.  Calls and  *)
(* tokens follow one rule and are kept as one resource.  Under systemd     *)
(* (install-services.py, KillMode=control-group) the worker's death takes  *)
(* its child along; a worker started by hand leaves it behind, because it  *)
(* has a session of its own and inherits no lock.                          *)
(***************************************************************************)
EXTENDS Integers, FiniteSets, Functions

CONSTANTS
    NumTrials,
    MaxAttempts,       \* max_attempts of the manifest
    MaxApiCalls,       \* the batch's budget
    MaxCallsPerTrial,  \* what one attempt reserves, if there is that much
    Commands,          \* invocations of the other commands
    MaxFaults,         \* deaths and exceptions there can be
    Supervised,        \* the worker runs as the installed service
    None

ASSUME BatchAssumption ==
    /\ NumTrials \in Nat \ {0} /\ MaxAttempts \in Nat \ {0}
    /\ MaxApiCalls \in Nat /\ MaxCallsPerTrial \in Nat \ {0}
    /\ MaxFaults \in Nat /\ Supervised \in BOOLEAN
    /\ None \notin Int

Trials == 1..NumTrials
Runs   == Trials \X (1..MaxAttempts)     \* an attempt and its directory

VARIABLES
    trial,     \* table trials
    attempt,   \* table attempts
    batch,     \* batches.status, also in queue.json and the gallery
    saved,     \* saved[r]: r's score.json
    video,     \* trials with a valid video
    child,     \* child[r]: the process that executes r
    spent,     \* spent[r]: history, calls r has made at the provider
    world,     \* the Cosmic service and its batch override
    worker,    \* the worker's locals
    command,   \* command[c]: the locals of another command
    owed,      \* history: runs whose score was saved when the worker died
    faults

vars == <<trial, attempt, batch, saved, video, child, spent, world, worker,
          command, owed, faults>>

disk == <<batch, saved, video>>

-----------------------------------------------------------------------------
(* result is kept as whether it is a model's score, and its render count.  *)
Terminal == {"completed", "infrastructure_error", "budget_exhausted", "cancelled"}
Scored   == {"completed", "rendering"}

Rows == [status : Terminal \cup {"absent", "queued", "running", "rendering"},
         attempt : 0..MaxAttempts, scored : BOOLEAN, renders : 0..2]

Accounts == [status : {"none", "running", "interrupted", "infrastructure_error",
                       "completed"},
             reserved : Nat, used : Nat \cup {None}]

Scores == [reason : {"none", "infrastructure", "model"}, complete : BOOLEAN]

Live     == {"reset", "boot", "play", "save", "saved"}
Children == Live \cup {"none", "done", "failed"}   \* reaped: "none"

Summaries == {"absent", "queued", "running", "completed", "completed_with_errors"}

WorkerPCs == {"down", "recover", "adopt", "renders", "claim", "launch", "wait",
              "score", "fail", "mark", "render", "rendering", "publish", "write",
              "restore", "restart", "idle"}

Down == [pc |-> "down", task |-> None, todo |-> {}, then |-> "down",
         restored |-> FALSE, view |-> "absent"]

CommandPCs == {"idle", "write", "render"}

TypeOK ==
    /\ trial \in [Trials -> Rows]
    /\ attempt \in [Runs -> Accounts]
    /\ batch \in Summaries
    /\ saved \in [Runs -> Scores]
    /\ video \subseteq Trials
    /\ child \in [Runs -> Children]
    /\ spent \in [Runs -> Nat]
    /\ world \in [override : BOOLEAN, cosmic : {"normal", "trial", "stopped"}]
    /\ worker \in [pc : WorkerPCs, task : Trials \cup {None}, todo : SUBSET Trials,
                   then : WorkerPCs, restored : BOOLEAN, view : Summaries]
    /\ command \in [Commands -> [pc : CommandPCs, task : Trials \cup {None},
                                 view : Summaries]]
    /\ owed \subseteq Runs
    /\ faults \in 0..MaxFaults

NoCommand == [pc |-> "idle", task |-> None, view |-> "absent"]

Init ==
    /\ trial = [t \in Trials |-> [status |-> "absent", attempt |-> 0,
                                  scored |-> FALSE, renders |-> 0]]
    /\ attempt = [r \in Runs |-> [status |-> "none", reserved |-> 0, used |-> None]]
    /\ batch = "absent"
    /\ saved \in [Runs -> {[reason |-> "none", complete |-> FALSE]}]
    /\ video = {}
    /\ child = [r \in Runs |-> "none"]
    /\ spent = [r \in Runs |-> 0]
    /\ world = [override |-> FALSE, cosmic |-> "normal"]
    /\ worker = Down
    /\ command \in [Commands -> {NoCommand}]
    /\ owed = {}
    /\ faults = 0

-----------------------------------------------------------------------------
(* What the tables say. *)
With(s)    == {t \in Trials : trial[t].status = s}
Current(t) == <<t, trial[t].attempt>>

(* COALESCE(used, reserved) *)
Charge(r) == IF attempt[r].used = None THEN attempt[r].reserved ELSE attempt[r].used
UsageKnown == SumFunction([r \in Runs |-> IF attempt[r].used = None THEN 0 ELSE attempt[r].used])
Usage     == SumFunction([r \in Runs |-> Charge(r)])

Summary ==
    IF With("absent") # {} THEN "absent"
    ELSE IF \A t \in Trials : trial[t].status \in Terminal
    THEN IF With("completed") = Trials THEN "completed" ELSE "completed_with_errors"
    ELSE IF With("running") \cup With("rendering") # {} THEN "running" ELSE "queued"

Fault == faults < MaxFaults /\ faults' = faults + 1

Go(step) == worker' = [worker EXCEPT !.pc = step]

(* The transaction of finish(): the attempt and its trial together.        *)
Finish(t, infrastructure, calls) ==
    /\ attempt' = [attempt EXCEPT ![Current(t)] =
           [@ EXCEPT !.status = IF infrastructure THEN "infrastructure_error" ELSE "completed",
                     !.used = calls]]
    /\ trial' = [trial EXCEPT ![t] =
           [@ EXCEPT !.status = IF ~infrastructure THEN "completed"
                                ELSE IF trial[t].attempt < MaxAttempts THEN "queued"
                                ELSE "infrastructure_error",
                     !.scored = ~infrastructure, !.renders = 0]]

(* finish() of what the attempt saved.                                     *)
FinishSaved(t) ==
    Finish(t, saved[Current(t)].reason = "infrastructure",
           IF saved[Current(t)].complete THEN spent[Current(t)] ELSE None)

-----------------------------------------------------------------------------
(* Starting: recover(), then recover_renders(). *)
WorkerStarts ==
    /\ worker.pc = "down"
    /\ Go("recover")
    /\ UNCHANGED <<trial, attempt, disk, child, spent, world, command, owed, faults>>

RecoverSaved(t) ==
    /\ worker.pc = "recover" /\ trial[t].status = "running"
    /\ saved[Current(t)].reason # "none"
    /\ FinishSaved(t)
    /\ IF saved[Current(t)].reason = "infrastructure" THEN UNCHANGED worker
       ELSE worker' = [worker EXCEPT !.pc = "adopt", !.task = t]
    /\ UNCHANGED <<disk, child, spent, world, command, owed, faults>>

Adopt ==
    /\ worker.pc = "adopt"
    /\ trial' = [trial EXCEPT ![worker.task].status = "rendering"]
    /\ worker' = [worker EXCEPT !.pc = "recover", !.task = None]
    /\ UNCHANGED <<attempt, disk, child, spent, world, command, owed, faults>>

(* Unknown usage is charged as reserved. *)
InterruptedOpen(t) ==
    /\ trial' = [trial EXCEPT ![t] =
           [@ EXCEPT !.status = IF trial[t].attempt < MaxAttempts THEN "queued"
                                ELSE "infrastructure_error",
                     !.scored = FALSE]]
    /\ UNCHANGED <<attempt, disk, child, spent, world, worker, command, owed, faults>>

Interrupted(t) ==
    /\ attempt' = [attempt EXCEPT ![Current(t)].status = "interrupted"]
    /\ trial' = [trial EXCEPT ![t] =
           [@ EXCEPT !.status = IF trial[t].attempt < MaxAttempts THEN "queued"
                                ELSE "infrastructure_error",
                     !.scored = FALSE]]
    /\ UNCHANGED <<disk, child, spent, world, worker, command, owed, faults>>

RecoverUnread(t) ==
    /\ worker.pc = "recover" /\ trial[t].status = "running"
    /\ Interrupted(t)

RecoverInterrupted(t) ==
    /\ worker.pc = "recover" /\ trial[t].status = "running"
    /\ saved[Current(t)].reason = "none"
    /\ Interrupted(t)

RecoverDone ==
    /\ worker.pc = "recover" /\ With("running") = {}
    /\ worker' = [worker EXCEPT !.pc = "renders",
                                !.todo = With("completed") \cup With("rendering")]
    /\ UNCHANGED <<trial, attempt, disk, child, spent, world, command, owed, faults>>

RecoverRender(t) ==
    /\ worker.pc = "renders" /\ t \in worker.todo
    /\ worker' = [worker EXCEPT !.pc = "render", !.task = t, !.todo = @ \ {t},
                                !.then = "renders"]
    /\ UNCHANGED <<trial, attempt, disk, child, spent, world, command, owed, faults>>

RecoverRendersDone ==
    /\ worker.pc = "renders" /\ worker.todo = {}
    /\ worker' = [Down EXCEPT !.pc = "claim"]
    /\ UNCHANGED <<trial, attempt, disk, child, spent, world, command, owed, faults>>

-----------------------------------------------------------------------------
(* The loop. *)
Least(a, b)  == IF a < b THEN a ELSE b
Affordable == Least(MaxCallsPerTrial, MaxApiCalls - Usage)

Reserve(t, r, calls) ==
    /\ trial' = [trial EXCEPT ![t].status = "running", ![t].attempt = r[2]]
    /\ attempt' = [attempt EXCEPT ![r] = [status |-> "running", reserved |-> calls,
                                          used |-> None]]
    /\ batch' = "running"

Publish(next) == [worker EXCEPT !.pc = "publish", !.then = next, !.task = None]

Claim(t) ==
    /\ worker.pc = "claim"
    /\ t \in With("queued") /\ \A u \in With("queued") : t <= u
    /\ \E calls \in 1..MaxCallsPerTrial :
           calls = Affordable /\ Reserve(t, <<t, trial[t].attempt + 1>>, calls)
    /\ worker' = [Publish("launch") EXCEPT !.task = t, !.restored = FALSE]
    /\ UNCHANGED <<saved, video, child, spent, world, command, owed, faults>>

(* Nothing to claim: what is queued cannot be paid for, all batches are    *)
(* published and the world is put back if it has not been.                 *)
ClaimNothingQuietly ==
    /\ worker.pc = "claim"
    /\ With("queued") # {} => Affordable < 1
    /\ trial' = [t \in Trials |-> IF trial[t].status = "queued"
                                  THEN [trial[t] EXCEPT !.status = "budget_exhausted"]
                                  ELSE trial[t]]
    /\ worker' = IF worker.restored THEN [worker EXCEPT !.pc = "idle"] ELSE Publish("restore")
    /\ UNCHANGED <<attempt, disk, child, spent, world, command, owed, faults>>

ClaimNothing ==
    /\ worker.pc = "claim"
    /\ With("queued") # {} => Affordable < 1
    /\ trial' = [t \in Trials |-> IF trial[t].status = "queued"
                                  THEN [trial[t] EXCEPT !.status = "budget_exhausted"]
                                  ELSE trial[t]]
    /\ worker' = Publish(IF worker.restored THEN "idle" ELSE "restore")
    /\ UNCHANGED <<attempt, disk, child, spent, world, command, owed, faults>>

(* restore_world: the override is removed and unloaded, then the service   *)
(* restarted.  Without an override a running service is left as it is.     *)
RestoreUnloads ==
    /\ worker.pc = "restore" /\ world.override
    /\ world' = [world EXCEPT !.override = FALSE]
    /\ Go("restart")
    /\ UNCHANGED <<trial, attempt, disk, child, spent, command, owed, faults>>

RestoreRestarts ==
    /\ worker.pc = "restart"
    /\ world' = [world EXCEPT !.cosmic = "normal"]
    /\ worker' = [worker EXCEPT !.pc = "idle", !.restored = TRUE]
    /\ UNCHANGED <<trial, attempt, disk, child, spent, command, owed, faults>>

RestoreStarts ==
    /\ worker.pc = "restore" /\ ~world.override
    /\ world' = [world EXCEPT !.cosmic = IF @ = "stopped" THEN "normal" ELSE @]
    /\ worker' = [worker EXCEPT !.pc = "idle", !.restored = TRUE]
    /\ UNCHANGED <<trial, attempt, disk, child, spent, command, owed, faults>>

Poll ==
    /\ worker.pc = "idle"
    /\ worker' = IF Supervised THEN [worker EXCEPT !.pc = "claim"]   \* --watch
                 ELSE Down
    /\ UNCHANGED <<trial, attempt, disk, child, spent, world, command, owed, faults>>

(* Popen *)
Launch ==
    /\ worker.pc = "launch"
    /\ child' = [child EXCEPT ![Current(worker.task)] = "reset"]
    /\ Go("wait")
    /\ UNCHANGED <<trial, attempt, disk, spent, world, command, owed, faults>>

LaunchFails ==
    /\ worker.pc = "launch" /\ Fault
    /\ Go("fail")
    /\ UNCHANGED <<trial, attempt, disk, child, spent, world, command, owed>>

Returned ==
    /\ worker.pc = "wait"
    /\ \/ child[Current(worker.task)] = "done" /\ Go("score")
       \/ child[Current(worker.task)] = "failed" /\ Go("fail")
    /\ child' = [child EXCEPT ![Current(worker.task)] = "none"]
    /\ UNCHANGED <<trial, attempt, disk, spent, world, command, owed, faults>>

(* child.wait() gives up: the group is killed first.                       *)
TimeoutLeavesChild ==
    /\ worker.pc = "wait" /\ child[Current(worker.task)] \in Live
    /\ Go("fail")
    /\ UNCHANGED <<trial, attempt, disk, child, spent, world, command, owed, faults>>

Timeout ==
    /\ worker.pc = "wait" /\ child[Current(worker.task)] \in Live
    /\ child' = [child EXCEPT ![Current(worker.task)] = "none"]
    /\ Go("fail")
    /\ UNCHANGED <<trial, attempt, disk, spent, world, command, owed, faults>>

Score ==
    /\ worker.pc = "score"
    /\ FinishSaved(worker.task)
    /\ worker' = IF saved[Current(worker.task)].reason = "infrastructure"
                 THEN Publish("claim") ELSE [worker EXCEPT !.pc = "mark"]
    /\ UNCHANGED <<disk, child, spent, world, command, owed, faults>>

(* The except branch, nothing recorded yet. *)
Fail ==
    /\ worker.pc = "fail"
    /\ Finish(worker.task, TRUE, None)
    /\ worker' = Publish("claim")
    /\ UNCHANGED <<disk, child, spent, world, command, owed, faults>>

ScoreRaises ==
    /\ worker.pc = "score" /\ Fault
    /\ Go("fail")
    /\ UNCHANGED <<trial, attempt, disk, child, spent, world, command, owed>>

Mark ==
    /\ worker.pc = "mark"
    /\ trial' = [trial EXCEPT ![worker.task].status = "rendering"]
    /\ worker' = [Publish("render") EXCEPT !.task = worker.task]
    /\ UNCHANGED <<attempt, disk, child, spent, world, command, owed, faults>>

(* Recorded: publication-error.json, and on with the next trial.           *)
PublicationError ==
    /\ \/ worker.pc = "mark"
       \/ worker.pc \in {"publish", "write"} /\ worker.then = "render"
       \/ worker.pc = "render" /\ worker.then # "renders"
    /\ Fault
    /\ worker' = Publish("claim")
    /\ UNCHANGED <<trial, attempt, disk, child, spent, world, command, owed>>

-----------------------------------------------------------------------------
(* finish_render: at most two persisted attempts, then completed anyway.   *)
Rendered == worker.task \in video \/ trial[worker.task].renders = 2

RenderAgain ==
    /\ worker.pc = "render" /\ ~Rendered
    /\ trial' = [trial EXCEPT ![worker.task].renders = @ + 1]
    /\ Go("rendering")
    /\ UNCHANGED <<attempt, disk, child, spent, world, command, owed, faults>>

RenderReturns ==
    /\ worker.pc = "rendering"
    /\ \/ video' = video \cup {worker.task}
       \/ UNCHANGED video
    /\ Go("render")
    /\ UNCHANGED <<trial, attempt, batch, saved, child, spent, world, command, owed, faults>>

RenderDone ==
    /\ worker.pc = "render" /\ Rendered
    /\ trial' = [trial EXCEPT ![worker.task].status = "completed"]
    /\ worker' = IF worker.then = "renders" THEN [worker EXCEPT !.pc = "renders", !.task = None]
                 ELSE Publish("claim")
    /\ UNCHANGED <<attempt, disk, child, spent, world, command, owed, faults>>

(* publish() reads the trials, then writes the batch.                      *)
PublishReads ==
    /\ worker.pc = "publish"
    /\ worker' = [worker EXCEPT !.pc = "write", !.view = Summary]
    /\ UNCHANGED <<trial, attempt, disk, child, spent, world, command, owed, faults>>

PublishWrites ==
    /\ worker.pc = "write"
    /\ batch' = IF worker.view = "absent" THEN batch ELSE worker.view
    /\ worker' = [worker EXCEPT !.pc = worker.then, !.view = "absent"]
    /\ UNCHANGED <<trial, attempt, saved, video, child, spent, world, command, owed, faults>>

-----------------------------------------------------------------------------
(* The end of the worker: a signal, an exception outside the try, or an    *)
(* interrupt while it waits, which kills the child first.                  *)
Killed == [r \in Runs |-> "none"]

Owed == {Current(t) : t \in {u \in With("running") : saved[Current(u)].reason = "model"}}

Dies(children) ==
    /\ worker.pc # "down" /\ Fault
    /\ child' = children
    /\ worker' = Down
    /\ owed' = owed \cup Owed
    /\ UNCHANGED <<trial, attempt, disk, spent>>

WorkerDies ==
    /\ Dies(IF Supervised THEN Killed ELSE child)
    /\ UNCHANGED <<world, command>>

WorkerInterrupted ==
    /\ worker.pc = "wait"
    /\ Dies(Killed)
    /\ UNCHANGED <<world, command>>

(* The override lies in /run. *)
Reboot ==
    /\ Dies(Killed)
    /\ world' = [override |-> FALSE, cosmic |-> "normal"]
    /\ command' \in [Commands -> {NoCommand}]

-----------------------------------------------------------------------------
(* The child: reset_world, run_agent, the score.  An exception anywhere    *)
(* ends it with a status other than 0.                                     *)
ChildGoes(r, from, to) ==
    /\ child[r] = from
    /\ child' = [child EXCEPT ![r] = to]
    /\ UNCHANGED <<trial, attempt, batch, video, worker, command, owed, faults>>

StopsWorld(r) ==
    /\ ChildGoes(r, "reset", "boot")
    /\ world' = [world EXCEPT !.cosmic = "stopped"]
    /\ UNCHANGED <<saved, spent>>

(* With only the override written, the world is as it is at the end.       *)
StartsWorld(r) ==
    /\ ChildGoes(r, "boot", "play")
    /\ world' = [override |-> TRUE, cosmic |-> "trial"]
    /\ UNCHANGED <<saved, spent>>

(* run_agent stays within the reservation it was given. *)
Spends(r) ==
    /\ spent[r] < attempt[r].reserved
    /\ ChildGoes(r, "play", "play")
    /\ spent' = [spent EXCEPT ![r] = @ + 1]
    /\ UNCHANGED <<saved, world>>

EndsEpisode(r) ==
    /\ ChildGoes(r, "play", "save")
    /\ world' = [world EXCEPT !.cosmic = "stopped"]
    /\ UNCHANGED <<saved, spent>>

SavesScore(r) ==
    /\ ChildGoes(r, "save", "saved")
    /\ \E reason \in {"infrastructure", "model"}, complete \in BOOLEAN :
           saved' = [saved EXCEPT ![r] = [reason |-> reason, complete |-> complete]]
    /\ UNCHANGED <<spent, world>>

Exits(r) ==
    /\ ChildGoes(r, "saved", "done")
    /\ UNCHANGED <<saved, spent, world>>

ChildFails(r) ==
    /\ \E step \in Live : ChildGoes(r, step, "failed")
    /\ UNCHANGED <<saved, spent, world>>

-----------------------------------------------------------------------------
(* The other commands, beside the worker.  Each ends with publish(): the   *)
(* read is taken with the command's last transaction, as early as it can   *)
(* be, the write comes when it may.                                        *)
Reads(c) == command' = [command EXCEPT ![c] = [pc |-> "write", task |-> None,
                                               view |-> Summary']]

Idle(c) == command[c].pc = "idle"

Submit(c) ==
    /\ Idle(c) /\ With("absent") = Trials
    /\ trial' = [t \in Trials |-> [trial[t] EXCEPT !.status = "queued"]]
    /\ batch' = "queued"
    /\ Reads(c)
    /\ UNCHANGED <<attempt, saved, video, child, spent, world, worker, owed, faults>>

Status(c) ==
    /\ Idle(c) /\ With("absent") = {}
    /\ UNCHANGED <<trial, attempt, disk, child, spent, world, worker, owed, faults>>
    /\ Reads(c)

Cancel(c) ==
    /\ Idle(c) /\ With("absent") = {}
    /\ trial' = [t \in Trials |-> IF trial[t].status = "queued"
                                  THEN [trial[t] EXCEPT !.status = "cancelled"]
                                  ELSE trial[t]]
    /\ Reads(c)
    /\ UNCHANGED <<attempt, disk, child, spent, world, worker, owed, faults>>

Render(c) ==
    /\ Idle(c)
    /\ \E t \in With("completed") \cup With("rendering") :
           command' = [command EXCEPT ![c] = [@ EXCEPT !.pc = "render", !.task = t]]
    /\ UNCHANGED <<trial, attempt, disk, child, spent, world, worker, owed, faults>>

RenderCommandReturns(c) ==
    /\ command[c].pc = "render"
    /\ video' = video \cup {command[c].task}
    /\ trial' = [trial EXCEPT ![command[c].task].status = "completed"]
    /\ Reads(c)
    /\ UNCHANGED <<attempt, batch, saved, child, spent, world, worker, owed, faults>>

RenderCommandFails(c) ==
    /\ command[c].pc = "render"
    /\ command' = [command EXCEPT ![c] = NoCommand]
    /\ UNCHANGED <<trial, attempt, disk, child, spent, world, worker, owed, faults>>

Writes(c) ==
    /\ command[c].pc = "write"
    /\ batch' = command[c].view
    /\ command' = [command EXCEPT ![c] = NoCommand]
    /\ UNCHANGED <<trial, attempt, saved, video, child, spent, world, worker, owed, faults>>

-----------------------------------------------------------------------------
Recovers ==
    \/ Adopt \/ RecoverDone \/ RecoverRendersDone
    \/ \E t \in Trials : RecoverSaved(t) \/ RecoverInterrupted(t) \/ RecoverRender(t)

Works ==
    \/ \E t \in Trials : Claim(t)
    \/ ClaimNothing \/ RestoreUnloads \/ RestoreRestarts \/ RestoreStarts \/ Poll
    \/ Launch \/ LaunchFails \/ Returned \/ Timeout
    \/ Score \/ ScoreRaises \/ Fail \/ Mark \/ PublicationError
    \/ RenderAgain \/ RenderReturns \/ RenderDone \/ PublishReads \/ PublishWrites

ChildStep(r) ==
    \/ StopsWorld(r) \/ StartsWorld(r) \/ Spends(r)
    \/ EndsEpisode(r) \/ SavesScore(r) \/ Exits(r) \/ ChildFails(r)

CommandStep(c) ==
    \/ Submit(c) \/ Status(c) \/ Cancel(c) \/ Render(c)
    \/ RenderCommandReturns(c) \/ RenderCommandFails(c) \/ Writes(c)

Next ==
    \/ WorkerStarts \/ Recovers \/ Works
    \/ WorkerDies \/ WorkerInterrupted \/ Reboot
    \/ \E r \in Runs : ChildStep(r)
    \/ \E c \in Commands : CommandStep(c)

Spec == Init /\ [][Next]_vars

(* systemd restarts the worker, every call of the worker returns or times  *)
(* out; nothing is asked of the child and of the other commands.           *)
FairSpec == Spec /\ WF_vars(WorkerStarts \/ Recovers \/ Works)

-----------------------------------------------------------------------------
LiveRuns == {r \in Runs : child[r] \in Live}

(* What a row of the tables says of the others, and a trial of its         *)
(* attempts                                                                *)
AttemptInv ==
    \A t \in Trials, n \in 1..MaxAttempts :
        LET a == attempt[<<t, n>>] IN
        /\ a.status = "none" <=> n > trial[t].attempt
        /\ a.status = "running" <=> n = trial[t].attempt /\ trial[t].status = "running"
        /\ a.status \in {"none", "running", "interrupted"} => a.used = None
        /\ a.status = "completed" <=> n = trial[t].attempt /\ trial[t].scored
        /\ spent[<<t, n>>] <= a.reserved

TrialInv ==
    \A t \in Trials :
        /\ trial[t].scored <=> trial[t].status \in Scored
        /\ trial[t].status = "absent" => trial[t].attempt = 0
        /\ trial[t].status = "queued" => trial[t].attempt < MaxAttempts
        /\ trial[t].status = "running" => trial[t].attempt > 0

(* What an attempt has saved and may still spend, whoever waits for it     *)
Unsaved == {"reset", "boot", "play", "save"}

RunInv ==
    \A t \in Trials, n \in 1..MaxAttempts :
        LET r == <<t, n>> IN
        /\ attempt[r].status = "none" =>
               /\ attempt[r].reserved = 0 /\ spent[r] = 0 /\ child[r] = "none"
               /\ saved[r].reason = "none"
        /\ attempt[r].used # None => child[r] \notin Unsaved /\ spent[r] = attempt[r].used
        /\ attempt[r].status = "running" =>
               /\ child[r] \in Unsaved => saved[r].reason = "none"
               /\ child[r] \in {"saved", "done"} => saved[r].reason # "none"

(* The worker has in hand what the table says is running, or nothing is.   *)
Publishing == worker.pc \in {"publish", "write"}
Launching  == worker.pc = "launch" \/ (Publishing /\ worker.then = "launch")
Rendering  == \/ worker.pc \in {"adopt", "mark", "render", "rendering"}
              \/ Publishing /\ worker.then = "render"
InHand     == Launching \/ worker.pc \in {"wait", "score", "fail"}

WorkerInv ==
    /\ \A t, u \in With("running") : t = u
    /\ InHand => With("running") = {worker.task} /\ ~worker.restored
    /\ ~InHand /\ worker.pc \notin {"down", "recover"} => With("running") = {}
    /\ Launching => /\ child[Current(worker.task)] = "none"
                    /\ saved[Current(worker.task)].reason = "none"
    /\ worker.pc = "score" => saved[Current(worker.task)].reason # "none"
    /\ Rendering => worker.task # None /\ trial[worker.task].status \in Scored
    /\ Publishing => worker.then \in {"launch", "claim", "restore", "idle", "render"}
    /\ worker.pc = "idle" \/ (Publishing /\ worker.then = "idle") => worker.restored
    /\ \A t \in worker.todo : trial[t].status \in Scored
    /\ \A r \in Runs : Supervised /\ child[r] \in Live =>
           worker.pc = "wait" /\ r = Current(worker.task)

(* A command that renders has a trial with a score.                        *)
CommandInv ==
    \A c \in Commands : command[c].pc = "render" =>
        command[c].task # None /\ trial[command[c].task].status \in Scored

(* A score that was saved under a dead worker waits for the next one.      *)
OwedInv ==
    \A r \in owed : trial[r[1]].status = "running" =>
        saved[r].reason = "model" /\ worker.pc \in {"down", "recover"}

(* An idle worker has left a world running, and no override to be loaded   *)
(* by the next start of the service.                                       *)
IdleWorldRuns ==
    Supervised =>
        /\ worker.pc = "restart" => ~world.override
        /\ worker.restored => ~world.override /\ world.cosmic # "stopped"

(* The tables, the worker and the child agree at every step, whoever died: *)
(* one trial runs, nothing is spent beyond its reservation, what is      *)
(* written down as used is what was, and an idle worker left the world running.    *)
BatchInv ==
    /\ TypeOK /\ AttemptInv /\ TrialInv /\ RunInv /\ WorkerInv /\ CommandInv
    /\ OwedInv /\ IdleWorldRuns

(* At most one attempt acts on the world, and none while the worker puts   *)
(* it back or has put it back.                                             *)
OneTrialInWorld ==
    Cardinality(LiveRuns) + (IF worker.pc \in {"restore", "restart", "idle"} THEN 1 ELSE 0) <= 1

(* A score that was on disk when the worker died decides its trial: it is  *)
(* never paid for again.                                                   *)
CrashAdoptsScore ==
    \A r \in owed : /\ trial[r[1]].attempt = r[2]
                    /\ trial[r[1]].status \in Scored \cup {"running"}

(* The promise, in the terms of PaidQueue. *)
queuePhase ==
    [t \in Trials |-> CASE trial[t].status = "absent" -> "unknown"
                        [] trial[t].status = "queued" -> "open"
                        [] trial[t].status = "running" -> "working"
                        [] trial[t].status \in Scored -> "scored"
                        [] OTHER -> "closed"]
queueCharge == [r \in Runs |-> Charge(r)]

Promise == INSTANCE PaidQueue WITH phase <- queuePhase, charge <- queueCharge,
                                   Tries <- 1..MaxAttempts, Budget <- MaxApiCalls

(* The provider is never asked for more than the batch may spend. *)
BudgetKept == SumFunction(spent) <= MaxApiCalls

ImplementsQueue == Promise!Spec /\ []BudgetKept

(* Every queued trial is decided (scored, given up, unaffordable or        *)
(* cancelled), and what the batch is said to be is in the end what its     *)
(* trials are, however publications of the worker and of other commands    *)
(* overlap.                                                                *)
Settles ==
    /\ \A t \in Trials : trial[t].status = "queued"
                            ~> trial[t].status \notin {"queued", "running"}
    /\ <>[](batch = Summary)
=============================================================================
