---------------------------- MODULE CosmicRuntime ----------------------------
(***************************************************************************)
(* The backend of one attempt: scripts/full_client_runtime.py.  The trial  *)
(* runner calls one operation after another (perform), each in a process   *)
(* of its own that keeps its memory in backend-state.json; an attempt that *)
(* failed is recovered by status, cleanup, status, as often as an operator *)
(* asks.  The process may be killed or raise between any two effects, and  *)
(* the game service, its drop-in, the browser and the controller run go    *)
(* their own ways.                                                         *)
(*                                                                         *)
(* The runner holds the world and queue locks while it runs, so nobody     *)
(* else starts the service then; once it is gone somebody may.  What is    *)
(* only read and compared (frozen inputs, identities, evidence) may refuse *)
(* at any step (Fault).  The bridge's own recovery is ControllerBridge's;  *)
(* here its run is a status and an acknowledgment.                         *)
(***************************************************************************)
EXTENDS Naturals, FiniteSets

CONSTANTS
    MaxFaults,   \* bound: kills and exceptions nothing asked for
    MaxHost      \* bound: deaths and starts of the service by others

ASSUME RuntimeAssumption == MaxFaults \in Nat /\ MaxHost \in Nat

VARIABLES
    trial,    \* the runner: status, the step it is at, and what it is for
    saved,    \* backend-state.json
    copies,   \* the failure- files of the attempt's folder
    score,    \* what collect_final found and scored
    unit,     \* the game service: running, its instance, its configuration
    file,     \* the trial's drop-in: none, created but not all written, whole
    loaded,   \* systemd has the drop-in loaded
    account,  \* loggedin of the account
    db,       \* the character's rows
    rows,     \* saves committed since the disconnect was requested
    desired,  \* the page the browser was last told to show
    page,     \* the page it shows
    run,      \* the controller run of the bridge: its status, failureAcknowledged
              \* (in memory) and its release.json
    done,     \* history: external actions taken
    faults, hosts

browser == <<desired, page>>
service == <<unit, file, loaded>>
game == <<account, db, rows>>
host == <<service, game, browser, run, hosts>>
vars == <<trial, saved, copies, score, host, done, faults>>

-----------------------------------------------------------------------------
Operations == {"restore", "start", "login", "run", "disconnect", "collect"}

(* configuration_cleanup: the checkpoint of the drop-in's removal          *)
Checkpoints == {"none", "remove_pending", "removed", "reload_pending",
                "verified"}

(* backend-state.json: made, the intents, and the receipts the later       *)
(* operations ask for.  inv and prev are InvocationIDs (0: none).          *)
States == [made : BOOLEAN, intents : SUBSET Operations, reset : BOOLEAN,
           dropin : BOOLEAN, prev : Nat, inv : Nat, login : BOOLEAN,
           logout : BOOLEAN, failure : BOOLEAN, preserved : BOOLEAN,
           config : Checkpoints, clean : BOOLEAN]

NoState == [made |-> FALSE, intents |-> {}, reset |-> FALSE, dropin |-> FALSE,
            prev |-> 0, inv |-> 0, login |-> FALSE, logout |-> FALSE,
            failure |-> FALSE, preserved |-> FALSE, config |-> "none",
            clean |-> FALSE]

Terminal == trial.st \in {"completed", "recovered"}
Running == trial.st \in {"running", "recovering"}

At(pc) == Running /\ trial.pc = pc
Go(pc) == trial' = [trial EXCEPT !.pc = pc]
Fails == trial' = [trial EXCEPT !.st = "failed", !.pc = "none"]

(* intent(): once per attempt, durable before the effect *)
Intent(operation) ==
    /\ operation \notin saved.intents
    /\ saved' = [saved EXCEPT !.intents = @ \cup {operation}]

(* once, or more often *)
Count(action) == done' = [done EXCEPT ![action] = IF @ = 0 THEN 1 ELSE 2]

Offline == account = "off"

(* The drop-in alone tells whose instance it is. *)
OwnedByFile == unit.up /\ saved.dropin /\ file = "whole"              \* variant

(* owned_dropin (by its recorded hash, which a torn file has not)          *)
OwnDropin == saved.dropin /\ file = "whole"

(* owned_dropin and validate_process: the recorded drop-in is there and    *)
(* the process has the attempt's environment; an instance that was never   *)
(* recorded is the attempt's if it is not the one before it                *)
Owned == /\ unit.up /\ OwnDropin /\ unit.cfg = "trial"
         /\ unit.inst # saved.prev /\ saved.inv \in {0, unit.inst}

OwnedServer == Owned /\ saved.inv = unit.inst

(* trial_configuration_absent: neither on disk nor in systemd *)
Absent == file = "none" /\ ~loaded

(* _active and _settled of the bridge's session *)
Active == run.st \in {"running", "cancelling"}
Settled == ~Active /\ (run.st \in {"none", "completed"} \/ run.acked)

Waiting == page = "waiting" /\ desired = "waiting" /\ Settled

(* status(): everything the attempt needs, or leaves behind *)
Ready == ~unit.up /\ Offline /\ Waiting /\ Absent
Conflict == unit.up /\ ~Owned

-----------------------------------------------------------------------------
(* The operations of a run *)

IsReady ==
    /\ At("ready") /\ Ready
    /\ Go("create")
    /\ UNCHANGED <<saved, copies, score, host, done, faults>>

(* perform(): the state is made with the first operation *)
Create ==
    /\ At("create")
    /\ saved' = [saved EXCEPT !.made = TRUE]
    /\ Go("restore")
    /\ UNCHANGED <<copies, score, host, done, faults>>

Restore ==
    /\ At("restore") /\ ~unit.up /\ Offline /\ Waiting
    /\ Intent("restore")
    /\ Go("sql")
    /\ UNCHANGED <<copies, score, host, done, faults>>

RestoreSql ==
    /\ At("sql") /\ ~unit.up /\ Offline
    /\ db' = "baseline"
    /\ Count("restores")
    /\ Go("reset")
    /\ UNCHANGED <<saved, copies, score, service, account, rows, browser, run,
                   hosts, faults>>

(* The baseline is read back; the receipt is saved when perform returns.   *)
Restored ==
    /\ At("reset") /\ db = "baseline"
    /\ saved' = [saved EXCEPT !.reset = TRUE]
    /\ Go("start")
    /\ UNCHANGED <<copies, score, host, done, faults>>

(* The intent without the ownership it is to make durable. *)
StartUnrecorded ==                                                    \* variant
    /\ At("start") /\ saved.reset /\ ~unit.up /\ Offline /\ Absent
    /\ Intent("start")
    /\ Go("dropin")
    /\ UNCHANGED <<copies, score, host, done, faults>>

(* start_server: ownership is durable before any external write *)
Start ==
    /\ At("start") /\ saved.reset /\ ~unit.up /\ Offline /\ Absent
    /\ "start" \notin saved.intents
    /\ saved' = [saved EXCEPT !.intents = @ \cup {"start"}, !.dropin = TRUE,
                              !.prev = unit.inst]
    /\ Go("dropin")
    /\ UNCHANGED <<copies, score, host, done, faults>>

(* save_bytes creates the file and then writes it. *)
CreateDropin ==
    /\ At("dropin") /\ file = "none"
    /\ file' = "torn"
    /\ Go("write")
    /\ UNCHANGED <<saved, copies, score, unit, loaded, game, browser, run,
                   hosts, done, faults>>

WriteDropin ==
    /\ At("write")
    /\ file' = "whole"
    /\ Go("reload")
    /\ UNCHANGED <<saved, copies, score, unit, loaded, game, browser, run,
                   hosts, done, faults>>

DaemonReload ==
    /\ At("reload")
    /\ loaded' = (file # "none")
    /\ Go("launch")
    /\ UNCHANGED <<saved, copies, score, unit, file, game, browser, run, hosts,
                   done, faults>>

Instance(i) == [up |-> TRUE, inst |-> i,
                cfg |-> IF loaded THEN "trial" ELSE "normal"]

Launch ==
    /\ At("launch")
    /\ unit' = Instance(unit.inst + 1)
    /\ Count("starts")
    /\ Go("invocation")
    /\ UNCHANGED <<saved, copies, score, file, loaded, game, browser, run,
                   hosts, faults>>

Invocation ==
    /\ At("invocation") /\ unit.up /\ unit.inst # saved.prev
    /\ saved' = [saved EXCEPT !.inv = unit.inst]
    /\ Go("online")
    /\ UNCHANGED <<copies, score, host, done, faults>>

(* wait_for_server_ready *)
Online ==
    /\ At("online") /\ OwnedServer
    /\ Go("login")
    /\ UNCHANGED <<saved, copies, score, host, done, faults>>

Login ==
    /\ At("login") /\ OwnedServer
    /\ Intent("login")
    /\ Go("connect")
    /\ UNCHANGED <<copies, score, host, done, faults>>

(* SessionCoordinator.navigate: the goal is set, the browser follows *)
Tell(p) == desired' = p /\ UNCHANGED page

Connect ==
    /\ At("connect") /\ ~Active /\ page = "waiting"
    /\ Tell("game")
    /\ Go("connected")
    /\ UNCHANGED <<saved, copies, score, service, game, run, hosts, done, faults>>

Connected ==
    /\ At("connected") /\ OwnedServer /\ page = "game" /\ account = "on"
    /\ saved' = [saved EXCEPT !.login = TRUE]
    /\ Go("ask")
    /\ UNCHANGED <<copies, score, host, done, faults>>

Ask ==
    /\ At("ask") /\ OwnedServer /\ saved.login /\ account = "on"
    /\ Intent("run")
    /\ Go("request")
    /\ UNCHANGED <<copies, score, host, done, faults>>

Request ==
    /\ At("request") /\ page = "game" /\ run.st = "none"
    /\ run' = [run EXCEPT !.st = "running"]
    /\ Count("requests")
    /\ Go("play")
    /\ UNCHANGED <<saved, copies, score, service, game, browser, hosts, faults>>

(* wait_for(completed): saved by the bridge, with its recording *)
Played ==
    /\ At("play") /\ OwnedServer /\ run.st = "completed"
    /\ Go("leave")
    /\ UNCHANGED <<saved, copies, score, host, done, faults>>

(* request_ordinary_disconnect, of the run or of its handler: one          *)
(* navigation, never issued again                                          *)
Leave ==
    /\ At("leave") /\ OwnedServer
    /\ Intent("disconnect")
    /\ rows' = 0
    /\ Go("navigate")
    /\ UNCHANGED <<copies, score, service, account, db, browser, run, hosts,
                   done, faults>>

Navigate ==
    /\ At("navigate") /\ ~Active
    /\ Tell("waiting")
    /\ Count("leaves")
    /\ Go("logout")
    /\ UNCHANGED <<saved, copies, score, service, game, run, hosts, faults>>

AfterLogout == IF trial.flow = "run" THEN "copy" ELSE "preserve"

(* Offline, and the native journal has exactly one save committed since    *)
(* the request.                                                            *)
Logout ==
    /\ At("logout") /\ OwnedServer /\ Waiting /\ Offline
    /\ rows = 1
    /\ saved' = [saved EXCEPT !.logout = TRUE]
    /\ Go(AfterLogout)
    /\ UNCHANGED <<copies, score, host, done, faults>>

(* The controller's files are copied and the receipt returned. *)
CopyController ==
    /\ At("copy") /\ Offline /\ saved.logout
    /\ Go("disconnect")
    /\ UNCHANGED <<saved, copies, score, host, done, faults>>

(* The operation of that name only verifies the receipt. *)
Disconnect ==
    /\ At("disconnect")
    /\ OwnedServer /\ Offline /\ saved.logout /\ "disconnect" \in saved.intents
    /\ Go("collect")
    /\ UNCHANGED <<saved, copies, score, host, done, faults>>

Collect ==
    /\ At("collect") /\ OwnedServer /\ Offline /\ saved.logout
    /\ Intent("collect")
    /\ Go("snapshot")
    /\ UNCHANGED <<copies, score, host, done, faults>>

NoScore == [db |-> "none", rows |-> 0, inst |-> 0, leaves |-> 0]

(* The final snapshot, then the evidence of the same instance, scored *)
Snapshot ==
    /\ At("snapshot")
    /\ score' = [db |-> db, rows |-> rows, inst |-> saved.inv,
                 leaves |-> done.leaves]
    /\ Go("score")
    /\ UNCHANGED <<saved, copies, host, done, faults>>

Scored ==
    /\ At("score") /\ OwnedServer /\ Offline
    /\ trial' = [trial EXCEPT !.pc = "cleanup", !.flow = "cleanup"]
    /\ UNCHANGED <<saved, copies, score, host, done, faults>>

-----------------------------------------------------------------------------
(* settle_owned_controller and preserve_failure_evidence *)

AfterSettle == IF trial.flow = "handler" THEN "leave" ELSE "evict"

(* cancel() acknowledges the failure in the bridge's memory at once, and   *)
(* does nothing to a run that is completed but for its thread.             *)
Settle ==
    /\ At("settle")
    /\ \/ run.st = "none" /\ Go(AfterSettle) /\ UNCHANGED run
       \/ /\ Active /\ Go("quiesce")
          /\ run' \in {run, [run EXCEPT !.st = "cancelling", !.acked = TRUE]}
       \/ run.st \in {"completed", "failed"} /\ Go("quiesce") /\ UNCHANGED run
    /\ UNCHANGED <<saved, copies, score, service, game, browser, hosts, done,
                   faults>>

Quiescent ==
    /\ At("quiesce") /\ ~Active
    /\ Go(IF run.st = "completed" THEN AfterSettle ELSE "record")
    /\ UNCHANGED <<saved, copies, score, host, done, faults>>

(* The actual status is saved before the failure is acknowledged for good. *)
Record ==
    /\ At("record")
    /\ saved' = [saved EXCEPT !.failure = TRUE]
    /\ Go("release")
    /\ UNCHANGED <<copies, score, host, done, faults>>

(* release_failed_run of the bridge: release.json, and its memory *)
Release ==
    /\ At("release")
    /\ run' = [run EXCEPT !.acked = TRUE, !.released = TRUE]
    /\ Go(AfterSettle)
    /\ UNCHANGED <<saved, copies, score, service, game, browser, hosts, done,
                   faults>>

AfterPreserve == IF saved.dropin THEN "remove" ELSE "wait"

(* The files are created one by one, each only if it does not exist.       *)
Preserve ==
    /\ At("preserve") /\ Offline
    /\ IF saved.failure /\ ~saved.preserved
       THEN copies = "none" /\ copies' = "some" /\ Go("preserved")
       ELSE /\ UNCHANGED copies
            /\ IF trial.flow = "handler" THEN Fails ELSE Go(AfterPreserve)
    /\ UNCHANGED <<saved, score, host, done, faults>>

(* The handler raises what it caught. *)
Preserved ==
    /\ At("preserved")
    /\ copies' = "all"
    /\ saved' = [saved EXCEPT !.preserved = TRUE]
    /\ IF trial.flow = "handler" THEN Fails ELSE Go(AfterPreserve)
    /\ UNCHANGED <<score, host, done, faults>>

-----------------------------------------------------------------------------
(* cleanup(), in a run or in a recovery *)

Cleanup ==
    /\ At("cleanup")
    /\ IF saved.made
       THEN /\ unit.up => Owned
            /\ saved' = [saved EXCEPT !.clean = FALSE]
            /\ trial' = [trial EXCEPT !.pc = "settle", !.up = unit.up]
       ELSE Ready /\ UNCHANGED saved /\ Go("idle")
    /\ UNCHANGED <<copies, score, host, done, faults>>

(* The unit read at the start of cleanup decides.  Recovery may repeat an  *)
(* uncertain navigation.                                                   *)
Evict ==
    /\ At("evict") /\ ~Active
    /\ IF trial.up
       THEN Tell("waiting") /\ Count("leaves") /\ Go("stop")
       ELSE UNCHANGED <<browser, done>> /\ Go("stopped")
    /\ UNCHANGED <<saved, copies, score, service, game, run, hosts, faults>>

Stop ==
    /\ At("stop") /\ Offline
    /\ unit' = [unit EXCEPT !.up = FALSE]
    /\ Go("stopped")
    /\ UNCHANGED <<saved, copies, score, file, loaded, game, browser, run,
                   hosts, done, faults>>

Stopped ==
    /\ At("stopped") /\ ~unit.up /\ Offline
    /\ Go("preserve")
    /\ UNCHANGED <<saved, copies, score, host, done, faults>>

(* A removal that was recorded is taken for done. *)
RemoveTrusting ==                                                     \* variant
    /\ At("remove")
    /\ \/ /\ saved.config # "verified" /\ OwnDropin
          /\ saved' = [saved EXCEPT !.config = "remove_pending"]
          /\ Go("unlink")
       \/ /\ saved.config # "verified" /\ file = "none"
          /\ saved' = [saved EXCEPT !.config = "verified"]
          /\ Go("wait")
       \/ /\ saved.config = "verified" /\ UNCHANGED saved
          /\ Go("wait")
    /\ UNCHANGED <<copies, score, host, done, faults>>

(* remove_trial_configuration: by the checkpoint and what is on disk; a    *)
(* file that is not what was recorded is not touched                       *)
Remove ==
    /\ At("remove")
    /\ \/ /\ saved.config = "verified" /\ Absent /\ UNCHANGED saved
          /\ Go("wait")
       \/ /\ saved.config # "verified" /\ OwnDropin
          /\ saved' = [saved EXCEPT !.config = "remove_pending"]
          /\ Go("unlink")
       \/ /\ saved.config = "none" /\ Absent
          /\ saved' = [saved EXCEPT !.config = "verified"]
          /\ Go("wait")
       \/ /\ saved.config \notin {"none", "verified"} /\ file = "none"
          /\ UNCHANGED saved
          /\ Go("unload")
    /\ UNCHANGED <<copies, score, host, done, faults>>

Unlink ==
    /\ At("unlink")
    /\ file' = "none"
    /\ Go("removed")
    /\ UNCHANGED <<saved, copies, score, unit, loaded, game, browser, run,
                   hosts, done, faults>>

Removed ==
    /\ At("removed")
    /\ saved' = [saved EXCEPT !.config = "removed"]
    /\ Go("unload")
    /\ UNCHANGED <<copies, score, host, done, faults>>

Unload ==
    /\ At("unload") /\ ~unit.up /\ Offline
    /\ saved' = [saved EXCEPT !.config = "reload_pending"]
    /\ Go("reload_again")
    /\ UNCHANGED <<copies, score, host, done, faults>>

ReloadAgain ==
    /\ At("reload_again")
    /\ loaded' = (file # "none")
    /\ Go("verify")
    /\ UNCHANGED <<saved, copies, score, unit, file, game, browser, run, hosts,
                   done, faults>>

Verify ==
    /\ At("verify") /\ Absent
    /\ saved' = [saved EXCEPT !.config = "verified"]
    /\ Go("wait")
    /\ UNCHANGED <<copies, score, host, done, faults>>

(* prepare_cleanup_wait *)
PrepareWait ==
    /\ At("wait") /\ Absent /\ ~Active
    /\ Tell("waiting")
    /\ Go("waiting")
    /\ UNCHANGED <<saved, copies, score, service, game, run, hosts, done, faults>>

Clean ==
    /\ At("waiting") /\ Waiting
    /\ ~unit.up /\ Offline /\ Absent
    /\ saved' = [saved EXCEPT !.clean = TRUE]
    /\ Go("idle")
    /\ UNCHANGED <<copies, score, host, done, faults>>

(* The last status of a run or of a recovery *)
IsIdle ==
    /\ At("idle") /\ Ready
    /\ trial' = [trial EXCEPT !.pc = "none",
                     !.st = IF @ = "running" THEN "completed" ELSE "recovered"]
    /\ UNCHANGED <<saved, copies, score, host, done, faults>>

(* TrialRunner.recover: only on the operator's word, and only to clean up  *)
Recover ==
    /\ trial.st = "failed"
    /\ trial' = [st |-> "recovering", pc |-> "observe", flow |-> "cleanup",
                 up |-> FALSE]
    /\ UNCHANGED <<saved, copies, score, host, done, faults>>

Observe ==
    /\ At("observe") /\ ~Conflict
    /\ Go("cleanup")
    /\ UNCHANGED <<saved, copies, score, host, done, faults>>

-----------------------------------------------------------------------------
(* Failures *)
TryBlock == {"request", "play", "leave", "navigate", "logout"}

(* An exception: run_controller still leaves the game, once; everything    *)
(* else is for the recovery.                                               *)
Raise ==
    /\ Running
    /\ IF /\ trial.flow = "run" /\ trial.pc \in TryBlock
          /\ ~saved.logout /\ "disconnect" \notin saved.intents
       THEN trial' = [trial EXCEPT !.flow = "handler", !.pc = "settle"]
       ELSE Fails
    /\ UNCHANGED <<saved, copies, score, host, done>>

Kill ==
    /\ Running /\ faults < MaxFaults
    /\ Fails
    /\ faults' = faults + 1
    /\ UNCHANGED <<saved, copies, score, host, done>>

Fault == Raise /\ faults < MaxFaults /\ faults' = faults + 1

-----------------------------------------------------------------------------
(* The host, the browser and the bridge *)

(* A logout or a server's end in order commits a save. *)
Saves ==
    /\ account' = "off"
    /\ IF account = "on" THEN db' = "saved" /\ rows' = IF rows < 2 THEN rows + 1 ELSE rows
       ELSE UNCHANGED <<db, rows>>

(* A settled browser goes where it was told to. *)
Navigates ==
    /\ page # desired /\ Settled
    /\ page' = desired
    /\ UNCHANGED <<trial, saved, copies, score, service, game, desired, run,
                   hosts, done, faults>>

LogsIn ==
    /\ page = "game" /\ desired = "game" /\ unit.up /\ Offline
    /\ account' = "on"
    /\ UNCHANGED <<trial, saved, copies, score, service, db, rows, browser, run,
                   hosts, done, faults>>

LogsOut ==
    /\ page = "waiting" /\ unit.up /\ account = "on"
    /\ Saves
    /\ UNCHANGED <<trial, saved, copies, score, service, browser, run, hosts,
                   done, faults>>

ControllerEnds ==
    /\ Active
    /\ \E st \in IF run.st = "running" THEN {"completed", "failed"} ELSE {"failed"} :
           run' = [run EXCEPT !.st = st]
    /\ UNCHANGED <<trial, saved, copies, score, service, game, browser, hosts,
                   done, faults>>

Bounded == hosts < MaxHost /\ hosts' = hosts + 1

(* The client loses its connection and the server logs it out. *)
Drops ==
    /\ account = "on" /\ unit.up /\ page = "game" /\ Bounded
    /\ Saves
    /\ UNCHANGED <<trial, saved, copies, score, service, browser, run, done, faults>>

(* The service ends by itself, RuntimeMaxSec or a crash; only an ordered   *)
(* end logs the account out.                                               *)
Dies ==
    /\ unit.up /\ Bounded
    /\ unit' = [unit EXCEPT !.up = FALSE]
    /\ Saves \/ UNCHANGED game
    /\ UNCHANGED <<trial, saved, copies, score, file, loaded, browser, run,
                   done, faults>>

(* Somebody starts the service when the runner's locks are free. *)
Starts ==
    /\ ~unit.up /\ ~Running /\ Bounded
    /\ unit' = Instance(unit.inst + 1)
    /\ UNCHANGED <<trial, saved, copies, score, file, loaded, game, browser,
                   run, done, faults>>

-----------------------------------------------------------------------------
Work == \/ IsReady \/ Create \/ Restore \/ RestoreSql \/ Restored
        \/ Start \/ CreateDropin \/ WriteDropin \/ DaemonReload \/ Launch
        \/ Invocation \/ Online
        \/ Login \/ Connect \/ Connected \/ Ask \/ Request \/ Played
        \/ Leave \/ Navigate \/ Logout \/ CopyController \/ Disconnect
        \/ Collect \/ Snapshot \/ Scored
        \/ Settle \/ Quiescent \/ Record \/ Release \/ Preserve \/ Preserved
        \/ Cleanup \/ Evict \/ Stop \/ Stopped
        \/ Remove \/ Unlink \/ Removed \/ Unload \/ ReloadAgain \/ Verify
        \/ PrepareWait \/ Clean \/ IsIdle \/ Observe

(* A check that fails, or a wait that runs out of its time, raises.        *)
Refuse == ~ENABLED Work /\ Raise /\ UNCHANGED faults

Environment == \/ Navigates \/ LogsIn \/ LogsOut \/ ControllerEnds
               \/ Drops \/ Dies \/ Starts

Next == Work \/ Recover \/ Refuse \/ Fault \/ Kill \/ Environment

Init ==
    /\ trial = [st |-> "running", pc |-> "ready", flow |-> "run", up |-> FALSE]
    /\ saved = NoState /\ copies = "none" /\ score = NoScore
    /\ unit = [up |-> FALSE, inst |-> 1, cfg |-> "normal"]
    /\ file = "none" /\ loaded = FALSE
    /\ account = "off" /\ db = "other" /\ rows = 0
    /\ desired = "waiting" /\ page = "waiting"
    /\ run = [st |-> "none", acked |-> FALSE, released |-> FALSE]
    /\ done = [restores |-> 0, starts |-> 0, requests |-> 0, leaves |-> 0]
    /\ faults = 0 /\ hosts = 0

(* A process runs on or ends; an operator recovers what failed; the        *)
(* browser, the server and the bridge do what they were told to.           *)
Fairness == /\ WF_vars(Work) /\ WF_vars(Refuse) /\ WF_vars(Recover)
            /\ WF_vars(Navigates) /\ WF_vars(LogsIn) /\ WF_vars(LogsOut)
            /\ WF_vars(ControllerEnds)

Spec == Init /\ [][Next]_vars /\ Fairness

-----------------------------------------------------------------------------
(* The steps of a run in their order, of what run_controller does after an *)
(* exception, and of a cleanup.                                            *)
BeforeSql == {"ready", "create", "restore", "sql"}
BeforeStart == BeforeSql \cup {"reset", "start"}
BeforeLaunch == BeforeStart \cup {"dropin", "write", "reload", "launch"}
BeforeConnect == BeforeLaunch \cup {"invocation", "online", "login", "connect"}
BeforeRequest == BeforeConnect \cup {"connected", "ask", "request"}
BeforeLeave == BeforeRequest \cup {"play", "leave"}
BeforeNavigate == BeforeLeave \cup {"navigate"}
AfterLogoutPCs == {"copy", "disconnect", "collect", "snapshot", "score"}
RunPCs == BeforeNavigate \cup {"logout"} \cup AfterLogoutPCs

SettlePCs == {"settle", "quiesce", "record", "release"}
HandlerPCs == SettlePCs \cup {"leave", "navigate", "logout", "preserve", "preserved"}

StopPCs == SettlePCs \cup {"evict", "stop"}
RemovePCs == {"remove", "unlink", "removed", "unload", "reload_again", "verify",
              "wait", "waiting"}
CleanupPCs == {"observe", "cleanup", "idle"} \cup StopPCs
                  \cup {"stopped", "preserve", "preserved"} \cup RemovePCs

PCs == RunPCs \cup HandlerPCs \cup CleanupPCs \cup {"none"}

Trials == [st : {"running", "failed", "recovering", "completed", "recovered"},
           pc : PCs,
           flow : {"run", "handler", "cleanup"}, up : BOOLEAN]

TypeOK ==
    /\ trial \in Trials
    /\ saved \in States
    /\ copies \in {"none", "some", "all"}
    /\ unit \in [up : BOOLEAN, inst : Nat, cfg : {"normal", "trial"}]
    /\ file \in {"none", "torn", "whole"} /\ loaded \in BOOLEAN
    /\ account \in {"on", "off"} /\ db \in {"other", "baseline", "saved"}
    /\ rows \in 0 .. 2
    /\ {desired, page} \subseteq {"waiting", "game"}
    /\ run \in [st : {"none", "running", "cancelling", "completed", "failed"},
                acked : BOOLEAN, released : BOOLEAN]
    /\ done \in [{"restores", "starts", "requests", "leaves"} -> 0 .. 2]
    /\ faults \in 0 .. MaxFaults /\ hosts \in 0 .. MaxHost

(* What backend-state.json says is never less than what was done: a        *)
(* drop-in on disk, in systemd or in a running process is recorded before  *)
(* it exists and not recorded as removed while it does, whatever was       *)
(* interrupted; and an attempt ends, in order or recovered, only with      *)
(* everything of it gone.                                                  *)
Recorded ==
    /\ file # "none" \/ loaded \/ (unit.up /\ unit.cfg = "trial") => saved.dropin
    /\ saved.config \in {"removed", "reload_pending"} => file = "none"
    /\ saved.config = "verified" => Absent
    /\ saved.inv # 0 => saved.dropin /\ saved.inv # saved.prev
    /\ saved.logout => "disconnect" \in saved.intents
    /\ saved.preserved => copies = "all"
    /\ trial.st = "completed" => saved.clean
    /\ saved.clean => Absent /\ ~(unit.up /\ unit.cfg = "trial")

(* The attempt never stops a service that runs with the operator's normal  *)
(* configuration, whoever started it and whenever: in start_server,        *)
(* cleanup or a recovery long after.                                       *)
OnlyOwn ==
    [][unit.up /\ ~unit'.up /\ hosts' = hosts => unit.cfg = "trial"]_vars

(* A score is of one whole run: the character restored once, one service   *)
(* instance, one controller run, one ordinary disconnect and exactly one   *)
(* save, which is what was collected.                                      *)
ScoredWhole ==
    score # NoScore =>
        /\ score = [db |-> "saved", rows |-> 1, inst |-> saved.inv, leaves |-> 1]
        /\ done.restores = 1 /\ done.starts = 1 /\ done.requests = 1
        /\ run.st = "completed"

(* A failed run gets its release.json, without which no other run is       *)
(* started, only once its status is in the attempt's state; a cancellation *)
(* alone lets the browser leave and no more.  A recovered attempt has kept *)
(* all the files of it.                                                    *)
EvidenceKept ==
    /\ run.released => saved.failure
    /\ trial.st = "recovered" /\ saved.failure => copies = "all"

(* What no recovery may undo: a service somebody else runs; an account     *)
(* left logged in by a dead server; copies cut off half way, which         *)
(* save_bytes refuses to make again; and a drop-in that was created and    *)
(* not all written, which is no longer recognised as the attempt's own.    *)
Blocked == \/ Conflict
           \/ account = "on" /\ ~unit.up
           \/ copies = "some"
           \/ file = "torn"

(* Every attempt ends, and one that failed at any step, in cleanup too, is *)
(* recovered by asking again, unless it is blocked for good.               *)
Recovers == <>Terminal \/ <>[]Blocked

-----------------------------------------------------------------------------
(* What makes these facts inductive: what holds at each step of a run, of  *)
(* a handler and of a cleanup.                                             *)
OnceBy(action, before) == done[action] = IF trial.pc \in before THEN 0 ELSE 1

RunInv ==
    Running /\ trial.flow = "run" =>
        /\ trial.st = "running" /\ trial.pc \in RunPCs
        /\ saved.made \/ trial.pc \in {"ready", "create"}
        /\ saved.config = "none" /\ ~saved.clean
        /\ score = NoScore \/ trial.pc = "score"
        /\ OnceBy("restores", BeforeSql) /\ OnceBy("starts", BeforeLaunch)
        /\ OnceBy("requests", BeforeRequest) /\ OnceBy("leaves", BeforeNavigate)
        /\ IF trial.pc \in BeforeStart THEN saved.inv = 0 ELSE saved.dropin
        /\ trial.pc \in BeforeConnect =>
               page = "waiting" /\ desired = "waiting" /\ Offline /\ rows = 0
        /\ trial.pc \in BeforeRequest => run.st = "none"
        /\ trial.pc \notin BeforeRequest \cup {"play"} => run.st = "completed"
        /\ trial.pc \notin BeforeLeave => "disconnect" \in saved.intents
        /\ trial.pc \in AfterLogoutPCs =>
               page = "waiting" /\ desired = "waiting" /\ Offline /\ rows = 1

HandlerInv ==
    Running /\ trial.flow = "handler" =>
        /\ trial.st = "running" /\ trial.pc \in HandlerPCs
        /\ saved.made /\ saved.config = "none" /\ ~saved.clean /\ score = NoScore
        /\ trial.pc \in {"navigate", "logout"} => "disconnect" \in saved.intents

CleanupInv ==
    Running /\ trial.flow = "cleanup" =>
        /\ trial.pc \in CleanupPCs
        /\ trial.st = "running" \/ trial.pc \notin {"observe", "cleanup", "idle"}
               => saved.made
        /\ trial.pc \in StopPCs /\ unit.up => trial.up /\ unit.cfg = "trial"
        /\ trial.pc \in {"removed", "unload"} => file = "none"
        /\ trial.pc \in RemovePCs \cup {"idle"} /\ saved.failure => copies = "all"
        /\ trial.pc = "idle" /\ trial.st = "running" => saved.clean

StepInv ==
    /\ RunInv /\ HandlerInv /\ CleanupInv
    /\ saved.failure => saved.made
    /\ Running /\ trial.pc = "release" => saved.failure
    /\ rows # 0 => db = "saved"

(* An attempt's state, its world and its score agree at every step.        *)
RuntimeInv == TypeOK /\ Recorded /\ ScoredWhole /\ EvidenceKept /\ StepInv

=============================================================================
