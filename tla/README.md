# Verification of maplebench

TLA+ models of the parts of this repository that decide things: which command
may touch the one game world, what a run may cost, what a crash leaves behind
and what may be done with it afterwards. Each module is written from the Python
source (`scripts/...`, under `src/` in this tree), `PROJECT.json` maps every
definition to the lines it stands for, the `.cfg` files are the TLC runs and the
`*Proofs.tla` modules hold proofs checked by TLAPS.

## 1. The system

maplebench lets language models play a private MapleStory server (Cosmic) and
scores what they do. There is one world per host: one server, one database, one
character, one browser. Everything hard follows from that. Commands and
services, each a process of its own, share the world through file locks, and
share knowledge through JSON files. What is rewritten is written atomically (a
temporary file, then a rename or a link: `write_json`, `write_snapshot`,
`create_json`); what is made once often is not: `save_bytes` (runtime:96),
`write_new` (publication:80) and the bridge's claim (bridge:972) create the file
and then write it, and can leave it cut off. Processes get killed, their children
outlive them, replies get lost, and the provider charges for every call whether
or not anybody reads the answer.

```
 operator command
   │ full_client_operations.py      one operation: run a group, seal, restore
   │   └─ operations gate           .operations/<id>/claim.json, terminal.json
   ├─ full_client_experiment.py     plan of N entries, coordinator.json
   │   └─ one child per entry
   │        full_client_trial.py    world lock, queue lock, journal.json
   │          └─ guard ─ backend    full_client_runtime.py (server, database)
   │                       └─ socket, lock descriptors ─► full_client_bridge.py
   │                                                       └─ controller, browser
   ├─ full_client_lifecycle.py      puts the normal server and worker back
   └─ full_client_follow_publication.py  exports and deploys finished results

 maplebench.py worker (systemd)     SQLite queue of batches, normal operation
   └─ one child per attempt         reset the world, maple_agent.py, score.json
```

Two ways of running share the host. The *batch queue* is the normal service: a
worker that takes trials from a database. The *full client* runs a finite,
sealed experiment through a real browser client, with a chain of commands of
which each proves to the next that it was asked to. While a full-client group
runs, the batch worker is stopped; `full_client_lifecycle.py` brings it back.

### 1.1 Inventory

| component | state it keeps | operations | hard behaviour | what makes it correct |
|---|---|---|---|---|
| **Operations gate** `full_client_operation_gate.py` (+ `..._admission.py`) | `.operations/`: a flock, one folder per operation with `claim.json` and later `terminal.json` | begin, reconcile, complete, ensure_available | killed between mkdir, link, unlink, fsync; several commands at once; error paths under the lock | one unfinished operation; nothing published is ever removed; damage blocks everything; a marker means settled work |
| **Experiment coordinator** `full_client_experiment.py` | `coordinator.json`: submissions, settled entries, events, status, seal; the same in memory | run, resume, seal, recover-entry | exception or kill between any two of five writes per entry; children that outlive it; a deadline that passes while a write is slow | an entry is launched at most once and never unknown; trials one after another; limits hold for every launch; sealed is final; what is written can be read |
| **Trial runner** `full_client_trial.py` | `journal.json` per attempt; two flocks, copied to guard, backend and bridge | run, recover | a backend that outlives its runner; lost answers; a controller whose request is still in a socket | one process tree acts on the world; charged what was used or the reservation; closed stays closed |
| **Batch queue** `maplebench.py`, `install-services.py` | SQLite tables, `queue.json`, `score.json` per attempt, videos, a systemd override | worker (recover, claim, run, score, render, publish, restore), submit, cancel, status, render | worker, child or host lost at any point; commands without locks beside it; timeouts | the budget; one attempt in the world; a saved score is never paid twice; the world is put back; every trial is decided |
| **Controller bridge** `full_client_bridge.py` | claims, `controller.json`, cancel and release files, lock copies, pinned browser | start, status, cancel, release, recover at start, frame ack | request claimed and then the bridge dies; worker thread against release; restart forgets acknowledgements | a request has at most one controller; locks are held until the browser let go |
| **Cosmic runtime** `full_client_runtime.py` | baseline, services, database leases, evidence files | restore_baseline, start_server, login, run_controller, disconnect, collect_final, cleanup | each operation repeated after a crash | cleanup is always possible; evidence belongs to the attempt |
| **Normal lifecycle** `full_client_lifecycle.py` | a journal with an intent per service start; world and lifecycle locks | start, reconcile, command guard | dies between intent and systemd's answer; hands the locks to the worker it starts | each service is started at most once per lifecycle; no command while one is pending |
| **Operations wrapper** `full_client_operations.py` | a journal of phases | run, reconcile | composes the four above, each of which can fail after its effect | terminal receipt only for a verified, quiet host |
| **Operation join** `full_client_operation_join.py` | an envelope handed from parent to child | inherit, verify | child outlives the parent | no child without a live, claimed parent operation |
| **Pre-runtime abort**, **post-cleanup status** | a certificate, a receipt | execute, certified, observe | dies half way through the certificate | retires a group only if none of its attempts reached the runtime |
| **Programmable agent** `maple_agent.py`, `model_providers.py` | counters of calls, tokens, actions; one executor | run_agent | the executor plays on while the next plan is asked for | the reservation of each call fits the budget; actions are counted once |
| **Follow and publication** `full_client_follow_publication.py`, `..._publication.py`, `..._vercel.py` | follower state, one folder per operation, an intent per deployment | follow (export, compose, publish) | reply lost after the effect | deployed once; a reply is adopted only if it is exactly the expected one |
| **Adaptive controller** `full_client_adaptive.py` | cycles, reservations, a saved trace | run_adaptive, confirm, judge | killed between reservation, call and answer | the trace never denies a call; completed means whole |
| **Browser session and capture** `full_client_session.py`, `ui/full-client/` | what the page is wanted to show, navigation acknowledged | frame, navigate, dispatch | lost, late and repeated frames, a reload in the middle of a key | nobody navigates a page that plays |
| **Native, XP and hero acceptance** | own journals and evidence | one-off runs without a model | variants of runtime, trial runner and gate | as there |
| **Scoring and XP windows**, **health and readiness**, **Episode SDK** | none | pure functions | boundaries (levels, windows, missing samples) | agree with a reference definition |
| **Freezing, galleries, dashboards, recording, installation** | output files | one-shot scripts | none that interact | |
| **Cosmic patches** | Java overlay: a start gate, an XP ledger | | inside the game server | |

`PROJECT.json` lists every component with its sources and what is and is not
modelled of it, and under `hazards` what is hard to test, at its line.

### 1.2 Further hazards, not in that list

`PROJECT.json` keeps to the hazards that decide what to model next. Others met
while reading, with where the models stand:

- Power lost between a link and the fsync of its directory (gate:224). The
  models keep the order of link and fsync; a file system that forgets a link is
  not modelled.
- A wall-clock step back between the two `now()` calls of a submission
  (experiment:649) makes `validate_state()` refuse the journal; the model's
  clock is monotone.
- A recovery descriptor pins the coordinator's hash (experiment:589), and a
  refused resume changes it: `GroupOperation`'s references go stale.
- A failed controller keeps the locks until its browser answers (bridge:1287);
  with a dead browser only a restart of the bridge frees the world. No liveness
  is claimed of the bridge.
- The attempt's cancel acknowledges the failure in the bridge's memory before its
  status is saved (runtime:1362, 1376): the browser may leave by it at once. In the
  model (`Settle`); the release that lets another run start follows the save.
- `cancel` touches queued trials only (maplebench:707): a running trial of a
  cancelled batch that fails is queued again and attempted. The model has the
  behaviour; no document says what cancel promises.
- The child of an attempt can save its score and still end with an error
  (maplebench:634): the living worker pays for a second attempt, a worker that
  died would have adopted the score. In the model; only the crash is promised.
- `render` and the worker can render one trial at once (maplebench:714);
  `submit` can die with a directory and no rows (:221); `sudo`'s privileged
  child survives `killpg` (:290). Outside the model.

## 2. Modules

| module | role |
|---|---|
| `OperationRegistry` | abstract: what the gate promises about operations |
| `OperationGate` | the gate, its commands, its file steps, its failures |
| `OperationGateProofs` | proofs about it, for every number of commands and operations |
| `ExperimentCoordinator` | coordinator, journal and `validate_state()`, launcher, children |
| `ExperimentCoordinatorProofs` | proofs about it, for a plan of any size and any limits, and about `FollowPublication`, which follows its cohort |
| `AttemptLedger` | abstract: what the trial runner promises about attempts and charges |
| `TrialRunner` | commands, guards, lock descriptors, backend calls, the bridge as their user |
| `TrialRunnerProofs` | proofs about it, for any commands, attempts, operations, reservation |
| `PaidQueue` | abstract: what the batch queue promises about trials and money |
| `BatchQueue` | queue, worker, child, rendering, restoration, commands beside the worker |
| `BatchQueueProofs` | proofs about it, for any trials, attempts, commands, faults and budget |
| `RestoreOnce` | abstract: what a restoration of the normal services promises |
| `NormalLifecycle` | its commands, their guards, locks and journal, the services and the worker's receipt |
| `NormalLifecycleProofs` | proofs about it, for any operations, commands and instances |
| `ControllerBridge` | the bridge server, the worker thread of a run, the browser session, the page and its frames |
| `ControllerBridgeProofs` | proofs about it, for any runs, pages, commands and restarts, and about `ProgramController`, the loops a worker of the bridge runs |
| `GroupOperation` | wrapper, coordinator's commands, joined children and the two closeouts over one claimed group |
| `GroupOperationProofs` | proofs about it, for a plan of any size and any commands |
| `CosmicRuntime` | the backend of one attempt with systemd, account, database and bridge around it |
| `CosmicRuntimeProofs` | proofs about it, for any number of faults and interferences |
| `FollowPublication` | follower, exporter, deployment driver and provider |
| `ProgramController` | the loops that let a model play: serial, continuous, adaptive, adaptive with horizon |
| `MC...` | the instances TLC checks; a `.cfg` per run |

How they fit together: `GroupOperation` is the composition. It drives a claim
(what `OperationGate` implements), a coordinator (`ExperimentCoordinator` without
charges and limits), children (`TrialRunner` as a status per attempt) and a
restoration (`NormalLifecycle` as one service's open/asked/named/done). One
level down, a `TrialRunner` attempt is a sequence of backend calls of which
`CosmicRuntime` opens up what one does and leaves behind; its `run_controller`
is a request to `ControllerBridge`, and the program the bridge starts is a
`ProgramController`. A neighbour appears in a module as the environment that
its own module justifies, never as a fixed answer.

A controller's loops and the bridge that starts them share a proof module, and so
do a coordinator and the follower of its cohort. Each of the two modules that come
second (`ProgramController`, `FollowPublication`) therefore has names that say whose
they are (`LoopInit`, `LoopNext`, `FollowInit`, `FollowNext`, `followVars`).

Definitions whose line says `variant` are not part of a specification: each is
a wrong version of the definition after it (a dropped guard, a missing reset, a
swapped order) and shows, put in its place, that a property can fail.

### 2.1 OperationGate

A command opens `.gate.lock`, takes `flock(LOCK_EX | LOCK_NB)`, scans the
registry and begins, reconciles or only checks. The lock belongs to an open file
description, so it is modelled as `gateFds`, the set of processes with a copy.
`folder[o]` is the set of names in the operation's directory. `create_json` is
four steps (temporary name, link, unlink, fsync), which both `claim.json` and
`terminal.json` go through; the terminal receipt, which is published the same
way, keeps the one intermediate state that differs for a reader, `"linked"`.
`Fail(p)` is an exception at any step (`create_json` then removes its temporary
name, nothing else is undone), `Crash(p)` a SIGKILL at any step. `work[o]` is
what the admitted command did to the world, left abstract.

`OperationRegistry` is the promise: an operation is claimed once, while no other
is pending, and completed once. `claim.json`'s link is the step that claims,
`terminal.json`'s link the one that completes; all else stutters.

Not modelled: file ownership and modes, read budgets and their time limits,
`initialize_registry` (its result is `Init`).

### 2.2 ExperimentCoordinator

`mem` is `self.state`, `disk` is `coordinator.json`. `pc` names the next step of
`run()`; every call of `persist(event)` is a `pc` of its own, so that an
exception can come before the event is appended, after it and before the file is
replaced, or after the replacement (`Interrupted`, `LostReply`). The handler of
`run()` is `Raise`: the state becomes "stopped" and is written once more.
`ValidState` is `validate_state()` as far as parts of the journal are related to
each other. Trials appear as the coordinator sees them: a process, a journal
status, a charged usage. A child that was launched can be admitted, begin and
end at any time, also after its coordinator died or another one resumed;
`ChildAdmitted` has the conditions of `inherited_trial()`.

API requests, tokens and wall seconds obey one rule and are kept as one
resource. `recover_entry()` is one atomic change of the trial's status here and
step by step in `GroupOperation`.

### 2.3 TrialRunner

One `flock` description per command, shared by whoever has a copy: `copies[c]`.
The runner starts a guard, the guard a backend; `run_controller` sends the
descriptors to the bridge over a socket (`bridge.leased` holds them from the
moment they are sent). The locks are free when nobody has a copy. The guard
polls its parent and its deadline and reaps the backend's group before it closes
(`GuardStops`, `GuardReaps`); it can take longer than its runner waits
(`GuardPending`, `GuardForgotten`). Journal writes are steps of their own, and a
write can raise before or after the file changed. What a backend does to the
world is open; what the controller spends is `used[a]`, a history variable
compared with what the journal charges.

`AttemptLedger` is the promise: an identity is used once and alone, a broken
attempt can only be closed, its charge starts as the reservation and is final
once it breaks.

Left out: the certified pre-runtime abort that `_require_no_unrecovered()` also
accepts (`GroupOperation`, `OtherTrial`); preflight, which changes nothing.

### 2.4 BatchQueue

A database transaction is a step. `worker` holds the worker's local variables
(`restored` among them), `child[r]` the process that plays run `r`, `world` the
service and its override. `restore_world()` is three steps because the worker
can be lost between the systemctl calls. Commands beside the worker (`Submit`,
`Cancel`, `Status`, `Render`) read in one step and publish in another. `Dies`
loses the worker's locals; under systemd (`Supervised`) the child goes with it
because of `KillMode=control-group`, by hand it does not, because the child has
its own session and inherits no lock. Calls and tokens are one resource.

`PaidQueue` is the promise: one trial in work, paid for in advance and within
the budget, what is not needed is given back once it is known, a score is kept.
`Claim` takes an attempt and a reservation in one transaction, as the code does:
the reservation is what the budget still affords, and no attempt is made of
nothing.

One batch is modelled. The scoring of an episode, the gallery pages, frozen
inputs and the first-idle receipt are not (the receipt is in `NormalLifecycle`).

### 2.5 NormalLifecycle

`check`, `start` and `reconcile` run under `.lifecycle.lock` (`SerialFree`),
which their guards inherit together with whatever world descriptors are open
(`Inherited` is `guard_fds`). `cmd[p]` holds a command's locals: `mem` is
`self.state`, `known` says that `journal_sha` is the hash of the file, `world`
that the descriptors of the three world locks are open (they are taken and
closed together and are one lock here). `Persist` can raise before
`self.state.update`, before the replacement and before the new hash is known;
`Failed` is `failed()`, whose own write may be swallowed. `Kill` leaves the
guard of the command that was running behind.

The host is the other side: services start and stop by themselves, each start
with a new invocation, and a start that was asked for may come after the
`systemctl` that asked is gone. The worker takes the locks once they are free
and writes its first-idle receipt. A handoff names the stopped invocations and
can be old when it is used. After a reboot nothing of an earlier boot may go on.

What is only read and compared (pinned files, settings, snapshot, queue, web and
browser, native log, capacity) is the possibility that a step raises. The
operations gate, under which `main()` runs the lifecycle, is left out: the
properties must hold on the strength of the lifecycle's own lock.

`RestoreOnce` is the promise: one restoration is open at a time, each service is
asked to start at most once for it, its instance is named once and is no other
restoration's, and it is done only with both named. `asks` counts the
`systemctl start` that were run; it is a history variable.

### 2.6 ControllerBridge

`disk[r]` is what the folder and the claim of a run hold, `mem` the server's
memory, `worker[r]` the run's thread, `sess` the `SessionCoordinator`, `page` the
browser. Whatever the server does under its lock is one action. A run's thread
gives the lock up between its steps, so claim, folder, intent, call, input and
the final receipt are separate, and `Die` may come between any two writes;
`Recover` is the constructor with `_recover_incomplete()`. A write may also be
refused while the server goes on: `Start`'s own handler, `Cancel` and `Release`
may lose their last one, and `StartFails` is `start()` ending between the claim and
the run it was to begin, with the server dead or with the server up and its memory
as it was. The page polls:
a reply may be lost, the page may be reloaded in the middle of a key, and a frame
it gave up may be handled later (`wire`). `calls`, `launches` and `closed` are
history: provider calls made, threads started, descriptors closed by the living
server.

Left out: time (an age or a deadline may go either way), the second client tab,
capture and encoding, the admin socket's transport, the clock handshake. Two
limits of the model follow the code: an adaptive run's intents lie in
`cycles/NNN/`, which `cancel()` and `_recover_incomplete()` do not look at
(bridge:332, :365), so `OutcomeHonest` says nothing of those runs; and a stale
copy of the final receipt may drop an acknowledged failure, on the safe side.

### 2.7 GroupOperation

One operation from its claim to its receipt. `op` is the command that holds the
gate (one at a time: the gate's own model says so) and its phase; `child` the
trial child that shares the gate's descriptor and may outlive it; `files` the
create-only files; `journal` the wrapper's, with the count of its writes, by
which the receipt names it. A reference is what an operator quoted: absent,
current or stale after its file was written again. Every command may raise
(`Raise`) or be killed (`Kill`) at each step, and be given again.

What the model keeps although it looks odd, because the code does it:

- `recover-entry`'s descriptor is create-only (experiment:589): a recovery that
  failed cannot be tried again with another descriptor.
- The coordinator's own commands claim under another subject than the wrapper:
  a group the wrapper owns cannot use `recover-entry`.
- Killed between the claim and the first journal, the wrapper leaves a claim
  nothing can end; it waits for review.
- The abort command makes its folder before it checks eligibility
  (pre_runtime_abort:249); a refused abort therefore leaves a folder that makes
  `certified()` refuse every later trial on that root.

The abort insists on exactly four entries; the model on all `N`. Left out: the
bytes behind the digests, the validation of the configuration, the certificate's
proof beyond whether the group is untouched.

### 2.8 CosmicRuntime

`saved` is `backend-state.json`, which each operation rewrites between its
effects; `trial` is the runner (which operation is asked for, whether for the
run, for the failure handler or for a recovery); `unit`, `file` and `loaded` are
systemd's side of the service and the drop-in; `db`, `rows` and `account` the
database's; `desired`, `page` and `run` the bridge's. A process of an operation may
be killed or raise between two effects, what is only compared may refuse
(`Fault`), and the service may die or be started by others once the runner is
gone (`MaxHost`). A recovery is status, cleanup, status, as often as asked. The drop-in
is created and written in two steps, and only one that is whole is the attempt's
own (`OwnDropin`). A cancellation acknowledges the failure in the bridge's memory
(`acked`) before the attempt has recorded it; what lets another run start is
`release.json` (`released`), which comes after.

Left out: health samples, XP windows, the contents of evidence, the containers.

`Blocked` names what no recovery undoes: a service somebody else runs, an
account left logged in by a dead server, copies of failure evidence cut off half
way, and a drop-in that is not all written (section 4).

### 2.9 FollowPublication

Four processes in sessions of their own: the follower (`me`, `st` is its
`state.json`, `op` the files of its last operation), the exporter (`exporter`,
`receipts`), the driver (`driver`, `pkg` the publication files per package) and
the driver's deploy command (`flight`); killing one leaves the others running.
A package is named by its content, so it is its content: what the exporter found
of each attempt, one after the other while the cohort goes on (`prepare_package`).
`torn` says that the next file of a package is there and cut off: the proof and the
receipt are created in one step and written in the next, while a torn claim or
marker is read as a claim without a marker, which is what the model has for both.
`Catalog` is `compose()`. `deployed` is what the provider lists, `public` what the
origin serves. `closed` is the coordinator's, `late` the deadline that is never
renewed. Observed attempts are pending, completed, failed, recovering or
recovered.

What the model keeps because the code does it: an export stored before
`seed_imported` is set makes every later load of a killed follower raise; a folder
without its operation, an intent without a state and a claim without a
submission block or stay uncertain until a person looks.

The exporter command itself is not in the repository (the configuration names
it); it is modelled from what the follower requires of its reply and from
`docs/FULL_CLIENT_PUBLICATION.md`. The model starts without completion receipts;
one that an earlier export left could be adopted for an older package, which is
not covered. Left out: measuring, rendering and redacting, and the statuses
interrupted, withdrawn and unknown.

### 2.10 ProgramController

`run_agent` (serial, or continuous, where the last program acts while the next
plan is asked for) and `run_adaptive` (with or without the horizon policy)
around the executor they share. A program is a budget, its counts and how it
ended. `counters` is what the controller counts, `trace` what it will say of the
run, `saved` what of both is saved; `called`, `sent` and `landed` are history: what
was really asked of the provider, sent to the client and performed there. The
clock has three marks: open, closing (too late for another call under the
horizon policy), over.

What the code does and the properties say so: only the adaptive loop writes
ahead, so `TraceHonest` is about it (`run_agent` killed in a call leaves no
trace); an executor that raises outside continuous mode loses its program's
counts (maple_agent:645), and so does one whose result cannot be written before it
is counted (adaptive:415), with the same ending; `Accounted` excepts both. Assumed: in `run_agent` a
call uses no more than was reserved from the byte bound; the adaptive loop
checks it. Left out: prompts, providers, the text of programs, levels, and the
evidence check after the run.

## 3. Runs

| run | question | instance | states |
|---|---|---|---|
| `gate` | are lock, claims and markers safe, is the registry implemented, is the gate always let go? | 2 commands, 3 operations, registry of 2 | 186 k |
| `coordinator` | launched once, recorded, ordered, within limits, final, readable? | 3 entries, 3 commands | 644 k |
| `trial` | one actor, closing, charging, the ledger; is the world always let go? | 2 commands, 1 attempt, all operations | 119 k |
| `batch` | budget, one attempt in the world, the promise | 2 trials of 2 attempts, 2 calls, 1 fault | 1.1 M |
| `batch_live` | faults during recovery: is a score ever paid twice, does everything settle? | 1 trial of 2 attempts, 2 faults | 826 k |
| `lifecycle` | one operator, intent before start, a witness for completion, asked once | 2 commands, 2 operations, 3 instances per service, 2 boots | 717 k |
| `bridge` | one controller and one call per request, honest outcomes, no start over damage | 2 runs with a provider, 2 faults | 1.4 M |
| `relay` | does the browser let go before the locks do, is a playing page left alone? | 1 adaptive run, 2 calls, 1 input, 2 navigations, 2 faults | 1.5 M |
| `operation` | one restoration, one honest end, no trial over an unresolved failure | 2 entries, 6 commands | 296 k |
| `runtime` | is what was done recorded, is only one's own service stopped, is everything recovered? | 3 faults, 2 interferences | 103 k |
| `publication` | exported and sent once, never public too early, is an accepted deployment found? | 2 attempts, 2 operations, 2 polls, 1 kill | 296 k |
| `controllers` | one program at a time, budgets, a trace to be believed; does every run return? | 4 modes, 3 calls, 2 inputs, 3 requests | 566 k |

### 3.1 Bounds

- *gate.* Two commands give every race; a third would find the gate busy as the
  second does. Three operations over a registry of two reach the limit with one
  operation refused. Nothing is counted, so histories are as long as they like.
- *coordinator.* `MaxInvocations` bounds run, resume and seal together: with
  three, an interrupted run is resumed, interrupted again and resumed or sealed.
  Three entries give a first, a middle and a last. The first entry needs two
  units of time and the others one, so that the deadline can pass between the
  intent and the launch; a trial reports nothing used or more than reserved.
  Each limit has slack for one overspending trial but not two.
- *trial.* Two commands and one attempt: one command leaves it broken, the other
  meets it, with all seven operations. A controller uses 1 or 3 of a reservation
  of 2. No symmetry, since the run checks liveness. Several attempts at once,
  any number of commands and any reservation are what the proofs are about.
- *batch.* Two calls for two trials that each reserve two: one attempt is given
  less than a full reservation, one trial nothing. `MaxFaults` bounds deaths of
  the worker, reboots and exceptions; one is enough for the properties of a
  single loss, `batch_live` allows a second one during the recovery. `Deciding`
  (a VIEW) merges states that differ only in what is published and in score
  files of attempts that are over, which no property of that run and no guard
  of a supervised worker reads; the files of attempts that run or were never
  made, about which `RunInv` speaks, are kept apart.
- *lifecycle.* `MaxMade` counts instances of each service, the first of which is
  the one that was stopped: three let two restorations complete one after the
  other, or one service be exchanged while it is being observed. `MaxBoots` = 2
  allows one reboot. Two handoffs may be written before either is used, so one of
  them is stale. Commands and operations are interchangeable (symmetry).
- *bridge, relay.* `bridge` keeps two runs and leaves the browser's keys out:
  a claim, a quarantine or an acknowledgement of one run meets the start of the
  other, through two faults (so a restart can itself be interrupted). `relay`
  keeps one adaptive run and the browser: two cycles, a key, two navigations and
  one frame served late. Runs are interchangeable in `bridge`.
- *operation.* Two entries give a failed one with another before or after it.
  The longest story (run interrupted, entry recovered, status reconciled, sealed,
  restored, reconciled) takes six commands; interruptions are not counted.
- *runtime.* One attempt is all a host has. Three faults interrupt an operation,
  its failure handler and a recovery; two interferences let the service die and
  be started by somebody.
- *publication.* Two attempts for the four of the code: one is exported while
  the other is played, fails, recovers or completes. `MaxOps` = 2 is the second
  publication, `MaxPolls` = 2 the last poll with work left. A seed has `a1`
  completed; one with `a2` alone differs by the name only. One kill of the
  follower; exporter, driver and deploy command may fail or be late at any step.
- *controllers.* Three calls of which the tokens allow two or three; two inputs,
  so the limit is met within a program and between two; three SDK requests.

`CHECK_DEADLOCK FALSE` is said where the program stops for good: an experiment
with no command left to give, attempts all closed, a queue with nothing to do, a
group that ended, a follower at its deadline, a run that returned. The gate is
checked for deadlock.

### 3.2 Fairness

- *gate*: each command that runs takes its next step (`WF(Step(p))`). Its work
  is bounded by `WORK_SECONDS` and by the deadlines of what it calls. Commands
  need not start.
- *trial*: each runner and each guard takes its next step. The runner has a
  timeout for the guard; the guard's loop polls its parent and its deadline, and
  SIGKILL is not optional for the group it kills. Nothing is asked of the
  backend, the bridge or the browser.
- *batch_live*: the worker takes its next step or is started again
  (`Restart=on-failure`, `RestartSec=10`); each of its calls has a timeout. It
  is one WF on the disjunction, since the worker is one thread. Nothing is asked
  of the child (it may never return: the worker's wall clock ends it) or of the
  other commands.
- *runtime*: a process takes its next step or is refused by its checks, and an
  operator asks for a recovery again (`Work`, `Refuse`, `Recover`); the browser
  navigates, the server logs in and out what left, the controller ends: each has
  a timeout in the code after which the operation raises, which is one of the
  counted faults. Nobody is asked to stop a service they started.
- *publication*: the follower, whatever its command returns or loses, goes on
  and is invoked again until it is complete; exporter and driver take their
  steps; a deploy command that runs ends. Strong fairness for `Check`, `Find` and
  `Record`: a driver is killed by its time limit or fails now and then, but not
  every time just before it looks, and the provider's listing works time and again. Nothing
  is asked of the cohort, of the deadline or of a deployment that was refused.
- *controllers*: the loop takes its next step, time passes, an input is answered
  or times out, a program's lease ends. Nothing is asked of the model's program
  itself or of the provider, whose timeout is the loop's step.

No liveness is claimed of the coordinator, the lifecycle, the bridge and the
group: they wait for people, or for a browser that may be gone.

## 4. Where code and documents differ

Met while modelling; each is in the models as the code does it, and the
properties state what does hold.

1. Killed between the link of `terminal.json` and the unlink of its temporary
   name, a command leaves completed bytes no reconcile accepts (gate:223).
   `DamageFreezes` says that nothing else moves either.
2. An exception between the appended submission and its intent event leads the
   handler to persist a journal that `validate_state()` refuses
   (experiment:764); resume, seal and report are then all impossible.
   `LoadableUnlessTorn` says that nothing but those two torn shapes is refused.
3. `docs/AUTOMATED_BATCHES.md:61` says to run the worker's command again; a
   worker started by hand and killed leaves its child in the world
   (maplebench:629), and a second attempt is put beside it. The runs have the
   worker supervised by systemd; `OneTrialInWorld` does not hold without.
4. An exception after a committed score leaves its trial rendering for as long
   as the worker lives (maplebench:646 against `AUTOMATED_BATCHES.md:64`).
   `Settles` promises a decision, not a video.
5. A worker lost between unloading the override and restarting the service
   later takes the last attempt's server for the normal world (maplebench:672
   against `docs/PRODUCTION_READINESS.md:185`). `BatchInv` (`IdleWorldRuns`) says
   that a world is running and no override left.
6. `preserve_failure_evidence()` copies with a create-only save and marks the
   state afterwards (runtime:1384-1393); interrupted in between, every later
   cleanup raises on the first copy that is there, and the attempt can never be
   recovered. `Recovers` excepts it by name (`copies = "some"` in `Blocked`).
7. `save_bytes()` creates the drop-in and then writes it (runtime:792, :96). Ended
   in between, the file is there with another hash than the one recorded before;
   every later cleanup raises `dropin_ownership_lost` (:1418, :626). `Recovers`
   excepts it by name (`file = "torn"` in `Blocked`).
8. The proof of a deployment and the receipt of a publication are made by
   `write_new()` (vercel:353, publication:405), which creates and then writes. A
   driver ended in between, by the follower's own time limit (follow:128) too, leaves
   a file that no later driver can read or replace: the publication is public and
   stays "uncertain". `DeploymentsReconciled` excepts it by name (`Cut`).
9. An `OSError` after the claim in `start()` (bridge:970-994) leaves a run folder
   half made while the server goes on with its memory as it was; the next start is
   not stopped by it, until a restart finds it and puts it in quarantine. Nothing was
   launched for that run, and its request stays claimed. `NoStartOverDamage` and
   `OneWorker` except exactly this: folders of a start that failed in this server.
10. An adaptive run's provider intents lie in `cycles/NNN/`; `cancel()` and
   `_recover_incomplete()` look for one at the top of the run's folder
   (bridge:332, :365) and record "not_started" after calls were made.
   `OutcomeHonest` is about the other runs.
11. `import_seed()` stores the seed's exports (follow:434) before the caller marks
   the seed imported (:389); a follower killed between the two refuses its own
   state for good (`follow_seed_duplicate_attempt`). It has sent nothing then, so
   `DeploymentsReconciled`, which is about what was sent, holds.
12. The abort command makes its folder before it checks whether the group may be
   aborted (pre_runtime_abort:249); a refused abort blocks every later trial on
   that root. It fails closed, as `NoTrialOverFailure` requires.

Two limits no document speaks of: refused resumes add events to a coordinator
journal until it is too long to be loaded or sealed (experiment:782 checks at
seal, nothing checks on append); and a lifecycle whose `persist()` raises between
counting a start and recording its intent leaves a journal that `reconcile()`
refuses for ever, so that no later restoration can begin (lifecycle:768, :915).
`LifecycleInv` says that this is the only such journal and that nothing was
started under it.

## 5. What is proved

TLAPS proves the following for every value of the constants that satisfies the
assumption named in each module: `GateAssumption`, `CoordinatorAssumption`,
`TrialAssumption`, `BatchAssumption`, `LifecycleAssumption`, `BridgeAssumption`,
`GroupAssumption`, `RuntimeAssumption`, `ControllerAssumption`, `FollowAssumption`,
`NoneAssumption`. They say that bounds and amounts are
natural numbers, that the stand-in for "nobody" is not a command, a run or a
trial, and of a plan what `validate_plan()` has checked. No set of operations,
commands or runs is assumed to be finite. Each proof has one lemma per action or
group of actions that change the same things.

Two components add up amounts (`SumFunctionOnSet`). The proof modules derive what
they need of such a sum (`SumUnfolds`: it exists and adds one element after the
other; `SumSplits`: one element can be set apart; `SumGrows`; `SumDiffersBy` for the
queue) by induction over the subsets of a finite set: if a statement fails for
some subset it fails for a smallest one (`SmallestSubset`, from the fact that the
strict subset ordering is well-founded), and that one has an element to take out.

**OperationGateProofs.** `GateInv` is inductive. `LeaseInv` ties the lock to the
program counters and makes its holder unique; it is needed because every step
reasons from "I am alone". `HolderInv` says what the registry looks like at each
step of that holder: exactly the names its `create_json` has made so far, and
everything else completed. Without it, that a later scan finds at most one
unfinished operation does not follow from the scan that admitted the command.
`SizeInv` carries the finiteness of the set of claims, since `Ops` may be
infinite. From it: `GateInvariants` (`OneUnfinished`, `ActiveClaim`,
`CompletedSettled`, `InventoryBound`), `GateFailsClosed` (`DamageFreezes`),
`GateKeepsPublished` (`PublishedStays`), and `GateImplementsRegistry`, where only
`CreateLink` maps to a step of the registry.

**TrialRunnerProofs.** `TrialInv` is inductive. `LockInv`: copies of at most one
command, each held by a process that is there. `CommandInv`: for the command
inside, which journal its next step has in front of it, and that all other
attempts are closed. `GuardInv`: what a guard that outlives its runner may still
do, and what its answer means. `UsageInv`: what a journal charges, on disk and in
memory, and that a controller has not been asked for before the reservation is
on disk. From it: `TrialOneActor`, `TrialOneUnrecovered`,
`TrialNoControllerAfterClose`, `TrialUsageIsCharged`, `TrialClosedStays` and
`TrialImplementsLedger`.

**ExperimentCoordinatorProofs.** Three invariants, each inductive with those
before it. `JournalInv` (`TypeOK`, `MemoryExtendsDisk`, `LaunchInv`, `OrderInv`):
`MemoryExtendsDisk` says by how much memory can be ahead of `coordinator.json` at
each step, since every `persist()` can fail on either side of the replacement;
without it, nothing that was decided in memory could be found again by a resume.
`LaunchInv` ties a trial to a submission on disk, and `OrderInv` says that
everything before the last submission is resolved; that only one entry is
unresolved follows. `ChargeInv`: an entry that was not launched has used nothing,
and what is submitted is covered from the check to the launch. It is needed
because a trial reports its usage late: between the check and the launch no
charge may grow, and none does, since the only entry that could is resolved.
`EventInv`: the events tell of a first part of the submissions and of a part of
the retirements (`Tells`, with the position of each intent), of all of them at every
step but three, and the step says which one is missing. An exception writes what is
in memory at that step, so a journal on disk may tell of less than it records;
`CountedIsTold` shows that it does only if the counts of events differ, which is how
`LoadableUnlessTorn` describes a torn journal, and `IntentIsAt` that `IntentAt`
finds the intents that `Tells` speaks of. From them: `CoordinatorSafety`,
`CoordinatorLaunchedOnce`, `CoordinatorFinalIsQuiet`, `CoordinatorLoadable`, and
`CoordinatorHistoryKept` with its parts `CoordinatorJournalGrows` (a saved submission
is never taken back or changed), `LaunchCovered` and `CoordinatorSealIsLast`.

**BatchQueueProofs.** `QueueInv`, which is `BatchInv` and `CrashAdoptsScore`, is
inductive; neither is alone, because the worker that takes a saved score up
decides by what its predecessor owes. `AttemptInv`, `TrialInv` and `RunInv` relate
the rows of the two tables, the files of an attempt and what it has spent;
`WorkerInv` says which trial the worker has in hand at each step of its loop, and
that under systemd nothing plays but that one; `OwedInv` is what a dead worker
left to be adopted. From it: `BatchSafety`, `BatchCrashAdoptsScore`,
`BatchOneTrialInWorld` (of the installed service, `Supervised`: by hand a child
survives its worker and the theorem is false) and `BatchImplementsQueue`: every
step maps to a step or a stutter of `PaidQueue`. There a claim is the step that
needs the sum of all charges, as `Claim` adds up the attempts that are in the
tables and `PaidQueue` the tries it knows; every other step leaves charges alone
or lowers one, so `BudgetKept` follows.

**NormalLifecycleProofs.** `IInv`, which is `LifecycleInv` and `OneOperator`, is
inductive. `HostInv` and `JournalInv` say what a journal on disk may claim of
services and starts (`Sound`) and that only the latest restoration is open
(`Latest`): instances are numbered, and every earlier journal names only older
ones. `CommandInv` (`Knows`) says what a command in the middle has in memory, and
`GuardInv` what a guard may do that outlived its command. `OneOperator` is needed
in it, since a command reasons from the journal it read while it holds the lock.
From it: `LifecycleSafety`, `LifecycleOneOperator` and
`LifecycleImplementsRestoreOnce`.

**ControllerBridgeProofs.** `RelayInv` is inductive: `BridgeInv`, `OneController`
and `OutcomeHonest` together with `FolderInv` (what a folder without a claim or
with a damaged file can contain), `CallInv` (which document comes before which
call), `WorkInv` (one worker, and the status and input in memory are its own),
`InputInv` (a command that is under way is that of the pending input, or older),
`LeaseInv` (a page whose run was let go is silent about it) and `TurnInv` (nobody
knows a transition before it is made). Requests and answers cross and late frames
are served again, so `InputInv` and `LeaseInv` speak of every place where a
command can be: the reply, the page's hands, its acknowledgement, the late frame.
From it: `BridgeSafety`, `BridgeOneController`, `BridgeOutcomeHonest`,
`BridgeLease` and the action property `BridgeNoStartOverDamage`.

**GroupOperationProofs.** `GroupInv` is inductive: `Backed` (a journal quotes only
files that exist), `OneEnd`, and what each program relies on. `CommandInv` says
where the command that holds the gate may be and what it found on the way,
`ChildInv`, `TrialsInv` and `WrapperInv` what a child, the entries and the
wrapper's journal may be then, `ClaimInv` that the claim is its owner's.
`CompletedStays` is the lemma behind the rest: what a completed operation has
recorded no later command changes. From it: `GroupSafety`,
`GroupNoTrialOverFailure` (with its own induction, since another trial starts in
a world that this group left) and the action property `GroupRestoredOnce`.

**CosmicRuntimeProofs.** `RuntimeInv` is inductive: `Recorded`, `ScoredWhole`,
`EvidenceKept`, and `StepInv`, which says for each step of a run, of its failure
handler and of a cleanup what has been done by then and what has been written
about it. From it: `RuntimeSafety` and the action property `RuntimeOnlyOwn`: only
`Stop` takes down a service that runs, and the step before it has looked at
what the service runs with. `Refuse` is guarded by `~ENABLED Work`; the proofs
use only that it raises, so they hold for a guard that refuses more often.

*Of `ProgramController`*, in the same module: `LoopInv` is inductive, for any number
of calls, any budgets and every way of control. `ActingInv` says which program may
be acting or ended without having been counted: the turn's, while the loop waits for
it, or in continuous mode the active one, wherever the loop is. `InputsInv` adds that
program's counts to the controller's, so that what was really sent and performed is
known at every step in between; without it `WithinLimits` does not survive a
replacement, which hands what is left to the next program. `PaidInv` ties calls to
reservations, before and after the write, and `TraceInv` what the trace says of each
turn, in memory and as saved, to the calls that were made; it says that a trace saved
as completed is the last. A loop that raised under a program (`Raised`) is the one
place where the counts stay behind. From it: `ControllerSafe`
(`ControllerInv`: `WithinLimits`, `OneProgram` and `Accounted`) and `ControllerHonest`
(`TraceHonest`: `NeverDenied` and `CompletedWhole`).

*Of `FollowPublication`*, in `ExperimentCoordinatorProofs`: `FollowSafe` is inductive,
for any cohort, any archive, seeds, operations, polls and kills. Its nine parts say of
the cohort, the follower's place, the exporter, the receipts, the operation's files,
the driver, the provider and the public origin what the others rely on. What holds
them together is an order: `Below(o, c)` says that the account `o` of the cohort may
become `c`, and is reflexive, transitive and antisymmetric (`BelowSelf`,
`BelowTwice`, `BelowBoth`). Every package is not older than the observation its
operation was begun for and not newer than the cohort (`ExporterInv`), and what is
public is never older than what was public before (`PublicInv`), although the
provider may accept a deployment at any time after it was asked for. `ProviderInv` is the core:
a deployment under way, or one that was sent and not recorded, is the current
operation's, and none is under way when there is no current operation; that is why
an operation may be put aside only before its marker (`Defer`) or after its proof
(`Done`). `ReceiptInv` says that a receipt of an attempt that is not yet exported can
only come from the current operation, which is why one found after a lost reply may
be adopted. From it: `FollowerHonest` (`InOrder`, `BackedUpFirst`,
`CompleteIsPublic`: the signature that was published last lies below the public rows,
these below the cohort, and a cohort that is closed is its own signature) and
`FollowerOnce` (`DeployedOnce`, `ExportedOnce`).

Every safety invariant, action property and refinement that a run checks is thus a
theorem. Only model-checked is liveness (`LeaseReleased`, `WorldReleased`, `Settles`,
`Recovers`, `DeploymentsReconciled`, `Returned`), which needs fairness and ENABLED.

## 6. Plan

Done, in this order: `OperationRegistry`, `OperationGate`, its proofs;
`ExperimentCoordinator`; `AttemptLedger`, `TrialRunner`, its proofs; `PaidQueue`,
`BatchQueue`; `RestoreOnce`, `NormalLifecycle`; `ControllerBridge`;
`GroupOperation`; `CosmicRuntime`; `FollowPublication`; `ProgramController`.

Their theorems, in this order: `OperationGate`, `TrialRunner`; `NormalLifecycle`;
`CosmicRuntime`; `ControllerBridge`; `ExperimentCoordinator`; `GroupOperation`;
`BatchQueue`; `ProgramController`; `FollowPublication`.

What would come next: an abstract specification of a publication (a package is
public only if it is backed up, and sent once) that `FollowPublication` implements,
as `PaidQueue` is for the batch queue; and a composition of `ControllerBridge` and
`ProgramController` over one run's folder, so that what `cancel()` records of an
adaptive run (section 4, 10) can be stated of both.

### Not modelled

- The operation join's envelope: its bytes are digests and pins that are only
  compared; who may join which claim is in `GroupOperation` and
  `ExperimentCoordinator`.
- XP differences and windows, combat totals, readiness: arithmetic and decisions
  on one observation, without state, covered by table tests in the repository.
- The serial queue, the predecessor of the batch queue: one flock, one pass over
  a JSON file, neither retry nor recovery.
- Native, XP and hero acceptance: they repeat the journal and lock discipline of
  `TrialRunner`, `OperationGate` and `CosmicRuntime` for runs without a model; a
  module of theirs would say the same of other names.
- The Java start gate and XP ledger run inside a game server that is not part of
  the repository; `CosmicRuntime` has what the runtime relies on.
- Freezing, collecting, galleries, dashboards, recording, installation: one-shot
  scripts whose output nobody writes to at the same time.

## 7. Running it

```
tlc -config MCOperationGate.cfg MCOperationGate.tla      # likewise the others
tlapm OperationGateProofs.tla                            # likewise the other *Proofs
```
