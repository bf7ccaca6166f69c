-------------------------- MODULE BatchQueueProofs --------------------------
(***************************************************************************)
(* What BatchQueue promises, proved for any number of trials, attempts and *)
(* commands, any budget and any number of faults: the tables, the worker,  *)
(* its child and the commands beside it agree (BatchInv), a saved score    *)
(* is never paid for again, a supervised worker's attempts act on the      *)
(* world one at a time, and PaidQueue is implemented, budget included.     *)
(*                                                                         *)
(* A step changes the worker's locals and one of the tables at most, so    *)
(* the lemmas are by what becomes of the trials: RowsAlike, where none     *)
(* begins or ends; ClosesRun, where an attempt ends; a claim; and, with    *)
(* the tables as they are, the child and the end of the worker.            *)
(***************************************************************************)
EXTENDS BatchQueue, FiniteSetTheorems, TLAPS

Worlds  == [override : BOOLEAN, cosmic : {"normal", "trial", "stopped"}]
Workers == [pc : WorkerPCs, task : Trials \cup {None}, todo : SUBSET Trials,
            then : WorkerPCs, restored : BOOLEAN, view : Summaries]

Running == With("running")

QueueInv == BatchInv /\ CrashAdoptsScore

-----------------------------------------------------------------------------
(* The types, and the worker's locals *)

(* The constants *)
LEMMA Constants ==
    /\ NumTrials \in Nat \ {0} /\ MaxAttempts \in Nat \ {0} /\ MaxFaults \in Nat
    /\ MaxCallsPerTrial \in Nat /\ None \notin Nat /\ None \notin Trials
    /\ Supervised \in BOOLEAN /\ Trials = 1..NumTrials
BY BatchAssumption DEF Trials

(* What TypeOK says, part by part *)
LEMMA Types ==
    ASSUME TypeOK
    PROVE  /\ trial \in [Trials -> Rows] /\ attempt \in [Runs -> Accounts]
           /\ saved \in [Runs -> Scores] /\ child \in [Runs -> Children]
           /\ spent \in [Runs -> Nat] /\ worker \in Workers /\ world \in Worlds
           /\ owed \subseteq Runs /\ faults \in 0..MaxFaults
           /\ \A t \in Trials : trial[t].attempt \in 0..MaxAttempts
           /\ \A r \in Runs : r = <<r[1], r[2]>> /\ r[1] \in Trials /\ r[2] \in 1..MaxAttempts
BY DEF TypeOK, Workers, Worlds, Rows, Runs

(* The trial of a running row is on an attempt of its own. *)
LEMMA CurrentFacts ==
    ASSUME TypeOK, TrialInv, NEW t \in Trials, trial[t].status = "running"
    PROVE  /\ Current(t) \in Runs /\ Current(t) = <<t, trial[t].attempt>>
           /\ trial[t].attempt \in 1..MaxAttempts
BY Types, Constants DEF TrialInv, Current, Runs

(* A fault is one of the counted ones. *)
LEMMA FaultFacts ==
    ASSUME TypeOK, Fault
    PROVE  faults' \in 0..MaxFaults
BY Constants DEF TypeOK, Fault

(* The worker goes to another of its steps. *)
LEMMA GoFacts ==
    ASSUME TypeOK, NEW s \in WorkerPCs, Go(s)
    PROVE  /\ worker' \in Workers /\ worker'.pc = s /\ worker'.task = worker.task
           /\ worker'.todo = worker.todo /\ worker'.then = worker.then
           /\ worker'.restored = worker.restored
BY Types DEF Go, Workers

(* It publishes before it goes there. *)
LEMMA PublishFacts ==
    ASSUME TypeOK, NEW s \in WorkerPCs
    PROVE  /\ Publish(s) \in Workers /\ Publish(s).pc = "publish" /\ Publish(s).task = None
           /\ Publish(s).todo = worker.todo /\ Publish(s).then = s
           /\ Publish(s).restored = worker.restored
BY Types DEF Publish, Workers, WorkerPCs

(* A worker that is down has forgotten everything. *)
LEMMA DownFacts ==
    /\ Down \in Workers /\ Down.pc = "down" /\ Down.todo = {} /\ ~Down.restored
    /\ [Down EXCEPT !.pc = "claim"] \in Workers /\ [Down EXCEPT !.pc = "claim"].pc = "claim"
    /\ [Down EXCEPT !.pc = "claim"].todo = {} /\ ~[Down EXCEPT !.pc = "claim"].restored
BY DEF Down, Workers, WorkerPCs, Summaries

-----------------------------------------------------------------------------
(* Steps that leave the trials and their attempts as they are *)

(* What the worker holds at each of its steps. *)
LEMMA HandsFacts ==
    ASSUME QueueInv
    PROVE  /\ ~InHand /\ worker.pc \notin {"down", "recover"} => Running = {}
           /\ worker.pc # "wait" => \A r \in Runs : Supervised => child[r] \notin Live
           /\ \A t \in worker.todo : t \in Trials /\ trial[t].status \in Scored
           /\ Rendering => worker.task \in Trials /\ trial[worker.task].status \in Scored
           /\ Publishing => worker.then \in {"launch", "claim", "restore", "idle", "render"}
           /\ InHand => /\ worker.task \in Trials /\ trial[worker.task].status = "running"
                        /\ Running = {worker.task} /\ ~worker.restored
           /\ \A t, u \in Running : t = u
BY Types DEF QueueInv, BatchInv, WorkerInv, Workers, Running, With

(* The trials keep their attempts, what is running and what has a score.   *)
RowsAlike ==
    /\ trial' \in [Trials -> Rows]
    /\ \A t \in Trials :
           /\ trial'[t].attempt = trial[t].attempt /\ trial'[t].scored = trial[t].scored
           /\ trial'[t].status = "running" <=> trial[t].status = "running"
           /\ trial'[t].status \in Scored <=> trial[t].status \in Scored
           /\ trial'[t].status = "absent" => trial[t].status = "absent"
           /\ trial'[t].status = "queued" => trial[t].status \in {"absent", "queued"}

(* Rows that are left as they are *)
LEMMA SameRows ==
    ASSUME TypeOK, trial' = trial
    PROVE  RowsAlike
BY Types DEF RowsAlike

(* Then the tables agree as before. *)
LEMMA AlikeFacts ==
    ASSUME QueueInv, RowsAlike, UNCHANGED <<attempt, child, saved, spent, owed>>
    PROVE  AttemptInv' /\ TrialInv' /\ RunInv' /\ CrashAdoptsScore' /\ Running' = Running
<1>1. TypeOK /\ AttemptInv /\ TrialInv /\ RunInv /\ CrashAdoptsScore
  BY DEF QueueInv, BatchInv
<1>2. AttemptInv'
  <2>1. SUFFICES ASSUME NEW t \in Trials, NEW n \in 1..MaxAttempts
                 PROVE  LET a == attempt[<<t, n>>] IN
                        /\ a.status = "none" <=> n > trial'[t].attempt
                        /\ a.status = "running" <=>
                               n = trial'[t].attempt /\ trial'[t].status = "running"
                        /\ a.status \in {"none", "running", "interrupted"} => a.used = None
                        /\ a.status = "completed" <=> n = trial'[t].attempt /\ trial'[t].scored
                        /\ spent[<<t, n>>] <= a.reserved
    BY DEF AttemptInv
  <2>2. LET a == attempt[<<t, n>>] IN
        /\ a.status = "none" <=> n > trial[t].attempt
        /\ a.status = "running" <=> n = trial[t].attempt /\ trial[t].status = "running"
        /\ a.status \in {"none", "running", "interrupted"} => a.used = None
        /\ a.status = "completed" <=> n = trial[t].attempt /\ trial[t].scored
        /\ spent[<<t, n>>] <= a.reserved
    BY <1>1 DEF AttemptInv
  <2>3. /\ trial'[t].attempt = trial[t].attempt /\ trial'[t].scored = trial[t].scored
        /\ trial'[t].status = "running" <=> trial[t].status = "running"
    BY DEF RowsAlike
  <2>4. QED
    BY <2>2, <2>3
<1>3. TrialInv'
  <2>1. SUFFICES ASSUME NEW t \in Trials
                 PROVE  /\ trial'[t].scored <=> trial'[t].status \in Scored
                        /\ trial'[t].status = "absent" => trial'[t].attempt = 0
                        /\ trial'[t].status = "queued" => trial'[t].attempt < MaxAttempts
                        /\ trial'[t].status = "running" => trial'[t].attempt > 0
    BY DEF TrialInv
  <2>2. QED
    BY <1>1, <2>1, Constants DEF TrialInv, RowsAlike
<1>4. RunInv'
  BY <1>1 DEF RunInv
<1>5. Running' = Running
  BY DEF Running, With, RowsAlike
<1>6. CrashAdoptsScore'
  <2>1. SUFFICES ASSUME NEW r \in owed
                 PROVE  /\ trial'[r[1]].attempt = r[2]
                        /\ trial'[r[1]].status \in Scored \cup {"running"}
    BY DEF CrashAdoptsScore
  <2>2. r[1] \in Trials
    BY <1>1, <2>1, Types
  <2>3. QED
    BY <1>1, <2>1, <2>2 DEF CrashAdoptsScore, RowsAlike
<1>7. QED
  BY <1>2, <1>3, <1>4, <1>5, <1>6

(* Of such a step the worker's side of the invariant is what is to show.   *)
LEMMA WorkerMoves ==
    ASSUME QueueInv, RowsAlike, UNCHANGED <<attempt, child, saved, spent, owed>>,
           worker' \in Workers, batch' \in Summaries, video' \subseteq Trials,
           world' \in Worlds, faults' \in 0..MaxFaults,
           command' \in [Commands -> [pc : CommandPCs, task : Trials \cup {None},
                                      view : Summaries]],
           CommandInv', WorkerInv', IdleWorldRuns',
           Running # {} /\ worker.pc \in {"down", "recover"} => worker'.pc \in {"down", "recover"}
    PROVE  QueueInv'
<1>1. TypeOK'
  BY DEF QueueInv, BatchInv, TypeOK, Workers, Worlds, RowsAlike
<1>2. AttemptInv' /\ TrialInv' /\ RunInv' /\ CrashAdoptsScore'
  BY AlikeFacts
<1>3. OwedInv'
  <2>1. SUFFICES ASSUME NEW r \in owed, trial'[r[1]].status = "running"
                 PROVE  saved[r].reason = "model" /\ worker'.pc \in {"down", "recover"}
    BY DEF OwedInv
  <2>2. r[1] \in Trials /\ trial[r[1]].status = "running"
    BY <2>1, Types DEF QueueInv, BatchInv, RowsAlike
  <2>3. saved[r].reason = "model" /\ worker.pc \in {"down", "recover"}
    BY <2>1, <2>2 DEF QueueInv, BatchInv, OwedInv
  <2>4. r[1] \in Running
    BY <2>2 DEF Running, With
  <2>5. QED
    BY <2>3, <2>4
<1>4. QED
  BY <1>1, <1>2, <1>3 DEF QueueInv, BatchInv

(* The commands and the worker that no step touches hold on to trials that *)
(* keep their scores.                                                      *)
LEMMA CommandsStay ==
    ASSUME TypeOK, CommandInv, UNCHANGED command,
           \A t \in Trials : trial[t].status \in Scored => trial'[t].status \in Scored
    PROVE  CommandInv'
BY DEF CommandInv, TypeOK

(* The same of the worker *)
LEMMA WorkerStays ==
    ASSUME QueueInv, RowsAlike, UNCHANGED <<child, saved, worker>>
    PROVE  WorkerInv'
<1>1. Running' = Running
  BY DEF Running, With, RowsAlike
<1>2. TypeOK /\ WorkerInv
  BY DEF QueueInv, BatchInv
<1>3. Launching \/ worker.pc \in {"wait", "score"} => worker.task \in Trials
  BY <1>2, HandsFacts DEF InHand
<1>4. Launching \/ worker.pc \in {"wait", "score"} =>
          Current(worker.task)' = Current(worker.task)
  BY <1>3 DEF Current, RowsAlike
<1>5. \A r \in Runs : Supervised /\ child'[r] \in Live =>
          worker'.pc = "wait" /\ r = Current(worker.task)'
  BY <1>2, <1>4 DEF WorkerInv
<1>6. \A t \in worker'.todo : trial'[t].status \in Scored
  BY HandsFacts DEF RowsAlike
<1>7. Rendering' => worker'.task # None /\ trial'[worker'.task].status \in Scored
  BY Constants, HandsFacts DEF RowsAlike, Rendering, Publishing
<1>8. Launching' => /\ child'[Current(worker.task)'] = "none"
                    /\ saved'[Current(worker.task)'].reason = "none"
  <2>1. Launching' = Launching
    BY DEF Launching, Publishing
  <2>2. QED
    BY <1>2, <1>4, <2>1 DEF WorkerInv
<1>9. worker'.pc = "score" => saved'[Current(worker.task)'].reason # "none"
  BY <1>2, <1>4 DEF WorkerInv
<1>10. /\ \A t, u \in Running' : t = u
       /\ InHand' => Running' = {worker'.task} /\ ~worker'.restored
       /\ ~InHand' /\ worker'.pc \notin {"down", "recover"} => Running' = {}
       /\ Publishing' => worker'.then \in {"launch", "claim", "restore", "idle", "render"}
       /\ worker'.pc = "idle" \/ (Publishing' /\ worker'.then = "idle") => worker'.restored
  BY <1>1, <1>2 DEF WorkerInv, Running, InHand, Launching, Publishing
<1>11. QED
  BY <1>5, <1>6, <1>7, <1>8, <1>9, <1>10 DEF WorkerInv, Running

(* And of the worker's side what its next step asks for, when no step      *)
(* before it has an attempt in hand.                                       *)
LEMMA EmptyHands ==
    ASSUME TypeOK, Running' = {}, worker' \in Workers,
           \A r \in Runs : Supervised => child'[r] \notin Live,
           \A t \in worker'.todo : trial'[t].status \in Scored,
           worker'.pc \in {"adopt", "mark", "render", "rendering"} =>
               worker'.task # None /\ trial'[worker'.task].status \in Scored,
           worker'.pc \notin {"launch", "wait", "score", "fail"},
           worker'.pc = "idle" => worker'.restored,
           worker'.pc \in {"publish", "write"} =>
               /\ worker'.then \in {"claim", "restore", "idle", "render"}
               /\ worker'.then = "idle" => worker'.restored
               /\ worker'.then = "render" =>
                      worker'.task # None /\ trial'[worker'.task].status \in Scored
    PROVE  WorkerInv'
BY DEF WorkerInv, InHand, Launching, Publishing, Rendering, Running

(* The steps of the worker between two transactions *)
LEMMA BetweenKeeps ==
    ASSUME QueueInv,
           \/ RecoverDone \/ RecoverRendersDone \/ (\E t \in Trials : RecoverRender(t))
           \/ RenderReturns \/ Poll \/ PublicationError \/ RestoreUnloads
           \/ RestoreRestarts \/ RestoreStarts
    PROVE  QueueInv'
<1>1. /\ UNCHANGED <<trial, attempt, child, saved, spent, owed, command>> /\ batch' = batch
      /\ TypeOK
  BY DEF RecoverDone, RecoverRendersDone, RecoverRender, RenderReturns, Poll,
     PublicationError, RestoreUnloads, RestoreRestarts, RestoreStarts, disk, QueueInv,
     BatchInv
<1>2. /\ command \in [Commands -> [pc : CommandPCs, task : Trials \cup {None},
                                  view : Summaries]]
      /\ batch \in Summaries /\ video \subseteq Trials /\ faults \in 0..MaxFaults
      /\ world \in Worlds /\ worker \in Workers
  BY <1>1, Types DEF TypeOK
<1>3. CommandInv' /\ Running' = Running
  BY <1>1 DEF QueueInv, BatchInv, CommandInv, Running, With
<1>4. faults' \in 0..MaxFaults
  BY <1>1, <1>2, FaultFacts DEF RecoverDone, RecoverRendersDone, RecoverRender,
     RenderReturns, Poll, PublicationError, RestoreUnloads, RestoreRestarts, RestoreStarts
<1>5. video' \subseteq Trials
  <2>1. CASE RenderReturns
    <3>1. worker.task \in Trials
      BY <2>1, HandsFacts DEF RenderReturns, Rendering
    <3>2. QED
      BY <1>2, <2>1, <3>1 DEF RenderReturns
  <2>2. QED
    BY <1>2, <2>1 DEF RecoverDone, RecoverRendersDone, RecoverRender, Poll,
       PublicationError, RestoreUnloads, RestoreRestarts, RestoreStarts, disk
<1>6. /\ Running = {} /\ worker.pc \notin {"down", "wait"}
      /\ \A r \in Runs : Supervised => child'[r] \notin Live
  <2>1. Running = {} /\ worker.pc \notin {"down", "wait"}
    BY HandsFacts DEF RecoverDone, RecoverRendersDone, RecoverRender, RenderReturns, Poll,
       PublicationError, RestoreUnloads, RestoreRestarts, RestoreStarts, InHand, Launching,
       Publishing, Running
  <2>2. QED
    BY <1>1, <2>1, HandsFacts
<1>7. /\ worker' \in Workers
      /\ \A t \in worker'.todo : trial[t].status \in Scored
      /\ worker'.pc \notin {"launch", "wait", "score", "fail", "adopt", "mark", "write"}
      /\ worker'.pc \in {"render", "rendering"} =>
             worker'.task \in Trials /\ trial[worker'.task].status \in Scored
      /\ worker'.pc = "idle" => worker'.restored
      /\ worker'.pc = "publish" => worker'.then = "claim"
  <2>1. \A t \in worker.todo : t \in Trials /\ trial[t].status \in Scored
    BY HandsFacts
  <2>2. CASE RecoverDone
    <3>1. worker' = [worker EXCEPT !.pc = "renders",
                                   !.todo = With("completed") \cup With("rendering")]
      BY <2>2 DEF RecoverDone
    <3>2. \A t \in With("completed") \cup With("rendering") :
              t \in Trials /\ trial[t].status \in Scored
      BY DEF With, Scored
    <3>3. worker' \in Workers /\ worker'.pc = "renders"
          /\ worker'.todo = With("completed") \cup With("rendering")
      BY <1>2, <3>1, <3>2 DEF Workers, WorkerPCs
    <3>4. QED
      BY <3>2, <3>3
  <2>3. CASE RecoverRendersDone
    BY <2>3, DownFacts DEF RecoverRendersDone
  <2>4. CASE \E t \in Trials : RecoverRender(t)
    <3>1. PICK t \in worker.todo :
             worker' = [worker EXCEPT !.pc = "render", !.task = t, !.todo = @ \ {t},
                                      !.then = "renders"]
      BY <2>4 DEF RecoverRender
    <3>2. /\ worker' \in Workers /\ worker'.pc = "render" /\ worker'.task = t
          /\ worker'.todo = worker.todo \ {t}
      BY <1>2, <2>1, <3>1 DEF Workers, WorkerPCs
    <3>3. QED
      BY <2>1, <3>2
  <2>5. CASE RenderReturns
    <3>1. Go("render") /\ worker.pc = "rendering" /\ "render" \in WorkerPCs
      BY <2>5 DEF RenderReturns, WorkerPCs
    <3>2. QED
      BY <1>1, <2>1, <3>1, GoFacts, HandsFacts DEF Rendering
  <2>6. CASE Poll
    <3>1. worker' = [worker EXCEPT !.pc = "claim"] \/ worker' = Down
      BY <2>6 DEF Poll
    <3>2. CASE worker' = [worker EXCEPT !.pc = "claim"]
      BY <1>2, <2>1, <3>2 DEF Workers, WorkerPCs
    <3>3. QED
      BY <3>1, <3>2, DownFacts
  <2>7. CASE PublicationError
    <3>1. worker' = Publish("claim") /\ "claim" \in WorkerPCs
      BY <2>7 DEF PublicationError, WorkerPCs
    <3>2. QED
      BY <1>1, <2>1, <3>1, PublishFacts
  <2>8. CASE RestoreUnloads
    <3>1. Go("restart") /\ "restart" \in WorkerPCs
      BY <2>8 DEF RestoreUnloads, WorkerPCs
    <3>2. QED
      BY <1>1, <2>1, <3>1, GoFacts
  <2>9. CASE RestoreRestarts \/ RestoreStarts
    <3>1. worker' = [worker EXCEPT !.pc = "idle", !.restored = TRUE]
      BY <2>9 DEF RestoreRestarts, RestoreStarts
    <3>2. /\ worker' \in Workers /\ worker'.pc = "idle" /\ worker'.restored
          /\ worker'.todo = worker.todo
      BY <1>2, <3>1 DEF Workers, WorkerPCs
    <3>3. QED
      BY <2>1, <3>2
  <2>10. QED
    BY <2>2, <2>3, <2>4, <2>5, <2>6, <2>7, <2>8, <2>9
<1>8. WorkerInv'
  BY <1>1, <1>3, <1>6, <1>7, Constants, EmptyHands
<1>9. world' \in Worlds /\ IdleWorldRuns'
  <2>1. CASE RestoreUnloads
    <3>1. /\ world' = [world EXCEPT !.override = FALSE] /\ worker.pc = "restore"
          /\ Go("restart") /\ "restart" \in WorkerPCs /\ world.override
      BY <2>1 DEF RestoreUnloads, WorkerPCs
    <3>2. world' \in Worlds /\ ~world'.override /\ world'.cosmic = world.cosmic
      BY <1>2, <3>1 DEF Worlds
    <3>3. Supervised => ~worker.restored
      BY <3>1 DEF QueueInv, BatchInv, IdleWorldRuns
    <3>4. QED
      BY <1>1, <3>1, <3>2, <3>3, GoFacts DEF IdleWorldRuns
  <2>2. CASE RestoreRestarts
    <3>1. world' = [world EXCEPT !.cosmic = "normal"] /\ worker.pc = "restart"
      BY <2>2 DEF RestoreRestarts
    <3>2. /\ world' \in Worlds /\ world'.override = world.override
          /\ world'.cosmic = "normal"
      BY <1>2, <3>1 DEF Worlds
    <3>3. worker'.pc = "idle"
      BY <1>2, <2>2 DEF RestoreRestarts, Workers
    <3>4. QED
      BY <3>1, <3>2, <3>3 DEF QueueInv, BatchInv, IdleWorldRuns
  <2>3. CASE RestoreStarts
    <3>1. world' = [world EXCEPT !.cosmic = IF @ = "stopped" THEN "normal" ELSE @]
          /\ ~world.override
      BY <2>3 DEF RestoreStarts
    <3>2. /\ world' \in Worlds /\ world'.override = world.override
          /\ world'.cosmic # "stopped"
      BY <1>2, <3>1 DEF Worlds
    <3>3. worker'.pc = "idle"
      BY <1>2, <2>3 DEF RestoreStarts, Workers
    <3>4. QED
      BY <3>1, <3>2, <3>3 DEF IdleWorldRuns
  <2>4. CASE world' = world /\ (worker'.restored => worker.restored) /\ worker'.pc # "restart"
    BY <1>2, <2>4 DEF QueueInv, BatchInv, IdleWorldRuns
  <2>5. CASE RecoverDone \/ \E t \in Trials : RecoverRender(t)
    BY <1>2, <2>4, <2>5 DEF RecoverDone, RecoverRender, Workers
  <2>6. CASE RecoverRendersDone
    BY <2>4, <2>6, DownFacts DEF RecoverRendersDone
  <2>7. CASE RenderReturns
    <3>1. "render" \in WorkerPCs
      BY DEF WorkerPCs
    <3>2. QED
      BY <1>1, <2>4, <2>7, <3>1, GoFacts DEF RenderReturns
  <2>8. CASE Poll
    BY <1>2, <2>4, <2>8, DownFacts DEF Poll, Workers
  <2>9. CASE PublicationError
    <3>1. "claim" \in WorkerPCs
      BY DEF WorkerPCs
    <3>2. QED
      BY <1>1, <2>4, <2>9, <3>1, PublishFacts DEF PublicationError
  <2>10. QED
    BY <2>1, <2>2, <2>3, <2>5, <2>6, <2>7, <2>8, <2>9
<1>10. QED
  BY <1>1, <1>2, <1>3, <1>4, <1>5, <1>6, <1>7, <1>8, <1>9, SameRows, WorkerMoves

(* Steps of the worker that go on with what it has in hand *)
LEMMA InHandKeeps ==
    ASSUME QueueInv, WorkerStarts \/ LaunchFails \/ ScoreRaises \/ PublishReads \/ PublishWrites
    PROVE  QueueInv'
<1>1. /\ UNCHANGED <<trial, attempt, child, saved, spent, owed, command, video, world>>
      /\ TypeOK /\ WorkerInv /\ IdleWorldRuns /\ CommandInv
  BY DEF WorkerStarts, LaunchFails, ScoreRaises, PublishReads, PublishWrites, disk, QueueInv,
     BatchInv
<1>2. /\ command' \in [Commands -> [pc : CommandPCs, task : Trials \cup {None},
                                   view : Summaries]]
      /\ batch \in Summaries /\ video' \subseteq Trials /\ world' \in Worlds
      /\ faults \in 0..MaxFaults /\ worker \in Workers
  BY <1>1, Types DEF TypeOK
<1>3. /\ RowsAlike /\ CommandInv' /\ Running' = Running
      /\ \A t \in Trials \cup {None} : Current(t)' = Current(t)
  BY <1>1, SameRows DEF CommandInv, Running, With, Current
<1>4. faults' \in 0..MaxFaults
  BY <1>1, <1>2, FaultFacts DEF WorkerStarts, LaunchFails, ScoreRaises, PublishReads,
     PublishWrites
<1>5. Summary \in Summaries
  BY DEF Summary, Summaries
<1>6. batch' \in Summaries
  BY <1>2 DEF WorkerStarts, LaunchFails, ScoreRaises, PublishReads, PublishWrites, disk,
     Workers
<1>7. /\ worker' \in Workers /\ worker'.task = worker.task /\ worker'.todo = worker.todo
      /\ worker'.then = worker.then /\ worker'.restored = worker.restored
      /\ \/ worker.pc = "down" /\ worker'.pc = "recover"
         \/ worker.pc \in {"launch", "score"} /\ worker'.pc = "fail"
         \/ worker.pc = "publish" /\ worker'.pc = "write"
         \/ worker.pc = "write" /\ worker'.pc = worker.then
  <2>1. CASE WorkerStarts \/ LaunchFails \/ ScoreRaises
    BY <1>1, <2>1, GoFacts DEF WorkerStarts, LaunchFails, ScoreRaises, WorkerPCs
  <2>2. CASE PublishReads
    BY <1>2, <1>5, <2>2 DEF PublishReads, Workers, WorkerPCs
  <2>3. CASE PublishWrites
    BY <1>2, <2>3 DEF PublishWrites, Workers, Summaries
  <2>4. QED
    BY <2>1, <2>2, <2>3
<1>8. worker.pc = "write" =>
          worker.then \in {"launch", "claim", "restore", "idle", "render"}
  BY <1>1, HandsFacts DEF Publishing
<1>9. /\ InHand' <=> InHand
      /\ Launching' => Launching
      /\ Rendering' <=> Rendering
      /\ Publishing' => Publishing
      /\ worker'.pc # "score"
  BY <1>7, <1>8 DEF InHand, Launching, Rendering, Publishing
<1>10. WorkerInv'
  <2>1. \A r \in Runs : Supervised => child'[r] \notin Live
    BY <1>1, <1>7, HandsFacts
  <2>2. /\ \A t, u \in Running' : t = u
        /\ InHand' => Running' = {worker'.task} /\ ~worker'.restored
        /\ ~InHand' /\ worker'.pc \notin {"down", "recover"} => Running' = {}
    BY <1>3, <1>7, <1>9, HandsFacts DEF WorkerInv, InHand, Running
  <2>3. Launching' => /\ child'[Current(worker.task)'] = "none"
                      /\ saved'[Current(worker.task)'].reason = "none"
    <3>1. Launching => worker.task \in Trials
      BY HandsFacts DEF InHand
    <3>2. SUFFICES ASSUME Launching'
                   PROVE  /\ child'[Current(worker.task)'] = "none"
                          /\ saved'[Current(worker.task)'].reason = "none"
      OBVIOUS
    <3>3. Current(worker.task)' = Current(worker.task)
      BY <1>1, <1>7 DEF Current
    <3>4. QED
      BY <1>1, <1>9, <3>2, <3>3 DEF WorkerInv
  <2>4. /\ Rendering' => worker'.task # None /\ trial'[worker'.task].status \in Scored
        /\ \A t \in worker'.todo : trial'[t].status \in Scored
    BY <1>1, <1>7, <1>9, Constants, HandsFacts
  <2>5. /\ Publishing' => worker'.then \in {"launch", "claim", "restore", "idle", "render"}
        /\ worker'.pc = "idle" \/ (Publishing' /\ worker'.then = "idle") => worker'.restored
    BY <1>1, <1>7, <1>8, <1>9 DEF WorkerInv, Publishing
  <2>6. QED
    BY <1>9, <2>1, <2>2, <2>3, <2>4, <2>5 DEF WorkerInv, Running
<1>11. IdleWorldRuns'
  BY <1>1, <1>7, <1>8 DEF IdleWorldRuns
<1>12. Running # {} /\ worker.pc \in {"down", "recover"} => worker'.pc \in {"down", "recover"}
  BY <1>7
<1>13. QED
  BY <1>1, <1>2, <1>3, <1>4, <1>6, <1>7, <1>10, <1>11, <1>12, WorkerMoves

-----------------------------------------------------------------------------
(* Rendering: a trial with a score keeps it *)

(* A row of which only what a renderer changes is changed *)
LEMMA OneRowAlike ==
    ASSUME TypeOK, TrialInv, NEW t \in Trials, trial[t].status \in Scored,
           trial' \in [Trials -> Rows], \A u \in Trials \ {t} : trial'[u] = trial[u],
           trial'[t].status \in Scored, trial'[t].attempt = trial[t].attempt,
           trial'[t].scored = trial[t].scored
    PROVE  RowsAlike
BY DEF RowsAlike, Scored

(* A status of a scored trial is set. *)
LEMMA SetStatus ==
    ASSUME TypeOK, TrialInv, NEW t \in Trials, trial[t].status \in Scored, NEW s \in Scored,
           trial' = [trial EXCEPT ![t].status = s]
    PROVE  RowsAlike
<1>1. /\ trial' \in [Trials -> Rows] /\ trial'[t].status = s
      /\ trial'[t].attempt = trial[t].attempt /\ trial'[t].scored = trial[t].scored
      /\ \A u \in Trials \ {t} : trial'[u] = trial[u]
  BY Types DEF Rows, Scored, Terminal
<1>2. QED
  BY <1>1, OneRowAlike

(* The steps of the worker that render *)
LEMMA RenderKeeps ==
    ASSUME QueueInv, Adopt \/ Mark \/ RenderAgain \/ RenderDone
    PROVE  QueueInv'
<1>1. /\ UNCHANGED <<attempt, child, saved, spent, owed, command, batch, video, world, faults>>
      /\ TypeOK /\ WorkerInv /\ TrialInv /\ CommandInv /\ IdleWorldRuns
  BY DEF Adopt, Mark, RenderAgain, RenderDone, disk, QueueInv, BatchInv
<1>2. /\ command' \in [Commands -> [pc : CommandPCs, task : Trials \cup {None},
                                   view : Summaries]]
      /\ batch' \in Summaries /\ video' \subseteq Trials /\ world' \in Worlds
      /\ faults' \in 0..MaxFaults /\ worker \in Workers
  BY <1>1, Types DEF TypeOK
<1>3. Rendering /\ ~InHand /\ worker.pc \in {"adopt", "mark", "render"}
  BY DEF Adopt, Mark, RenderAgain, RenderDone, Rendering, InHand, Launching, Publishing
<1>4. /\ worker.task \in Trials /\ trial[worker.task].status \in Scored /\ Running = {}
      /\ \A t \in worker.todo : t \in Trials /\ trial[t].status \in Scored
      /\ \A r \in Runs : Supervised => child'[r] \notin Live
  BY <1>1, <1>3, HandsFacts
<1>5. RowsAlike
  <2>1. CASE RenderAgain
    <3>1. trial' = [trial EXCEPT ![worker.task].renders = @ + 1]
          /\ trial[worker.task].renders # 2
      BY <2>1 DEF RenderAgain, Rendered
    <3>2. trial[worker.task] \in Rows
      BY <1>1, <1>4, Types
    <3>3. trial[worker.task].renders + 1 \in 0..2
      BY <3>1, <3>2 DEF Rows
    <3>. DEFINE k == trial[worker.task].renders + 1
    <3>4. trial' = [trial EXCEPT ![worker.task].renders = k] /\ trial \in [Trials -> Rows]
      BY <1>1, <3>1, Types
    <3>. HIDE DEF k
    <3>5. k \in 0..2
      BY <3>3 DEF k
    <3>6. /\ trial' \in [Trials -> Rows]
          /\ trial'[worker.task].status = trial[worker.task].status
          /\ trial'[worker.task].attempt = trial[worker.task].attempt
          /\ trial'[worker.task].scored = trial[worker.task].scored
          /\ \A u \in Trials \ {worker.task} : trial'[u] = trial[u]
      BY <1>4, <3>4, <3>5 DEF Rows
    <3>7. QED
      BY <1>1, <1>4, <3>6, OneRowAlike
  <2>2. CASE Adopt \/ Mark \/ RenderDone
    <3>1. \E s \in Scored : trial' = [trial EXCEPT ![worker.task].status = s]
      BY <2>2 DEF Adopt, Mark, RenderDone, Scored
    <3>2. QED
      BY <1>1, <1>4, <3>1, SetStatus
  <2>3. QED
    BY <2>1, <2>2
<1>6. \A t \in Trials : trial[t].status \in Scored => trial'[t].status \in Scored
  BY <1>5 DEF RowsAlike
<1>7. CommandInv' /\ Running' = {}
  BY <1>1, <1>4, <1>5, <1>6, AlikeFacts, CommandsStay
<1>8. /\ worker' \in Workers /\ worker'.todo = worker.todo /\ worker'.restored = worker.restored
      /\ \/ worker'.pc \in {"recover", "renders"} /\ worker.pc # "mark"
         \/ worker'.pc = "rendering" /\ worker'.task = worker.task
         \/ worker'.pc = "publish" /\ worker'.then = "claim"
         \/ worker'.pc = "publish" /\ worker'.then = "render" /\ worker'.task = worker.task
  <2>1. CASE Adopt
    BY <1>2, <2>1 DEF Adopt, Workers, WorkerPCs
  <2>2. CASE Mark
    <3>1. worker' = [Publish("render") EXCEPT !.task = worker.task] /\ "render" \in WorkerPCs
      BY <2>2 DEF Mark, WorkerPCs
    <3>2. worker' \in Workers /\ worker'.pc = "publish" /\ worker'.then = "render"
          /\ worker'.task = worker.task /\ worker'.todo = worker.todo
          /\ worker'.restored = worker.restored
      BY <1>1, <1>4, <3>1, PublishFacts DEF Workers
    <3>3. QED
      BY <3>2
  <2>3. CASE RenderAgain
    BY <1>1, <2>3, GoFacts DEF RenderAgain, WorkerPCs
  <2>4. CASE RenderDone
    <3>1. \/ worker' = [worker EXCEPT !.pc = "renders", !.task = None]
          \/ worker' = Publish("claim")
      BY <2>4 DEF RenderDone
    <3>2. CASE worker' = Publish("claim")
      BY <1>1, <3>2, PublishFacts DEF WorkerPCs
    <3>3. CASE worker' = [worker EXCEPT !.pc = "renders", !.task = None]
      BY <1>2, <2>4, <3>3 DEF Workers, WorkerPCs, RenderDone
    <3>4. QED
      BY <3>1, <3>2, <3>3
  <2>5. QED
    BY <2>1, <2>2, <2>3, <2>4
<1>9. WorkerInv'
  <2>1. \A t \in worker'.todo : trial'[t].status \in Scored
    BY <1>4, <1>6, <1>8
  <2>2. trial'[worker.task].status \in Scored /\ worker.task # None
    BY <1>4, <1>6, Constants
  <2>3. QED
    BY <1>1, <1>4, <1>7, <1>8, <2>1, <2>2, EmptyHands
<1>10. IdleWorldRuns'
  BY <1>1, <1>8 DEF IdleWorldRuns
<1>11. QED
  BY <1>1, <1>2, <1>4, <1>5, <1>7, <1>8, <1>9, <1>10, WorkerMoves

-----------------------------------------------------------------------------
(* An attempt ends *)

(* The attempt of the running trial is closed, and its trial with it; what *)
(* a dead worker left saved is not given up.                               *)
ClosesRun(t) ==
    /\ trial' \in [Trials -> Rows] /\ attempt' \in [Runs -> Accounts]
    /\ \A u \in Trials \ {t} : trial'[u] = trial[u]
    /\ \A r \in Runs \ {Current(t)} : attempt'[r] = attempt[r]
    /\ attempt'[Current(t)].status \in {"interrupted", "infrastructure_error", "completed"}
    /\ attempt'[Current(t)].reserved = attempt[Current(t)].reserved
    /\ attempt'[Current(t)].status = "interrupted" => attempt'[Current(t)].used = None
    /\ attempt'[Current(t)].used # None =>
           child[Current(t)] \notin Unsaved /\ spent[Current(t)] = attempt'[Current(t)].used
    /\ trial'[t].attempt = trial[t].attempt
    /\ trial'[t].status \in {"completed", "queued", "infrastructure_error"}
    /\ trial'[t].status = "queued" => trial[t].attempt < MaxAttempts
    /\ attempt'[Current(t)].status = "completed" <=> trial'[t].status = "completed"
    /\ trial'[t].scored <=> trial'[t].status = "completed"
    /\ (\E r \in owed : r[1] = t) => trial'[t].status = "completed"

(* Then the tables agree, and no trial is running. *)
LEMMA ClosedFacts ==
    ASSUME QueueInv, NEW t \in Trials, trial[t].status = "running", ClosesRun(t),
           UNCHANGED <<child, saved, spent, owed>>
    PROVE  /\ AttemptInv' /\ TrialInv' /\ RunInv' /\ CrashAdoptsScore' /\ OwedInv'
           /\ Running' = {}
           /\ \A u \in Trials : trial[u].status \in Scored => trial'[u].status \in Scored
<1>1. TypeOK /\ AttemptInv /\ TrialInv /\ RunInv /\ CrashAdoptsScore /\ OwedInv
  BY DEF QueueInv, BatchInv
<1>2. /\ Current(t) \in Runs /\ Current(t) = <<t, trial[t].attempt>>
      /\ trial[t].attempt \in 1..MaxAttempts
  BY <1>1, CurrentFacts
<1>3. \A u \in Trials : trial[u].status = "running" => u = t
  BY HandsFacts DEF Running, With
<1>4. Running' = {}
  BY <1>3 DEF Running, With, ClosesRun
<1>5. \A u \in Trials : trial[u].status \in Scored => trial'[u].status \in Scored
  BY DEF ClosesRun, Scored
<1>6. AttemptInv'
  <2>1. SUFFICES ASSUME NEW u \in Trials, NEW n \in 1..MaxAttempts
                 PROVE  LET a == attempt'[<<u, n>>] IN
                        /\ a.status = "none" <=> n > trial'[u].attempt
                        /\ a.status = "running" <=>
                               n = trial'[u].attempt /\ trial'[u].status = "running"
                        /\ a.status \in {"none", "running", "interrupted"} => a.used = None
                        /\ a.status = "completed" <=> n = trial'[u].attempt /\ trial'[u].scored
                        /\ spent[<<u, n>>] <= a.reserved
    BY DEF AttemptInv
  <2>2. LET a == attempt[<<u, n>>] IN
        /\ a.status = "none" <=> n > trial[u].attempt
        /\ a.status = "running" <=> n = trial[u].attempt /\ trial[u].status = "running"
        /\ a.status \in {"none", "running", "interrupted"} => a.used = None
        /\ a.status = "completed" <=> n = trial[u].attempt /\ trial[u].scored
        /\ spent[<<u, n>>] <= a.reserved
    BY <1>1 DEF AttemptInv
  <2>3. <<u, n>> \in Runs /\ trial'[u].attempt = trial[u].attempt
    BY DEF Runs, ClosesRun
  <2>4. CASE u # t
    <3>1. attempt'[<<u, n>>] = attempt[<<u, n>>] /\ trial'[u] = trial[u]
      BY <1>2, <2>3, <2>4 DEF ClosesRun
    <3>2. QED
      BY <2>2, <3>1
  <2>5. CASE u = t /\ n # trial[t].attempt
    <3>1. attempt'[<<t, n>>] = attempt[<<t, n>>]
      BY <1>2, <2>3, <2>5 DEF ClosesRun
    <3>2. QED
      BY <2>2, <2>3, <2>5, <3>1
  <2>6. CASE u = t /\ n = trial[t].attempt
    <3>1. <<u, n>> = Current(t) /\ n \in Int
      BY <1>2, <2>6
    <3>2. ~(n > trial'[u].attempt) /\ trial'[u].status # "running"
      BY <2>3, <2>6, <3>1 DEF ClosesRun
    <3>3. LET a == attempt'[<<u, n>>] IN
          /\ a.status \notin {"none", "running"}
          /\ a.status = "interrupted" => a.used = None
          /\ a.status = "completed" <=> trial'[u].scored
          /\ a.reserved = attempt[<<u, n>>].reserved
      BY <2>6, <3>1 DEF ClosesRun
    <3>4. QED
      BY <2>2, <2>3, <2>6, <3>2, <3>3
  <2>7. QED
    BY <2>4, <2>5, <2>6
<1>7. TrialInv'
  <2>1. SUFFICES ASSUME NEW u \in Trials
                 PROVE  /\ trial'[u].scored <=> trial'[u].status \in Scored
                        /\ trial'[u].status = "absent" => trial'[u].attempt = 0
                        /\ trial'[u].status = "queued" => trial'[u].attempt < MaxAttempts
                        /\ trial'[u].status = "running" => trial'[u].attempt > 0
    BY DEF TrialInv
  <2>2. CASE u # t
    BY <1>1, <2>2 DEF TrialInv, ClosesRun
  <2>3. CASE u = t
    BY <2>3 DEF ClosesRun, Scored
  <2>4. QED
    BY <2>2, <2>3
<1>8. RunInv'
  <2>1. SUFFICES ASSUME NEW u \in Trials, NEW n \in 1..MaxAttempts
                 PROVE  LET r == <<u, n>> IN
                        /\ attempt'[r].status = "none" =>
                               /\ attempt'[r].reserved = 0 /\ spent[r] = 0
                               /\ child[r] = "none" /\ saved[r].reason = "none"
                        /\ attempt'[r].used # None =>
                               child[r] \notin Unsaved /\ spent[r] = attempt'[r].used
                        /\ attempt'[r].status = "running" =>
                               /\ child[r] \in Unsaved => saved[r].reason = "none"
                               /\ child[r] \in {"saved", "done"} => saved[r].reason # "none"
    BY DEF RunInv
  <2>2. <<u, n>> \in Runs
    BY DEF Runs
  <2>3. CASE <<u, n>> # Current(t)
    <3>1. attempt'[<<u, n>>] = attempt[<<u, n>>]
      BY <2>2, <2>3 DEF ClosesRun
    <3>2. QED
      BY <1>1, <3>1 DEF RunInv
  <2>4. CASE <<u, n>> = Current(t)
    BY <2>4 DEF ClosesRun
  <2>5. QED
    BY <2>3, <2>4
<1>9. CrashAdoptsScore'
  <2>1. SUFFICES ASSUME NEW r \in owed
                 PROVE  /\ trial'[r[1]].attempt = r[2]
                        /\ trial'[r[1]].status \in Scored \cup {"running"}
    BY DEF CrashAdoptsScore
  <2>2. r[1] \in Trials
    BY <1>1, <2>1, Types
  <2>3. CASE r[1] = t
    BY <1>1, <2>1, <2>3 DEF CrashAdoptsScore, ClosesRun, Scored
  <2>4. CASE r[1] # t
    BY <1>1, <2>1, <2>2, <2>4 DEF CrashAdoptsScore, ClosesRun
  <2>5. QED
    BY <2>3, <2>4
<1>10. OwedInv'
  <2>1. \A r \in owed : trial'[r[1]].status # "running"
    BY <1>1, <1>4, Types DEF Running, With
  <2>2. QED
    BY <2>1 DEF OwedInv
<1>11. QED
  BY <1>4, <1>5, <1>6, <1>7, <1>8, <1>9, <1>10

(* finish() closes it; with a score, or when no dead worker left one.      *)
LEMMA FinishCloses ==
    ASSUME QueueInv, NEW t \in Trials, trial[t].status = "running",
           NEW inf \in BOOLEAN, NEW calls \in Nat \cup {None}, Finish(t, inf, calls),
           calls # None => child[Current(t)] \notin Unsaved /\ spent[Current(t)] = calls,
           (\E r \in owed : r[1] = t) => ~inf
    PROVE  ClosesRun(t) /\ (~inf => trial'[t].status \in Scored)
<1>1. TypeOK /\ TrialInv
  BY DEF QueueInv, BatchInv
<1>2. /\ Current(t) \in Runs /\ trial[t].attempt \in 1..MaxAttempts
      /\ attempt \in [Runs -> Accounts] /\ trial \in [Trials -> Rows]
  BY <1>1, CurrentFacts, Types
<1>. DEFINE a == IF inf THEN "infrastructure_error" ELSE "completed"
            s == IF ~inf THEN "completed"
                 ELSE IF trial[t].attempt < MaxAttempts THEN "queued"
                 ELSE "infrastructure_error"
            b == ~inf
<1>3. /\ attempt' = [attempt EXCEPT ![Current(t)] = [@ EXCEPT !.status = a, !.used = calls]]
      /\ trial' = [trial EXCEPT ![t] =
                       [@ EXCEPT !.status = s, !.scored = b, !.renders = 0]]
  BY DEF Finish
<1>4. /\ a \in {"infrastructure_error", "completed"}
      /\ s \in {"completed", "queued", "infrastructure_error"}
      /\ s = "queued" => trial[t].attempt < MaxAttempts
      /\ a = "completed" <=> s = "completed"
      /\ ~inf <=> s = "completed"
  OBVIOUS
<1>. HIDE DEF a, s, b
<1>5. /\ attempt' \in [Runs -> Accounts] /\ attempt'[Current(t)].status = a
      /\ attempt'[Current(t)].used = calls
      /\ attempt'[Current(t)].reserved = attempt[Current(t)].reserved
      /\ \A r \in Runs \ {Current(t)} : attempt'[r] = attempt[r]
  BY <1>2, <1>3, <1>4 DEF Accounts
<1>6. s \in {"completed", "queued", "infrastructure_error"}
  BY <1>4
<1>7. /\ trial' \in [Trials -> Rows] /\ trial'[t].status = s
      /\ trial'[t].scored <=> ~inf
      /\ trial'[t].attempt = trial[t].attempt
      /\ \A u \in Trials \ {t} : trial'[u] = trial[u]
  <2>1. CASE inf
    <3>. DEFINE row == [trial[t] EXCEPT !.status = s, !.scored = FALSE, !.renders = 0]
    <3>1. trial' = [trial EXCEPT ![t] = row]
      BY <1>3, <2>1 DEF b
    <3>2. trial[t] \in Rows
      BY <1>2
    <3>3. /\ row \in Rows /\ row.status = s /\ ~row.scored
          /\ row.attempt = trial[t].attempt
      <4>. DEFINE decided == [trial[t] EXCEPT !.status = s, !.scored = FALSE]
      <4>1. row \in Rows
        <5>1. decided \in Rows
          BY <1>6, <3>2 DEF Rows, Terminal
        <5>2. row = [decided EXCEPT !.renders = 0]
          OBVIOUS
        <5>. HIDE DEF decided, row
        <5>3. QED
          BY <5>1, <5>2 DEF Rows
      <4>2. row.status = s /\ row.attempt = trial[t].attempt
        BY <3>2 DEF Rows
      <4>3. ~row.scored
        BY <3>2 DEF Rows
      <4>4. QED
        BY <4>1, <4>2, <4>3
    <3>. HIDE DEF row
    <3>4. QED
      BY <1>2, <2>1, <3>1, <3>3
  <2>2. CASE ~inf
    <3>. DEFINE row == [trial[t] EXCEPT !.status = s, !.scored = TRUE, !.renders = 0]
    <3>1. trial' = [trial EXCEPT ![t] = row]
      BY <1>3, <2>2 DEF b
    <3>2. trial[t] \in Rows
      BY <1>2
    <3>3. /\ row \in Rows /\ row.status = s /\ row.scored
          /\ row.attempt = trial[t].attempt
      <4>. DEFINE decided == [trial[t] EXCEPT !.status = s, !.scored = TRUE]
      <4>1. row \in Rows
        <5>1. decided \in Rows
          BY <1>6, <3>2 DEF Rows, Terminal
        <5>2. row = [decided EXCEPT !.renders = 0]
          OBVIOUS
        <5>. HIDE DEF decided, row
        <5>3. QED
          BY <5>1, <5>2 DEF Rows
      <4>2. row.status = s /\ row.attempt = trial[t].attempt
        BY <3>2 DEF Rows
      <4>3. row.scored
        BY <3>2 DEF Rows
      <4>4. QED
        BY <4>1, <4>2, <4>3
    <3>. HIDE DEF row
    <3>4. QED
      BY <1>2, <2>2, <3>1, <3>3
  <2>3. QED
    BY <2>1, <2>2
<1>8. QED
  BY <1>4, <1>5, <1>7 DEF ClosesRun, Scored

(* Recovery closes what saved nothing. *)
LEMMA InterruptedCloses ==
    ASSUME QueueInv, NEW t \in Trials, trial[t].status = "running", Interrupted(t),
           ~\E r \in owed : r[1] = t
    PROVE  ClosesRun(t)
<1>1. TypeOK /\ TrialInv /\ AttemptInv
  BY DEF QueueInv, BatchInv
<1>2. /\ Current(t) \in Runs /\ trial[t].attempt \in 1..MaxAttempts
      /\ Current(t) = <<t, trial[t].attempt>>
      /\ attempt \in [Runs -> Accounts] /\ trial \in [Trials -> Rows]
  BY <1>1, CurrentFacts, Types
<1>. DEFINE s == IF trial[t].attempt < MaxAttempts THEN "queued" ELSE "infrastructure_error"
<1>3. /\ attempt' = [attempt EXCEPT ![Current(t)].status = "interrupted"]
      /\ trial' = [trial EXCEPT ![t] = [@ EXCEPT !.status = s, !.scored = FALSE]]
  BY DEF Interrupted
<1>4. /\ s \in {"queued", "infrastructure_error"}
      /\ s = "queued" => trial[t].attempt < MaxAttempts
  OBVIOUS
<1>. HIDE DEF s
<1>5. attempt[Current(t)].used = None
  BY <1>1, <1>2 DEF AttemptInv
<1>6. /\ attempt' \in [Runs -> Accounts] /\ attempt'[Current(t)].status = "interrupted"
      /\ attempt'[Current(t)].used = attempt[Current(t)].used
      /\ attempt'[Current(t)].reserved = attempt[Current(t)].reserved
      /\ \A r \in Runs \ {Current(t)} : attempt'[r] = attempt[r]
  BY <1>2, <1>3 DEF Accounts
<1>7. /\ trial' \in [Trials -> Rows] /\ trial'[t].status = s /\ ~trial'[t].scored
      /\ trial'[t].attempt = trial[t].attempt
      /\ \A u \in Trials \ {t} : trial'[u] = trial[u]
  BY <1>2, <1>3, <1>4 DEF Rows, Terminal
<1>8. QED
  BY <1>4, <1>5, <1>6, <1>7 DEF ClosesRun

(* The parts of the invariant after a step that leaves the world alone, no *)
(* trial running and no run under way                                      *)
LEMMA Closes ==
    ASSUME QueueInv, NEW t \in Trials, trial[t].status = "running", ClosesRun(t),
           UNCHANGED <<disk, child, spent, world, command, owed, faults>>,
           worker' \in Workers, worker.pc # "wait", worker'.restored => worker.restored,
           worker'.pc \in {"recover", "adopt", "mark", "publish"},
           worker'.todo = worker.todo,
           worker'.pc = "publish" => worker'.then = "claim",
           worker'.pc \in {"adopt", "mark"} => worker'.task = t /\ trial'[t].status \in Scored
    PROVE  QueueInv'
<1>1. TypeOK /\ WorkerInv /\ CommandInv /\ IdleWorldRuns /\ UNCHANGED <<batch, saved, video>>
  BY DEF QueueInv, BatchInv, disk
<1>2. /\ AttemptInv' /\ TrialInv' /\ RunInv' /\ CrashAdoptsScore' /\ OwedInv'
      /\ Running' = {}
      /\ \A u \in Trials : trial[u].status \in Scored => trial'[u].status \in Scored
  BY <1>1, ClosedFacts
<1>3. TypeOK'
  BY <1>1 DEF TypeOK, ClosesRun, Workers
<1>4. CommandInv'
  BY <1>1, <1>2, CommandsStay
<1>5. WorkerInv'
  <2>1. \A r \in Runs : Supervised => child'[r] \notin Live
    BY HandsFacts
  <2>2. \A u \in worker'.todo : trial'[u].status \in Scored
    BY <1>2, HandsFacts
  <2>3. QED
    BY <1>1, <1>2, <2>1, <2>2, Constants, EmptyHands
<1>6. IdleWorldRuns'
  BY <1>1 DEF IdleWorldRuns
<1>7. QED
  BY <1>2, <1>3, <1>4, <1>5, <1>6 DEF QueueInv, BatchInv

(* What an attempt saved decides it: its score is adopted whoever died. *)
LEMMA FinishSavedCloses ==
    ASSUME QueueInv, NEW t \in Trials, trial[t].status = "running", FinishSaved(t),
           saved[Current(t)].reason # "none"
    PROVE  /\ ClosesRun(t)
           /\ saved[Current(t)].reason # "infrastructure" => trial'[t].status \in Scored
<1>1. TypeOK /\ TrialInv /\ RunInv /\ AttemptInv /\ OwedInv /\ CrashAdoptsScore
  BY DEF QueueInv, BatchInv
<1>2. /\ Current(t) \in Runs /\ Current(t) = <<t, trial[t].attempt>>
      /\ trial[t].attempt \in 1..MaxAttempts
  BY <1>1, CurrentFacts
<1>. DEFINE inf == saved[Current(t)].reason = "infrastructure"
            calls == IF saved[Current(t)].complete THEN spent[Current(t)] ELSE None
<1>3. Finish(t, inf, calls)
  BY DEF FinishSaved
<1>4. inf \in BOOLEAN /\ calls \in Nat \cup {None}
  <2>1. spent[Current(t)] \in Nat
    BY <1>1, <1>2, Types
  <2>2. QED
    BY <2>1
<1>5. attempt[Current(t)].status = "running"
  BY <1>1, <1>2 DEF AttemptInv
<1>6. child[Current(t)] \notin Unsaved /\ (calls # None => spent[Current(t)] = calls)
  BY <1>1, <1>2, <1>5 DEF RunInv
<1>7. (\E r \in owed : r[1] = t) => ~inf
  <2>1. SUFFICES ASSUME NEW r \in owed, r[1] = t
                 PROVE  ~inf
    OBVIOUS
  <2>2. r = Current(t)
    BY <1>1, <1>2, <2>1, Types DEF CrashAdoptsScore
  <2>3. saved[r].reason = "model"
    BY <1>1, <2>1 DEF OwedInv
  <2>4. QED
    BY <2>2, <2>3
<1>8. ~inf <=> saved[Current(t)].reason # "infrastructure"
  OBVIOUS
<1>. HIDE DEF inf, calls
<1>9. QED
  BY <1>3, <1>4, <1>6, <1>7, <1>8, FinishCloses

(* The steps that close an attempt, and with it their trial *)
Ends == \E t \in Trials : trial[t].status = "running" /\ ClosesRun(t)

(* What a finished, failed or interrupted attempt leaves *)
LEMMA ClosesKeeps ==
    ASSUME QueueInv,
           \/ \E t \in Trials : RecoverSaved(t) \/ RecoverInterrupted(t)
           \/ Score \/ Fail
    PROVE  QueueInv' /\ Ends
<1>1. TypeOK /\ WorkerInv /\ TrialInv /\ OwedInv /\ CrashAdoptsScore
  BY DEF QueueInv, BatchInv
<1>2. worker \in Workers
  BY <1>1, Types
<1>3. ASSUME NEW t \in Trials, RecoverSaved(t)
      PROVE  QueueInv' /\ Ends
  <2>1. /\ trial[t].status = "running" /\ FinishSaved(t) /\ worker.pc = "recover"
        /\ saved[Current(t)].reason # "none"
        /\ UNCHANGED <<disk, child, spent, world, command, owed, faults>>
        /\ \/ worker' = worker
           \/ /\ saved[Current(t)].reason # "infrastructure"
              /\ worker' = [worker EXCEPT !.pc = "adopt", !.task = t]
    BY <1>3 DEF RecoverSaved
  <2>2. /\ ClosesRun(t)
        /\ saved[Current(t)].reason # "infrastructure" => trial'[t].status \in Scored
    BY <2>1, FinishSavedCloses
  <2>3. CASE worker' = worker
    BY <1>2, <2>1, <2>2, <2>3, Closes DEF Ends
  <2>4. CASE /\ saved[Current(t)].reason # "infrastructure"
             /\ worker' = [worker EXCEPT !.pc = "adopt", !.task = t]
    <3>1. /\ worker' \in Workers /\ worker'.pc = "adopt" /\ worker'.task = t
          /\ worker'.todo = worker.todo /\ worker'.restored = worker.restored
      BY <1>2, <2>4 DEF Workers, WorkerPCs
    <3>2. QED
      BY <2>1, <2>2, <2>4, <3>1, Closes DEF Ends
  <2>5. QED
    BY <2>1, <2>3, <2>4
<1>4. ASSUME NEW t \in Trials, RecoverInterrupted(t)
      PROVE  QueueInv' /\ Ends
  <2>1. /\ trial[t].status = "running" /\ Interrupted(t) /\ worker.pc = "recover"
        /\ saved[Current(t)].reason = "none"
        /\ UNCHANGED <<disk, child, spent, world, worker, command, owed, faults>>
    BY <1>4 DEF RecoverInterrupted, Interrupted
  <2>2. Current(t) = <<t, trial[t].attempt>>
    BY DEF Current
  <2>3. ~\E r \in owed : r[1] = t
    BY <1>1, <2>1, <2>2, Types DEF OwedInv, CrashAdoptsScore
  <2>4. ClosesRun(t)
    BY <2>1, <2>3, InterruptedCloses
  <2>5. QED
    BY <1>2, <2>1, <2>4, Closes DEF Ends
<1>5. InHand /\ worker.pc \notin {"down", "recover"} =>
          /\ worker.task \in Trials /\ trial[worker.task].status = "running"
          /\ ~\E r \in owed : r[1] = worker.task
  <2>1. SUFFICES ASSUME InHand, worker.pc \notin {"down", "recover"}
                 PROVE  /\ worker.task \in Trials /\ trial[worker.task].status = "running"
                        /\ ~\E r \in owed : r[1] = worker.task
    OBVIOUS
  <2>2. worker.task \in Trials /\ trial[worker.task].status = "running"
    BY <2>1, HandsFacts
  <2>3. QED
    BY <1>1, <2>1, <2>2 DEF OwedInv
<1>6. CASE Score
  <2>1. /\ worker.pc = "score" /\ FinishSaved(worker.task)
        /\ UNCHANGED <<disk, child, spent, world, command, owed, faults>>
        /\ \/ worker' = Publish("claim")
           \/ /\ saved[Current(worker.task)].reason # "infrastructure"
              /\ worker' = [worker EXCEPT !.pc = "mark"]
    BY <1>6 DEF Score
  <2>2. /\ worker.task \in Trials /\ trial[worker.task].status = "running"
        /\ saved[Current(worker.task)].reason # "none"
    BY <1>1, <1>5, <2>1 DEF InHand, WorkerInv
  <2>3. /\ ClosesRun(worker.task)
        /\ saved[Current(worker.task)].reason # "infrastructure" =>
               trial'[worker.task].status \in Scored
    BY <2>1, <2>2, FinishSavedCloses
  <2>4. CASE worker' = Publish("claim")
    <3>1. /\ worker' \in Workers /\ worker'.pc = "publish" /\ worker'.then = "claim"
          /\ worker'.todo = worker.todo /\ worker'.restored = worker.restored
      BY <1>1, <2>4, PublishFacts DEF WorkerPCs
    <3>2. QED
      BY <2>1, <2>2, <2>3, <3>1, Closes DEF Ends
  <2>5. CASE /\ saved[Current(worker.task)].reason # "infrastructure"
             /\ worker' = [worker EXCEPT !.pc = "mark"]
    <3>1. /\ worker' \in Workers /\ worker'.pc = "mark" /\ worker'.task = worker.task
          /\ worker'.todo = worker.todo /\ worker'.restored = worker.restored
      BY <1>2, <2>5 DEF Workers, WorkerPCs
    <3>2. QED
      BY <2>1, <2>2, <2>3, <2>5, <3>1, Closes DEF Ends
  <2>6. QED
    BY <2>1, <2>4, <2>5
<1>7. CASE Fail
  <2>1. /\ worker.pc = "fail" /\ Finish(worker.task, TRUE, None)
        /\ UNCHANGED <<disk, child, spent, world, command, owed, faults>>
        /\ worker' = Publish("claim")
    BY <1>7 DEF Fail
  <2>2. /\ worker.task \in Trials /\ trial[worker.task].status = "running"
        /\ ~\E r \in owed : r[1] = worker.task
    BY <1>5, <2>1 DEF InHand
  <2>3. ClosesRun(worker.task)
    BY <2>1, <2>2, FinishCloses
  <2>4. /\ worker' \in Workers /\ worker'.pc = "publish" /\ worker'.then = "claim"
        /\ worker'.todo = worker.todo /\ worker'.restored = worker.restored
    BY <1>1, <2>1, PublishFacts DEF WorkerPCs
  <2>5. QED
    BY <2>1, <2>2, <2>3, <2>4, Closes DEF Ends
<1>8. QED
  BY <1>3, <1>4, <1>6, <1>7

-----------------------------------------------------------------------------
(* An attempt begins *)

(* What the transaction of a claim does to the tables *)
LEMMA ReserveFacts ==
    ASSUME QueueInv, NEW t \in Trials, trial[t].status = "queued",
           NEW calls \in 1..MaxCallsPerTrial, Reserve(t, <<t, trial[t].attempt + 1>>, calls)
    PROVE  LET n == trial[t].attempt + 1
               r == <<t, n>> IN
           /\ n \in 1..MaxAttempts /\ r \in Runs /\ batch' = "running"
           /\ trial' \in [Trials -> Rows] /\ attempt' \in [Runs -> Accounts]
           /\ trial'[t].status = "running" /\ trial'[t].attempt = n
           /\ trial'[t].scored = trial[t].scored
           /\ \A u \in Trials \ {t} : trial'[u] = trial[u]
           /\ attempt'[r].status = "running" /\ attempt'[r].used = None
           /\ attempt'[r].reserved \in Nat
           /\ \A q \in Runs \ {r} : attempt'[q] = attempt[q]
<1>. DEFINE n == trial[t].attempt + 1
            r == <<t, n>>
            started == [trial[t] EXCEPT !.status = "running", !.attempt = n]
            account == [status |-> "running", reserved |-> calls, used |-> None]
<1>1. TypeOK /\ TrialInv
  BY DEF QueueInv, BatchInv
<1>2. /\ trial \in [Trials -> Rows] /\ attempt \in [Runs -> Accounts] /\ trial[t] \in Rows
      /\ trial[t].attempt \in 0..MaxAttempts
  BY <1>1, Types
<1>3. trial[t].attempt < MaxAttempts
  BY <1>1 DEF TrialInv
<1>4. n \in 1..MaxAttempts
  BY <1>2, <1>3, Constants
<1>5. r \in Runs /\ r[2] = n
  BY <1>4 DEF Runs
<1>6. account \in Accounts
  BY Constants DEF Accounts
<1>7. batch' = "running" /\ attempt' = [attempt EXCEPT ![r] = account]
  BY DEF Reserve
<1>8. trial' = [trial EXCEPT ![t] = started]
  BY <1>2, <1>5 DEF Reserve
<1>. HIDE DEF n, r
<1>9. /\ started \in Rows /\ started.status = "running" /\ started.attempt = n
      /\ started.scored = trial[t].scored
  <2>1. n \in 0..MaxAttempts
    BY <1>4
  <2>2. started \in Rows
    BY <1>2, <2>1 DEF Rows
  <2>3. started.status = "running" /\ started.attempt = n
    BY <1>2 DEF Rows
  <2>4. started.scored = trial[t].scored
    BY <1>2 DEF Rows
  <2>5. QED
    BY <2>2, <2>3, <2>4
<1>10. account.status = "running" /\ account.used = None /\ account.reserved \in Nat
  BY Constants
<1>. HIDE DEF started, account
<1>11. /\ trial' \in [Trials -> Rows] /\ trial'[t] = started
       /\ \A u \in Trials \ {t} : trial'[u] = trial[u]
  BY <1>2, <1>8, <1>9
<1>12. /\ attempt' \in [Runs -> Accounts] /\ attempt'[r] = account
       /\ \A q \in Runs \ {r} : attempt'[q] = attempt[q]
  BY <1>2, <1>5, <1>6, <1>7
<1>13. QED
  BY <1>4, <1>5, <1>7, <1>9, <1>10, <1>11, <1>12 DEF n, r

(* A claim begins an attempt no process ever worked on. *)
LEMMA ClaimKeeps ==
    ASSUME QueueInv, NEW t \in Trials, Claim(t)
    PROVE  QueueInv'
<1>. DEFINE n == trial[t].attempt + 1
            r == <<t, n>>
<1>1. /\ TypeOK /\ AttemptInv /\ TrialInv /\ RunInv /\ WorkerInv /\ CommandInv
      /\ OwedInv /\ IdleWorldRuns /\ CrashAdoptsScore
  BY DEF QueueInv, BatchInv
<1>2. /\ worker.pc = "claim" /\ trial[t].status = "queued" /\ worker \in Workers
      /\ worker' = [Publish("launch") EXCEPT !.task = t, !.restored = FALSE]
      /\ UNCHANGED <<saved, video, child, spent, world, command, owed, faults>>
      /\ \E calls \in 1..MaxCallsPerTrial : Reserve(t, r, calls)
  BY <1>1, Types DEF Claim, With
<1>3. /\ n \in 1..MaxAttempts /\ r \in Runs /\ batch' = "running"
      /\ trial' \in [Trials -> Rows] /\ attempt' \in [Runs -> Accounts]
      /\ trial'[t].status = "running" /\ trial'[t].attempt = n
      /\ trial'[t].scored = trial[t].scored
      /\ \A u \in Trials \ {t} : trial'[u] = trial[u]
      /\ attempt'[r].status = "running" /\ attempt'[r].used = None
      /\ attempt'[r].reserved \in Nat
      /\ \A q \in Runs \ {r} : attempt'[q] = attempt[q]
  BY <1>2, ReserveFacts
<1>4. ~trial[t].scored
  BY <1>1, <1>2 DEF TrialInv, Scored
<1>5. trial[t].attempt \in Nat
  BY <1>1, Types, Constants
<1>6. attempt[r].status = "none"
  <2>1. n > trial[t].attempt
    BY <1>5
  <2>2. QED
    BY <1>1, <1>3, <2>1 DEF AttemptInv
<1>7. /\ spent[r] = 0 /\ child[r] = "none" /\ saved[r].reason = "none"
  BY <1>1, <1>3, <1>6 DEF RunInv
<1>. HIDE DEF r
<1>8. /\ worker' \in Workers /\ worker'.pc = "publish" /\ worker'.then = "launch"
      /\ worker'.task = t /\ worker'.todo = worker.todo /\ ~worker'.restored
  <2>1. /\ Publish("launch") \in Workers /\ Publish("launch").pc = "publish"
        /\ Publish("launch").todo = worker.todo /\ Publish("launch").then = "launch"
    BY <1>1, PublishFacts DEF WorkerPCs
  <2>2. QED
    BY <1>2, <2>1 DEF Workers
<1>9. \A u \in Trials : trial[u].status = "running" => FALSE
  <2>1. Running = {}
    BY <1>2, HandsFacts DEF InHand, Launching, Publishing
  <2>2. QED
    BY <2>1 DEF Running, With
<1>10. Running' = {t}
  BY <1>3, <1>9 DEF Running, With
<1>11. TypeOK'
  BY <1>1, <1>2, <1>3, <1>8 DEF TypeOK, Workers, Summaries
<1>12. AttemptInv'
  <2>1. SUFFICES ASSUME NEW u \in Trials, NEW m \in 1..MaxAttempts
                 PROVE  LET a == attempt'[<<u, m>>] IN
                        /\ a.status = "none" <=> m > trial'[u].attempt
                        /\ a.status = "running" <=>
                               m = trial'[u].attempt /\ trial'[u].status = "running"
                        /\ a.status \in {"none", "running", "interrupted"} => a.used = None
                        /\ a.status = "completed" <=> m = trial'[u].attempt /\ trial'[u].scored
                        /\ spent[<<u, m>>] <= a.reserved
    BY <1>2 DEF AttemptInv
  <2>2. LET a == attempt[<<u, m>>] IN
        /\ a.status = "none" <=> m > trial[u].attempt
        /\ a.status = "running" <=> m = trial[u].attempt /\ trial[u].status = "running"
        /\ a.status \in {"none", "running", "interrupted"} => a.used = None
        /\ a.status = "completed" <=> m = trial[u].attempt /\ trial[u].scored
        /\ spent[<<u, m>>] <= a.reserved
    BY <1>1 DEF AttemptInv
  <2>3. <<u, m>> \in Runs
    BY DEF Runs
  <2>4. CASE u # t
    <3>1. attempt'[<<u, m>>] = attempt[<<u, m>>] /\ trial'[u] = trial[u]
      BY <1>3, <2>3, <2>4 DEF r
    <3>2. QED
      BY <2>2, <3>1
  <2>5. CASE u = t /\ m # n
    <3>1. attempt'[<<u, m>>] = attempt[<<u, m>>]
      BY <1>3, <2>3, <2>5 DEF r
    <3>2. /\ ~trial[u].scored /\ trial[u].status # "running" /\ ~trial'[u].scored
          /\ trial'[u].attempt = n
      BY <1>2, <1>3, <1>4, <2>5
    <3>3. m > trial[u].attempt <=> m > n
      BY <1>5, <2>5
    <3>4. QED
      BY <2>2, <2>5, <3>1, <3>2, <3>3
  <2>6. CASE u = t /\ m = n
    <3>1. attempt'[<<u, m>>].status = "running" /\ attempt'[<<u, m>>].used = None
          /\ attempt'[<<u, m>>].reserved \in Nat /\ spent[<<u, m>>] = 0
      BY <1>3, <1>7, <2>6 DEF r
    <3>2. ~(m > trial'[u].attempt)
      BY <1>3, <2>6
    <3>3. m = trial'[u].attempt /\ trial'[u].status = "running" /\ ~trial'[u].scored
      BY <1>3, <1>4, <2>6
    <3>4. QED
      BY <3>1, <3>2, <3>3
  <2>7. QED
    BY <2>4, <2>5, <2>6
<1>13. TrialInv'
  <2>1. SUFFICES ASSUME NEW u \in Trials
                 PROVE  /\ trial'[u].scored <=> trial'[u].status \in Scored
                        /\ trial'[u].status = "absent" => trial'[u].attempt = 0
                        /\ trial'[u].status = "queued" => trial'[u].attempt < MaxAttempts
                        /\ trial'[u].status = "running" => trial'[u].attempt > 0
    BY DEF TrialInv
  <2>2. CASE u # t
    BY <1>1, <1>3, <2>2 DEF TrialInv
  <2>3. CASE u = t
    <3>1. trial'[u].status = "running" /\ ~trial'[u].scored
      BY <1>3, <1>4, <2>3
    <3>2. trial'[u].attempt > 0
      BY <1>3, <2>3
    <3>3. QED
      BY <3>1, <3>2 DEF Scored
  <2>4. QED
    BY <2>2, <2>3
<1>14. RunInv'
  <2>1. SUFFICES ASSUME NEW u \in Trials, NEW m \in 1..MaxAttempts
                 PROVE  LET q == <<u, m>> IN
                        /\ attempt'[q].status = "none" =>
                               /\ attempt'[q].reserved = 0 /\ spent[q] = 0
                               /\ child[q] = "none" /\ saved[q].reason = "none"
                        /\ attempt'[q].used # None =>
                               child[q] \notin Unsaved /\ spent[q] = attempt'[q].used
                        /\ attempt'[q].status = "running" =>
                               /\ child[q] \in Unsaved => saved[q].reason = "none"
                               /\ child[q] \in {"saved", "done"} => saved[q].reason # "none"
    BY <1>2 DEF RunInv
  <2>2. <<u, m>> \in Runs
    BY DEF Runs
  <2>3. CASE <<u, m>> # r
    BY <1>1, <1>3, <2>2, <2>3 DEF RunInv
  <2>4. CASE <<u, m>> = r
    BY <1>3, <1>7, <2>4
  <2>5. QED
    BY <2>3, <2>4
<1>15. CrashAdoptsScore'
  <2>1. SUFFICES ASSUME NEW q \in owed
                 PROVE  /\ trial'[q[1]].attempt = q[2]
                        /\ trial'[q[1]].status \in Scored \cup {"running"}
    BY <1>2 DEF CrashAdoptsScore
  <2>2. /\ trial[q[1]].attempt = q[2] /\ trial[q[1]].status \in Scored \cup {"running"}
        /\ q[1] \in Trials
    BY <1>1, <2>1, Types DEF CrashAdoptsScore
  <2>3. q[1] # t
    BY <1>2, <2>2 DEF Scored
  <2>4. QED
    BY <1>3, <2>2, <2>3
<1>16. OwedInv'
  <2>1. \A q \in owed : trial'[q[1]].status # "running"
    <3>1. SUFFICES ASSUME NEW q \in owed, trial'[q[1]].status = "running"
                   PROVE  FALSE
      OBVIOUS
    <3>2. q[1] = t
      BY <1>1, <1>10, <3>1, Types DEF Running, With
    <3>3. trial[t].status \in Scored \cup {"running"}
      BY <1>1, <3>2 DEF CrashAdoptsScore
    <3>4. QED
      BY <1>2, <3>3 DEF Scored
  <2>2. QED
    BY <1>2, <2>1 DEF OwedInv
<1>17. CommandInv'
  <2>1. \A u \in Trials : trial[u].status \in Scored => trial'[u].status \in Scored
    BY <1>2, <1>3 DEF Scored
  <2>2. QED
    BY <1>1, <1>2, <2>1, CommandsStay
<1>18. WorkerInv'
  <2>1. Current(worker.task)' = r
    BY <1>3, <1>8 DEF Current, r
  <2>2. \A q \in Runs : Supervised => child'[q] \notin Live
    BY <1>2, HandsFacts
  <2>3. \A u \in worker'.todo : trial'[u].status \in Scored
    <3>1. \A u \in worker.todo : u \in Trials /\ trial[u].status \in Scored
      BY HandsFacts
    <3>2. QED
      BY <1>2, <1>3, <1>8, <3>1 DEF Scored
  <2>4. InHand' /\ ~Rendering' /\ Publishing'
    BY <1>8 DEF InHand, Launching, Publishing, Rendering
  <2>5. /\ \A u, v \in With("running")' : u = v
        /\ With("running")' = {worker'.task} /\ ~worker'.restored
    BY <1>8, <1>10 DEF Running
  <2>6. /\ child'[Current(worker.task)'] = "none"
        /\ saved'[Current(worker.task)'].reason = "none"
    BY <1>2, <1>7, <2>1
  <2>7. QED
    BY <1>8, <2>2, <2>3, <2>4, <2>5, <2>6 DEF WorkerInv
<1>19. IdleWorldRuns'
  BY <1>8 DEF IdleWorldRuns
<1>20. QED
  BY <1>11, <1>12, <1>13, <1>14, <1>15, <1>16, <1>17, <1>18, <1>19 DEF QueueInv, BatchInv

-----------------------------------------------------------------------------
(* Queued trials that are given up, and the other commands *)

(* Whoever gives up what is queued, or queues what was submitted: no trial *)
(* that runs or has a score is touched.                                    *)
LEMMA GivesUpAlike ==
    ASSUME TypeOK, TrialInv, NEW from \in {"queued", "absent"},
           NEW to \in {"queued", "budget_exhausted", "cancelled"},
           from = "queued" => to # "queued",
           trial' \in [Trials -> Rows],
           \A t \in Trials :
               IF trial[t].status = from
               THEN /\ trial'[t].status = to /\ trial'[t].attempt = trial[t].attempt
                    /\ trial'[t].scored = trial[t].scored
               ELSE trial'[t] = trial[t]
    PROVE  RowsAlike
<1>1. SUFFICES ASSUME NEW t \in Trials
               PROVE  /\ trial'[t].attempt = trial[t].attempt
                      /\ trial'[t].scored = trial[t].scored
                      /\ trial'[t].status = "running" <=> trial[t].status = "running"
                      /\ trial'[t].status \in Scored <=> trial[t].status \in Scored
                      /\ trial'[t].status = "absent" => trial[t].status = "absent"
                      /\ trial'[t].status = "queued" => trial[t].status \in {"absent", "queued"}
  BY DEF RowsAlike
<1>2. CASE trial[t].status = from
  BY <1>2 DEF Scored
<1>3. CASE trial[t].status # from
  <2>1. trial'[t] = trial[t]
    BY <1>3
  <2>2. QED
    BY <2>1
<1>4. QED
  BY <1>2, <1>3

(* A row whose status is set is a row. *)
LEMMA RowStatus ==
    ASSUME NEW row \in Rows, NEW s \in {"queued", "budget_exhausted", "cancelled"}
    PROVE  /\ [row EXCEPT !.status = s] \in Rows /\ [row EXCEPT !.status = s].status = s
           /\ [row EXCEPT !.status = s].attempt = row.attempt
           /\ [row EXCEPT !.status = s].scored = row.scored
BY DEF Rows, Terminal

(* The three of the code: the worker that cannot pay, cancel and submit.   *)
LEMMA GivesUp ==
    ASSUME TypeOK, TrialInv,
           NEW to \in {"budget_exhausted", "cancelled"},
           trial' = [t \in Trials |-> IF trial[t].status = "queued"
                                      THEN [trial[t] EXCEPT !.status = to] ELSE trial[t]]
    PROVE  RowsAlike
<1>1. trial \in [Trials -> Rows]
  BY Types
<1>2. \A t \in Trials :
          IF trial[t].status = "queued"
          THEN /\ trial'[t].status = to /\ trial'[t].attempt = trial[t].attempt
               /\ trial'[t].scored = trial[t].scored
          ELSE trial'[t] = trial[t]
  BY <1>1, RowStatus
<1>3. trial' \in [Trials -> Rows]
  BY <1>1, RowStatus
<1>4. QED
  BY <1>2, <1>3, GivesUpAlike

(* The loop finds nothing it may claim. *)
LEMMA ClaimNothingKeeps ==
    ASSUME QueueInv, ClaimNothing
    PROVE  QueueInv'
<1>1. /\ TypeOK /\ TrialInv /\ WorkerInv /\ CommandInv /\ IdleWorldRuns
      /\ UNCHANGED <<attempt, child, saved, spent, owed, command, batch, video, world, faults>>
      /\ worker.pc = "claim"
  BY DEF ClaimNothing, disk, QueueInv, BatchInv
<1>2. /\ command' \in [Commands -> [pc : CommandPCs, task : Trials \cup {None},
                                   view : Summaries]]
      /\ batch' \in Summaries /\ video' \subseteq Trials /\ world' \in Worlds
      /\ faults' \in 0..MaxFaults
  BY <1>1, Types DEF TypeOK
<1>3. RowsAlike
  BY <1>1, GivesUp DEF ClaimNothing
<1>4. /\ Running' = {} /\ \A r \in Runs : Supervised => child'[r] \notin Live
      /\ \A t \in worker.todo : t \in Trials /\ trial[t].status \in Scored
  <2>1. Running' = Running
    BY <1>1, <1>3, AlikeFacts
  <2>2. ~InHand
    BY <1>1 DEF InHand, Launching, Publishing
  <2>3. QED
    BY <1>1, <2>1, <2>2, HandsFacts
<1>5. /\ worker' \in Workers /\ worker'.pc = "publish" /\ worker'.todo = worker.todo
      /\ worker'.restored = worker.restored /\ worker'.then \in {"idle", "restore"}
      /\ worker'.then = "idle" => worker'.restored
  <2>1. CASE worker.restored
    <3>1. worker' = Publish("idle")
      BY <2>1 DEF ClaimNothing
    <3>2. QED
      BY <1>1, <2>1, <3>1, PublishFacts DEF WorkerPCs
  <2>2. CASE ~worker.restored
    <3>1. worker' = Publish("restore")
      BY <2>2 DEF ClaimNothing
    <3>2. QED
      BY <1>1, <3>1, PublishFacts DEF WorkerPCs
  <2>3. QED
    BY <2>1, <2>2
<1>6. \A t \in Trials : trial[t].status \in Scored => trial'[t].status \in Scored
  BY <1>3 DEF RowsAlike
<1>7. CommandInv'
  BY <1>1, <1>6, CommandsStay
<1>8. WorkerInv'
  <2>1. \A t \in worker'.todo : trial'[t].status \in Scored
    BY <1>4, <1>5, <1>6
  <2>2. QED
    BY <1>1, <1>4, <1>5, <2>1, EmptyHands
<1>9. IdleWorldRuns'
  BY <1>1, <1>5 DEF IdleWorldRuns
<1>10. QED
  BY <1>1, <1>2, <1>3, <1>5, <1>7, <1>8, <1>9, WorkerMoves

(* A command beside the worker: what it leaves of the worker's side        *)
LEMMA CommandMoves ==
    ASSUME QueueInv, RowsAlike, UNCHANGED <<attempt, child, saved, spent, owed, worker, world,
                                            faults>>,
           batch' \in Summaries, video' \subseteq Trials,
           command' \in [Commands -> [pc : CommandPCs, task : Trials \cup {None},
                                      view : Summaries]],
           CommandInv'
    PROVE  QueueInv'
<1>1. /\ worker' \in Workers /\ world' \in Worlds /\ faults' \in 0..MaxFaults
      /\ IdleWorldRuns'
  BY Types DEF QueueInv, BatchInv, IdleWorldRuns
<1>2. WorkerInv'
  BY WorkerStays
<1>3. QED
  BY <1>1, <1>2, WorkerMoves

(* A command that read the tables is about to write the batch. *)
LEMMA ReadsFacts ==
    ASSUME TypeOK, CommandInv, NEW c \in Commands, Reads(c),
           \A t \in Trials : trial[t].status \in Scored => trial'[t].status \in Scored
    PROVE  /\ command' \in [Commands -> [pc : CommandPCs, task : Trials \cup {None},
                                         view : Summaries]]
           /\ CommandInv'
<1>1. Summary' \in Summaries
  BY DEF Summary, Summaries
<1>. DEFINE read == [pc |-> "write", task |-> None, view |-> Summary']
<1>2. command' = [command EXCEPT ![c] = read]
  BY DEF Reads
<1>3. read \in [pc : CommandPCs, task : Trials \cup {None}, view : Summaries] /\ read.pc = "write"
  BY <1>1 DEF CommandPCs
<1>. HIDE DEF read
<1>4. /\ command' \in [Commands -> [pc : CommandPCs, task : Trials \cup {None},
                                    view : Summaries]]
      /\ command'[c].pc = "write" /\ \A d \in Commands \ {c} : command'[d] = command[d]
  BY <1>2, <1>3 DEF TypeOK
<1>5. CommandInv'
  BY <1>4 DEF CommandInv, TypeOK
<1>6. QED
  BY <1>4, <1>5

(* Every other command, whatever the worker is doing *)
LEMMA CommandsKeep ==
    ASSUME QueueInv, NEW c \in Commands, CommandStep(c)
    PROVE  QueueInv'
<1>1. /\ TypeOK /\ TrialInv /\ CommandInv
      /\ UNCHANGED <<attempt, child, saved, spent, owed, worker, world, faults>>
  BY DEF CommandStep, Submit, Status, Cancel, Render, RenderCommandReturns,
     RenderCommandFails, Writes, disk, QueueInv, BatchInv
<1>2. /\ command \in [Commands -> [pc : CommandPCs, task : Trials \cup {None},
                                  view : Summaries]]
      /\ batch \in Summaries /\ video \subseteq Trials /\ trial \in [Trials -> Rows]
  BY <1>1 DEF TypeOK
<1>3. CASE Submit(c) \/ Status(c) \/ Cancel(c)
  <2>1. RowsAlike
    <3>1. CASE Submit(c)
      <4>1. \A t \in Trials : trial[t].status = "absent"
        BY <3>1 DEF Submit, With
      <4>2. trial' = [t \in Trials |-> [trial[t] EXCEPT !.status = "queued"]]
        BY <3>1 DEF Submit
      <4>3. /\ trial' \in [Trials -> Rows]
            /\ \A t \in Trials : /\ trial'[t].status = "queued"
                                 /\ trial'[t].attempt = trial[t].attempt
                                 /\ trial'[t].scored = trial[t].scored
        BY <1>2, <4>2, RowStatus
      <4>4. QED
        BY <1>1, <4>1, <4>3, GivesUpAlike
    <3>2. CASE Status(c)
      BY <1>1, <3>2, SameRows DEF Status
    <3>3. CASE Cancel(c)
      BY <1>1, <3>3, GivesUp DEF Cancel
    <3>4. QED
      BY <1>3, <3>1, <3>2, <3>3
  <2>2. Reads(c) /\ batch' \in Summaries /\ video' \subseteq Trials
    BY <1>2, <1>3 DEF Submit, Status, Cancel, disk, Summaries
  <2>3. \A t \in Trials : trial[t].status \in Scored => trial'[t].status \in Scored
    BY <2>1 DEF RowsAlike
  <2>4. QED
    BY <1>1, <2>1, <2>2, <2>3, CommandMoves, ReadsFacts
<1>4. CASE RenderCommandReturns(c)
  <2>1. command[c].task \in Trials /\ trial[command[c].task].status \in Scored
    BY <1>1, <1>2, <1>4 DEF RenderCommandReturns, CommandInv
  <2>2. /\ trial' = [trial EXCEPT ![command[c].task].status = "completed"]
        /\ Reads(c) /\ batch' = batch /\ video' = video \cup {command[c].task}
    BY <1>4 DEF RenderCommandReturns
  <2>3. RowsAlike
    BY <1>1, <2>1, <2>2, SetStatus DEF Scored
  <2>4. \A t \in Trials : trial[t].status \in Scored => trial'[t].status \in Scored
    BY <2>3 DEF RowsAlike
  <2>5. batch' \in Summaries /\ video' \subseteq Trials
    BY <1>2, <2>1, <2>2
  <2>6. QED
    BY <1>1, <2>2, <2>3, <2>4, <2>5, CommandMoves, ReadsFacts
<1>5. CASE Render(c) \/ RenderCommandFails(c) \/ Writes(c)
  <2>1. trial' = trial /\ video' = video /\ batch' \in Summaries
    BY <1>2, <1>5 DEF Render, RenderCommandFails, Writes, disk
  <2>2. /\ command' \in [Commands -> [pc : CommandPCs, task : Trials \cup {None},
                                      view : Summaries]]
        /\ CommandInv'
    <3>1. CASE Render(c)
      <4>1. PICK t \in With("completed") \cup With("rendering") :
               command' = [command EXCEPT ![c] = [@ EXCEPT !.pc = "render", !.task = t]]
        BY <3>1 DEF Render
      <4>2. t \in Trials /\ trial[t].status \in Scored
        BY DEF With, Scored
      <4>3. /\ command' \in [Commands -> [pc : CommandPCs, task : Trials \cup {None},
                                          view : Summaries]]
            /\ command'[c].task = t /\ \A d \in Commands \ {c} : command'[d] = command[d]
        BY <1>2, <4>1, <4>2 DEF CommandPCs
      <4>4. QED
        BY <1>1, <2>1, <4>2, <4>3, Constants DEF CommandInv
    <3>2. CASE RenderCommandFails(c) \/ Writes(c)
      <4>1. command' = [command EXCEPT ![c] = NoCommand]
        BY <3>2 DEF RenderCommandFails, Writes
      <4>2. /\ command' \in [Commands -> [pc : CommandPCs, task : Trials \cup {None},
                                          view : Summaries]]
            /\ command'[c].pc = "idle" /\ \A d \in Commands \ {c} : command'[d] = command[d]
        BY <1>2, <4>1 DEF NoCommand, CommandPCs, Summaries
      <4>3. QED
        BY <1>1, <2>1, <4>2 DEF CommandInv
    <3>3. QED
      BY <1>5, <3>1, <3>2
  <2>3. QED
    BY <1>1, <1>2, <2>1, <2>2, CommandMoves, SameRows
<1>6. QED
  BY <1>3, <1>4, <1>5 DEF CommandStep

-----------------------------------------------------------------------------
(* The child and its end *)

(* A step that leaves the tables alone: what is to show of it              *)
LEMMA RunMoves ==
    ASSUME QueueInv, UNCHANGED <<trial, attempt, batch, video>>,
           child' \in [Runs -> Children], saved' \in [Runs -> Scores],
           spent' \in [Runs -> Nat], \A r \in Runs : spent'[r] <= attempt[r].reserved,
           worker' \in Workers, world' \in Worlds, faults' \in 0..MaxFaults,
           command' \in [Commands -> [pc : CommandPCs, task : Trials \cup {None},
                                      view : Summaries]],
           owed' \subseteq Runs, CommandInv', WorkerInv', IdleWorldRuns', RunInv', OwedInv',
           CrashAdoptsScore'
    PROVE  QueueInv'
<1>1. TypeOK'
  BY DEF QueueInv, BatchInv, TypeOK, Workers, Worlds
<1>2. AttemptInv'
  <2>1. \A t \in Trials, n \in 1..MaxAttempts : <<t, n>> \in Runs
    BY DEF Runs
  <2>2. QED
    BY <2>1 DEF QueueInv, BatchInv, AttemptInv
<1>3. TrialInv'
  BY DEF QueueInv, BatchInv, TrialInv
<1>4. QED
  BY <1>1, <1>2, <1>3 DEF QueueInv, BatchInv

(* What has been spent is within the reservation. *)
LEMMA SpentFacts ==
    ASSUME QueueInv
    PROVE  \A r \in Runs : spent[r] <= attempt[r].reserved
<1>1. SUFFICES ASSUME NEW r \in Runs
               PROVE  spent[r] <= attempt[r].reserved
  OBVIOUS
<1>2. r = <<r[1], r[2]>> /\ r[1] \in Trials /\ r[2] \in 1..MaxAttempts
  BY <1>1, Types DEF QueueInv, BatchInv
<1>3. spent[<<r[1], r[2]>>] <= attempt[<<r[1], r[2]>>].reserved
  BY <1>2 DEF QueueInv, BatchInv, AttemptInv
<1>4. QED
  BY <1>2, <1>3

(* What the table says of a run, run by run *)
RunFits(a, kid, calls, score) ==
    /\ a.status = "none" =>
           /\ a.reserved = 0 /\ calls = 0 /\ kid = "none" /\ score.reason = "none"
    /\ a.used # None => kid \notin Unsaved /\ calls = a.used
    /\ a.status = "running" =>
           /\ kid \in Unsaved => score.reason = "none"
           /\ kid \in {"saved", "done"} => score.reason # "none"

(* It is RunInv. *)
LEMMA RunFitsFacts ==
    /\ RunInv <=> \A r \in Runs : RunFits(attempt[r], child[r], spent[r], saved[r])
    /\ RunInv' <=> \A r \in Runs : RunFits(attempt'[r], child'[r], spent'[r], saved'[r])
<1>1. \A r \in Runs : r = <<r[1], r[2]>> /\ r[1] \in Trials /\ r[2] \in 1..MaxAttempts
  BY DEF Runs
<1>2. \A t \in Trials, n \in 1..MaxAttempts : <<t, n>> \in Runs
  BY DEF Runs
<1>3. RunInv <=> \A t \in Trials, n \in 1..MaxAttempts :
          RunFits(attempt[<<t, n>>], child[<<t, n>>], spent[<<t, n>>], saved[<<t, n>>])
  BY DEF RunInv, RunFits
<1>4. RunInv' <=> \A t \in Trials, n \in 1..MaxAttempts :
          RunFits(attempt'[<<t, n>>], child'[<<t, n>>], spent'[<<t, n>>], saved'[<<t, n>>])
  BY DEF RunInv, RunFits
<1>5. QED
  BY <1>1, <1>2, <1>3, <1>4

(* A run whose child is one step further: what the worker that waits for   *)
(* it, and the commands, are entitled to.                                  *)
LEMMA ChildMoves ==
    ASSUME QueueInv, NEW r \in Runs, child[r] \in Live, NEW k \in Children,
           child' = [child EXCEPT ![r] = k],
           UNCHANGED <<trial, attempt, batch, video, worker, command, owed, faults>>,
           saved' \in [Runs -> Scores], spent' \in [Runs -> Nat],
           \A q \in Runs \ {r} : saved'[q] = saved[q] /\ spent'[q] = spent[q],
           spent'[r] <= attempt[r].reserved, world' \in Worlds,
           k \in Unsaved => child[r] \in Unsaved /\ saved'[r] = saved[r],
           k \in {"saved", "done"} /\ attempt[r].status = "running" =>
               saved'[r].reason # "none",
           saved'[r] = saved[r] \/ (child[r] \in Unsaved /\ saved'[r].reason # "none"),
           spent'[r] = spent[r] \/ child[r] \in Unsaved
    PROVE  QueueInv'
<1>1. /\ TypeOK /\ RunInv /\ AttemptInv /\ WorkerInv /\ CommandInv /\ OwedInv
      /\ IdleWorldRuns /\ CrashAdoptsScore
  BY DEF QueueInv, BatchInv
<1>2. /\ child \in [Runs -> Children] /\ worker \in Workers /\ owed \subseteq Runs
      /\ faults \in 0..MaxFaults
      /\ command \in [Commands -> [pc : CommandPCs, task : Trials \cup {None},
                                   view : Summaries]]
  BY <1>1 DEF TypeOK, Workers
<1>3. /\ child' \in [Runs -> Children] /\ child'[r] = k
      /\ \A q \in Runs \ {r} : child'[q] = child[q]
  BY <1>2
<1>4. child[r] # "none" /\ "none" \notin Unsaved
  BY DEF Live, Unsaved
<1>5. RunInv'
  <2>1. \A q \in Runs \ {r} : RunFits(attempt'[q], child'[q], spent'[q], saved'[q])
    BY <1>1, <1>3, RunFitsFacts
  <2>2. RunFits(attempt[r], child[r], spent[r], saved[r])
    BY <1>1, RunFitsFacts
  <2>3. RunFits(attempt'[r], child'[r], spent'[r], saved'[r])
    BY <1>3, <1>4, <2>2 DEF RunFits
  <2>4. QED
    BY <2>1, <2>3, RunFitsFacts
<1>6. OwedInv'
  <2>1. SUFFICES ASSUME NEW q \in owed, trial[q[1]].status = "running"
                 PROVE  saved'[q].reason = "model" /\ worker.pc \in {"down", "recover"}
    BY DEF OwedInv
  <2>2. q \in Runs /\ saved[q].reason = "model" /\ worker.pc \in {"down", "recover"}
    BY <1>1, <1>2, <2>1 DEF OwedInv
  <2>3. attempt[q].status = "running"
    <3>1. q = <<q[1], q[2]>> /\ q[1] \in Trials /\ q[2] \in 1..MaxAttempts
      BY <1>1, <2>2, Types
    <3>2. trial[q[1]].attempt = q[2]
      BY <1>1, <2>1 DEF CrashAdoptsScore
    <3>3. attempt[<<q[1], q[2]>>].status = "running"
      BY <1>1, <2>1, <3>1, <3>2 DEF AttemptInv
    <3>4. QED
      BY <3>1, <3>3
  <2>4. CASE q = r
    <3>1. child[r] \notin Unsaved
      BY <1>1, <2>2, <2>3, <2>4, RunFitsFacts DEF RunFits
    <3>2. QED
      BY <2>2, <2>4, <3>1
  <2>5. QED
    BY <2>2, <2>4
<1>7. /\ CommandInv' /\ CrashAdoptsScore'
  BY <1>1 DEF CommandInv, CrashAdoptsScore
<1>8. IdleWorldRuns'
  <2>1. Supervised => worker.pc = "wait"
    BY <1>1 DEF WorkerInv
  <2>2. Supervised => ~worker.restored
    BY <1>1, <2>1 DEF WorkerInv, InHand
  <2>3. QED
    BY <2>1, <2>2 DEF IdleWorldRuns
<1>9. WorkerInv'
  <2>1. \A t \in Trials : Current(t)' = Current(t)
    BY DEF Current
  <2>2. Launching \/ worker.pc = "score" =>
            /\ worker.task \in Trials /\ Current(worker.task)' = Current(worker.task)
            /\ Current(worker.task) \in Runs
    <3>1. Launching \/ worker.pc = "score" =>
              worker.task \in Trials /\ trial[worker.task].status = "running"
      BY HandsFacts DEF InHand
    <3>2. TrialInv
      BY DEF QueueInv, BatchInv
    <3>3. QED
      BY <1>1, <2>1, <3>1, <3>2, CurrentFacts
  <2>3. Launching => /\ child'[Current(worker.task)] = "none"
                     /\ saved'[Current(worker.task)].reason = "none"
    <3>1. Launching => child[Current(worker.task)] = "none" /\ Current(worker.task) # r
      BY <1>1, <1>4 DEF WorkerInv
    <3>2. QED
      BY <1>1, <1>3, <2>2, <3>1 DEF WorkerInv
  <2>4. worker.pc = "score" => saved'[Current(worker.task)].reason # "none"
    BY <1>1, <2>2 DEF WorkerInv
  <2>5. \A q \in Runs : Supervised /\ child'[q] \in Live =>
            worker.pc = "wait" /\ q = Current(worker.task)
    BY <1>1, <1>3 DEF WorkerInv
  <2>6. worker.pc = "wait" => Current(worker.task)' = Current(worker.task)
    BY <2>1, HandsFacts DEF InHand
  <2>7. /\ Launching' <=> Launching
        /\ InHand' <=> InHand
        /\ Rendering' <=> Rendering
        /\ Publishing' <=> Publishing
        /\ With("running")' = With("running")
    BY DEF Launching, InHand, Rendering, Publishing, With
  <2>8. QED
    BY <1>1, <2>2, <2>3, <2>4, <2>5, <2>6, <2>7 DEF WorkerInv
<1>10. \A q \in Runs : spent'[q] <= attempt[q].reserved
  BY SpentFacts
<1>11. QED
  BY <1>2, <1>3, <1>5, <1>6, <1>7, <1>8, <1>9, <1>10, RunMoves

(* Every step of a child *)
LEMMA ChildKeeps ==
    ASSUME QueueInv, NEW r \in Runs, ChildStep(r)
    PROVE  QueueInv'
<1>1. /\ saved \in [Runs -> Scores] /\ spent \in [Runs -> Nat] /\ world \in Worlds
      /\ spent[r] <= attempt[r].reserved /\ attempt[r] \in Accounts
  BY Types, SpentFacts DEF QueueInv, BatchInv
<1>2. /\ UNCHANGED <<trial, attempt, batch, video, worker, command, owed, faults>>
      /\ child[r] \in Live
  BY DEF ChildStep, StopsWorld, StartsWorld, Spends, EndsEpisode, SavesScore, Exits,
     ChildFails, ChildGoes, Live
<1>3. CASE StopsWorld(r) \/ StartsWorld(r) \/ EndsEpisode(r)
  <2>1. UNCHANGED <<saved, spent>> /\ world' \in Worlds
    <3>1. UNCHANGED <<saved, spent>>
      BY <1>3 DEF StopsWorld, StartsWorld, EndsEpisode
    <3>2. CASE world' = [world EXCEPT !.cosmic = "stopped"]
      BY <1>1, <3>1, <3>2 DEF Worlds
    <3>3. CASE world' = [override |-> TRUE, cosmic |-> "trial"]
      BY <3>1, <3>3 DEF Worlds
    <3>4. QED
      BY <1>3, <3>2, <3>3 DEF StopsWorld, StartsWorld, EndsEpisode
  <2>2. PICK k \in {"boot", "play", "save"} :
           child' = [child EXCEPT ![r] = k] /\ child[r] \in Unsaved
    BY <1>3 DEF StopsWorld, StartsWorld, EndsEpisode, ChildGoes, Unsaved
  <2>3. k \in Children /\ k \notin {"saved", "done"}
    BY DEF Children, Live
  <2>4. QED
    BY <1>1, <1>2, <2>1, <2>2, <2>3, ChildMoves
<1>4. CASE Spends(r)
  <2>1. /\ spent[r] < attempt[r].reserved /\ spent' = [spent EXCEPT ![r] = @ + 1]
        /\ UNCHANGED <<saved, world>> /\ child' = [child EXCEPT ![r] = "play"]
        /\ child[r] = "play"
    BY <1>4 DEF Spends, ChildGoes
  <2>2. attempt[r].reserved \in Nat
    BY <1>1 DEF Accounts
  <2>3. /\ spent' \in [Runs -> Nat] /\ spent'[r] <= attempt[r].reserved
        /\ \A q \in Runs \ {r} : spent'[q] = spent[q]
    BY <1>1, <2>1, <2>2
  <2>4. "play" \in Children /\ "play" \in Unsaved
    BY DEF Children, Live, Unsaved
  <2>5. QED
    BY <1>1, <1>2, <2>1, <2>3, <2>4, ChildMoves
<1>5. CASE SavesScore(r)
  <2>1. PICK reason \in {"infrastructure", "model"}, complete \in BOOLEAN :
            saved' = [saved EXCEPT ![r] = [reason |-> reason, complete |-> complete]]
    BY <1>5 DEF SavesScore
  <2>2. /\ UNCHANGED <<spent, world>> /\ child' = [child EXCEPT ![r] = "saved"]
        /\ child[r] = "save"
    BY <1>5 DEF SavesScore, ChildGoes
  <2>. DEFINE score == [reason |-> reason, complete |-> complete]
  <2>3. score \in Scores
    BY DEF Scores
  <2>4. score.reason # "none"
    OBVIOUS
  <2>5. saved' = [saved EXCEPT ![r] = score]
    BY <2>1
  <2>. HIDE DEF score
  <2>6. /\ saved' \in [Runs -> Scores] /\ saved'[r].reason # "none"
        /\ \A q \in Runs \ {r} : saved'[q] = saved[q]
    BY <1>1, <2>3, <2>4, <2>5
  <2>7. /\ "saved" \in Children /\ "saved" \notin Unsaved /\ child[r] \in Unsaved
    BY <2>2 DEF Children, Live, Unsaved
  <2>8. QED
    BY <1>1, <1>2, <2>2, <2>6, <2>7, ChildMoves
<1>6. CASE Exits(r)
  <2>1. /\ UNCHANGED <<saved, spent, world>> /\ child' = [child EXCEPT ![r] = "done"]
        /\ child[r] = "saved"
    BY <1>6 DEF Exits, ChildGoes
  <2>2. "done" \in Children /\ "done" \notin Unsaved
    BY DEF Children, Live, Unsaved
  <2>3. saved[r].reason # "none" \/ attempt[r].status # "running"
    BY <2>1, RunFitsFacts DEF QueueInv, BatchInv, RunFits
  <2>4. QED
    BY <1>1, <1>2, <2>1, <2>2, <2>3, ChildMoves
<1>7. CASE ChildFails(r)
  <2>1. UNCHANGED <<saved, spent, world>> /\ child' = [child EXCEPT ![r] = "failed"]
    BY <1>7 DEF ChildFails, ChildGoes
  <2>2. "failed" \in Children /\ "failed" \notin Unsaved \cup {"saved", "done"}
    BY DEF Children, Live, Unsaved
  <2>3. QED
    BY <1>1, <1>2, <2>1, <2>2, ChildMoves
<1>8. QED
  BY <1>3, <1>4, <1>5, <1>6, <1>7 DEF ChildStep

(* The worker starts a child, and takes it back. *)
LEMMA WaitKeeps ==
    ASSUME QueueInv, Launch \/ Returned \/ Timeout
    PROVE  QueueInv'
<1>. DEFINE r == Current(worker.task)
<1>1. /\ TypeOK /\ RunInv /\ AttemptInv /\ TrialInv /\ WorkerInv /\ CommandInv /\ OwedInv
      /\ IdleWorldRuns /\ CrashAdoptsScore
      /\ UNCHANGED <<trial, attempt, batch, saved, video, spent, world, command, owed, faults>>
  BY DEF QueueInv, BatchInv, Launch, Returned, Timeout, disk
<1>2. InHand /\ worker.pc \in {"launch", "wait"}
  BY DEF Launch, Returned, Timeout, InHand, Launching
<1>3. /\ worker.task \in Trials /\ trial[worker.task].status = "running"
      /\ Running = {worker.task} /\ ~worker.restored /\ \A t, u \in Running : t = u
      /\ \A t \in worker.todo : t \in Trials /\ trial[t].status \in Scored
  BY <1>2, HandsFacts
<1>4. /\ r \in Runs /\ r = <<worker.task, trial[worker.task].attempt>>
      /\ trial[worker.task].attempt \in 1..MaxAttempts
  BY <1>1, <1>3, CurrentFacts
<1>5. attempt[r].status = "running" /\ attempt[r].used = None
  BY <1>1, <1>3, <1>4 DEF AttemptInv
<1>6. /\ child \in [Runs -> Children] /\ worker \in Workers
      /\ saved' \in [Runs -> Scores] /\ spent' \in [Runs -> Nat] /\ world' \in Worlds
      /\ faults' \in 0..MaxFaults /\ owed' \subseteq Runs
      /\ command' \in [Commands -> [pc : CommandPCs, task : Trials \cup {None},
                                   view : Summaries]]
  BY <1>1, Types DEF TypeOK
<1>7. worker.pc = "launch" => child[r] = "none" /\ saved[r].reason = "none"
  BY <1>1 DEF WorkerInv, Launching
<1>8. RunFits(attempt[r], child[r], spent[r], saved[r])
  BY <1>1, <1>4, RunFitsFacts
<1>. HIDE DEF r
<1>9. \E s \in {"wait", "score", "fail"}, k \in {"reset", "none"} :
          /\ Go(s) /\ child' = [child EXCEPT ![r] = k]
          /\ s = "wait" <=> k = "reset"
          /\ s = "wait" <=> worker.pc = "launch"
          /\ s = "score" => child[r] = "done"
  BY DEF Launch, Returned, Timeout, r
<1>10. PICK s \in {"wait", "score", "fail"}, k \in {"reset", "none"} :
          /\ Go(s) /\ child' = [child EXCEPT ![r] = k]
          /\ s = "wait" <=> k = "reset"
          /\ s = "wait" <=> worker.pc = "launch"
          /\ s = "score" => child[r] = "done"
  BY <1>9
<1>11. /\ worker' \in Workers /\ worker'.pc = s /\ worker'.task = worker.task
       /\ worker'.todo = worker.todo /\ ~worker'.restored
  BY <1>1, <1>3, <1>10, GoFacts DEF WorkerPCs
<1>12. /\ child' \in [Runs -> Children] /\ child'[r] = k
       /\ \A q \in Runs \ {r} : child'[q] = child[q]
  BY <1>4, <1>6, <1>10 DEF Children, Live
<1>13. RunInv'
  <2>1. \A q \in Runs \ {r} : RunFits(attempt'[q], child'[q], spent'[q], saved'[q])
    BY <1>1, <1>12, RunFitsFacts
  <2>2. RunFits(attempt[r], k, spent[r], saved[r])
    BY <1>5, <1>7, <1>10 DEF RunFits, Unsaved
  <2>3. QED
    BY <1>1, <1>12, <2>1, <2>2, RunFitsFacts
<1>14. OwedInv'
  <2>1. \A q \in owed : trial[q[1]].status # "running"
    BY <1>1, <1>2 DEF OwedInv
  <2>2. QED
    BY <1>1, <2>1 DEF OwedInv
<1>15. CommandInv' /\ CrashAdoptsScore'
  BY <1>1 DEF CommandInv, CrashAdoptsScore
<1>16. IdleWorldRuns'
  BY <1>10, <1>11 DEF IdleWorldRuns
<1>17. WorkerInv'
  <2>1. InHand' /\ ~Launching' /\ ~Rendering' /\ ~Publishing'
    BY <1>11 DEF InHand, Launching, Rendering, Publishing
  <2>2. With("running")' = {worker'.task} /\ \A t, u \in With("running")' : t = u
    BY <1>1, <1>3, <1>11 DEF Running, With
  <2>3. worker'.pc = "score" => saved'[r].reason # "none"
    BY <1>1, <1>5, <1>8, <1>10, <1>11 DEF RunFits
  <2>4. \A t \in worker'.todo : trial'[t].status \in Scored
    BY <1>1, <1>3, <1>11
  <2>5. \A q \in Runs : Supervised /\ child'[q] \in Live => worker'.pc = "wait" /\ q = r
    <3>1. \A q \in Runs \ {r} : Supervised => child[q] \notin Live
      BY <1>1 DEF WorkerInv, r
    <3>2. k \in Live => s = "wait"
      BY <1>10 DEF Live
    <3>3. QED
      BY <1>11, <1>12, <3>1, <3>2
  <2>6. Current(worker.task)' = r
    BY <1>1, <1>11 DEF Current, r
  <2>7. QED
    BY <1>11, <2>1, <2>2, <2>3, <2>4, <2>5, <2>6 DEF WorkerInv
<1>18. \A q \in Runs : spent'[q] <= attempt[q].reserved
  BY <1>1, SpentFacts
<1>19. QED
  BY <1>1, <1>6, <1>11, <1>12, <1>13, <1>14, <1>15, <1>16, <1>17, <1>18, RunMoves

-----------------------------------------------------------------------------
(* The end of the worker *)

(* The worker ends, at any step: what was saved is owed.                   *)
LEMMA DeathKeeps ==
    ASSUME QueueInv, WorkerDies \/ WorkerInterrupted \/ Reboot
    PROVE  QueueInv'
<1>1. /\ TypeOK /\ RunInv /\ AttemptInv /\ TrialInv /\ WorkerInv /\ CommandInv /\ OwedInv
      /\ CrashAdoptsScore
      /\ UNCHANGED <<trial, attempt, batch, saved, video, spent>>
      /\ worker' = Down /\ Fault /\ owed' = owed \cup Owed
      /\ child' = Killed \/ (child' = child /\ ~Supervised)
  BY DEF QueueInv, BatchInv, WorkerDies, WorkerInterrupted, Reboot, Dies, disk
<1>2. /\ child \in [Runs -> Children] /\ saved' \in [Runs -> Scores]
      /\ spent' \in [Runs -> Nat] /\ world \in Worlds /\ owed \subseteq Runs
      /\ command \in [Commands -> [pc : CommandPCs, task : Trials \cup {None},
                                  view : Summaries]]
  BY <1>1, Types DEF TypeOK
<1>3. world' \in Worlds /\ faults' \in 0..MaxFaults
  <2>1. CASE world' = world
    BY <1>1, <1>2, <2>1, FaultFacts
  <2>2. CASE world' = [override |-> FALSE, cosmic |-> "normal"]
    BY <1>1, <2>2, FaultFacts DEF Worlds
  <2>3. QED
    BY <2>1, <2>2 DEF WorkerDies, WorkerInterrupted, Reboot
<1>4. /\ command' \in [Commands -> [pc : CommandPCs, task : Trials \cup {None},
                                  view : Summaries]]
      /\ CommandInv'
  <2>1. CASE command' = command
    BY <1>1, <1>2, <2>1 DEF CommandInv
  <2>2. CASE command' \in [Commands -> {NoCommand}]
    <3>1. \A c \in Commands : command'[c].pc = "idle"
      BY <2>2 DEF NoCommand
    <3>2. NoCommand \in [pc : CommandPCs, task : Trials \cup {None}, view : Summaries]
      BY DEF NoCommand, CommandPCs, Summaries
    <3>3. QED
      BY <2>2, <3>1, <3>2 DEF CommandInv
  <2>3. QED
    BY <2>1, <2>2 DEF WorkerDies, WorkerInterrupted, Reboot
<1>5. /\ child' \in [Runs -> Children]
      /\ \A r \in Runs : child'[r] = "none" \/ child'[r] = child[r]
      /\ \A r \in Runs : Supervised => child'[r] \notin Live
  BY <1>1, <1>2 DEF Killed, Children, Live
<1>6. RunInv'
  <2>1. \A r \in Runs : RunFits(attempt'[r], child'[r], spent'[r], saved'[r])
    <3>1. SUFFICES ASSUME NEW r \in Runs
                   PROVE  RunFits(attempt[r], child'[r], spent[r], saved[r])
      BY <1>1
    <3>2. RunFits(attempt[r], child[r], spent[r], saved[r])
      BY <1>1, RunFitsFacts
    <3>3. CASE child'[r] = "none"
      BY <3>2, <3>3 DEF RunFits, Unsaved
    <3>4. QED
      BY <1>5, <3>2, <3>3
  <2>2. QED
    BY <2>1, RunFitsFacts
<1>7. \A r \in Owed : /\ r \in Runs /\ saved[r].reason = "model"
                      /\ trial[r[1]].attempt = r[2] /\ trial[r[1]].status = "running"
  <2>1. SUFFICES ASSUME NEW t \in Trials, trial[t].status = "running",
                        saved[Current(t)].reason = "model"
                 PROVE  /\ Current(t) \in Runs /\ trial[Current(t)[1]].attempt = Current(t)[2]
                        /\ trial[Current(t)[1]].status = "running"
    BY DEF Owed, With
  <2>2. Current(t) \in Runs /\ Current(t) = <<t, trial[t].attempt>>
    BY <1>1, <2>1, CurrentFacts
  <2>3. QED
    BY <2>1, <2>2
<1>8. worker' \in Workers /\ worker'.pc = "down" /\ worker'.todo = {} /\ ~worker'.restored
  BY <1>1, DownFacts
<1>9. owed' \subseteq Runs /\ OwedInv' /\ CrashAdoptsScore'
  <2>1. owed' \subseteq Runs
    BY <1>1, <1>2, <1>7
  <2>2. OwedInv'
    BY <1>1, <1>7, <1>8 DEF OwedInv
  <2>3. CrashAdoptsScore'
    BY <1>1, <1>7 DEF CrashAdoptsScore
  <2>4. QED
    BY <2>1, <2>2, <2>3
<1>10. WorkerInv'
  <2>1. ~InHand' /\ ~Launching' /\ ~Rendering' /\ ~Publishing'
    BY <1>8 DEF InHand, Launching, Rendering, Publishing
  <2>2. \A t, u \in With("running")' : t = u
    BY <1>1, HandsFacts DEF Running, With
  <2>3. QED
    BY <1>5, <1>8, <2>1, <2>2 DEF WorkerInv
<1>11. IdleWorldRuns'
  BY <1>8 DEF IdleWorldRuns
<1>12. \A r \in Runs : spent'[r] <= attempt[r].reserved
  BY <1>1, SpentFacts
<1>13. QED
  BY <1>1, <1>2, <1>3, <1>4, <1>5, <1>6, <1>8, <1>9, <1>10, <1>11, <1>12, RunMoves

-----------------------------------------------------------------------------
(* The theorems *)

(* The queue starts with empty tables, no process and a worker that is     *)
(* down.                                                                   *)
LEMMA InitQueue == Init => QueueInv
<1>1. SUFFICES ASSUME Init
               PROVE  QueueInv
  OBVIOUS
<1>. DEFINE row == [status |-> "absent", attempt |-> 0, scored |-> FALSE, renders |-> 0]
            account == [status |-> "none", reserved |-> 0, used |-> None]
            score == [reason |-> "none", complete |-> FALSE]
<1>2. /\ trial = [t \in Trials |-> row] /\ attempt = [r \in Runs |-> account]
      /\ saved \in [Runs -> {score}] /\ child = [r \in Runs |-> "none"]
      /\ spent = [r \in Runs |-> 0] /\ worker = Down /\ owed = {} /\ faults = 0
      /\ world = [override |-> FALSE, cosmic |-> "normal"]
      /\ command \in [Commands -> {NoCommand}] /\ batch = "absent" /\ video = {}
  BY <1>1 DEF Init
<1>3. row \in Rows /\ row.status = "absent" /\ row.attempt = 0 /\ ~row.scored
  BY Constants DEF Rows, Terminal
<1>4. account \in Accounts /\ account.status = "none" /\ account.reserved = 0 /\ account.used = None
  BY DEF Accounts
<1>5. score \in Scores /\ score.reason = "none"
  BY DEF Scores
<1>. HIDE DEF row, account, score
<1>6. /\ \A t \in Trials : trial[t] = row
      /\ \A r \in Runs : /\ attempt[r] = account /\ saved[r] = score
                         /\ child[r] = "none" /\ spent[r] = 0
      /\ \A c \in Commands : command[c] = NoCommand
  BY <1>2
<1>7. NoCommand \in [pc : CommandPCs, task : Trials \cup {None}, view : Summaries]
      /\ NoCommand.pc = "idle"
  BY DEF NoCommand, CommandPCs, Summaries
<1>8. TypeOK
  <2>1. /\ trial \in [Trials -> Rows] /\ attempt \in [Runs -> Accounts]
        /\ saved \in [Runs -> Scores] /\ child \in [Runs -> Children]
        /\ spent \in [Runs -> Nat]
    BY <1>2, <1>3, <1>4, <1>5 DEF Children
  <2>2. worker \in Workers /\ world \in Worlds
    BY <1>2, DownFacts DEF Worlds
  <2>3. batch \in Summaries /\ video \subseteq Trials /\ owed \subseteq Runs
        /\ faults \in 0..MaxFaults
    BY <1>2, Constants DEF Summaries
  <2>4. command \in [Commands -> [pc : CommandPCs, task : Trials \cup {None},
                                  view : Summaries]]
    BY <1>2, <1>7
  <2>5. QED
    BY <2>1, <2>2, <2>3, <2>4 DEF TypeOK, Workers, Worlds
<1>9. \A t \in Trials, n \in 1..MaxAttempts : <<t, n>> \in Runs
  BY DEF Runs
<1>10. AttemptInv
  <2>1. SUFFICES ASSUME NEW t \in Trials, NEW n \in 1..MaxAttempts
                 PROVE  LET a == attempt[<<t, n>>] IN
                        /\ a.status = "none" <=> n > trial[t].attempt
                        /\ a.status = "running" <=> n = trial[t].attempt /\ trial[t].status = "running"
                        /\ a.status \in {"none", "running", "interrupted"} => a.used = None
                        /\ a.status = "completed" <=> n = trial[t].attempt /\ trial[t].scored
                        /\ spent[<<t, n>>] <= a.reserved
    BY DEF AttemptInv
  <2>2. attempt[<<t, n>>] = account /\ spent[<<t, n>>] = 0 /\ trial[t] = row
    BY <1>6, <1>9
  <2>3. n > row.attempt /\ n # row.attempt
    BY <1>3
  <2>4. QED
    BY <1>3, <1>4, <2>2, <2>3
<1>11. TrialInv
  BY <1>3, <1>6, Constants DEF TrialInv, Scored
<1>12. RunInv
  BY <1>4, <1>5, <1>6, RunFitsFacts DEF RunFits
<1>13. WorkerInv
  <2>1. worker.pc = "down" /\ worker.todo = {}
    BY <1>2, DownFacts
  <2>2. With("running") = {}
    BY <1>3, <1>6 DEF With
  <2>3. ~InHand /\ ~Launching /\ ~Rendering /\ ~Publishing
    BY <2>1 DEF InHand, Launching, Rendering, Publishing
  <2>4. \A r \in Runs : child[r] \notin Live
    BY <1>6 DEF Live
  <2>5. QED
    BY <2>1, <2>2, <2>3, <2>4 DEF WorkerInv
<1>14. CommandInv
  BY <1>6, <1>7 DEF CommandInv
<1>15. OwedInv /\ CrashAdoptsScore
  BY <1>2 DEF OwedInv, CrashAdoptsScore
<1>16. IdleWorldRuns
  BY <1>2, DownFacts DEF IdleWorldRuns
<1>17. QED
  BY <1>8, <1>10, <1>11, <1>12, <1>13, <1>14, <1>15, <1>16 DEF QueueInv, BatchInv

(* Every step keeps the agreement. *)
LEMMA NextQueue == QueueInv /\ [Next]_vars => QueueInv'
<1>1. SUFFICES ASSUME QueueInv, [Next]_vars
               PROVE  QueueInv'
  OBVIOUS
<1>2. CASE WorkerStarts
  BY <1>1, <1>2, InHandKeeps
<1>3. CASE Recovers
  <2>1. CASE Adopt
    BY <1>1, <2>1, RenderKeeps
  <2>2. CASE RecoverDone \/ RecoverRendersDone \/ \E t \in Trials : RecoverRender(t)
    BY <1>1, <2>2, BetweenKeeps
  <2>3. CASE \E t \in Trials : RecoverSaved(t) \/ RecoverInterrupted(t)
    BY <1>1, <2>3, ClosesKeeps
  <2>4. QED
    BY <1>3, <2>1, <2>2, <2>3 DEF Recovers
<1>4. CASE Works
  <2>1. CASE \E t \in Trials : Claim(t)
    BY <1>1, <2>1, ClaimKeeps
  <2>2. CASE ClaimNothing
    BY <1>1, <2>2, ClaimNothingKeeps
  <2>3. CASE RestoreUnloads \/ RestoreRestarts \/ RestoreStarts \/ Poll \/ PublicationError
             \/ RenderReturns
    BY <1>1, <2>3, BetweenKeeps
  <2>4. CASE Launch \/ Returned \/ Timeout
    BY <1>1, <2>4, WaitKeeps
  <2>5. CASE LaunchFails \/ ScoreRaises \/ PublishReads \/ PublishWrites
    BY <1>1, <2>5, InHandKeeps
  <2>6. CASE Score \/ Fail
    BY <1>1, <2>6, ClosesKeeps
  <2>7. CASE Mark \/ RenderAgain \/ RenderDone
    BY <1>1, <2>7, RenderKeeps
  <2>8. QED
    BY <1>4, <2>1, <2>2, <2>3, <2>4, <2>5, <2>6, <2>7 DEF Works
<1>5. CASE WorkerDies \/ WorkerInterrupted \/ Reboot
  BY <1>1, <1>5, DeathKeeps
<1>6. CASE \E r \in Runs : ChildStep(r)
  BY <1>1, <1>6, ChildKeeps
<1>7. CASE \E c \in Commands : CommandStep(c)
  BY <1>1, <1>7, CommandsKeep
<1>8. CASE UNCHANGED vars
  <2>1. UNCHANGED <<trial, attempt, disk, child, spent, world, worker, command, owed, faults>>
    BY <1>8 DEF vars, disk
  <2>2. UNCHANGED <<batch, saved, video>>
    BY <1>8 DEF vars
  <2>3. RowsAlike /\ CommandInv'
    BY <1>1, <2>1, SameRows DEF QueueInv, BatchInv, CommandInv
  <2>4. /\ batch' \in Summaries /\ video' \subseteq Trials
        /\ command' \in [Commands -> [pc : CommandPCs, task : Trials \cup {None},
                                      view : Summaries]]
    BY <1>1, <2>1, <2>2 DEF QueueInv, BatchInv, TypeOK
  <2>5. QED
    BY <1>1, <2>1, <2>2, <2>3, <2>4, CommandMoves
<1>9. QED
  BY <1>1, <1>2, <1>3, <1>4, <1>5, <1>6, <1>7, <1>8 DEF Next

(* The inductive invariant of the queue *)
LEMMA QueueAlways == Spec => []QueueInv
<1>1. QED
  BY InitQueue, NextQueue, PTL DEF Spec

(* The tables, the worker, its child and the other commands agree at every *)
(* step of worker_loop, execute_trial and the commands, whatever dies.     *)
THEOREM BatchSafety == Spec => []BatchInv
<1>1. QueueInv => BatchInv
  BY DEF QueueInv
<1>2. QED
  BY <1>1, QueueAlways, PTL

(* A score that was on disk when the worker died decides its trial: none   *)
(* of its attempts is given up or paid for again.                          *)
THEOREM BatchCrashAdoptsScore == Spec => []CrashAdoptsScore
<1>1. QueueInv => CrashAdoptsScore
  BY DEF QueueInv
<1>2. QED
  BY <1>1, QueueAlways, PTL

(* Under systemd the attempts act on the Cosmic world one at a time, and   *)
(* none does while the worker puts it back.                                *)
THEOREM BatchOneTrialInWorld == ASSUME Supervised PROVE Spec => []OneTrialInWorld
<1>1. ASSUME QueueInv
      PROVE  OneTrialInWorld
  <2>1. LiveRuns \subseteq {Current(worker.task)} /\ (worker.pc # "wait" => LiveRuns = {})
    BY <1>1 DEF QueueInv, BatchInv, WorkerInv, LiveRuns
  <2>2. Cardinality({}) = 0 /\ Cardinality({Current(worker.task)}) = 1
    BY FS_EmptySet, FS_Singleton
  <2>3. CASE LiveRuns = {}
    BY <2>2, <2>3 DEF OneTrialInWorld
  <2>4. CASE LiveRuns = {Current(worker.task)} /\ worker.pc = "wait"
    BY <2>2, <2>4 DEF OneTrialInWorld
  <2>5. QED
    BY <2>1, <2>3, <2>4
<1>2. QED
  BY <1>1, QueueAlways, PTL

-----------------------------------------------------------------------------
(* Sums over a finite set, as SumFunctionOnSet takes them: one element     *)
(* after the other, in the order CHOOSE has.  Every induction below is     *)
(* about a smallest subset for which the statement would fail.             *)

Chosen(s) == CHOOSE x \in s : TRUE

(* g is the running sum of f on the subsets of S, as SumFunctionOnSet has it. *)
Summing(f, S, g) ==
    g = [s \in SUBSET S |->
            IF s = {} THEN 0 ELSE f[Chosen(s)] + g[s \ {Chosen(s)}]]

(* What SumFunctionOnSet says *)
LEMMA SumIs ==
    ASSUME NEW f, NEW S
    PROVE  SumFunctionOnSet(f, S) = (CHOOSE g : Summing(f, S, g))[S]
BY DEF SumFunctionOnSet, FoldFunctionOnSet, MapThenFoldSet, Summing, Chosen

(* There is an element to begin with. *)
LEMMA ChosenIn == ASSUME NEW s, s # {} PROVE Chosen(s) \in s
BY DEF Chosen

(* Sets of subsets of a finite set have smallest members. *)
LEMMA SmallestSubset ==
    ASSUME NEW S, IsFiniteSet(S), NEW B, B \subseteq SUBSET S, B # {}
    PROVE  \E s \in B : \A t \in B : t \subseteq s => t = s
<1>1. IsWellFoundedOn(StrictSubsetOrdering(S), FiniteSubsetsOf(S))
  BY FS_StrictSubsetOrderingWellFounded
<1>2. IsWellFoundedOn(StrictSubsetOrdering(S), SUBSET S)
  BY <1>1, FS_FiniteSubsetsOfFinite
<1>3. \E s \in B : \A t \in B : ~(<<t, s>> \in StrictSubsetOrdering(S))
  BY <1>2, WFMin
<1>4. QED
  BY <1>3 DEF StrictSubsetOrdering

(* Running sums over a set and over a part of it agree on that part.      *)
LEMMA SummingAgrees ==
    ASSUME NEW S, IsFiniteSet(S), NEW T \in SUBSET S, NEW f, NEW g, NEW h,
           Summing(f, S, g), Summing(f, T, h), NEW u \in SUBSET T
    PROVE  g[u] = h[u]
<1> DEFINE B == {s \in SUBSET T : g[s] # h[s]}
<1>1. SUFFICES ASSUME B # {} PROVE FALSE
  OBVIOUS
<1>2. PICK s \in B : \A t \in B : t \subseteq s => t = s
  <2>1. B \subseteq SUBSET S
    OBVIOUS
  <2> HIDE DEF B
  <2>2. QED
    BY <1>1, <2>1, SmallestSubset
<1>3. g[s] = IF s = {} THEN 0 ELSE f[Chosen(s)] + g[s \ {Chosen(s)}]
  BY DEF Summing
<1>4. h[s] = IF s = {} THEN 0 ELSE f[Chosen(s)] + h[s \ {Chosen(s)}]
  BY DEF Summing
<1>5. s # {}
  BY <1>2, <1>3, <1>4
<1>6. s \ {Chosen(s)} \in SUBSET T /\ s \ {Chosen(s)} \notin B
  BY <1>2, <1>5, ChosenIn
<1>7. QED
  BY <1>2, <1>3, <1>4, <1>6

(* There is a running sum. *)
LEMMA SummingExists ==
    ASSUME NEW S, IsFiniteSet(S), NEW f
    PROVE  \E g : Summing(f, S, g)
<1> DEFINE B == {s \in SUBSET S : ~ \E g : Summing(f, s, g)}
<1>1. SUFFICES ASSUME B # {} PROVE FALSE
  OBVIOUS
<1>2. PICK T \in B : \A t \in B : t \subseteq T => t = T
  <2>1. B \subseteq SUBSET S
    OBVIOUS
  <2> HIDE DEF B
  <2>2. QED
    BY <1>1, <2>1, SmallestSubset
<1> DEFINE part(s) == CHOOSE g : Summing(f, s, g)
           value(s) == IF s = {} THEN 0 ELSE f[Chosen(s)] + part(s \ {Chosen(s)})[s \ {Chosen(s)}]
           whole == [s \in SUBSET T |-> value(s)]
<1>3. ASSUME NEW s \in SUBSET T, s # T
      PROVE  /\ Summing(f, s, part(s))
             /\ part(s)[s] = IF s = {} THEN 0 ELSE f[Chosen(s)] + part(s)[s \ {Chosen(s)}]
  <2>1. s \notin B /\ s \in SUBSET S
    BY <1>2, <1>3
  <2>2. \E g : Summing(f, s, g)
    BY <2>1
  <2>3. Summing(f, s, part(s))
    BY <2>2
  <2>4. QED
    BY <2>3 DEF Summing
<1>4. ASSUME NEW s \in SUBSET T, s # T, s # {}
      PROVE  part(s)[s] = value(s)
  <2>1. s \ {Chosen(s)} \in SUBSET s /\ s \ {Chosen(s)} # T /\ IsFiniteSet(s)
    BY <1>4, ChosenIn, FS_Subset
  <2>2. Summing(f, s, part(s)) /\ Summing(f, s \ {Chosen(s)}, part(s \ {Chosen(s)}))
    BY <1>3, <1>4, <2>1
  <2>3. part(s)[s \ {Chosen(s)}] = part(s \ {Chosen(s)})[s \ {Chosen(s)}]
    BY <2>1, <2>2, SummingAgrees
  <2>4. QED
    BY <1>3, <1>4, <2>3
<1>5. ASSUME NEW s \in SUBSET T
      PROVE  value(s) = IF s = {} THEN 0 ELSE f[Chosen(s)] + whole[s \ {Chosen(s)}]
  <2>1. CASE s = {}
    BY <2>1
  <2>2. CASE s # {}
    <3>1. s \ {Chosen(s)} \in SUBSET T /\ s \ {Chosen(s)} # T
      BY <2>2, ChosenIn
    <3>2. part(s \ {Chosen(s)})[s \ {Chosen(s)}] = value(s \ {Chosen(s)})
      <4>1. CASE s \ {Chosen(s)} = {}
        BY <1>3, <3>1, <4>1
      <4>2. CASE s \ {Chosen(s)} # {}
        BY <1>4, <3>1, <4>2
      <4>3. QED
        BY <4>1, <4>2
    <3>3. QED
      BY <2>2, <3>1, <3>2
  <2>3. QED
    BY <2>1, <2>2
<1>6. Summing(f, T, whole)
  <2> DEFINE sum(s) == IF s = {} THEN 0 ELSE f[Chosen(s)] + whole[s \ {Chosen(s)}]
  <2>1. whole = [s \in SUBSET T |-> value(s)]
    OBVIOUS
  <2>2. \A s \in SUBSET T : value(s) = sum(s)
    BY <1>5
  <2> HIDE DEF value
  <2>3. whole = [s \in SUBSET T |-> sum(s)]
    BY <2>1, <2>2
  <2> HIDE DEF whole
  <2>4. QED
    BY <2>3 DEF Summing
<1>7. QED
  BY <1>2, <1>6

(* What a sum is, its first element being the one CHOOSE picks *)
LEMMA SumUnfolds ==
    ASSUME NEW S, IsFiniteSet(S), NEW f
    PROVE  SumFunctionOnSet(f, S) =
               IF S = {} THEN 0
               ELSE f[Chosen(S)] + SumFunctionOnSet(f, S \ {Chosen(S)})
<1>1. PICK g : Summing(f, S, g) /\ SumFunctionOnSet(f, S) = g[S]
  <2>1. Summing(f, S, CHOOSE g : Summing(f, S, g))
    BY SummingExists
  <2>2. QED
    BY <2>1, SumIs
<1>2. g[S] = IF S = {} THEN 0 ELSE f[Chosen(S)] + g[S \ {Chosen(S)}]
  BY <1>1 DEF Summing
<1>3. ASSUME S # {}
      PROVE  SumFunctionOnSet(f, S \ {Chosen(S)}) = g[S \ {Chosen(S)}]
  <2> DEFINE T == S \ {Chosen(S)}
  <2>1. T \in SUBSET S /\ IsFiniteSet(T)
    BY FS_Subset
  <2> HIDE DEF T
  <2>2. Summing(f, T, CHOOSE h : Summing(f, T, h))
    BY <2>1, SummingExists
  <2>3. (CHOOSE h : Summing(f, T, h))[T] = g[T]
    BY <1>1, <2>1, <2>2, SummingAgrees
  <2>4. SumFunctionOnSet(f, T) = g[T]
    BY <2>3, SumIs
  <2>5. QED
    BY <2>4 DEF T
<1>4. QED
  BY <1>1, <1>2, <1>3

(* Sums of numbers are numbers. *)
LEMMA SumIsNat ==
    ASSUME NEW S, IsFiniteSet(S), NEW f, \A x \in S : f[x] \in Nat
    PROVE  SumFunctionOnSet(f, S) \in Nat
<1> DEFINE B == {s \in SUBSET S : SumFunctionOnSet(f, s) \notin Nat}
<1>1. SUFFICES ASSUME B # {} PROVE FALSE
  OBVIOUS
<1>2. PICK s \in B : \A t \in B : t \subseteq s => t = s
  <2>1. B \subseteq SUBSET S
    OBVIOUS
  <2> HIDE DEF B
  <2>2. QED
    BY <1>1, <2>1, SmallestSubset
<1>3. SumFunctionOnSet(f, s) =
          IF s = {} THEN 0 ELSE f[Chosen(s)] + SumFunctionOnSet(f, s \ {Chosen(s)})
  BY <1>2, SumUnfolds, FS_Subset
<1>4. s # {}
  BY <1>2, <1>3
<1>5. s \ {Chosen(s)} \in (SUBSET S) \ B /\ Chosen(s) \in S
  BY <1>2, <1>4, ChosenIn
<1>6. QED
  BY <1>2, <1>3, <1>4, <1>5

(* The order does not matter. *)
LEMMA SumSplits ==
    ASSUME NEW S, IsFiniteSet(S), NEW f, \A x \in S : f[x] \in Nat, NEW y \in S
    PROVE  SumFunctionOnSet(f, S) = f[y] + SumFunctionOnSet(f, S \ {y})
<1> DEFINE sum(s) == SumFunctionOnSet(f, s)
           B == {s \in SUBSET S : \E x \in s : sum(s) # f[x] + sum(s \ {x})}
<1>1. SUFFICES ASSUME B # {} PROVE FALSE
  OBVIOUS
<1>2. PICK s \in B : \A t \in B : t \subseteq s => t = s
  <2>1. B \subseteq SUBSET S
    OBVIOUS
  <2> HIDE DEF B
  <2>2. QED
    BY <1>1, <2>1, SmallestSubset
<1>3. PICK x \in s : sum(s) # f[x] + sum(s \ {x})
  BY <1>2
<1> DEFINE c == Chosen(s)
<1>4. IsFiniteSet(s) /\ c \in s /\ sum(s) = f[c] + sum(s \ {c})
  BY <1>2, <1>3, SumUnfolds, ChosenIn, FS_Subset
<1>5. c # x
  BY <1>3, <1>4
<1>6. sum(s \ {c}) = f[x] + sum((s \ {c}) \ {x})
  BY <1>2, <1>3, <1>4, <1>5
<1>7. sum(s \ {x}) = f[c] + sum((s \ {x}) \ {c})
  BY <1>2, <1>3, <1>4, <1>5
<1> DEFINE r == (s \ {c}) \ {x}
<1>8. (s \ {x}) \ {c} = r /\ IsFiniteSet(r) /\ \A z \in r : f[z] \in Nat
  BY <1>2, <1>4, FS_Subset
<1>9. sum(r) \in Nat /\ f[x] \in Nat /\ f[c] \in Nat
  <2> HIDE DEF r, c
  <2>1. QED
    BY <1>2, <1>3, <1>4, <1>8, SumIsNat
<1> HIDE DEF r, c, sum
<1>10. QED
  BY <1>3, <1>4, <1>6, <1>7, <1>8, <1>9 DEF r

(* Sums of equal functions, and of larger ones *)
LEMMA SumGrows ==
    ASSUME NEW S, IsFiniteSet(S), NEW f, NEW g,
           \A x \in S : f[x] \in Nat /\ g[x] \in Nat /\ f[x] <= g[x]
    PROVE  SumFunctionOnSet(f, S) <= SumFunctionOnSet(g, S)
<1> DEFINE B == {s \in SUBSET S : ~(SumFunctionOnSet(f, s) <= SumFunctionOnSet(g, s))}
<1>1. SUFFICES ASSUME B # {} PROVE FALSE
  OBVIOUS
<1>2. PICK s \in B : \A t \in B : t \subseteq s => t = s
  <2>1. B \subseteq SUBSET S
    OBVIOUS
  <2> HIDE DEF B
  <2>2. QED
    BY <1>1, <2>1, SmallestSubset
<1>3. /\ SumFunctionOnSet(f, s) =
             IF s = {} THEN 0 ELSE f[Chosen(s)] + SumFunctionOnSet(f, s \ {Chosen(s)})
      /\ SumFunctionOnSet(g, s) =
             IF s = {} THEN 0 ELSE g[Chosen(s)] + SumFunctionOnSet(g, s \ {Chosen(s)})
      /\ IsFiniteSet(s \ {Chosen(s)})
  BY <1>2, SumUnfolds, FS_Subset
<1>4. s # {}
  BY <1>2, <1>3
<1>5. s \ {Chosen(s)} \in (SUBSET S) \ B /\ Chosen(s) \in S
  BY <1>2, <1>4, ChosenIn
<1>6. /\ SumFunctionOnSet(f, s \ {Chosen(s)}) \in Nat
      /\ SumFunctionOnSet(g, s \ {Chosen(s)}) \in Nat
  BY <1>3, <1>5, SumIsNat
<1>7. QED
  BY <1>2, <1>3, <1>4, <1>5, <1>6

(* A sum of zeros *)
LEMMA SumOfZeros ==
    ASSUME NEW S, IsFiniteSet(S), NEW f, \A x \in S : f[x] = 0
    PROVE  SumFunctionOnSet(f, S) = 0
<1> DEFINE B == {s \in SUBSET S : SumFunctionOnSet(f, s) # 0}
<1>1. SUFFICES ASSUME B # {} PROVE FALSE
  OBVIOUS
<1>2. PICK s \in B : \A t \in B : t \subseteq s => t = s
  <2>1. B \subseteq SUBSET S
    OBVIOUS
  <2> HIDE DEF B
  <2>2. QED
    BY <1>1, <2>1, SmallestSubset
<1>3. SumFunctionOnSet(f, s) =
          IF s = {} THEN 0 ELSE f[Chosen(s)] + SumFunctionOnSet(f, s \ {Chosen(s)})
  BY <1>2, SumUnfolds, FS_Subset
<1>4. s # {}
  BY <1>2, <1>3
<1>5. s \ {Chosen(s)} \in (SUBSET S) \ B /\ Chosen(s) \in S
  BY <1>2, <1>4, ChosenIn
<1>6. QED
  BY <1>2, <1>3, <1>4, <1>5

(* Sums of functions that differ in one place *)
LEMMA SumDiffersBy ==
    ASSUME NEW S, IsFiniteSet(S), NEW f, NEW g, NEW y \in S,
           \A x \in S : f[x] \in Nat /\ g[x] \in Nat,
           \A x \in S \ {y} : f[x] = g[x]
    PROVE  SumFunctionOnSet(g, S) + f[y] = SumFunctionOnSet(f, S) + g[y]
<1> DEFINE R == S \ {y}
<1>1. IsFiniteSet(R) /\ \A x \in R : f[x] \in Nat /\ g[x] \in Nat /\ f[x] <= g[x] /\ g[x] <= f[x]
  BY FS_Subset
<1>2. /\ SumFunctionOnSet(f, S) = f[y] + SumFunctionOnSet(f, R)
      /\ SumFunctionOnSet(g, S) = g[y] + SumFunctionOnSet(g, R)
  BY SumSplits
<1> HIDE DEF R
<1>3. SumFunctionOnSet(f, R) \in Nat /\ SumFunctionOnSet(g, R) \in Nat
  BY <1>1, SumIsNat
<1>4. /\ SumFunctionOnSet(f, R) <= SumFunctionOnSet(g, R)
      /\ SumFunctionOnSet(g, R) <= SumFunctionOnSet(f, R)
  BY <1>1, SumGrows
<1>5. QED
  BY <1>2, <1>3, <1>4

-----------------------------------------------------------------------------
(* The queue does what PaidQueue promises of its trials *)

(* How a trial's row reads there *)
LEMMA PhaseFacts ==
    ASSUME NEW t \in Trials
    PROVE  /\ queuePhase[t] = "unknown" <=> trial[t].status = "absent"
           /\ queuePhase[t] = "open" <=> trial[t].status = "queued"
           /\ queuePhase[t] = "working" <=> trial[t].status = "running"
           /\ queuePhase[t] = "scored" <=> trial[t].status \in Scored
           /\ queuePhase[t] \in {"unknown", "open", "working", "scored", "closed"}
BY DEF queuePhase, Scored

(* And after a step *)
LEMMA NextPhaseFacts ==
    ASSUME NEW t \in Trials
    PROVE  /\ queuePhase'[t] = "unknown" <=> trial'[t].status = "absent"
           /\ queuePhase'[t] = "open" <=> trial'[t].status = "queued"
           /\ queuePhase'[t] = "working" <=> trial'[t].status = "running"
           /\ queuePhase'[t] = "scored" <=> trial'[t].status \in Scored
           /\ queuePhase'[t] \in {"unknown", "open", "working", "scored", "closed"}
BY DEF queuePhase, Scored

(* Phase and charge are functions of the trials and of their attempts. *)
LEMMA PhaseDomains ==
    /\ queuePhase = [t \in Trials |-> queuePhase[t]]
    /\ queuePhase' = [t \in Trials |-> queuePhase'[t]]
    /\ queueCharge = [r \in Runs |-> queueCharge[r]]
    /\ queueCharge' = [r \in Runs |-> queueCharge'[r]]
    /\ \A t \in Trials : trial'[t].status = trial[t].status => queuePhase'[t] = queuePhase[t]
    /\ \A r \in Runs : attempt'[r] = attempt[r] => queueCharge'[r] = queueCharge[r]
    /\ \A r \in Runs : /\ attempt[r].used = None => queueCharge[r] = attempt[r].reserved
                       /\ attempt[r].used # None => queueCharge[r] = attempt[r].used
                       /\ attempt'[r].used = None => queueCharge'[r] = attempt'[r].reserved
                       /\ attempt'[r].used # None => queueCharge'[r] = attempt'[r].used
BY DEF queuePhase, queueCharge, Charge

(* A step that leaves the attempts and what the trials are there           *)
SamePhases ==
    /\ attempt' = attempt
    /\ \A t \in Trials : \/ trial'[t].status = trial[t].status
                         \/ trial[t].status \in Scored /\ trial'[t].status \in Scored

(* It changes neither phases nor charges. *)
LEMMA SamePhasesStutter ==
    ASSUME SamePhases
    PROVE  UNCHANGED <<queuePhase, queueCharge>>
<1>1. \A t \in Trials : queuePhase'[t] = queuePhase[t]
  BY PhaseFacts, NextPhaseFacts, PhaseDomains DEF SamePhases
<1>2. \A r \in Runs : queueCharge'[r] = queueCharge[r]
  BY PhaseDomains DEF SamePhases
<1>3. QED
  BY <1>1, <1>2, PhaseDomains

(* The steps that are none of it *)
LEMMA SameSteps ==
    ASSUME QueueInv,
           \/ WorkerStarts \/ WorkerDies \/ WorkerInterrupted \/ Reboot
           \/ Adopt \/ RecoverDone \/ RecoverRendersDone \/ (\E t \in Trials : RecoverRender(t))
           \/ RestoreUnloads \/ RestoreRestarts \/ RestoreStarts \/ Poll \/ Launch
           \/ LaunchFails \/ Returned \/ Timeout \/ ScoreRaises \/ Mark \/ PublicationError
           \/ RenderAgain \/ RenderReturns \/ RenderDone \/ PublishReads \/ PublishWrites
           \/ (\E r \in Runs : ChildStep(r))
           \/ \E c \in Commands : \/ Status(c) \/ Render(c) \/ RenderCommandReturns(c)
                                  \/ RenderCommandFails(c) \/ Writes(c)
           \/ UNCHANGED vars
    PROVE  SamePhases
<1>1. TypeOK /\ CommandInv /\ TrialInv
  BY DEF QueueInv, BatchInv
<1>2. ASSUME NEW t \in Trials, trial[t].status \in Scored, NEW s \in Scored,
             trial' = [trial EXCEPT ![t].status = s], attempt' = attempt
      PROVE  SamePhases
  <2>1. trial \in [Trials -> Rows]
    BY <1>1, Types
  <2>2. trial'[t].status = s /\ \A u \in Trials \ {t} : trial'[u] = trial[u]
    BY <1>2, <2>1 DEF Rows
  <2>3. QED
    BY <1>2, <2>2 DEF SamePhases
<1>3. Rendering => worker.task \in Trials /\ trial[worker.task].status \in Scored
  BY HandsFacts
<1>4. CASE Adopt \/ Mark \/ RenderDone
  <2>1. worker.task \in Trials /\ trial[worker.task].status \in Scored
    BY <1>3, <1>4 DEF Adopt, Mark, RenderDone, Rendering
  <2>2. /\ attempt' = attempt
        /\ \E s \in Scored : trial' = [trial EXCEPT ![worker.task].status = s]
    BY <1>4 DEF Adopt, Mark, RenderDone, Scored
  <2>3. QED
    BY <1>2, <2>1, <2>2
<1>5. CASE RenderAgain
  <2>1. worker.task \in Trials /\ trial \in [Trials -> Rows]
    BY <1>1, <1>3, <1>5, Types DEF RenderAgain, Rendering
  <2>2. attempt' = attempt /\ trial' = [trial EXCEPT ![worker.task].renders = @ + 1]
    BY <1>5 DEF RenderAgain
  <2>3. \A u \in Trials : trial'[u].status = trial[u].status
    BY <2>1, <2>2 DEF Rows
  <2>4. QED
    BY <2>2, <2>3 DEF SamePhases
<1>6. CASE \E c \in Commands : RenderCommandReturns(c)
  <2>1. PICK c \in Commands : RenderCommandReturns(c)
    BY <1>6
  <2>2. command[c].task \in Trials /\ trial[command[c].task].status \in Scored
    BY <1>1, <2>1 DEF RenderCommandReturns, CommandInv, TypeOK
  <2>3. /\ attempt' = attempt /\ "completed" \in Scored
        /\ trial' = [trial EXCEPT ![command[c].task].status = "completed"]
    BY <2>1 DEF RenderCommandReturns, Scored
  <2>4. QED
    BY <1>2, <2>2, <2>3
<1>7. CASE attempt' = attempt /\ trial' = trial
  BY <1>7 DEF SamePhases
<1>8. CASE \E r \in Runs : ChildStep(r)
  BY <1>7, <1>8 DEF ChildStep, StopsWorld, StartsWorld, Spends, EndsEpisode, SavesScore,
     Exits, ChildFails, ChildGoes
<1>9. CASE \E c \in Commands : Status(c) \/ Render(c) \/ RenderCommandFails(c) \/ Writes(c)
  BY <1>7, <1>9 DEF Status, Render, RenderCommandFails, Writes
<1>10. CASE WorkerDies \/ WorkerInterrupted \/ Reboot \/ UNCHANGED vars
  BY <1>7, <1>10 DEF WorkerDies, WorkerInterrupted, Reboot, Dies, vars
<1>11. CASE \/ WorkerStarts \/ RecoverDone \/ RecoverRendersDone
            \/ (\E t \in Trials : RecoverRender(t)) \/ RestoreUnloads \/ RestoreRestarts
            \/ RestoreStarts \/ Poll \/ Launch \/ LaunchFails \/ Returned \/ Timeout
            \/ ScoreRaises \/ PublicationError \/ RenderReturns \/ PublishReads
            \/ PublishWrites
  BY <1>7, <1>11 DEF WorkerStarts, RecoverDone, RecoverRendersDone, RecoverRender,
     RestoreUnloads, RestoreRestarts, RestoreStarts, Poll, Launch, LaunchFails, Returned,
     Timeout, ScoreRaises, PublicationError, RenderReturns, PublishReads, PublishWrites
<1>12. QED
  BY <1>4, <1>5, <1>6, <1>8, <1>9, <1>10, <1>11

(* There are finitely many tries. *)
LEMMA RunsFinite == IsFiniteSet(Runs)
<1>1. IsFiniteSet(1..NumTrials) /\ IsFiniteSet(1..MaxAttempts)
  BY Constants, FS_Interval
<1>2. QED
  BY <1>1, FS_Product DEF Runs, Trials

(* What each is charged is a number. *)
LEMMA ChargesAreNat ==
    /\ TypeOK => \A r \in Runs : queueCharge[r] \in Nat
    /\ TypeOK' => \A r \in Runs : queueCharge'[r] \in Nat
BY Constants DEF TypeOK, queueCharge, Charge, Accounts

(* What a claim may reserve is measured by the sum of the charges. *)
LEMMA ChargesSum ==
    /\ Usage = SumFunctionOnSet(queueCharge, Runs)
    /\ Promise!SumFunction(queueCharge) = SumFunctionOnSet(queueCharge, Runs)
    /\ Promise!SumFunction(queueCharge') = SumFunctionOnSet(queueCharge', Runs)
    /\ SumFunction(spent) = SumFunctionOnSet(spent, DOMAIN spent)
<1>1. DOMAIN queueCharge = Runs /\ DOMAIN queueCharge' = Runs
  BY DEF queueCharge
<1>2. Usage = SumFunction(queueCharge)
  BY DEF Usage, queueCharge
<1>3. QED
  BY <1>1, <1>2 DEF SumFunction, SumFunctionOnSet, FoldFunctionOnSet, MapThenFoldSet,
     Promise!SumFunction, Promise!SumFunctionOnSet, Promise!FoldFunctionOnSet,
     Promise!MapThenFoldSet

(* A claim reserves, of what is left, for a try that cost nothing yet.     *)
LEMMA ClaimTakes ==
    ASSUME QueueInv, TypeOK', NEW t \in Trials, Claim(t)
    PROVE  Promise!Take(t)
<1>. DEFINE n == trial[t].attempt + 1
            r == <<t, n>>
<1>1. /\ TypeOK /\ AttemptInv /\ RunInv /\ worker.pc = "claim"
      /\ trial[t].status = "queued"
  BY DEF QueueInv, BatchInv, Claim, With
<1>2. PICK calls \in 1..MaxCallsPerTrial : calls = Affordable /\ Reserve(t, r, calls)
  BY DEF Claim
<1>3. /\ n \in 1..MaxAttempts /\ r \in Runs
      /\ trial'[t].status = "running" /\ \A u \in Trials \ {t} : trial'[u] = trial[u]
      /\ attempt'[r].used = None /\ \A q \in Runs \ {r} : attempt'[q] = attempt[q]
  BY <1>1, <1>2, ReserveFacts
<1>4. attempt'[r].reserved = calls
  <2>1. attempt' = [attempt EXCEPT ![r] = [status |-> "running", reserved |-> calls,
                                           used |-> None]]
    BY <1>2 DEF Reserve
  <2>2. attempt \in [Runs -> Accounts]
    BY <1>1, Types
  <2>. HIDE DEF r
  <2>3. QED
    BY <1>3, <2>1, <2>2
<1>5. attempt[r].reserved = 0 /\ attempt[r].used = None
  <2>1. trial[t].attempt \in Nat
    BY <1>1, Types, Constants
  <2>2. n > trial[t].attempt
    BY <2>1
  <2>3. attempt[r].status = "none"
    BY <1>1, <1>3, <2>2 DEF AttemptInv
  <2>4. attempt[r].reserved = 0
    BY <1>1, <1>3, <2>3 DEF RunInv
  <2>5. attempt[r].used = None
    BY <1>1, <1>3, <2>3 DEF AttemptInv
  <2>6. QED
    BY <2>4, <2>5
<1>6. n \in 1..MaxAttempts
  BY <1>3
<1>. HIDE DEF n
<1>7. queueCharge[<<t, n>>] = 0 /\ queueCharge'[<<t, n>>] > 0
  BY <1>3, <1>4, <1>5, PhaseDomains
<1>8. queueCharge' = [queueCharge EXCEPT ![<<t, n>>] = queueCharge'[<<t, n>>]]
  BY <1>3, PhaseDomains
<1>9. queuePhase[t] = "open" /\ \A u \in Trials : queuePhase[u] # "working"
  <2>1. Running = {}
    BY <1>1, HandsFacts DEF InHand, Launching, Publishing
  <2>2. QED
    BY <1>1, <2>1, PhaseFacts DEF Running, With
<1>10. queuePhase' = [queuePhase EXCEPT ![t] = "working"]
  BY <1>3, NextPhaseFacts, PhaseDomains
<1>11. SumFunctionOnSet(queueCharge', Runs) <= MaxApiCalls
  <2> DEFINE old == SumFunctionOnSet(queueCharge, Runs)
             new == SumFunctionOnSet(queueCharge', Runs)
  <2>1. /\ \A q \in Runs : queueCharge[q] \in Nat /\ queueCharge'[q] \in Nat
        /\ \A q \in Runs \ {r} : queueCharge[q] = queueCharge'[q]
        /\ queueCharge[r] = 0 /\ queueCharge'[r] = calls
    BY <1>1, <1>3, <1>4, <1>5, ChargesAreNat, PhaseDomains
  <2>2. new + queueCharge[r] = old + queueCharge'[r]
    BY <1>3, <2>1, SumDiffersBy, RunsFinite
  <2>3. old \in Nat /\ new \in Nat
    BY <2>1, SumIsNat, RunsFinite
  <2>4. calls <= MaxApiCalls - old
    BY <1>2, <2>3, ChargesSum, BatchAssumption DEF Affordable, Least
  <2> HIDE DEF old, new
  <2>5. new <= MaxApiCalls
    BY <2>1, <2>2, <2>3, <2>4, BatchAssumption
  <2>6. QED
    BY <2>5 DEF new
<1>12. QED
  BY <1>6, <1>7, <1>8, <1>9, <1>10, <1>11, ChargesSum DEF Promise!Take

(* What closes an attempt settles its try: nothing is charged on top.      *)
LEMMA ClosesSettles ==
    ASSUME QueueInv, NEW t \in Trials, trial[t].status = "running", ClosesRun(t)
    PROVE  Promise!Settle(t)
<1>. DEFINE n == trial[t].attempt
<1>1. TypeOK /\ AttemptInv /\ TrialInv
  BY DEF QueueInv, BatchInv
<1>2. Current(t) = <<t, n>> /\ <<t, n>> \in Runs /\ n \in 1..MaxAttempts
  BY <1>1, CurrentFacts
<1>3. /\ attempt[<<t, n>>].used = None /\ attempt[<<t, n>>] \in Accounts
      /\ attempt'[<<t, n>>] \in Accounts
  BY <1>1, <1>2, Types DEF AttemptInv, ClosesRun
<1>4. spent[<<t, n>>] \in Nat /\ spent[<<t, n>>] <= attempt[<<t, n>>].reserved
  BY <1>1, <1>2, SpentFacts, Types
<1>5. /\ \A u \in Trials \ {t} : trial'[u] = trial[u]
      /\ \A r \in Runs \ {<<t, n>>} : attempt'[r] = attempt[r]
      /\ attempt'[<<t, n>>].reserved = attempt[<<t, n>>].reserved
      /\ attempt'[<<t, n>>].used # None => spent[<<t, n>>] = attempt'[<<t, n>>].used
      /\ trial'[t].status \in {"completed", "queued", "infrastructure_error"}
  BY <1>2 DEF ClosesRun
<1>. HIDE DEF n
<1>6. queueCharge'[<<t, n>>] \in 0..queueCharge[<<t, n>>]
  <2>1. queueCharge[<<t, n>>] = attempt[<<t, n>>].reserved /\ attempt[<<t, n>>].reserved \in Nat
    BY <1>2, <1>3, PhaseDomains DEF Accounts
  <2>2. CASE attempt'[<<t, n>>].used = None
    BY <1>2, <1>5, <2>1, <2>2, PhaseDomains
  <2>3. CASE attempt'[<<t, n>>].used # None
    BY <1>2, <1>4, <1>5, <2>1, <2>3, PhaseDomains
  <2>4. QED
    BY <2>2, <2>3
<1>7. queueCharge' = [queueCharge EXCEPT ![<<t, n>>] = queueCharge'[<<t, n>>]]
  BY <1>5, PhaseDomains
<1>8. queuePhase[t] = "working"
  BY PhaseFacts
<1>9. /\ queuePhase'[t] \in {"open", "scored", "closed"}
      /\ queuePhase' = [queuePhase EXCEPT ![t] = queuePhase'[t]]
  BY <1>5, NextPhaseFacts, PhaseDomains
<1>10. QED
  BY <1>2, <1>6, <1>7, <1>8, <1>9 DEF Promise!Settle

(* Every step of the queue is one that PaidQueue allows, or leaves phases  *)
(* and charges as they are.                                                *)
LEMMA NextPromised ==
    ASSUME QueueInv, TypeOK', [Next]_vars
    PROVE  [Promise!Next]_<<queuePhase, queueCharge>>
<1>1. ASSUME NEW t \in Trials, Claim(t)
      PROVE  Promise!Next
  BY <1>1, ClaimTakes DEF Promise!Next
<1>2. CASE \/ \E t \in Trials : RecoverSaved(t) \/ RecoverInterrupted(t)
           \/ Score \/ Fail
  BY <1>2, ClosesKeeps, ClosesSettles DEF Promise!Next, Ends
<1>3. ASSUME attempt' = attempt, NEW to \in {"budget_exhausted", "cancelled"},
             trial' = [t \in Trials |-> IF trial[t].status = "queued"
                                        THEN [trial[t] EXCEPT !.status = to] ELSE trial[t]]
      PROVE  Promise!Next
  <2>. DEFINE gone == {t \in Trials : queuePhase[t] = "open"}
  <2>1. \A t \in Trials : queuePhase'[t] = IF t \in gone THEN "closed" ELSE queuePhase[t]
    <3>1. SUFFICES ASSUME NEW t \in Trials
                   PROVE  queuePhase'[t] = IF t \in gone THEN "closed" ELSE queuePhase[t]
      OBVIOUS
    <3>2. trial[t] \in Rows
      BY Types DEF QueueInv, BatchInv
    <3>3. CASE trial[t].status = "queued"
      <4>1. trial'[t].status = to
        BY <1>3, <3>2, <3>3 DEF Rows
      <4>2. queuePhase'[t] = "closed"
        BY <1>3, <4>1, NextPhaseFacts DEF Scored
      <4>3. t \in gone
        BY <3>3, PhaseFacts
      <4>4. QED
        BY <4>2, <4>3
    <3>4. CASE trial[t].status # "queued"
      <4>1. trial'[t] = trial[t]
        BY <1>3, <3>4
      <4>2. t \notin gone
        BY <3>4, PhaseFacts
      <4>3. QED
        BY <4>1, <4>2, PhaseDomains
    <3>5. QED
      BY <3>3, <3>4
  <2>2. \A r \in Runs : queueCharge'[r] = queueCharge[r]
    BY <1>3, PhaseDomains
  <2>3. queueCharge' = queueCharge
    BY <2>2, PhaseDomains
  <2>. HIDE DEF gone
  <2>4. queuePhase' = [t \in Trials |-> IF t \in gone THEN "closed" ELSE queuePhase[t]]
    BY <2>1, PhaseDomains
  <2>5. gone \in SUBSET {t \in Trials : queuePhase[t] = "open"}
    BY DEF gone
  <2>6. Promise!Close
    BY <2>3, <2>4, <2>5 DEF Promise!Close
  <2>7. QED
    BY <2>6 DEF Promise!Next
<1>4. ASSUME NEW c \in Commands, Submit(c)
      PROVE  Promise!Next
  <2>1. \A t \in Trials : trial[t].status = "absent" /\ trial[t] \in Rows
    BY <1>4, Types DEF Submit, With, QueueInv, BatchInv
  <2>2. \A t \in Trials : trial'[t].status = "queued"
    BY <1>4, <2>1 DEF Submit, Rows
  <2>3. queuePhase = [t \in Trials |-> "unknown"]
    BY <2>1, PhaseFacts, PhaseDomains
  <2>4. queuePhase' = [t \in Trials |-> "open"]
    BY <2>2, NextPhaseFacts, PhaseDomains
  <2>5. \A r \in Runs : queueCharge'[r] = queueCharge[r]
    BY <1>4, PhaseDomains DEF Submit
  <2>6. queueCharge' = queueCharge
    BY <2>5, PhaseDomains
  <2>7. QED
    BY <2>3, <2>4, <2>6 DEF Promise!Next, Promise!Submit
<1>5. CASE ClaimNothing
  BY <1>3, <1>5 DEF ClaimNothing
<1>6. CASE \E c \in Commands : Cancel(c)
  BY <1>3, <1>6 DEF Cancel
<1>7. ASSUME SamePhases
      PROVE  UNCHANGED <<queuePhase, queueCharge>>
  BY <1>7, SamePhasesStutter
<1>8. QED
  BY <1>1, <1>2, <1>4, <1>5, <1>6, <1>7, SameSteps DEF Next, Recovers, Works, CommandStep

(* A step of PaidQueue keeps the charges within the budget.               *)
LEMMA ChargesKept ==
    ASSUME TypeOK, TypeOK', [Promise!Next]_<<queuePhase, queueCharge>>,
           SumFunctionOnSet(queueCharge, Runs) <= MaxApiCalls
    PROVE  SumFunctionOnSet(queueCharge', Runs) <= MaxApiCalls
<1>1. CASE \E t \in Trials : Promise!Take(t)
  BY <1>1, ChargesSum DEF Promise!Take
<1>2. ASSUME NEW t \in Trials, Promise!Settle(t)
      PROVE  SumFunctionOnSet(queueCharge', Runs) <= MaxApiCalls
  <2>1. PICK n \in 1..MaxAttempts :
            /\ queueCharge'[<<t, n>>] \in 0..queueCharge[<<t, n>>]
            /\ queueCharge' = [queueCharge EXCEPT ![<<t, n>>] = queueCharge'[<<t, n>>]]
    BY <1>2 DEF Promise!Settle
  <2>2. \A r \in Runs : queueCharge[r] \in Nat /\ queueCharge'[r] \in Nat
    BY ChargesAreNat
  <2>3. DOMAIN queueCharge = Runs /\ <<t, n>> \in Runs
    BY DEF queueCharge, Runs
  <2>4. \A r \in Runs : queueCharge'[r] <= queueCharge[r]
    <3>1. SUFFICES ASSUME NEW r \in Runs PROVE queueCharge'[r] <= queueCharge[r]
      OBVIOUS
    <3>2. CASE r = <<t, n>>
      BY <2>1, <2>2, <3>2
    <3>3. CASE r # <<t, n>>
      <4>1. queueCharge'[r] = queueCharge[r]
        BY <2>1, <2>3, <3>3
      <4>2. QED
        BY <2>2, <4>1
    <3>4. QED
      BY <3>2, <3>3
  <2>5. /\ SumFunctionOnSet(queueCharge', Runs) <= SumFunctionOnSet(queueCharge, Runs)
        /\ SumFunctionOnSet(queueCharge', Runs) \in Nat
        /\ SumFunctionOnSet(queueCharge, Runs) \in Nat
    BY <2>2, <2>4, SumGrows, SumIsNat, RunsFinite
  <2>6. QED
    BY <2>5, BatchAssumption
<1>3. CASE Promise!Submit \/ Promise!Close \/ UNCHANGED <<queuePhase, queueCharge>>
  <2>1. queueCharge' = queueCharge
    BY <1>3 DEF Promise!Submit, Promise!Close
  <2>2. QED
    BY <2>1
<1>4. QED
  BY <1>1, <1>2, <1>3 DEF Promise!Next

(* No try has spent more than it is charged. *)
LEMMA SpentIsCharged ==
    ASSUME QueueInv, SumFunctionOnSet(queueCharge, Runs) <= MaxApiCalls
    PROVE  BudgetKept
<1>1. TypeOK /\ RunInv /\ spent \in [Runs -> Nat]
  BY Types DEF QueueInv, BatchInv
<1>2. \A r \in Runs : spent[r] <= queueCharge[r]
  <2>1. SUFFICES ASSUME NEW r \in Runs PROVE spent[r] <= queueCharge[r]
    OBVIOUS
  <2>2. r = <<r[1], r[2]>> /\ r[1] \in Trials /\ r[2] \in 1..MaxAttempts
    BY <1>1, Types
  <2>3. attempt[r].used # None => spent[r] = attempt[r].used
    BY <1>1, <2>2 DEF RunInv
  <2>4. QED
    BY <1>1, <2>3, SpentFacts, PhaseDomains
<1>3. \A r \in Runs : spent[r] \in Nat /\ queueCharge[r] \in Nat
  BY <1>1, ChargesAreNat
<1>4. /\ SumFunctionOnSet(spent, Runs) <= SumFunctionOnSet(queueCharge, Runs)
      /\ SumFunctionOnSet(spent, Runs) \in Nat /\ SumFunctionOnSet(queueCharge, Runs) \in Nat
  BY <1>2, <1>3, SumGrows, SumIsNat, RunsFinite
<1>5. SumFunction(spent) = SumFunctionOnSet(spent, Runs)
  BY <1>1, ChargesSum
<1>6. QED
  BY <1>4, <1>5, BatchAssumption DEF BudgetKept

(* The queue implements PaidQueue, whatever dies and whatever commands run *)
(* beside the worker: one trial in work at a time, a try paid for once,    *)
(* never dearer than reserved and never beyond the budget, a scored or     *)
(* closed trial never worked on again; and the provider is not asked for   *)
(* more than the budget.                                                   *)
THEOREM BatchImplementsQueue == Spec => ImplementsQueue
<1> DEFINE Kept == SumFunctionOnSet(queueCharge, Runs) <= MaxApiCalls
<1>1. Init => Promise!Init /\ Kept
  <2>1. SUFFICES ASSUME Init
                 PROVE  Promise!Init /\ Kept
    OBVIOUS
  <2>2. \A t \in Trials : trial[t].status = "absent"
    BY <2>1 DEF Init
  <2>3. queuePhase = [t \in Trials |-> "unknown"]
    BY <2>2, PhaseFacts, PhaseDomains
  <2>4. \A r \in Runs : queueCharge[r] = 0
    BY <2>1, PhaseDomains DEF Init
  <2>5. queueCharge = [r \in Runs |-> 0]
    BY <2>4, PhaseDomains
  <2>6. Kept
    BY <2>4, SumOfZeros, RunsFinite, BatchAssumption
  <2>7. QED
    BY <2>3, <2>5, <2>6 DEF Promise!Init, Runs
<1>2. QueueInv /\ QueueInv' /\ [Next]_vars => [Promise!Next]_<<queuePhase, queueCharge>>
  BY NextPromised DEF QueueInv, BatchInv
<1>3. /\ QueueInv /\ QueueInv' /\ Kept
      /\ [Promise!Next]_<<queuePhase, queueCharge>>
      => Kept'
  BY ChargesKept DEF QueueInv, BatchInv
<1>4. QueueInv /\ Kept => BudgetKept
  BY SpentIsCharged
<1> HIDE DEF Kept
<1>5. QED
  BY <1>1, <1>2, <1>3, <1>4, QueueAlways, PTL DEF Spec, Promise!Spec, ImplementsQueue
=============================================================================
