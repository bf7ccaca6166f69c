------------------------- MODULE CosmicRuntimeProofs -------------------------
(***************************************************************************)
(* One attempt's backend, for any number of faults and of deaths and       *)
(* starts of the service: RuntimeInv is inductive, and only an instance    *)
(* of the attempt is ever stopped.  Refuse mentions ENABLED; what is used  *)
(* of it is that it raises.                                                *)
(***************************************************************************)
EXTENDS CosmicRuntime, TLAPS

(* The steps there are, and the records of the state and of the runner     *)
(* whatever is written to them.                                            *)
LEMMA PCsAre ==
    /\ "ready" \in PCs /\ "create" \in PCs /\ "restore" \in PCs /\ "sql" \in PCs
    /\ "reset" \in PCs /\ "start" \in PCs /\ "dropin" \in PCs /\ "reload" \in PCs
    /\ "launch" \in PCs /\ "invocation" \in PCs /\ "online" \in PCs /\ "login" \in PCs
    /\ "connect" \in PCs /\ "connected" \in PCs /\ "ask" \in PCs /\ "request" \in PCs
    /\ "play" \in PCs /\ "leave" \in PCs /\ "navigate" \in PCs /\ "logout" \in PCs
    /\ "copy" \in PCs /\ "disconnect" \in PCs /\ "collect" \in PCs /\ "snapshot" \in PCs
    /\ "score" \in PCs /\ "settle" \in PCs /\ "quiesce" \in PCs /\ "record" \in PCs
    /\ "release" \in PCs /\ "preserve" \in PCs /\ "preserved" \in PCs /\ "evict" \in PCs
    /\ "stop" \in PCs /\ "stopped" \in PCs /\ "remove" \in PCs /\ "unlink" \in PCs
    /\ "removed" \in PCs /\ "unload" \in PCs /\ "reload_again" \in PCs /\ "verify" \in PCs
    /\ "wait" \in PCs /\ "waiting" \in PCs /\ "observe" \in PCs /\ "cleanup" \in PCs
    /\ "idle" \in PCs /\ "none" \in PCs /\ "write" \in PCs
BY DEF PCs, RunPCs, HandlerPCs, CleanupPCs, SettlePCs, StopPCs, RemovePCs, AfterLogoutPCs,
   BeforeSql, BeforeStart, BeforeLaunch, BeforeConnect, BeforeRequest, BeforeLeave,
   BeforeNavigate

LEMMA SavedFlags ==
    ASSUME NEW s \in States
    PROVE  /\ [s EXCEPT !.made = TRUE] \in States
           /\ [s EXCEPT !.reset = TRUE] \in States
           /\ [s EXCEPT !.login = TRUE] \in States
           /\ [s EXCEPT !.logout = TRUE] \in States
           /\ [s EXCEPT !.failure = TRUE] \in States
           /\ [s EXCEPT !.preserved = TRUE] \in States
           /\ [s EXCEPT !.clean = FALSE] \in States
           /\ [s EXCEPT !.clean = TRUE] \in States
BY DEF States

LEMMA SavedTypes ==
    ASSUME NEW s \in States
    PROVE  /\ \A o \in Operations : [s EXCEPT !.intents = @ \cup {o}] \in States
           /\ \A i \in Nat : [s EXCEPT !.intents = @ \cup {"start"}, !.dropin = TRUE,
                                       !.prev = i] \in States
           /\ \A i \in Nat : [s EXCEPT !.inv = i] \in States
           /\ \A c \in Checkpoints : [s EXCEPT !.config = c] \in States
BY DEF States, Operations

LEMMA TrialTypes ==
    ASSUME NEW t \in Trials
    PROVE  /\ \A pc \in PCs : [t EXCEPT !.pc = pc] \in Trials
           /\ \A pc \in PCs, f \in {"handler", "cleanup"} :
                 /\ [t EXCEPT !.flow = f, !.pc = pc] \in Trials
                 /\ [t EXCEPT !.pc = pc, !.flow = f] \in Trials
           /\ \A pc \in PCs, b \in BOOLEAN : [t EXCEPT !.pc = pc, !.up = b] \in Trials
           /\ \A pc \in PCs : [t EXCEPT !.st = "failed", !.pc = pc] \in Trials
BY DEF Trials

LEMMA Moves ==
    ASSUME trial \in Trials
    PROVE  /\ \A pc \in PCs : Go(pc) => trial' \in Trials
           /\ Fails => trial' \in Trials
           /\ \A b \in BOOLEAN :
                 trial' = [trial EXCEPT !.pc = "settle", !.up = b] => trial' \in Trials
           /\ trial' = [trial EXCEPT !.flow = "handler", !.pc = "settle"]
                 => trial' \in Trials
<1>1. \A pc \in PCs : Go(pc) => trial' \in Trials
  BY TrialTypes DEF Go
<1>2. "none" \in PCs /\ "settle" \in PCs
  BY PCsAre
<1>3. [trial EXCEPT !.st = "failed", !.pc = "none"] \in Trials
  BY <1>2, TrialTypes
<1>4. \A b \in BOOLEAN : [trial EXCEPT !.pc = "settle", !.up = b] \in Trials
  BY <1>2, TrialTypes
<1>5. [trial EXCEPT !.flow = "handler", !.pc = "settle"] \in Trials
  BY <1>2, TrialTypes
<1>6. QED
  BY <1>1, <1>3, <1>4, <1>5 DEF Fails

LEMMA RuntimeInit == Init => RuntimeInv
<1> SUFFICES ASSUME Init PROVE RuntimeInv
  OBVIOUS
<1> USE RuntimeAssumption DEF Init
<1>1. TypeOK
  <2>1. NoState \in States
    BY DEF NoState, States, Checkpoints
  <2>2. trial \in Trials
    BY PCsAre DEF Trials
  <2>3. done \in [{"restores", "starts", "requests", "leaves"} -> 0 .. 2]
    OBVIOUS
  <2>4. unit \in [up : BOOLEAN, inst : Nat, cfg : {"normal", "trial"}]
        /\ run \in [st : {"none", "running", "cancelling", "completed", "failed"},
                   acked : BOOLEAN, released : BOOLEAN]
        /\ faults \in 0 .. MaxFaults /\ hosts \in 0 .. MaxHost
    OBVIOUS
  <2>5. QED
    BY <2>1, <2>2, <2>3, <2>4 DEF TypeOK
<1>2. Recorded /\ ScoredWhole /\ EvidenceKept
  BY DEF Recorded, ScoredWhole, EvidenceKept, NoState
<1>3. StepInv
  BY DEF StepInv, RunInv, HandlerInv, CleanupInv, OnceBy, Running, NoState, Offline,
     RunPCs, AfterLogoutPCs, BeforeNavigate, BeforeLeave, BeforeRequest, BeforeConnect,
     BeforeLaunch, BeforeStart, BeforeSql
<1>4. QED
  BY <1>1, <1>2, <1>3 DEF RuntimeInv

(* Types, action by action.                                                *)
LEMMA RunBeginsType ==
    ASSUME TypeOK,
           IsReady \/ Create \/ Restore \/ RestoreSql \/ Restored
    PROVE  TypeOK'
<1>1. CASE IsReady
  <2>1. trial' \in Trials
    BY <1>1, TrialTypes, PCsAre DEF TypeOK, IsReady, Go
  <2>2. QED
    BY <1>1, <2>1 DEF TypeOK, IsReady, host, service, game, browser
<1>2. CASE Create
  <2>1. trial' \in Trials
    BY <1>2, TrialTypes, PCsAre DEF TypeOK, Create, Go
  <2>2. saved' \in States
    BY <1>2, SavedFlags DEF TypeOK, Create
  <2>3. QED
    BY <1>2, <2>1, <2>2 DEF TypeOK, Create, host, service, game, browser
<1>3. CASE Restore
  <2>1. trial' \in Trials
    BY <1>3, TrialTypes, PCsAre DEF TypeOK, Restore, Go
  <2>2. saved' \in States
    BY <1>3, SavedTypes DEF TypeOK, Restore, Intent, Operations
  <2>3. QED
    BY <1>3, <2>1, <2>2 DEF TypeOK, Restore, host, service, game, browser
<1>4. CASE RestoreSql
  <2>1. trial' \in Trials
    BY <1>4, TrialTypes, PCsAre DEF TypeOK, RestoreSql, Go
  <2>2. done' \in [{"restores", "starts", "requests", "leaves"} -> 0 .. 2]
    BY <1>4 DEF TypeOK, RestoreSql, Count
  <2>3. QED
    BY <1>4, <2>1, <2>2 DEF TypeOK, RestoreSql, host, service, game, browser
<1>5. CASE Restored
  <2>1. trial' \in Trials
    BY <1>5, TrialTypes, PCsAre DEF TypeOK, Restored, Go
  <2>2. saved' \in States
    BY <1>5, SavedFlags DEF TypeOK, Restored
  <2>3. QED
    BY <1>5, <2>1, <2>2 DEF TypeOK, Restored, host, service, game, browser
<1>6. QED
  BY <1>1, <1>2, <1>3, <1>4, <1>5

LEMMA RunStartsType ==
    ASSUME TypeOK,
           Start \/ CreateDropin \/ WriteDropin \/ DaemonReload \/ Launch
             \/ Invocation \/ Online
    PROVE  TypeOK'
<1>1. CASE Start
  <2>1. trial' \in Trials
    BY <1>1, TrialTypes, PCsAre DEF TypeOK, Start, Go
  <2>2. saved' \in States
    BY <1>1, SavedTypes DEF TypeOK, Start
  <2>3. QED
    BY <1>1, <2>1, <2>2 DEF TypeOK, Start, host, service, game, browser
<1>2. CASE WriteDropin
  <2>1. trial' \in Trials
    BY <1>2, TrialTypes, PCsAre DEF TypeOK, WriteDropin, Go
  <2>2. QED
    BY <1>2, <2>1 DEF TypeOK, WriteDropin, host, service, game, browser
<1>3. CASE DaemonReload
  <2>1. trial' \in Trials
    BY <1>3, TrialTypes, PCsAre DEF TypeOK, DaemonReload, Go
  <2>2. QED
    BY <1>3, <2>1 DEF TypeOK, DaemonReload, host, service, game, browser
<1>4. CASE Launch
  <2>1. trial' \in Trials
    BY <1>4, TrialTypes, PCsAre DEF TypeOK, Launch, Go
  <2>2. done' \in [{"restores", "starts", "requests", "leaves"} -> 0 .. 2]
    BY <1>4 DEF TypeOK, Launch, Count
  <2>3. unit' \in [up : BOOLEAN, inst : Nat, cfg : {"normal", "trial"}]
    BY <1>4 DEF TypeOK, Launch, Instance
  <2>4. QED
    BY <1>4, <2>1, <2>2, <2>3 DEF TypeOK, Launch, host, service, game, browser
<1>5. CASE Invocation
  <2>1. trial' \in Trials
    BY <1>5, TrialTypes, PCsAre DEF TypeOK, Invocation, Go
  <2>2. saved' \in States
    BY <1>5, SavedTypes DEF TypeOK, Invocation
  <2>3. QED
    BY <1>5, <2>1, <2>2 DEF TypeOK, Invocation, host, service, game, browser
<1>6. CASE Online
  <2>1. trial' \in Trials
    BY <1>6, TrialTypes, PCsAre DEF TypeOK, Online, Go
  <2>2. QED
    BY <1>6, <2>1 DEF TypeOK, Online, host, service, game, browser
<1>7. CASE CreateDropin
  <2>1. trial' \in Trials
    BY <1>7, TrialTypes, PCsAre DEF TypeOK, CreateDropin, Go
  <2>2. QED
    BY <1>7, <2>1 DEF TypeOK, CreateDropin, host, service, game, browser
<1>8. QED
  BY <1>1, <1>2, <1>3, <1>4, <1>5, <1>6, <1>7

LEMMA RunPlaysType ==
    ASSUME TypeOK,
           Login \/ Connect \/ Connected \/ Ask \/ Request \/ Played \/
             Leave \/ Navigate \/ Logout
    PROVE  TypeOK'
<1>1. CASE Login
  <2>1. trial' \in Trials
    BY <1>1, TrialTypes, PCsAre DEF TypeOK, Login, Go
  <2>2. saved' \in States
    BY <1>1, SavedTypes DEF TypeOK, Login, Intent, Operations
  <2>3. QED
    BY <1>1, <2>1, <2>2 DEF TypeOK, Login, host, service, game, browser
<1>2. CASE Connect
  <2>1. trial' \in Trials
    BY <1>2, TrialTypes, PCsAre DEF TypeOK, Connect, Go
  <2>2. QED
    BY <1>2, <2>1 DEF TypeOK, Connect, Tell, host, service, game, browser
<1>3. CASE Connected
  <2>1. trial' \in Trials
    BY <1>3, TrialTypes, PCsAre DEF TypeOK, Connected, Go
  <2>2. saved' \in States
    BY <1>3, SavedFlags DEF TypeOK, Connected
  <2>3. QED
    BY <1>3, <2>1, <2>2 DEF TypeOK, Connected, host, service, game, browser
<1>4. CASE Ask
  <2>1. trial' \in Trials
    BY <1>4, TrialTypes, PCsAre DEF TypeOK, Ask, Go
  <2>2. saved' \in States
    BY <1>4, SavedTypes DEF TypeOK, Ask, Intent, Operations
  <2>3. QED
    BY <1>4, <2>1, <2>2 DEF TypeOK, Ask, host, service, game, browser
<1>5. CASE Request
  <2>1. trial' \in Trials
    BY <1>5, TrialTypes, PCsAre DEF TypeOK, Request, Go
  <2>2. done' \in [{"restores", "starts", "requests", "leaves"} -> 0 .. 2]
    BY <1>5 DEF TypeOK, Request, Count
  <2>3. QED
    BY <1>5, <2>1, <2>2 DEF TypeOK, Request, host, service, game, browser
<1>6. CASE Played
  <2>1. trial' \in Trials
    BY <1>6, TrialTypes, PCsAre DEF TypeOK, Played, Go
  <2>2. QED
    BY <1>6, <2>1 DEF TypeOK, Played, host, service, game, browser
<1>7. CASE Leave
  <2>1. trial' \in Trials
    BY <1>7, TrialTypes, PCsAre DEF TypeOK, Leave, Go
  <2>2. saved' \in States
    BY <1>7, SavedTypes DEF TypeOK, Leave, Intent, Operations
  <2>3. QED
    BY <1>7, <2>1, <2>2 DEF TypeOK, Leave, host, service, game, browser
<1>8. CASE Navigate
  <2>1. trial' \in Trials
    BY <1>8, TrialTypes, PCsAre DEF TypeOK, Navigate, Go
  <2>2. done' \in [{"restores", "starts", "requests", "leaves"} -> 0 .. 2]
    BY <1>8 DEF TypeOK, Navigate, Count
  <2>3. QED
    BY <1>8, <2>1, <2>2 DEF TypeOK, Navigate, Tell, host, service, game,
       browser
<1>9. CASE Logout
  <2>1. trial' \in Trials
    BY <1>9, TrialTypes, PCsAre DEF TypeOK, Logout, AfterLogout, Go
  <2>2. saved' \in States
    BY <1>9, SavedFlags DEF TypeOK, Logout
  <2>3. QED
    BY <1>9, <2>1, <2>2 DEF TypeOK, Logout, host, service, game, browser
<1>10. QED
  BY <1>1, <1>2, <1>3, <1>4, <1>5, <1>6, <1>7, <1>8, <1>9

LEMMA RunCollectsType ==
    ASSUME TypeOK,
           CopyController \/ Disconnect \/ Collect \/ Snapshot \/
             Scored
    PROVE  TypeOK'
<1>1. CASE CopyController
  <2>1. trial' \in Trials
    BY <1>1, TrialTypes, PCsAre DEF TypeOK, CopyController, Go
  <2>2. QED
    BY <1>1, <2>1 DEF TypeOK, CopyController, host, service, game, browser
<1>2. CASE Disconnect
  <2>1. trial' \in Trials
    BY <1>2, TrialTypes, PCsAre DEF TypeOK, Disconnect, Go
  <2>2. QED
    BY <1>2, <2>1 DEF TypeOK, Disconnect, host, service, game, browser
<1>3. CASE Collect
  <2>1. trial' \in Trials
    BY <1>3, TrialTypes, PCsAre DEF TypeOK, Collect, Go
  <2>2. saved' \in States
    BY <1>3, SavedTypes DEF TypeOK, Collect, Intent, Operations
  <2>3. QED
    BY <1>3, <2>1, <2>2 DEF TypeOK, Collect, host, service, game, browser
<1>4. CASE Snapshot
  <2>1. trial' \in Trials
    BY <1>4, TrialTypes, PCsAre DEF TypeOK, Snapshot, Go
  <2>2. QED
    BY <1>4, <2>1 DEF TypeOK, Snapshot, host, service, game, browser
<1>5. CASE Scored
  <2>1. trial' \in Trials
    BY <1>5, TrialTypes, PCsAre DEF TypeOK, Scored
  <2>2. QED
    BY <1>5, <2>1 DEF TypeOK, Scored, host, service, game, browser
<1>6. QED
  BY <1>1, <1>2, <1>3, <1>4, <1>5

LEMMA SettlesType ==
    ASSUME TypeOK,
           Settle \/ Quiescent \/ Record \/ Release \/ Preserve \/
             Preserved
    PROVE  TypeOK'
<1>1. CASE Settle
  <2>1. trial' \in Trials
    <3>1. AfterSettle \in PCs
      BY PCsAre DEF AfterSettle
    <3>2. \/ Go(AfterSettle)
         \/ Go("quiesce")
      BY <1>1 DEF Settle
    <3>3. trial \in Trials
      BY DEF TypeOK
    <3>4. QED
      BY <3>1, <3>2, <3>3, Moves, PCsAre
  <2>2. QED
    BY <1>1, <2>1 DEF TypeOK, Settle, host, service, game, browser
<1>2. CASE Quiescent
  <2>1. trial' \in Trials
    BY <1>2, TrialTypes, PCsAre DEF TypeOK, Quiescent, AfterSettle, Go
  <2>2. QED
    BY <1>2, <2>1 DEF TypeOK, Quiescent, host, service, game, browser
<1>3. CASE Record
  <2>1. trial' \in Trials
    BY <1>3, TrialTypes, PCsAre DEF TypeOK, Record, Go
  <2>2. saved' \in States
    BY <1>3, SavedFlags DEF TypeOK, Record
  <2>3. QED
    BY <1>3, <2>1, <2>2 DEF TypeOK, Record, host, service, game, browser
<1>4. CASE Release
  <2>1. trial' \in Trials
    BY <1>4, TrialTypes, PCsAre DEF TypeOK, Release, AfterSettle, Go
  <2>2. QED
    BY <1>4, <2>1 DEF TypeOK, Release, host, service, game, browser
<1>5. CASE Preserve
  <2>1. trial' \in Trials
    <3>1. AfterPreserve \in PCs
      BY PCsAre DEF AfterPreserve
    <3>2. \/ Go("preserved")
         \/ Fails
         \/ Go(AfterPreserve)
      BY <1>5 DEF Preserve
    <3>3. trial \in Trials
      BY DEF TypeOK
    <3>4. QED
      BY <3>1, <3>2, <3>3, Moves, PCsAre
  <2>2. QED
    BY <1>5, <2>1 DEF TypeOK, Preserve, host, service, game, browser
<1>6. CASE Preserved
  <2>1. trial' \in Trials
    <3>1. AfterPreserve \in PCs
      BY PCsAre DEF AfterPreserve
    <3>2. \/ Fails
         \/ Go(AfterPreserve)
      BY <1>6 DEF Preserved
    <3>3. trial \in Trials
      BY DEF TypeOK
    <3>4. QED
      BY <3>1, <3>2, <3>3, Moves, PCsAre
  <2>2. saved' \in States
    BY <1>6, SavedFlags DEF TypeOK, Preserved
  <2>3. QED
    BY <1>6, <2>1, <2>2 DEF TypeOK, Preserved, host, service, game, browser
<1>7. QED
  BY <1>1, <1>2, <1>3, <1>4, <1>5, <1>6

LEMMA CleansUpType ==
    ASSUME TypeOK,
           Cleanup \/ Evict \/ Stop \/ Stopped \/ Remove \/ Unlink \/
             Removed \/ Unload \/ ReloadAgain \/ Verify
    PROVE  TypeOK'
<1>1. CASE Cleanup
  <2>1. trial' \in Trials
    <3>1. unit.up \in BOOLEAN
      BY DEF TypeOK
    <3>2. \/ trial' = [trial EXCEPT !.pc = "settle", !.up = unit.up]
         \/ Go("idle")
      BY <1>1 DEF Cleanup
    <3>3. trial \in Trials
      BY DEF TypeOK
    <3>4. QED
      BY <3>1, <3>2, <3>3, Moves, PCsAre
  <2>2. saved' \in States
    BY <1>1, SavedFlags DEF TypeOK, Cleanup
  <2>3. QED
    BY <1>1, <2>1, <2>2 DEF TypeOK, Cleanup, host, service, game, browser
<1>2. CASE Evict
  <2>1. trial' \in Trials
    <3>1. \/ Go("stop")
         \/ Go("stopped")
      BY <1>2 DEF Evict
    <3>2. trial \in Trials
      BY DEF TypeOK
    <3>3. QED
      BY <3>1, <3>2, Moves, PCsAre
  <2>2. done' \in [{"restores", "starts", "requests", "leaves"} -> 0 .. 2]
    BY <1>2 DEF TypeOK, Evict, Count
  <2>3. QED
    BY <1>2, <2>1, <2>2 DEF TypeOK, Evict, Tell, host, service, game, browser
<1>3. CASE Stop
  <2>1. trial' \in Trials
    BY <1>3, TrialTypes, PCsAre DEF TypeOK, Stop, Go
  <2>2. unit' \in [up : BOOLEAN, inst : Nat, cfg : {"normal", "trial"}]
    BY <1>3 DEF TypeOK, Stop, Instance
  <2>3. QED
    BY <1>3, <2>1, <2>2 DEF TypeOK, Stop, host, service, game, browser
<1>4. CASE Stopped
  <2>1. trial' \in Trials
    BY <1>4, TrialTypes, PCsAre DEF TypeOK, Stopped, Go
  <2>2. QED
    BY <1>4, <2>1 DEF TypeOK, Stopped, host, service, game, browser
<1>5. CASE Remove
  <2>1. trial' \in Trials
    <3>1. \/ Go("wait")
         \/ Go("unlink")
         \/ Go("unload")
      BY <1>5 DEF Remove
    <3>2. trial \in Trials
      BY DEF TypeOK
    <3>3. QED
      BY <3>1, <3>2, Moves, PCsAre
  <2>2. saved' \in States
    BY <1>5, SavedTypes DEF TypeOK, Remove, Checkpoints
  <2>3. QED
    BY <1>5, <2>1, <2>2 DEF TypeOK, Remove, host, service, game, browser
<1>6. CASE Unlink
  <2>1. trial' \in Trials
    BY <1>6, TrialTypes, PCsAre DEF TypeOK, Unlink, Go
  <2>2. QED
    BY <1>6, <2>1 DEF TypeOK, Unlink, host, service, game, browser
<1>7. CASE Removed
  <2>1. trial' \in Trials
    BY <1>7, TrialTypes, PCsAre DEF TypeOK, Removed, Go
  <2>2. saved' \in States
    BY <1>7, SavedTypes DEF TypeOK, Removed, Checkpoints
  <2>3. QED
    BY <1>7, <2>1, <2>2 DEF TypeOK, Removed, host, service, game, browser
<1>8. CASE Unload
  <2>1. trial' \in Trials
    BY <1>8, TrialTypes, PCsAre DEF TypeOK, Unload, Go
  <2>2. saved' \in States
    BY <1>8, SavedTypes DEF TypeOK, Unload, Checkpoints
  <2>3. QED
    BY <1>8, <2>1, <2>2 DEF TypeOK, Unload, host, service, game, browser
<1>9. CASE ReloadAgain
  <2>1. trial' \in Trials
    BY <1>9, TrialTypes, PCsAre DEF TypeOK, ReloadAgain, Go
  <2>2. QED
    BY <1>9, <2>1 DEF TypeOK, ReloadAgain, host, service, game, browser
<1>10. CASE Verify
  <2>1. trial' \in Trials
    BY <1>10, TrialTypes, PCsAre DEF TypeOK, Verify, Go
  <2>2. saved' \in States
    BY <1>10, SavedTypes DEF TypeOK, Verify, Checkpoints
  <2>3. QED
    BY <1>10, <2>1, <2>2 DEF TypeOK, Verify, host, service, game, browser
<1>11. QED
  BY <1>1, <1>2, <1>3, <1>4, <1>5, <1>6, <1>7, <1>8, <1>9, <1>10

LEMMA FinishesType ==
    ASSUME TypeOK,
           PrepareWait \/ Clean \/ IsIdle \/ Observe \/ Recover
    PROVE  TypeOK'
<1>1. CASE PrepareWait
  <2>1. trial' \in Trials
    BY <1>1, TrialTypes, PCsAre DEF TypeOK, PrepareWait, Go
  <2>2. QED
    BY <1>1, <2>1 DEF TypeOK, PrepareWait, Tell, host, service, game, browser
<1>2. CASE Clean
  <2>1. trial' \in Trials
    BY <1>2, TrialTypes, PCsAre DEF TypeOK, Clean, Go
  <2>2. saved' \in States
    BY <1>2, SavedFlags DEF TypeOK, Clean
  <2>3. QED
    BY <1>2, <2>1, <2>2 DEF TypeOK, Clean, host, service, game, browser
<1>3. CASE IsIdle
  <2>1. trial' \in Trials
    <3>1. \/ trial' = [trial EXCEPT !.pc = "none", !.st = "completed"]
         \/ trial' = [trial EXCEPT !.pc = "none", !.st = "recovered"]
      BY <1>3 DEF IsIdle
    <3>2. \A s \in {"completed", "recovered"} : [trial EXCEPT !.pc = "none", !.st = s] \in Trials
      BY PCsAre DEF TypeOK, Trials
    <3>3. QED
      BY <3>1, <3>2
  <2>2. QED
    BY <1>3, <2>1 DEF TypeOK, IsIdle, host, service, game, browser
<1>4. CASE Observe
  <2>1. trial' \in Trials
    BY <1>4, TrialTypes, PCsAre DEF TypeOK, Observe, Go
  <2>2. QED
    BY <1>4, <2>1 DEF TypeOK, Observe, host, service, game, browser
<1>5. CASE Recover
  <2>1. trial' \in Trials
    <3>1. trial' = [st |-> "recovering", pc |-> "observe", flow |-> "cleanup",
                    up |-> FALSE]
      BY <1>5 DEF Recover
    <3>2. QED
      BY <3>1, PCsAre DEF Trials
  <2>2. QED
    BY <1>5, <2>1 DEF TypeOK, Recover, host, service, game, browser
<1>6. QED
  BY <1>1, <1>2, <1>3, <1>4, <1>5

LEMMA FailsOrGoesOnType ==
    ASSUME TypeOK,
           (Raise /\ faults' \in 0 .. MaxFaults) \/ Kill
    PROVE  TypeOK'
<1>1. CASE Raise /\ faults' \in 0 .. MaxFaults
  <2>1. trial' \in Trials
    <3>1. \/ trial' = [trial EXCEPT !.flow = "handler", !.pc = "settle"]
         \/ Fails
      BY <1>1 DEF Raise
    <3>2. trial \in Trials
      BY DEF TypeOK
    <3>3. QED
      BY <3>1, <3>2, Moves, PCsAre
  <2>2. QED
    BY <1>1, <2>1 DEF TypeOK, Raise, host, service, game, browser
<1>2. CASE Kill
  <2>1. trial' \in Trials
    BY <1>2, TrialTypes, PCsAre DEF TypeOK, Kill, Fails
  <2>2. faults' \in 0 .. MaxFaults
    BY <1>2, RuntimeAssumption DEF TypeOK, Kill
  <2>3. QED
    BY <1>2, <2>1, <2>2 DEF TypeOK, Kill, host, service, game, browser
<1>3. QED
  BY <1>1, <1>2

LEMMA WorldStepsType ==
    ASSUME TypeOK,
           Navigates \/ LogsIn \/ LogsOut \/ ControllerEnds \/ Drops \/
             Dies \/ Starts
    PROVE  TypeOK'
<1>1. CASE Navigates
  <2>1. QED
    BY <1>1 DEF TypeOK, Navigates, host, service, game, browser
<1>2. CASE LogsIn
  <2>1. QED
    BY <1>2 DEF TypeOK, LogsIn, host, service, game, browser
<1>3. CASE LogsOut
  <2>1. account' \in {"on", "off"} /\ db' \in {"other", "baseline", "saved"} /\ rows' \in 0 .. 2
    BY <1>3 DEF TypeOK, LogsOut, Saves, game
  <2>2. QED
    BY <1>3, <2>1 DEF TypeOK, LogsOut, host, service, game, browser
<1>4. CASE ControllerEnds
  <2>1. QED
    BY <1>4 DEF TypeOK, ControllerEnds, host, service, game, browser
<1>5. CASE Drops
  <2>1. account' \in {"on", "off"} /\ db' \in {"other", "baseline", "saved"} /\ rows' \in 0 .. 2
    BY <1>5 DEF TypeOK, Drops, Saves, game
  <2>2. hosts' \in 0 .. MaxHost
    BY <1>5, RuntimeAssumption DEF TypeOK, Drops, Bounded
  <2>3. QED
    BY <1>5, <2>1, <2>2 DEF TypeOK, Drops, host, service, game, browser
<1>6. CASE Dies
  <2>1. unit' \in [up : BOOLEAN, inst : Nat, cfg : {"normal", "trial"}]
    BY <1>6 DEF TypeOK, Dies, Instance
  <2>2. account' \in {"on", "off"} /\ db' \in {"other", "baseline", "saved"} /\ rows' \in 0 .. 2
    BY <1>6 DEF TypeOK, Dies, Saves, game
  <2>3. hosts' \in 0 .. MaxHost
    BY <1>6, RuntimeAssumption DEF TypeOK, Dies, Bounded
  <2>4. QED
    BY <1>6, <2>1, <2>2, <2>3 DEF TypeOK, Dies, host, service, game, browser
<1>7. CASE Starts
  <2>1. unit' \in [up : BOOLEAN, inst : Nat, cfg : {"normal", "trial"}]
    BY <1>7 DEF TypeOK, Starts, Instance
  <2>2. hosts' \in 0 .. MaxHost
    BY <1>7, RuntimeAssumption DEF TypeOK, Starts, Bounded
  <2>3. QED
    BY <1>7, <2>1, <2>2 DEF TypeOK, Starts, host, service, game, browser
<1>8. QED
  BY <1>1, <1>2, <1>3, <1>4, <1>5, <1>6, <1>7
(* From the first status to the first save: nothing of the attempt is there.*)
LEMMA RunBegins ==
    ASSUME RuntimeInv,
           IsReady \/ Create \/ Restore \/ RestoreSql \/ Restored
    PROVE  RuntimeInv'
<1>1. TypeOK'
  BY RunBeginsType, RuntimeAssumption DEF RuntimeInv
<1> USE DEF RuntimeInv, TypeOK, Trials, States, Recorded, ScoredWhole,
   EvidenceKept, StepInv, RunInv, HandlerInv, CleanupInv, OnceBy, Running, At,
   Go, Offline, Absent, host, service, game, browser, BeforeSql, BeforeStart,
   BeforeLaunch, BeforeConnect, BeforeRequest, BeforeLeave, BeforeNavigate,
   AfterLogoutPCs, RunPCs, SettlePCs, HandlerPCs, StopPCs, RemovePCs,
   CleanupPCs, NoScore
<1>2. CASE IsReady
  <2>1. Recorded' /\ ScoredWhole' /\ EvidenceKept'
    BY <1>2 DEF IsReady
  <2>2. StepInv'
    BY <1>2 DEF IsReady
  <2>3. QED
    BY <1>1, <2>1, <2>2 DEF RuntimeInv
<1>3. CASE Create
  <2>1. Recorded' /\ ScoredWhole' /\ EvidenceKept'
    BY <1>3 DEF Create
  <2>2. StepInv'
    BY <1>3 DEF Create
  <2>3. QED
    BY <1>1, <2>1, <2>2 DEF RuntimeInv
<1>4. CASE Restore
  <2>1. Recorded' /\ ScoredWhole' /\ EvidenceKept'
    BY <1>4 DEF Restore, Intent
  <2>2. StepInv'
    BY <1>4 DEF Restore, Intent
  <2>3. QED
    BY <1>1, <2>1, <2>2 DEF RuntimeInv
<1>5. CASE RestoreSql
  <2>1. Recorded' /\ ScoredWhole' /\ EvidenceKept'
    BY <1>5 DEF RestoreSql, Count
  <2>2. StepInv'
    BY <1>5 DEF RestoreSql, Count
  <2>3. QED
    BY <1>1, <2>1, <2>2 DEF RuntimeInv
<1>6. CASE Restored
  <2>1. Recorded' /\ ScoredWhole' /\ EvidenceKept'
    BY <1>6 DEF Restored
  <2>2. StepInv'
    BY <1>6 DEF Restored
  <2>3. QED
    BY <1>1, <2>1, <2>2 DEF RuntimeInv
<1>7. QED
  BY <1>2, <1>3, <1>4, <1>5, <1>6

(* The service is started, with what start_server() recorded before.      *)
LEMMA RunStarts ==
    ASSUME RuntimeInv,
           Start \/ CreateDropin \/ WriteDropin \/ DaemonReload \/ Launch
             \/ Invocation \/ Online
    PROVE  RuntimeInv'
<1>1. TypeOK'
  BY RunStartsType, RuntimeAssumption DEF RuntimeInv
<1> USE DEF RuntimeInv, TypeOK, Trials, States, Recorded, ScoredWhole,
   EvidenceKept, StepInv, RunInv, HandlerInv, CleanupInv, OnceBy, Running, At,
   Go, Offline, Absent, host, service, game, browser, BeforeSql, BeforeStart,
   BeforeLaunch, BeforeConnect, BeforeRequest, BeforeLeave, BeforeNavigate,
   AfterLogoutPCs, RunPCs, SettlePCs, HandlerPCs, StopPCs, RemovePCs,
   CleanupPCs
<1>2. CASE Start
  <2>1. Recorded'
    BY <1>2 DEF Start
  <2>2. ScoredWhole'
    BY <1>2 DEF Start
  <2>3. EvidenceKept'
    BY <1>2 DEF Start
  <2>4. RunInv'
    BY <1>2 DEF Start
  <2>5. HandlerInv'
    BY <1>2 DEF Start
  <2>6. CleanupInv'
    BY <1>2 DEF Start
  <2>7. (saved.failure => saved.made)'
    BY <1>2 DEF Start
  <2>8. (Running /\ trial.pc = "release" => saved.failure)'
    BY <1>2 DEF Start
  <2>9. (rows # 0 => db = "saved")'
    BY <1>2 DEF Start
  <2>10. QED
    BY <1>1, <2>1, <2>2, <2>3, <2>4, <2>5, <2>6, <2>7, <2>8, <2>9 DEF RuntimeInv, StepInv
<1>3. CASE WriteDropin
  <2>1. Recorded' /\ ScoredWhole' /\ EvidenceKept'
    BY <1>3 DEF WriteDropin
  <2>2. StepInv'
    BY <1>3 DEF WriteDropin
  <2>3. QED
    BY <1>1, <2>1, <2>2 DEF RuntimeInv
<1>4. CASE DaemonReload
  <2>1. Recorded' /\ ScoredWhole' /\ EvidenceKept'
    BY <1>4 DEF DaemonReload
  <2>2. StepInv'
    BY <1>4 DEF DaemonReload
  <2>3. QED
    BY <1>1, <2>1, <2>2 DEF RuntimeInv
<1>5. CASE Launch
  <2>1. Recorded' /\ ScoredWhole' /\ EvidenceKept'
    BY <1>5 DEF Launch, Instance, Count
  <2>2. StepInv'
    BY <1>5 DEF Launch, Instance, Count
  <2>3. QED
    BY <1>1, <2>1, <2>2 DEF RuntimeInv
<1>6. CASE Invocation
  <2>1. Recorded' /\ ScoredWhole' /\ EvidenceKept'
    BY <1>6 DEF Invocation
  <2>2. StepInv'
    BY <1>6 DEF Invocation
  <2>3. QED
    BY <1>1, <2>1, <2>2 DEF RuntimeInv
<1>7. CASE Online
  <2>1. Recorded' /\ ScoredWhole' /\ EvidenceKept'
    BY <1>7 DEF Online
  <2>2. StepInv'
    BY <1>7 DEF Online
  <2>3. QED
    BY <1>1, <2>1, <2>2 DEF RuntimeInv
<1>8. CASE CreateDropin
  <2>1. Recorded' /\ ScoredWhole' /\ EvidenceKept'
    BY <1>8 DEF CreateDropin
  <2>2. StepInv'
    BY <1>8 DEF CreateDropin
  <2>3. QED
    BY <1>1, <2>1, <2>2 DEF RuntimeInv
<1>9. QED
  BY <1>2, <1>3, <1>4, <1>5, <1>6, <1>7, <1>8

(* Login, the controller run, and the one disconnect.                     *)
LEMMA RunPlays ==
    ASSUME RuntimeInv,
           Login \/ Connect \/ Connected \/ Ask \/ Request \/ Played \/
             Leave \/ Navigate \/ Logout
    PROVE  RuntimeInv'
<1>1. TypeOK'
  BY RunPlaysType, RuntimeAssumption DEF RuntimeInv
<1> USE DEF RuntimeInv, TypeOK, Trials, States, Recorded, ScoredWhole,
   EvidenceKept, StepInv, RunInv, HandlerInv, CleanupInv, OnceBy, Running, At,
   Go, Offline, Absent, host, service, game, browser, BeforeSql, BeforeStart,
   BeforeLaunch, BeforeConnect, BeforeRequest, BeforeLeave, BeforeNavigate,
   AfterLogoutPCs, RunPCs, SettlePCs, HandlerPCs, StopPCs, RemovePCs,
   CleanupPCs
<1>2. CASE Login
  <2>1. Recorded' /\ ScoredWhole' /\ EvidenceKept'
    BY <1>2 DEF Login, Intent
  <2>2. StepInv'
    BY <1>2 DEF Login, Intent
  <2>3. QED
    BY <1>1, <2>1, <2>2 DEF RuntimeInv
<1>3. CASE Connect
  <2>1. Recorded' /\ ScoredWhole' /\ EvidenceKept'
    BY <1>3 DEF Connect, Tell, Active
  <2>2. StepInv'
    BY <1>3 DEF Connect, Tell, Active
  <2>3. QED
    BY <1>1, <2>1, <2>2 DEF RuntimeInv
<1>4. CASE Connected
  <2>1. Recorded' /\ ScoredWhole' /\ EvidenceKept'
    BY <1>4 DEF Connected
  <2>2. StepInv'
    BY <1>4 DEF Connected
  <2>3. QED
    BY <1>1, <2>1, <2>2 DEF RuntimeInv
<1>5. CASE Ask
  <2>1. Recorded' /\ ScoredWhole' /\ EvidenceKept'
    BY <1>5 DEF Ask, Intent
  <2>2. StepInv'
    BY <1>5 DEF Ask, Intent
  <2>3. QED
    BY <1>1, <2>1, <2>2 DEF RuntimeInv
<1>6. CASE Request
  <2>1. Recorded' /\ ScoredWhole' /\ EvidenceKept'
    BY <1>6 DEF Request, Count
  <2>2. StepInv'
    BY <1>6 DEF Request, Count
  <2>3. QED
    BY <1>1, <2>1, <2>2 DEF RuntimeInv
<1>7. CASE Played
  <2>1. Recorded' /\ ScoredWhole' /\ EvidenceKept'
    BY <1>7 DEF Played
  <2>2. StepInv'
    BY <1>7 DEF Played
  <2>3. QED
    BY <1>1, <2>1, <2>2 DEF RuntimeInv
<1>8. CASE Leave
  <2>1. Recorded' /\ ScoredWhole' /\ EvidenceKept'
    BY <1>8 DEF Leave, Intent
  <2>2. StepInv'
    BY <1>8 DEF Leave, Intent
  <2>3. QED
    BY <1>1, <2>1, <2>2 DEF RuntimeInv
<1>9. CASE Navigate
  <2>1. Recorded' /\ ScoredWhole' /\ EvidenceKept'
    BY <1>9 DEF Navigate, Tell, Active, Count
  <2>2. StepInv'
    BY <1>9 DEF Navigate, Tell, Active, Count
  <2>3. QED
    BY <1>1, <2>1, <2>2 DEF RuntimeInv
<1>10. CASE Logout
  <2>1. Recorded'
    BY <1>10 DEF Logout, AfterLogout, Waiting, OwnedServer
  <2>2. ScoredWhole'
    BY <1>10 DEF Logout, AfterLogout, Waiting, OwnedServer
  <2>3. EvidenceKept'
    BY <1>10 DEF Logout, AfterLogout, Waiting, OwnedServer
  <2>4. RunInv'
    BY <1>10 DEF Logout, AfterLogout, Waiting, OwnedServer
  <2>5. HandlerInv'
    BY <1>10 DEF Logout, AfterLogout, Waiting, OwnedServer
  <2>6. CleanupInv'
    BY <1>10 DEF Logout, AfterLogout, Waiting, OwnedServer
  <2>7. (saved.failure => saved.made)'
    BY <1>10 DEF Logout, AfterLogout, Waiting, OwnedServer
  <2>8. (Running /\ trial.pc = "release" => saved.failure)'
    BY <1>10 DEF Logout, AfterLogout, Waiting, OwnedServer
  <2>9. (rows # 0 => db = "saved")'
    BY <1>10 DEF Logout, AfterLogout, Waiting, OwnedServer
  <2>10. QED
    BY <1>1, <2>1, <2>2, <2>3, <2>4, <2>5, <2>6, <2>7, <2>8, <2>9 DEF RuntimeInv, StepInv
<1>11. QED
  BY <1>2, <1>3, <1>4, <1>5, <1>6, <1>7, <1>8, <1>9, <1>10

(* What was saved is collected and scored.                                *)
LEMMA RunCollects ==
    ASSUME RuntimeInv,
           CopyController \/ Disconnect \/ Collect \/ Snapshot \/
             Scored
    PROVE  RuntimeInv'
<1>1. TypeOK'
  BY RunCollectsType, RuntimeAssumption DEF RuntimeInv
<1> USE DEF RuntimeInv, TypeOK, Trials, States, Recorded, ScoredWhole,
   EvidenceKept, StepInv, RunInv, HandlerInv, CleanupInv, OnceBy, Running, At,
   Go, Offline, Absent, host, service, game, browser, BeforeSql, BeforeStart,
   BeforeLaunch, BeforeConnect, BeforeRequest, BeforeLeave, BeforeNavigate,
   AfterLogoutPCs, RunPCs, SettlePCs, HandlerPCs, StopPCs, RemovePCs,
   CleanupPCs
<1>2. CASE CopyController
  <2>1. Recorded' /\ ScoredWhole' /\ EvidenceKept'
    BY <1>2 DEF CopyController
  <2>2. StepInv'
    BY <1>2 DEF CopyController
  <2>3. QED
    BY <1>1, <2>1, <2>2 DEF RuntimeInv
<1>3. CASE Disconnect
  <2>1. Recorded' /\ ScoredWhole' /\ EvidenceKept'
    BY <1>3 DEF Disconnect
  <2>2. StepInv'
    BY <1>3 DEF Disconnect
  <2>3. QED
    BY <1>1, <2>1, <2>2 DEF RuntimeInv
<1>4. CASE Collect
  <2>1. Recorded' /\ ScoredWhole' /\ EvidenceKept'
    BY <1>4 DEF Collect, Intent
  <2>2. StepInv'
    BY <1>4 DEF Collect, Intent
  <2>3. QED
    BY <1>1, <2>1, <2>2 DEF RuntimeInv
<1>5. CASE Snapshot
  <2>1. Recorded' /\ ScoredWhole' /\ EvidenceKept'
    BY <1>5 DEF Snapshot, NoScore
  <2>2. StepInv'
    BY <1>5 DEF Snapshot, NoScore
  <2>3. QED
    BY <1>1, <2>1, <2>2 DEF RuntimeInv
<1>6. CASE Scored
  <2>1. Recorded' /\ ScoredWhole' /\ EvidenceKept'
    BY <1>6 DEF Scored, OwnedServer, Owned, OwnDropin
  <2>2. StepInv'
    BY <1>6 DEF Scored, OwnedServer, Owned, OwnDropin
  <2>3. QED
    BY <1>1, <2>1, <2>2 DEF RuntimeInv
<1>7. QED
  BY <1>2, <1>3, <1>4, <1>5, <1>6

(* The controller run is settled and its evidence kept.                   *)
LEMMA Settles ==
    ASSUME RuntimeInv,
           Settle \/ Quiescent \/ Record \/ Release \/ Preserve \/
             Preserved
    PROVE  RuntimeInv'
<1>1. TypeOK'
  BY SettlesType, RuntimeAssumption DEF RuntimeInv
<1> USE DEF RuntimeInv, TypeOK, Trials, States, Recorded, ScoredWhole,
   EvidenceKept, StepInv, RunInv, HandlerInv, CleanupInv, OnceBy, Running, At,
   Go, Offline, Absent, host, service, game, browser, BeforeSql, BeforeStart,
   BeforeLaunch, BeforeConnect, BeforeRequest, BeforeLeave, BeforeNavigate,
   AfterLogoutPCs, RunPCs, SettlePCs, HandlerPCs, StopPCs, RemovePCs,
   CleanupPCs
<1>2. CASE Settle
  <2>1. Recorded'
    BY <1>2 DEF Settle, AfterSettle, Active
  <2>2. ScoredWhole'
    BY <1>2 DEF Settle, AfterSettle, Active
  <2>3. EvidenceKept'
    BY <1>2 DEF Settle, AfterSettle, Active
  <2>4. RunInv'
    BY <1>2 DEF Settle, AfterSettle, Active
  <2>5. HandlerInv'
    BY <1>2 DEF Settle, AfterSettle, Active
  <2>6. CleanupInv'
    BY <1>2 DEF Settle, AfterSettle, Active
  <2>7. (saved.failure => saved.made)'
    BY <1>2 DEF Settle, AfterSettle, Active
  <2>8. (Running /\ trial.pc = "release" => saved.failure)'
    BY <1>2 DEF Settle, AfterSettle, Active
  <2>9. (rows # 0 => db = "saved")'
    BY <1>2 DEF Settle, AfterSettle, Active
  <2>10. QED
    BY <1>1, <2>1, <2>2, <2>3, <2>4, <2>5, <2>6, <2>7, <2>8, <2>9 DEF RuntimeInv, StepInv
<1>3. CASE Quiescent
  <2>1. Recorded' /\ ScoredWhole' /\ EvidenceKept'
    BY <1>3 DEF Quiescent, AfterSettle, Active
  <2>2. StepInv'
    BY <1>3 DEF Quiescent, AfterSettle, Active
  <2>3. QED
    BY <1>1, <2>1, <2>2 DEF RuntimeInv
<1>4. CASE Record
  <2>1. Recorded' /\ ScoredWhole' /\ EvidenceKept'
    BY <1>4 DEF Record
  <2>2. StepInv'
    BY <1>4 DEF Record
  <2>3. QED
    BY <1>1, <2>1, <2>2 DEF RuntimeInv
<1>5. CASE Release
  <2>1. Recorded' /\ ScoredWhole' /\ EvidenceKept'
    BY <1>5 DEF Release, AfterSettle
  <2>2. StepInv'
    BY <1>5 DEF Release, AfterSettle
  <2>3. QED
    BY <1>1, <2>1, <2>2 DEF RuntimeInv
<1>6. CASE Preserve
  <2>1. Recorded'
    BY <1>6 DEF Preserve, AfterPreserve, Fails
  <2>2. ScoredWhole'
    BY <1>6 DEF Preserve, AfterPreserve, Fails
  <2>3. EvidenceKept'
    BY <1>6 DEF Preserve, AfterPreserve, Fails
  <2>4. (saved.failure => saved.made)'
    BY <1>6 DEF Preserve, AfterPreserve, Fails
  <2>5. (Running /\ trial.pc = "release" => saved.failure)'
    BY <1>6 DEF Preserve, AfterPreserve, Fails
  <2>6. (rows # 0 => db = "saved")'
    BY <1>6 DEF Preserve, AfterPreserve, Fails
  <2>7. ASSUME saved.failure, ~saved.preserved
        PROVE  RunInv' /\ HandlerInv' /\ CleanupInv'
    <3>1. /\ trial'.st = trial.st
          /\ trial'.flow = trial.flow
          /\ trial'.up = trial.up
          /\ trial'.pc = "preserved"
          /\ unit' = unit
      BY <1>6, <2>7 DEF Preserve, AfterPreserve, Fails
    <3>2. RunInv'
      BY <1>6, <2>7, <3>1 DEF Preserve
    <3>3. HandlerInv'
      BY <1>6, <2>7, <3>1 DEF Preserve
    <3>4. CleanupInv'
      BY <1>6, <2>7, <3>1 DEF Preserve
    <3>5. QED
      BY <3>2, <3>3, <3>4
  <2>8. ASSUME ~(saved.failure /\ ~saved.preserved), trial.flow = "handler"
        PROVE  RunInv' /\ HandlerInv' /\ CleanupInv'
    <3>1. /\ trial'.st = "failed"
          /\ unit' = unit
      BY <1>6, <2>8 DEF Preserve, AfterPreserve, Fails
    <3>2. RunInv'
      BY <1>6, <2>8, <3>1 DEF Preserve
    <3>3. HandlerInv'
      BY <1>6, <2>8, <3>1 DEF Preserve
    <3>4. CleanupInv'
      BY <1>6, <2>8, <3>1 DEF Preserve
    <3>5. QED
      BY <3>2, <3>3, <3>4
  <2>9. ASSUME ~(saved.failure /\ ~saved.preserved), trial.flow # "handler"
        PROVE  RunInv' /\ HandlerInv' /\ CleanupInv'
    <3>1. /\ trial'.st = trial.st
          /\ trial'.flow = trial.flow
          /\ trial'.up = trial.up
          /\ trial'.pc \in {"remove", "wait"}
          /\ unit' = unit
          /\ copies' = copies
      BY <1>6, <2>9 DEF Preserve, AfterPreserve, Fails
    <3>2. RunInv'
      BY <1>6, <2>9, <3>1 DEF Preserve
    <3>3. HandlerInv'
      BY <1>6, <2>9, <3>1 DEF Preserve
    <3>4. CleanupInv'
      BY <1>6, <2>9, <3>1 DEF Preserve
    <3>5. QED
      BY <3>2, <3>3, <3>4
  <2>10. trial.flow = "handler" \/ trial.flow # "handler"
    BY <1>6 DEF Preserve
  <2>11. QED
    BY <1>1, <2>1, <2>2, <2>3, <2>4, <2>5, <2>6, <2>7, <2>8, <2>9, <2>10 DEF RuntimeInv, StepInv
<1>7. CASE Preserved
  <2>1. Recorded'
    BY <1>7 DEF Preserved, AfterPreserve, Fails
  <2>2. ScoredWhole'
    BY <1>7 DEF Preserved, AfterPreserve, Fails
  <2>3. EvidenceKept'
    BY <1>7 DEF Preserved, AfterPreserve, Fails
  <2>4. RunInv'
    BY <1>7 DEF Preserved, AfterPreserve, Fails
  <2>5. (saved.failure => saved.made)'
    BY <1>7 DEF Preserved, AfterPreserve, Fails
  <2>6. (Running /\ trial.pc = "release" => saved.failure)'
    BY <1>7 DEF Preserved, AfterPreserve, Fails
  <2>7. (rows # 0 => db = "saved")'
    BY <1>7 DEF Preserved, AfterPreserve, Fails
  <2>8. ASSUME trial.flow = "handler"
        PROVE  HandlerInv' /\ CleanupInv'
    <3>1. /\ trial'.st = "failed"
          /\ unit' = unit
      BY <1>7, <2>8 DEF Preserved, AfterPreserve, Fails
    <3>2. HandlerInv'
      BY <1>7, <2>8, <3>1 DEF Preserved
    <3>3. CleanupInv'
      BY <1>7, <2>8, <3>1 DEF Preserved
    <3>4. QED
      BY <3>2, <3>3
  <2>9. ASSUME trial.flow # "handler"
        PROVE  HandlerInv' /\ CleanupInv'
    <3>1. /\ trial'.st = trial.st
          /\ trial'.flow = trial.flow
          /\ trial'.up = trial.up
          /\ trial'.pc \in {"remove", "wait"}
          /\ unit' = unit
          /\ copies' = "all"
      BY <1>7, <2>9 DEF Preserved, AfterPreserve, Fails
    <3>2. HandlerInv'
      BY <1>7, <2>9, <3>1 DEF Preserved
    <3>3. CleanupInv'
      BY <1>7, <2>9, <3>1 DEF Preserved
    <3>4. QED
      BY <3>2, <3>3
  <2>10. trial.flow = "handler" \/ trial.flow # "handler"
    BY <1>7 DEF Preserved
  <2>11. QED
    BY <1>1, <2>1, <2>2, <2>3, <2>4, <2>5, <2>6, <2>7, <2>8, <2>9, <2>10 DEF RuntimeInv, StepInv
<1>8. QED
  BY <1>2, <1>3, <1>4, <1>5, <1>6, <1>7

(* The service is stopped and its configuration removed.                  *)
LEMMA CleansUp ==
    ASSUME RuntimeInv,
           Cleanup \/ Evict \/ Stop \/ Stopped \/ Remove \/ Unlink \/
             Removed \/ Unload \/ ReloadAgain \/ Verify
    PROVE  RuntimeInv'
<1>1. TypeOK'
  BY CleansUpType, RuntimeAssumption DEF RuntimeInv
<1> USE DEF RuntimeInv, TypeOK, Trials, States, Recorded, ScoredWhole,
   EvidenceKept, StepInv, RunInv, HandlerInv, CleanupInv, OnceBy, Running, At,
   Go, Offline, Absent, host, service, game, browser, BeforeSql, BeforeStart,
   BeforeLaunch, BeforeConnect, BeforeRequest, BeforeLeave, BeforeNavigate,
   AfterLogoutPCs, RunPCs, SettlePCs, HandlerPCs, StopPCs, RemovePCs,
   CleanupPCs
<1>2. CASE Cleanup
  <2>1. ScoredWhole'
    BY <1>2 DEF Cleanup, Owned, OwnDropin
  <2>2. EvidenceKept'
    BY <1>2 DEF Cleanup, Owned, OwnDropin
  <2>3. RunInv'
    BY <1>2 DEF Cleanup, Owned, OwnDropin
  <2>4. HandlerInv'
    BY <1>2 DEF Cleanup, Owned, OwnDropin
  <2>5. (saved.failure => saved.made)'
    BY <1>2 DEF Cleanup, Owned, OwnDropin
  <2>6. (Running /\ trial.pc = "release" => saved.failure)'
    BY <1>2 DEF Cleanup, Owned, OwnDropin
  <2>7. (rows # 0 => db = "saved")'
    BY <1>2 DEF Cleanup, Owned, OwnDropin
  <2>8. ASSUME saved.made
        PROVE  Recorded' /\ CleanupInv'
    <3>1. /\ trial'.st = trial.st
          /\ trial'.flow = trial.flow
          /\ trial'.pc = "settle"
          /\ trial'.up = unit.up
          /\ unit' = unit
          /\ saved' = [saved EXCEPT !.clean = FALSE]
      BY <1>2, <2>8 DEF Cleanup, Owned, OwnDropin
    <3>2. Recorded'
      BY <1>2, <2>8, <3>1 DEF Cleanup, Owned, OwnDropin
    <3>3. CleanupInv'
      BY <1>2, <2>8, <3>1 DEF Cleanup, Owned, OwnDropin
    <3>4. QED
      BY <3>2, <3>3
  <2>9. ASSUME ~saved.made
        PROVE  Recorded' /\ CleanupInv'
    <3>1. /\ trial'.st = trial.st
          /\ trial'.flow = trial.flow
          /\ trial'.up = trial.up
          /\ trial'.pc = "idle"
          /\ unit' = unit
          /\ saved' = saved
          /\ copies' = copies
          /\ saved.failure => saved.made
          /\ trial.st # "running"
      BY <1>2, <2>9 DEF Cleanup, Owned, OwnDropin
    <3>2. Recorded'
      BY <1>2, <2>9, <3>1 DEF Cleanup, Owned, OwnDropin
    <3>3. CleanupInv'
      BY <1>2, <2>9, <3>1 DEF Cleanup, Owned, OwnDropin
    <3>4. QED
      BY <3>2, <3>3
  <2>10. saved.made \/ ~saved.made
    BY <1>2 DEF Cleanup, Owned, OwnDropin
  <2>11. QED
    BY <1>1, <2>1, <2>2, <2>3, <2>4, <2>5, <2>6, <2>7, <2>8, <2>9, <2>10 DEF RuntimeInv, StepInv
<1>3. CASE Evict
  <2>1. Recorded'
    BY <1>3 DEF Evict, Tell, Count, Active
  <2>2. ScoredWhole'
    BY <1>3 DEF Evict, Tell, Count, Active
  <2>3. EvidenceKept'
    BY <1>3 DEF Evict, Tell, Count, Active
  <2>4. RunInv'
    BY <1>3 DEF Evict, Tell, Count, Active
  <2>5. HandlerInv'
    BY <1>3 DEF Evict, Tell, Count, Active
  <2>6. CleanupInv'
    BY <1>3 DEF Evict, Tell, Count, Active
  <2>7. (saved.failure => saved.made)'
    BY <1>3 DEF Evict, Tell, Count, Active
  <2>8. (Running /\ trial.pc = "release" => saved.failure)'
    BY <1>3 DEF Evict, Tell, Count, Active
  <2>9. (rows # 0 => db = "saved")'
    BY <1>3 DEF Evict, Tell, Count, Active
  <2>10. QED
    BY <1>1, <2>1, <2>2, <2>3, <2>4, <2>5, <2>6, <2>7, <2>8, <2>9 DEF RuntimeInv, StepInv
<1>4. CASE Stop
  <2>1. Recorded' /\ ScoredWhole' /\ EvidenceKept'
    BY <1>4 DEF Stop
  <2>2. StepInv'
    BY <1>4 DEF Stop
  <2>3. QED
    BY <1>1, <2>1, <2>2 DEF RuntimeInv
<1>5. CASE Stopped
  <2>1. Recorded' /\ ScoredWhole' /\ EvidenceKept'
    BY <1>5 DEF Stopped
  <2>2. StepInv'
    BY <1>5 DEF Stopped
  <2>3. QED
    BY <1>1, <2>1, <2>2 DEF RuntimeInv
<1>6. CASE Remove
  <2>1. Recorded'
    BY <1>6 DEF Remove, OwnDropin
  <2>2. ScoredWhole'
    BY <1>6 DEF Remove, OwnDropin
  <2>3. EvidenceKept'
    BY <1>6 DEF Remove, OwnDropin
  <2>4. RunInv'
    BY <1>6 DEF Remove, OwnDropin
  <2>5. HandlerInv'
    BY <1>6 DEF Remove, OwnDropin
  <2>6. CleanupInv'
    BY <1>6 DEF Remove, OwnDropin
  <2>7. (saved.failure => saved.made)'
    BY <1>6 DEF Remove, OwnDropin
  <2>8. (Running /\ trial.pc = "release" => saved.failure)'
    BY <1>6 DEF Remove, OwnDropin
  <2>9. (rows # 0 => db = "saved")'
    BY <1>6 DEF Remove, OwnDropin
  <2>10. QED
    BY <1>1, <2>1, <2>2, <2>3, <2>4, <2>5, <2>6, <2>7, <2>8, <2>9 DEF RuntimeInv, StepInv
<1>7. CASE Unlink
  <2>1. Recorded' /\ ScoredWhole' /\ EvidenceKept'
    BY <1>7 DEF Unlink
  <2>2. StepInv'
    BY <1>7 DEF Unlink
  <2>3. QED
    BY <1>1, <2>1, <2>2 DEF RuntimeInv
<1>8. CASE Removed
  <2>1. Recorded' /\ ScoredWhole' /\ EvidenceKept'
    BY <1>8 DEF Removed
  <2>2. StepInv'
    BY <1>8 DEF Removed
  <2>3. QED
    BY <1>1, <2>1, <2>2 DEF RuntimeInv
<1>9. CASE Unload
  <2>1. Recorded' /\ ScoredWhole' /\ EvidenceKept'
    BY <1>9 DEF Unload
  <2>2. StepInv'
    BY <1>9 DEF Unload
  <2>3. QED
    BY <1>1, <2>1, <2>2 DEF RuntimeInv
<1>10. CASE ReloadAgain
  <2>1. Recorded' /\ ScoredWhole' /\ EvidenceKept'
    BY <1>10 DEF ReloadAgain
  <2>2. StepInv'
    BY <1>10 DEF ReloadAgain
  <2>3. QED
    BY <1>1, <2>1, <2>2 DEF RuntimeInv
<1>11. CASE Verify
  <2>1. Recorded' /\ ScoredWhole' /\ EvidenceKept'
    BY <1>11 DEF Verify
  <2>2. StepInv'
    BY <1>11 DEF Verify
  <2>3. QED
    BY <1>1, <2>1, <2>2 DEF RuntimeInv
<1>12. QED
  BY <1>2, <1>3, <1>4, <1>5, <1>6, <1>7, <1>8, <1>9, <1>10, <1>11

(* The attempt waits for the browser and ends, or is taken up again.      *)
LEMMA Finishes ==
    ASSUME RuntimeInv,
           PrepareWait \/ Clean \/ IsIdle \/ Observe \/ Recover
    PROVE  RuntimeInv'
<1>1. TypeOK'
  BY FinishesType, RuntimeAssumption DEF RuntimeInv
<1> USE DEF RuntimeInv, TypeOK, Trials, States, Recorded, ScoredWhole,
   EvidenceKept, StepInv, RunInv, HandlerInv, CleanupInv, OnceBy, Running, At,
   Go, Offline, Absent, host, service, game, browser, BeforeSql, BeforeStart,
   BeforeLaunch, BeforeConnect, BeforeRequest, BeforeLeave, BeforeNavigate,
   AfterLogoutPCs, RunPCs, SettlePCs, HandlerPCs, StopPCs, RemovePCs,
   CleanupPCs
<1>2. CASE PrepareWait
  <2>1. Recorded' /\ ScoredWhole' /\ EvidenceKept'
    BY <1>2 DEF PrepareWait, Tell, Active
  <2>2. StepInv'
    BY <1>2 DEF PrepareWait, Tell, Active
  <2>3. QED
    BY <1>1, <2>1, <2>2 DEF RuntimeInv
<1>3. CASE Clean
  <2>1. Recorded' /\ ScoredWhole' /\ EvidenceKept'
    BY <1>3 DEF Clean
  <2>2. StepInv'
    BY <1>3 DEF Clean
  <2>3. QED
    BY <1>1, <2>1, <2>2 DEF RuntimeInv
<1>4. CASE IsIdle
  <2>1. Recorded'
    BY <1>4 DEF IsIdle
  <2>2. ScoredWhole'
    BY <1>4 DEF IsIdle
  <2>3. EvidenceKept'
    BY <1>4 DEF IsIdle
  <2>4. RunInv'
    BY <1>4 DEF IsIdle
  <2>5. HandlerInv'
    BY <1>4 DEF IsIdle
  <2>6. CleanupInv'
    BY <1>4 DEF IsIdle
  <2>7. (saved.failure => saved.made)'
    BY <1>4 DEF IsIdle
  <2>8. (Running /\ trial.pc = "release" => saved.failure)'
    BY <1>4 DEF IsIdle
  <2>9. (rows # 0 => db = "saved")'
    BY <1>4 DEF IsIdle
  <2>10. QED
    BY <1>1, <2>1, <2>2, <2>3, <2>4, <2>5, <2>6, <2>7, <2>8, <2>9 DEF RuntimeInv, StepInv
<1>5. CASE Observe
  <2>1. Recorded' /\ ScoredWhole' /\ EvidenceKept'
    BY <1>5 DEF Observe
  <2>2. StepInv'
    BY <1>5 DEF Observe
  <2>3. QED
    BY <1>1, <2>1, <2>2 DEF RuntimeInv
<1>6. CASE Recover
  <2>1. Recorded' /\ ScoredWhole' /\ EvidenceKept'
    BY <1>6 DEF Recover
  <2>2. StepInv'
    BY <1>6 DEF Recover
  <2>3. QED
    BY <1>1, <2>1, <2>2 DEF RuntimeInv
<1>7. QED
  BY <1>2, <1>3, <1>4, <1>5, <1>6

(* An exception or a kill.                                                *)
LEMMA FailsOrGoesOn ==
    ASSUME RuntimeInv,
           (Raise /\ faults' \in 0 .. MaxFaults) \/ Kill
    PROVE  RuntimeInv'
<1>1. TypeOK'
  BY FailsOrGoesOnType, RuntimeAssumption DEF RuntimeInv
<1> USE DEF RuntimeInv, TypeOK, Trials, States, Recorded, ScoredWhole,
   EvidenceKept, StepInv, RunInv, HandlerInv, CleanupInv, OnceBy, Running, At,
   Go, Offline, Absent, host, service, game, browser, BeforeSql, BeforeStart,
   BeforeLaunch, BeforeConnect, BeforeRequest, BeforeLeave, BeforeNavigate,
   AfterLogoutPCs, RunPCs, SettlePCs, HandlerPCs, StopPCs, RemovePCs,
   CleanupPCs
<1>2. CASE Raise /\ faults' \in 0 .. MaxFaults
  <2>1. ScoredWhole'
    BY <1>2 DEF Raise, Fails, TryBlock
  <2>2. (saved.failure => saved.made)'
    BY <1>2 DEF Raise, Fails, TryBlock
  <2>3. (rows # 0 => db = "saved")'
    BY <1>2 DEF Raise, Fails, TryBlock
  <2>4. ASSUME trial' = [trial EXCEPT !.flow = "handler", !.pc = "settle"], trial.flow = "run", trial.pc \in TryBlock, "disconnect" \notin saved.intents
        PROVE  Recorded' /\ EvidenceKept' /\ RunInv' /\ HandlerInv'
               /\ CleanupInv'
               /\ (Running /\ trial.pc = "release" => saved.failure)'
    <3>1. /\ trial'.st = trial.st
          /\ trial'.flow = "handler"
          /\ trial'.pc = "settle"
          /\ trial'.up = trial.up
          /\ unit' = unit
      BY <1>2, <2>4 DEF Raise, Fails, TryBlock
    <3>2. Recorded'
      BY <1>2, <2>4, <3>1 DEF Raise, TryBlock
    <3>3. EvidenceKept'
      BY <1>2, <2>4, <3>1 DEF Raise, TryBlock
    <3>4. RunInv'
      BY <1>2, <2>4, <3>1 DEF Raise, TryBlock
    <3>5. HandlerInv'
      BY <1>2, <2>4, <3>1 DEF Raise, TryBlock
    <3>6. CleanupInv'
      BY <1>2, <2>4, <3>1 DEF Raise, TryBlock
    <3>7. (Running /\ trial.pc = "release" => saved.failure)'
      BY <1>2, <2>4, <3>1 DEF Raise, TryBlock
    <3>8. QED
      BY <3>2, <3>3, <3>4, <3>5, <3>6, <3>7
  <2>5. ASSUME Fails
        PROVE  Recorded' /\ EvidenceKept' /\ RunInv' /\ HandlerInv'
               /\ CleanupInv'
               /\ (Running /\ trial.pc = "release" => saved.failure)'
    <3>1. /\ trial'.st = "failed"
          /\ unit' = unit
      BY <1>2, <2>5 DEF Raise, Fails, TryBlock
    <3>2. Recorded'
      BY <1>2, <2>5, <3>1 DEF Raise, TryBlock
    <3>3. EvidenceKept'
      BY <1>2, <2>5, <3>1 DEF Raise, TryBlock
    <3>4. RunInv'
      BY <1>2, <2>5, <3>1 DEF Raise, TryBlock
    <3>5. HandlerInv'
      BY <1>2, <2>5, <3>1 DEF Raise, TryBlock
    <3>6. CleanupInv'
      BY <1>2, <2>5, <3>1 DEF Raise, TryBlock
    <3>7. (Running /\ trial.pc = "release" => saved.failure)'
      BY <1>2, <2>5, <3>1 DEF Raise, TryBlock
    <3>8. QED
      BY <3>2, <3>3, <3>4, <3>5, <3>6, <3>7
  <2>6. Fails \/ (trial' = [trial EXCEPT !.flow = "handler", !.pc = "settle"] /\ trial.flow = "run"
                  /\ trial.pc \in TryBlock /\ "disconnect" \notin saved.intents)
    BY <1>2 DEF Raise, TryBlock
  <2>7. QED
    BY <1>1, <2>1, <2>2, <2>3, <2>4, <2>5, <2>6 DEF RuntimeInv, StepInv
<1>3. CASE Kill
  <2>1. Recorded' /\ ScoredWhole' /\ EvidenceKept'
    BY <1>3 DEF Kill, Fails
  <2>2. StepInv'
    BY <1>3 DEF Kill, Fails
  <2>3. QED
    BY <1>1, <2>1, <2>2 DEF RuntimeInv
<1>4. QED
  BY <1>2, <1>3

(* The browser, the account, the bridge and the service.                  *)
LEMMA WorldSteps ==
    ASSUME RuntimeInv,
           Navigates \/ LogsIn \/ LogsOut \/ ControllerEnds \/ Drops \/
             Dies \/ Starts
    PROVE  RuntimeInv'
<1>1. TypeOK'
  BY WorldStepsType, RuntimeAssumption DEF RuntimeInv
<1> USE DEF RuntimeInv, TypeOK, Trials, States, Recorded, ScoredWhole,
   EvidenceKept, StepInv, RunInv, HandlerInv, CleanupInv, OnceBy, Running, At,
   Go, Offline, Absent, host, service, game, browser, BeforeSql, BeforeStart,
   BeforeLaunch, BeforeConnect, BeforeRequest, BeforeLeave, BeforeNavigate,
   AfterLogoutPCs, RunPCs, SettlePCs, HandlerPCs, StopPCs, RemovePCs,
   CleanupPCs
<1>2. CASE Navigates
  <2>1. Recorded' /\ ScoredWhole' /\ EvidenceKept'
    BY <1>2 DEF Navigates, Settled, Active
  <2>2. StepInv'
    BY <1>2 DEF Navigates, Settled, Active
  <2>3. QED
    BY <1>1, <2>1, <2>2 DEF RuntimeInv
<1>3. CASE LogsIn
  <2>1. Recorded' /\ ScoredWhole' /\ EvidenceKept'
    BY <1>3 DEF LogsIn
  <2>2. StepInv'
    BY <1>3 DEF LogsIn
  <2>3. QED
    BY <1>1, <2>1, <2>2 DEF RuntimeInv
<1>4. CASE LogsOut
  <2>1. Recorded' /\ ScoredWhole' /\ EvidenceKept'
    BY <1>4 DEF LogsOut, Saves
  <2>2. StepInv'
    BY <1>4 DEF LogsOut, Saves
  <2>3. QED
    BY <1>1, <2>1, <2>2 DEF RuntimeInv
<1>5. CASE ControllerEnds
  <2>1. Recorded' /\ ScoredWhole' /\ EvidenceKept'
    BY <1>5 DEF ControllerEnds, Active
  <2>2. StepInv'
    BY <1>5 DEF ControllerEnds, Active
  <2>3. QED
    BY <1>1, <2>1, <2>2 DEF RuntimeInv
<1>6. CASE Drops
  <2>1. Recorded' /\ ScoredWhole' /\ EvidenceKept'
    BY <1>6 DEF Drops, Saves, Bounded
  <2>2. StepInv'
    BY <1>6 DEF Drops, Saves, Bounded
  <2>3. QED
    BY <1>1, <2>1, <2>2 DEF RuntimeInv
<1>7. CASE Dies
  <2>1. Recorded' /\ ScoredWhole' /\ EvidenceKept'
    BY <1>7 DEF Dies, Saves, Bounded
  <2>2. StepInv'
    BY <1>7 DEF Dies, Saves, Bounded
  <2>3. QED
    BY <1>1, <2>1, <2>2 DEF RuntimeInv
<1>8. CASE Starts
  <2>1. Recorded' /\ ScoredWhole' /\ EvidenceKept'
    BY <1>8 DEF Starts, Instance, Bounded
  <2>2. StepInv'
    BY <1>8 DEF Starts, Instance, Bounded
  <2>3. QED
    BY <1>1, <2>1, <2>2 DEF RuntimeInv
<1>9. QED
  BY <1>2, <1>3, <1>4, <1>5, <1>6, <1>7, <1>8
(* What is used of a refusal: it raises, and is not a fault.               *)
LEMMA RefuseRaises == Refuse => Raise /\ faults' = faults
BY DEF Refuse

LEMMA RuntimeNext ==
    ASSUME RuntimeInv, Next
    PROVE  RuntimeInv'
<1>1. faults \in 0 .. MaxFaults
  BY DEF RuntimeInv, TypeOK
<1>2. CASE Work
  <2>1. CASE IsReady \/ Create \/ Restore \/ RestoreSql \/ Restored
    BY <2>1, RunBegins
  <2>2. CASE Start \/ CreateDropin \/ WriteDropin \/ DaemonReload \/ Launch
             \/ Invocation \/ Online
    BY <2>2, RunStarts
  <2>3. CASE Login \/ Connect \/ Connected \/ Ask \/ Request \/ Played \/ Leave
             \/ Navigate \/ Logout
    BY <2>3, RunPlays
  <2>4. CASE CopyController \/ Disconnect \/ Collect \/ Snapshot \/ Scored
    BY <2>4, RunCollects
  <2>5. CASE Settle \/ Quiescent \/ Record \/ Release \/ Preserve \/ Preserved
    BY <2>5, Settles
  <2>6. CASE Cleanup \/ Evict \/ Stop \/ Stopped \/ Remove \/ Unlink \/ Removed
             \/ Unload \/ ReloadAgain \/ Verify
    BY <2>6, CleansUp
  <2>7. CASE PrepareWait \/ Clean \/ IsIdle \/ Observe
    BY <2>7, Finishes
  <2>8. QED
    BY <1>2, <2>1, <2>2, <2>3, <2>4, <2>5, <2>6, <2>7 DEF Work
<1>3. CASE Recover
  BY <1>3, Finishes
<1>4. CASE Refuse
  <2>1. Raise /\ faults' \in 0 .. MaxFaults
    BY <1>1, <1>4, RefuseRaises
  <2>2. QED
    BY <2>1, FailsOrGoesOn
<1>5. CASE Fault
  <2>1. Raise /\ faults' \in 0 .. MaxFaults
    BY <1>1, <1>5, RuntimeAssumption DEF Fault
  <2>2. QED
    BY <2>1, FailsOrGoesOn
<1>6. CASE Kill
  BY <1>6, FailsOrGoesOn
<1>7. CASE Environment
  BY <1>7, WorldSteps DEF Environment
<1>8. QED
  BY <1>2, <1>3, <1>4, <1>5, <1>6, <1>7 DEF Next

LEMMA RuntimeStutters ==
    ASSUME RuntimeInv, UNCHANGED vars
    PROVE  RuntimeInv'
<1>1. /\ UNCHANGED <<trial, saved, copies, score, done, faults>>
      /\ UNCHANGED <<unit, file, loaded, account, db, rows, desired, page, run, hosts>>
  BY DEF vars, host, service, game, browser
<1>2. TypeOK'
  BY <1>1 DEF RuntimeInv, TypeOK
<1>3. (Recorded /\ ScoredWhole /\ EvidenceKept)'
  BY <1>1 DEF RuntimeInv, Recorded, ScoredWhole, EvidenceKept, Absent
<1>4. StepInv'
  BY <1>1 DEF RuntimeInv, StepInv, RunInv, HandlerInv, CleanupInv, OnceBy, Running,
     Offline
<1>5. QED
  BY <1>2, <1>3, <1>4 DEF RuntimeInv

(* What backend-state.json says is never less than what was done, a score  *)
(* is of one whole run, and the evidence of a failure is kept, at every    *)
(* step of a run, of its handler, of a cleanup and of every recovery.      *)
THEOREM RuntimeSafety == Spec => []RuntimeInv
<1>1. Init => RuntimeInv
  BY RuntimeInit
<1>2. RuntimeInv /\ [Next]_vars => RuntimeInv'
  BY RuntimeNext, RuntimeStutters
<1>3. QED
  BY <1>1, <1>2, PTL DEF Spec

(* No step but Stop and the service's own end turns the service off, and   *)
(* what Stop ends runs with the attempt's configuration.                   *)
LEMMA OnlyStopStops ==
    ASSUME RuntimeInv, Next, unit.up, ~unit'.up, hosts' = hosts
    PROVE  unit.cfg = "trial"
<1>1. CASE Stop
  <2>1. trial.pc = "stop" /\ Running
    BY <1>1 DEF Stop, At
  <2>2. trial.flow = "cleanup"
    <3>1. trial.flow \in {"run", "handler", "cleanup"}
      BY DEF RuntimeInv, TypeOK, Trials
    <3>2. trial.flow # "run"
      BY <2>1 DEF RuntimeInv, StepInv, RunInv, RunPCs, BeforeNavigate, BeforeLeave,
         BeforeRequest, BeforeConnect, BeforeLaunch, BeforeStart, BeforeSql, AfterLogoutPCs
    <3>3. trial.flow # "handler"
      BY <2>1 DEF RuntimeInv, StepInv, HandlerInv, HandlerPCs, SettlePCs
    <3>4. QED
      BY <3>1, <3>2, <3>3
  <2>3. QED
    BY <2>1, <2>2 DEF RuntimeInv, StepInv, CleanupInv, StopPCs
<1>2. CASE Dies \/ Drops \/ Starts
  <2>1. hosts \in Nat
    BY RuntimeAssumption DEF RuntimeInv, TypeOK
  <2>2. QED
    BY <1>2, <2>1 DEF Dies, Drops, Starts, Bounded
<1>3. CASE Launch
  BY <1>3 DEF Launch, Instance
<1>4. CASE ~Stop /\ ~Dies /\ ~Drops /\ ~Starts /\ ~Launch
  <2>1. unit' = unit
    <3>1. CASE Work
      BY <1>4, <3>1 DEF Work, IsReady, Create, Restore, RestoreSql, Restored, Start,
         CreateDropin, WriteDropin, DaemonReload, Invocation, Online, Login, Connect, Connected, Ask,
         Request, Played, Leave, Navigate, Logout, CopyController, Disconnect, Collect,
         Snapshot, Scored, Settle, Quiescent, Record, Release, Preserve, Preserved,
         Cleanup, Evict, Stopped, Remove, Unlink, Removed, Unload, ReloadAgain, Verify,
         PrepareWait, Clean, IsIdle, Observe, host, service
    <3>2. CASE Recover \/ Kill \/ Fault \/ Refuse
      BY <3>2, RefuseRaises DEF Recover, Kill, Fault, Raise, host, service
    <3>3. CASE Navigates \/ LogsIn \/ LogsOut \/ ControllerEnds
      BY <3>3 DEF Navigates, LogsIn, LogsOut, ControllerEnds, service
    <3>4. QED
      BY <1>4, <3>1, <3>2, <3>3 DEF Next, Environment
  <2>2. QED
    BY <2>1
<1>5. QED
  BY <1>1, <1>2, <1>3, <1>4

(* The attempt never stops a service that runs with the operator's normal  *)
(* configuration.                                                          *)
THEOREM RuntimeOnlyOwn == Spec => OnlyOwn
<1>1. RuntimeInv /\ [Next]_vars
        => [unit.up /\ ~unit'.up /\ hosts' = hosts => unit.cfg = "trial"]_vars
  BY OnlyStopStops
<1>2. QED
  BY <1>1, RuntimeSafety, PTL DEF Spec, OnlyOwn

=============================================================================
