---------------------- MODULE ControllerBridgeProofs ----------------------
(***************************************************************************)
(* What ControllerBridge and ProgramController promise, proved for any     *)
(* runs, programs and bounds: that RelayInv and LoopInv hold initially and *)
(* that every action keeps them, and from them the properties that the     *)
(* runs check on small instances.                                          *)
(*                                                                         *)
(* The bridge comes first, in the order of its module: the worker's steps, *)
(* the operator's, the server's end and restart, the page's, and the       *)
(* frames between them.  The loops that a worker runs over the bridge, the *)
(* programmable agent and the adaptive controller, come after it: their    *)
(* executor, the agent's turns and the adaptive cycles.                    *)
(***************************************************************************)
EXTENDS ControllerBridge, ProgramController, Integers, FiniteSetTheorems, TLAPS

(* A worker that goes on, its run or its record as they are.               *)
LEMMA StepTypes ==
    ASSUME worker \in [Runs -> Workers], NEW r \in Runs, NEW step \in WorkerSteps
    PROVE  [worker EXCEPT ![r].pc = step] \in [Runs -> Workers]
BY DEF Workers

(* What is under way between the server and the page, and what is closed   *)
(* of it, stays so while neither of them speaks.                           *)
LEMMA InputsGoOn ==
    ASSUME TypeOK, InputInv, page' = page, wire' = wire,
           \A r \in Runs : disk[r].claim => disk'[r].claim,
           \A r \in Runs : disk[r].claim /\ worker'[r].pc # "none" =>
               /\ worker[r].pc # "none" /\ worker'[r].inputs = worker[r].inputs
               /\ worker[r].bad => worker'[r].bad,
           \/ /\ mem'.pending.run = mem.pending.run /\ mem'.pending.n = mem.pending.n
              /\ mem'.pending.sent = mem.pending.sent
              /\ mem'.pending.ack \in {mem.pending.ack, "bad"}
           \/ mem'.pending = NoInput /\ \A r \in Runs : worker'[r].pc = "none"
    PROVE  InputInv'
<1>1. Commanded' = Commanded /\ Reported' = Reported
  BY DEF Commanded, Reported
<1>2. \A c \in Commanded \cup Reported : c.run \in Runs
  BY DEF TypeOK, Pages, Replies, Frames, Acks, Commands, Commanded, Reported
<1>3. \A c \in Commanded \cup Reported : Fresh(c) => Fresh(c)'
  <2>1. TAKE c \in Commanded \cup Reported
  <2>2. c.run \in Runs
    BY <1>2
  <2>3. CASE mem'.pending = NoInput
    BY <2>2, <2>3, BridgeAssumption DEF Fresh, NoInput
  <2>4. CASE mem'.pending.run = mem.pending.run /\ mem'.pending.n = mem.pending.n
              /\ mem'.pending.sent = mem.pending.sent
    BY <2>2, <2>4 DEF Fresh
  <2>5. QED
    BY <2>3, <2>4
<1>4. \A c \in Commanded : Fresh(c) /\ Current(c) => Current(c)'
  BY <1>2 DEF Current, Fresh
<1>5. QED
  BY <1>1, <1>3, <1>4 DEF InputInv

(* No lock is let go and no release is said while neither of them speaks.  *)
LEMMA LeasesGoOn ==
    ASSUME TypeOK, LeaseInv, page' = page, wire' = wire, closed' = closed,
           \A r \in Runs : disk[r].claim => disk'[r].claim,
           \A r \in Runs : disk[r].cancel => disk'[r].cancel,
           \A r \in Runs : disk[r].claim /\ worker[r].pc = "none" => worker'[r].pc = "none",
           mem'.acks \subseteq mem.acks
    PROVE  LeaseInv'
<1>1. \A r \in Runs : Silent(r)' <=> Silent(r)
  BY DEF Silent, PageActs
<1>2. closed \subseteq Runs
  BY DEF TypeOK
<1>3. QED
  BY <1>1, <1>2 DEF LeaseInv

(* Nobody is told to leave while neither of them speaks. *)
LEMMA TurnsGoOn ==
    ASSUME TypeOK, TurnInv, Undisturbed, page' = page, wire' = wire,
           sess' \in {sess, NoSession(sess.turns)}, mem'.leases \subseteq mem.leases
    PROVE  TurnInv' /\ Undisturbed'
<1>1. CASE sess' = sess
  BY <1>1 DEF TurnInv, Undisturbed
<1>2. CASE sess' = NoSession(sess.turns)
  BY <1>2 DEF TurnInv, Undisturbed, NoSession, TypeOK, Sessions
<1>3. QED
  BY <1>1, <1>2

(* The page alone changes nothing of what the server keeps. *)
LEMMA ServerRests ==
    ASSUME RelayInv, UNCHANGED <<disk, youngest, mem, worker, calls, launches>>
    PROVE  (FolderInv /\ OneController /\ OutcomeHonest /\ CallInv /\ WorkInv)'
BY DEF RelayInv, FolderInv, OneController, OutcomeHonest, CallInv, WorkInv, OneWorker, Live,
   Torn, Known, Damaged

-----------------------------------------------------------------------------
(* The worker: its steps are about its own documents and calls. *)
LEMMA PrepareKeeps ==
    ASSUME RelayInv, NEW r \in Runs, Prepare(r)
    PROVE  RelayInv'
<1> USE BridgeAssumption DEF RelayInv, BridgeInv
<1>1. PICK api \in {"none", "preparing", "requesting", "response"},
          step \in {"ready", "ask"} :
       /\ worker[r].pc = "prepare"
       /\ disk' = [disk EXCEPT ![r].api = api]
       /\ worker' = [worker EXCEPT ![r].pc = step]
       /\ IF worker[r].mode = "api" THEN api = "preparing" /\ step = "ask"
                                    ELSE api = disk[r].api
  <2>1. disk = [disk EXCEPT ![r].api = disk[r].api]
        /\ disk[r].api \in {"none", "preparing", "requesting", "response"}
    BY DEF TypeOK, Folders
  <2>2. worker[r].mode \in {"script", "api", "adaptive"}
    BY DEF TypeOK, Workers
  <2>3. CASE worker[r].mode = "api"
    BY <2>3 DEF Prepare, Step
  <2>4. CASE worker[r].mode # "api"
    BY <2>1, <2>4 DEF Prepare, Step
  <2>5. QED
    BY <2>3, <2>4
<1>2. UNCHANGED <<youngest, mem, sess, browser, history>>
  BY DEF Prepare
<1>3. TypeOK'
  <2>1. disk' \in [Runs -> Folders]
    BY <1>1 DEF TypeOK, Folders, Terminal
  <2>2. worker' \in [Runs -> Workers]
    BY <1>1, StepTypes DEF TypeOK, WorkerSteps
  <2>3. QED
    BY <1>1, <1>2, <2>1, <2>2 DEF TypeOK, browser, history
<1>4. /\ page' = page /\ wire' = wire /\ sess' = sess /\ closed' = closed
      /\ launches' = launches
      /\ mem'.pending = mem.pending /\ mem'.leases = mem.leases /\ mem'.acks = mem.acks
      /\ mem'.up = mem.up /\ mem'.run = mem.run /\ mem'.quars = mem.quars
  BY <1>1, <1>2 DEF browser, history, TypeOK, Memory
<1>5. \A x \in Runs :
         /\ disk'[x].claim = disk[x].claim /\ disk'[x].cancel = disk[x].cancel
         /\ disk'[x].quar = disk[x].quar /\ disk'[x].rel = disk[x].rel
         /\ worker'[x].pc # "none" =>
                /\ worker[x].pc # "none" /\ worker'[x].inputs = worker[x].inputs
                /\ worker'[x].bad = worker[x].bad /\ worker'[x].mode = worker[x].mode
  BY <1>1, <1>2 DEF browser, history, TypeOK, Folders, Workers
<1>6. FolderInv'
  BY <1>1, <1>2, <1>5 DEF browser, history, FolderInv, TypeOK, Folders,
     Workers, Terminal
<1>7. (OneController /\ OutcomeHonest /\ CallInv)'
  <2>1. OneController'
    BY <1>1, <1>2, <1>4, <1>5 DEF browser, history, OneController, CallInv,
       FolderInv, TypeOK, Folders, Workers
  <2>2. OutcomeHonest'
    BY <1>1, <1>2, <1>5 DEF browser, history, OutcomeHonest, CallInv, TypeOK,
       Folders, Workers
  <2>3. CallInv'
    BY <1>1, <1>2, <1>5 DEF browser, history, CallInv, TypeOK, Folders, Workers
  <2>4. QED
    BY <2>1, <2>2, <2>3
<1>8. WorkInv'
  BY <1>1, <1>2, <1>4, <1>5 DEF browser, history, WorkInv, OneWorker, Live,
     Torn, Known, Damaged, TypeOK, Memory, Inputs, Workers, Folders, Terminal
<1>9. InputInv'
  BY <1>4, <1>5, InputsGoOn
<1>10. LeaseInv'
  BY <1>4, <1>5, LeasesGoOn DEF LeaseInv
<1>11. TurnInv' /\ Undisturbed'
  BY <1>4, TurnsGoOn
<1>12. QED
  BY <1>3, <1>6, <1>7, <1>8, <1>9, <1>10, <1>11 DEF WorkInv

(* The provider is called once the intent is on the disk. *)
LEMMA AskKeeps ==
    ASSUME RelayInv, NEW r \in Runs, Ask(r)
    PROVE  RelayInv'
<1> USE BridgeAssumption DEF RelayInv, BridgeInv
<1>1. TypeOK'
  <2>1. disk' \in [Runs -> Folders]
    BY DEF TypeOK, Ask, Step, Cancelled, browser, Folders, Terminal
  <2>2. worker' \in [Runs -> Workers]
    BY DEF TypeOK, Ask, Step, Cancelled, browser, Workers, WorkerSteps
  <2>3. calls' \in [Runs -> Nat]
    BY DEF TypeOK, Ask, Step, Cancelled, browser
  <2>4. QED
    BY <2>1, <2>2, <2>3 DEF TypeOK, Ask, Step, Cancelled, browser
<1>2. /\ page' = page /\ wire' = wire /\ sess' = sess /\ closed' = closed
      /\ launches' = launches
      /\ mem'.pending = mem.pending /\ mem'.leases = mem.leases /\ mem'.acks = mem.acks
      /\ mem'.up = mem.up /\ mem'.run = mem.run /\ mem'.quars = mem.quars
  BY DEF Ask, Step, Cancelled, browser, TypeOK, Memory
<1>3. \A x \in Runs :
         /\ disk'[x].claim = disk[x].claim /\ disk'[x].cancel = disk[x].cancel
         /\ disk'[x].quar = disk[x].quar /\ disk'[x].rel = disk[x].rel
         /\ worker'[x].pc # "none" =>
                /\ worker[x].pc # "none" /\ worker'[x].inputs = worker[x].inputs
                /\ worker'[x].bad = worker[x].bad /\ worker'[x].mode = worker[x].mode
  BY DEF Ask, Step, Cancelled, browser, TypeOK, Folders, Workers
<1>4. FolderInv'
  BY <1>3 DEF Ask, Step, Cancelled, browser, FolderInv, TypeOK, Folders,
     Workers, Terminal
<1>5. (OneController /\ OutcomeHonest /\ CallInv)'
  <2>1. OneController'
    BY <1>2, <1>3 DEF Ask, Step, Cancelled, browser, OneController, CallInv,
       FolderInv, TypeOK, Folders, Workers
  <2>2. OutcomeHonest'
    BY <1>3 DEF Ask, Step, Cancelled, browser, OutcomeHonest, CallInv, TypeOK,
       Folders, Workers
  <2>3. CallInv'
    BY <1>3 DEF Ask, Step, Cancelled, browser, CallInv, TypeOK, Folders,
       Workers
  <2>4. QED
    BY <2>1, <2>2, <2>3
<1>6. WorkInv'
  BY <1>2, <1>3 DEF Ask, Step, Cancelled, browser, WorkInv, OneWorker, Live,
     Torn, Known, Damaged, TypeOK, Memory, Inputs, Workers, Folders, Terminal
<1>7. InputInv'
  BY <1>2, <1>3, InputsGoOn
<1>8. LeaseInv'
  BY <1>2, <1>3, LeasesGoOn DEF LeaseInv
<1>9. TurnInv' /\ Undisturbed'
  BY <1>2, TurnsGoOn
<1>10. QED
  BY <1>1, <1>4, <1>5, <1>6, <1>7, <1>8, <1>9 DEF WorkInv

(* The answer is recorded. *)
LEMMA AnswerKeeps ==
    ASSUME RelayInv, NEW r \in Runs, Answer(r)
    PROVE  RelayInv'
<1> USE BridgeAssumption DEF RelayInv, BridgeInv
<1>1. PICK api \in {"none", "preparing", "requesting", "response"} :
       /\ worker[r].pc = "api"
       /\ disk' = [disk EXCEPT ![r].api = api]
       /\ worker' = [worker EXCEPT ![r].pc = "answer"]
       /\ api = IF worker[r].mode = "api" THEN "response" ELSE disk[r].api
  <2>1. disk = [disk EXCEPT ![r].api = disk[r].api]
        /\ disk[r].api \in {"none", "preparing", "requesting", "response"}
    BY DEF TypeOK, Folders
  <2>2. CASE worker[r].mode = "api"
    BY <2>2 DEF Answer, Step
  <2>3. CASE worker[r].mode # "api"
    BY <2>1, <2>3 DEF Answer, Step
  <2>4. QED
    BY <2>2, <2>3
<1>2. UNCHANGED <<youngest, mem, sess, browser, history>>
  BY DEF Answer
<1>3. TypeOK'
  <2>1. disk' \in [Runs -> Folders]
    BY <1>1 DEF TypeOK, Folders, Terminal
  <2>2. worker' \in [Runs -> Workers]
    BY <1>1, StepTypes DEF TypeOK, WorkerSteps
  <2>3. QED
    BY <1>1, <1>2, <2>1, <2>2 DEF TypeOK, browser, history
<1>4. /\ page' = page /\ wire' = wire /\ sess' = sess /\ closed' = closed
      /\ launches' = launches
      /\ mem'.pending = mem.pending /\ mem'.leases = mem.leases /\ mem'.acks = mem.acks
      /\ mem'.up = mem.up /\ mem'.run = mem.run /\ mem'.quars = mem.quars
  BY <1>1, <1>2 DEF browser, history, TypeOK, Memory
<1>5. \A x \in Runs :
         /\ disk'[x].claim = disk[x].claim /\ disk'[x].cancel = disk[x].cancel
         /\ disk'[x].quar = disk[x].quar /\ disk'[x].rel = disk[x].rel
         /\ worker'[x].pc # "none" =>
                /\ worker[x].pc # "none" /\ worker'[x].inputs = worker[x].inputs
                /\ worker'[x].bad = worker[x].bad /\ worker'[x].mode = worker[x].mode
  BY <1>1, <1>2 DEF browser, history, TypeOK, Folders, Workers
<1>6. FolderInv'
  BY <1>1, <1>2, <1>5 DEF browser, history, FolderInv, TypeOK, Folders,
     Workers, Terminal
<1>7. (OneController /\ OutcomeHonest /\ CallInv)'
  <2>1. OneController'
    BY <1>1, <1>2, <1>4, <1>5 DEF browser, history, OneController, CallInv,
       FolderInv, TypeOK, Folders, Workers
  <2>2. OutcomeHonest'
    BY <1>1, <1>2, <1>5 DEF browser, history, OutcomeHonest, CallInv, TypeOK,
       Folders, Workers
  <2>3. CallInv'
    BY <1>1, <1>2, <1>5 DEF browser, history, CallInv, TypeOK, Folders, Workers
  <2>4. QED
    BY <2>1, <2>2, <2>3
<1>8. WorkInv'
  BY <1>1, <1>2, <1>4, <1>5 DEF browser, history, WorkInv, OneWorker, Live,
     Torn, Known, Damaged, TypeOK, Memory, Inputs, Workers, Folders, Terminal
<1>9. InputInv'
  BY <1>4, <1>5, InputsGoOn
<1>10. LeaseInv'
  BY <1>4, <1>5, LeasesGoOn DEF LeaseInv
<1>11. TurnInv' /\ Undisturbed'
  BY <1>4, TurnsGoOn
<1>12. QED
  BY <1>3, <1>6, <1>7, <1>8, <1>9, <1>10, <1>11 DEF WorkInv

(* The answer is good. *)
LEMMA ValidateKeeps ==
    ASSUME RelayInv, NEW r \in Runs, Validate(r)
    PROVE  RelayInv'
<1> USE BridgeAssumption DEF RelayInv, BridgeInv
<1>1. TypeOK'
  <2>1. worker' \in [Runs -> Workers]
    BY DEF TypeOK, Validate, Step, history, browser, Workers, WorkerSteps
  <2>2. QED
    BY <2>1 DEF TypeOK, Validate, Step, history, browser
<1>2. /\ page' = page /\ wire' = wire /\ sess' = sess /\ closed' = closed
      /\ launches' = launches
      /\ mem'.pending = mem.pending /\ mem'.leases = mem.leases /\ mem'.acks = mem.acks
      /\ mem'.up = mem.up /\ mem'.run = mem.run /\ mem'.quars = mem.quars
  BY DEF Validate, Step, history, browser, TypeOK, Memory
<1>3. \A x \in Runs :
         /\ disk'[x].claim = disk[x].claim /\ disk'[x].cancel = disk[x].cancel
         /\ disk'[x].quar = disk[x].quar /\ disk'[x].rel = disk[x].rel
         /\ worker'[x].pc # "none" =>
                /\ worker[x].pc # "none" /\ worker'[x].inputs = worker[x].inputs
                /\ worker'[x].bad = worker[x].bad /\ worker'[x].mode = worker[x].mode
  BY DEF Validate, Step, history, browser, TypeOK, Folders, Workers
<1>4. FolderInv'
  BY <1>3 DEF Validate, Step, history, browser, FolderInv, TypeOK, Folders,
     Workers, Terminal
<1>5. (OneController /\ OutcomeHonest /\ CallInv)'
  <2>1. OneController'
    BY <1>2, <1>3 DEF Validate, Step, history, browser, OneController, CallInv,
       FolderInv, TypeOK, Folders, Workers
  <2>2. OutcomeHonest'
    BY <1>3 DEF Validate, Step, history, browser, OutcomeHonest, CallInv,
       TypeOK, Folders, Workers
  <2>3. CallInv'
    BY <1>3 DEF Validate, Step, history, browser, CallInv, TypeOK, Folders,
       Workers
  <2>4. QED
    BY <2>1, <2>2, <2>3
<1>6. WorkInv'
  BY <1>2, <1>3 DEF Validate, Step, history, browser, WorkInv, OneWorker, Live,
     Torn, Known, Damaged, TypeOK, Memory, Inputs, Workers, Folders, Terminal
<1>7. InputInv'
  BY <1>2, <1>3, InputsGoOn
<1>8. LeaseInv'
  BY <1>2, <1>3, LeasesGoOn DEF LeaseInv
<1>9. TurnInv' /\ Undisturbed'
  BY <1>2, TurnsGoOn
<1>10. QED
  BY <1>1, <1>4, <1>5, <1>6, <1>7, <1>8, <1>9 DEF WorkInv

(* The program begins to play. *)
LEMMA ReadyKeeps ==
    ASSUME RelayInv, NEW r \in Runs, Ready(r)
    PROVE  RelayInv'
<1> USE BridgeAssumption DEF RelayInv, BridgeInv
<1>1. TypeOK'
  <2>1. disk' \in [Runs -> Folders]
    BY DEF TypeOK, Ready, Step, history, browser, Folders, Terminal
  <2>2. mem' \in Memory
    BY DEF TypeOK, Ready, Step, history, browser, Memory, Terminal
  <2>3. worker' \in [Runs -> Workers]
    BY DEF TypeOK, Ready, Step, history, browser, Workers, WorkerSteps
  <2>4. QED
    BY <2>1, <2>2, <2>3 DEF TypeOK, Ready, Step, history, browser
<1>2. /\ page' = page /\ wire' = wire /\ sess' = sess /\ closed' = closed
      /\ launches' = launches
      /\ mem'.pending = mem.pending /\ mem'.leases = mem.leases /\ mem'.acks = mem.acks
      /\ mem'.up = mem.up /\ mem'.run = mem.run /\ mem'.quars = mem.quars
  BY DEF Ready, Step, history, browser, TypeOK, Memory
<1>3. \A x \in Runs :
         /\ disk'[x].claim = disk[x].claim /\ disk'[x].cancel = disk[x].cancel
         /\ disk'[x].quar = disk[x].quar /\ disk'[x].rel = disk[x].rel
         /\ worker'[x].pc # "none" =>
                /\ worker[x].pc # "none" /\ worker'[x].inputs = worker[x].inputs
                /\ worker'[x].bad = worker[x].bad /\ worker'[x].mode = worker[x].mode
  BY DEF Ready, Step, history, browser, TypeOK, Folders, Workers
<1>4. FolderInv'
  BY <1>3 DEF Ready, Step, history, browser, FolderInv, TypeOK, Folders,
     Workers, Terminal
<1>5. (OneController /\ OutcomeHonest /\ CallInv)'
  <2>1. OneController'
    BY <1>2, <1>3 DEF Ready, Step, history, browser, OneController, CallInv,
       FolderInv, TypeOK, Folders, Workers
  <2>2. OutcomeHonest'
    BY <1>3 DEF Ready, Step, history, browser, OutcomeHonest, CallInv, TypeOK,
       Folders, Workers
  <2>3. CallInv'
    BY <1>3 DEF Ready, Step, history, browser, CallInv, TypeOK, Folders,
       Workers
  <2>4. QED
    BY <2>1, <2>2, <2>3
<1>6. WorkInv'
  BY <1>2, <1>3 DEF Ready, Step, history, browser, WorkInv, OneWorker, Live,
     Torn, Known, Damaged, TypeOK, Memory, Inputs, Workers, Folders, Terminal
<1>7. InputInv'
  BY <1>2, <1>3, InputsGoOn
<1>8. LeaseInv'
  BY <1>2, <1>3, LeasesGoOn DEF LeaseInv
<1>9. TurnInv' /\ Undisturbed'
  BY <1>2, TurnsGoOn
<1>10. QED
  BY <1>1, <1>4, <1>5, <1>6, <1>7, <1>8, <1>9 DEF WorkInv

(* Whatever goes wrong leads to the handler. *)
LEMMA RaiseKeeps ==
    ASSUME RelayInv, NEW r \in Runs, Raise(r)
    PROVE  RelayInv'
<1> USE BridgeAssumption DEF RelayInv, BridgeInv
<1>1. TypeOK'
  <2>1. worker' \in [Runs -> Workers]
    BY DEF TypeOK, Raise, Step, Fault, browser, Workers, WorkerSteps
  <2>2. faults' \in 0..MaxFaults
    BY DEF TypeOK, Raise, Step, Fault, browser
  <2>3. QED
    BY <2>1, <2>2 DEF TypeOK, Raise, Step, Fault, browser
<1>2. /\ page' = page /\ wire' = wire /\ sess' = sess /\ closed' = closed
      /\ launches' = launches
      /\ mem'.pending = mem.pending /\ mem'.leases = mem.leases /\ mem'.acks = mem.acks
      /\ mem'.up = mem.up /\ mem'.run = mem.run /\ mem'.quars = mem.quars
  BY DEF Raise, Step, Fault, browser, TypeOK, Memory
<1>3. \A x \in Runs :
         /\ disk'[x].claim = disk[x].claim /\ disk'[x].cancel = disk[x].cancel
         /\ disk'[x].quar = disk[x].quar /\ disk'[x].rel = disk[x].rel
         /\ worker'[x].pc # "none" =>
                /\ worker[x].pc # "none" /\ worker'[x].inputs = worker[x].inputs
                /\ worker'[x].bad = worker[x].bad /\ worker'[x].mode = worker[x].mode
  BY DEF Raise, Step, Fault, browser, TypeOK, Folders, Workers
<1>4. FolderInv'
  BY <1>3 DEF Raise, Step, Fault, browser, FolderInv, TypeOK, Folders, Workers,
     Terminal
<1>5. (OneController /\ OutcomeHonest /\ CallInv)'
  <2>1. OneController'
    BY <1>2, <1>3 DEF Raise, Step, Fault, browser, OneController, CallInv,
       FolderInv, TypeOK, Folders, Workers
  <2>2. OutcomeHonest'
    BY <1>3 DEF Raise, Step, Fault, browser, OutcomeHonest, CallInv, TypeOK,
       Folders, Workers
  <2>3. CallInv'
    BY <1>3 DEF Raise, Step, Fault, browser, CallInv, TypeOK, Folders, Workers
  <2>4. QED
    BY <2>1, <2>2, <2>3
<1>6. WorkInv'
  BY <1>2, <1>3 DEF Raise, Step, Fault, browser, WorkInv, OneWorker, Live,
     Torn, Known, Damaged, TypeOK, Memory, Inputs, Workers, Folders, Terminal
<1>7. InputInv'
  BY <1>2, <1>3, InputsGoOn
<1>8. LeaseInv'
  BY <1>2, <1>3, LeasesGoOn DEF LeaseInv
<1>9. TurnInv' /\ Undisturbed'
  BY <1>2, TurnsGoOn
<1>10. QED
  BY <1>1, <1>4, <1>5, <1>6, <1>7, <1>8, <1>9 DEF WorkInv

(* An adaptive run asks again, any other is saved. *)
LEMMA ReturnKeeps ==
    ASSUME RelayInv, NEW r \in Runs, Return(r)
    PROVE  RelayInv'
<1> USE BridgeAssumption DEF RelayInv, BridgeInv
<1>1. TypeOK'
  <2>1. mem' \in Memory
    BY DEF TypeOK, Return, Step, history, browser, Memory, Terminal
  <2>2. worker' \in [Runs -> Workers]
    BY DEF TypeOK, Return, Step, history, browser, Workers, WorkerSteps
  <2>3. QED
    BY <2>1, <2>2 DEF TypeOK, Return, Step, history, browser
<1>2. /\ page' = page /\ wire' = wire /\ sess' = sess /\ closed' = closed
      /\ launches' = launches
      /\ mem'.pending = mem.pending /\ mem'.leases = mem.leases /\ mem'.acks = mem.acks
      /\ mem'.up = mem.up /\ mem'.run = mem.run /\ mem'.quars = mem.quars
  BY DEF Return, Step, history, browser, TypeOK, Memory
<1>3. \A x \in Runs :
         /\ disk'[x].claim = disk[x].claim /\ disk'[x].cancel = disk[x].cancel
         /\ disk'[x].quar = disk[x].quar /\ disk'[x].rel = disk[x].rel
         /\ worker'[x].pc # "none" =>
                /\ worker[x].pc # "none" /\ worker'[x].inputs = worker[x].inputs
                /\ worker'[x].bad = worker[x].bad /\ worker'[x].mode = worker[x].mode
  BY DEF Return, Step, history, browser, TypeOK, Folders, Workers
<1>4. FolderInv'
  BY <1>3 DEF Return, Step, history, browser, FolderInv, TypeOK, Folders,
     Workers, Terminal
<1>5. (OneController /\ OutcomeHonest /\ CallInv)'
  <2>1. OneController'
    BY <1>2, <1>3 DEF Return, Step, history, browser, OneController, CallInv,
       FolderInv, TypeOK, Folders, Workers
  <2>2. OutcomeHonest'
    BY <1>3 DEF Return, Step, history, browser, OutcomeHonest, CallInv, TypeOK,
       Folders, Workers
  <2>3. CallInv'
    BY <1>3 DEF Return, Step, history, browser, CallInv, TypeOK, Folders,
       Workers
  <2>4. QED
    BY <2>1, <2>2, <2>3
<1>6. WorkInv'
  BY <1>2, <1>3 DEF Return, Step, history, browser, WorkInv, OneWorker, Live,
     Torn, Known, Damaged, TypeOK, Memory, Inputs, Workers, Folders, Terminal
<1>7. InputInv'
  BY <1>2, <1>3, InputsGoOn
<1>8. LeaseInv'
  BY <1>2, <1>3, LeasesGoOn DEF LeaseInv
<1>9. TurnInv' /\ Undisturbed'
  BY <1>2, TurnsGoOn
<1>10. QED
  BY <1>1, <1>4, <1>5, <1>6, <1>7, <1>8, <1>9 DEF WorkInv

(* The result tells of the inputs that were refused. *)
LEMMA SaveKeeps ==
    ASSUME RelayInv, NEW r \in Runs, Save(r)
    PROVE  RelayInv'
<1> USE BridgeAssumption DEF RelayInv, BridgeInv
<1>1. PICK status \in {"completed", "failed"} :
       /\ worker[r].pc = "save" /\ (status = "completed" => ~worker[r].bad)
       /\ disk' = [disk EXCEPT ![r].ctl = status]
       /\ mem' = [mem EXCEPT !.status = status]
       /\ worker' = [worker EXCEPT ![r].pc = "end"]
       /\ youngest' = r
  BY DEF Save, Step, Terminal
<1>2. UNCHANGED <<sess, browser, history>>
  BY DEF Save
<1>3. TypeOK'
  <2>1. disk' \in [Runs -> Folders]
    BY <1>1 DEF TypeOK, Folders, Terminal
  <2>2. mem' \in Memory
    BY <1>1 DEF TypeOK, Memory, Terminal
  <2>3. worker' \in [Runs -> Workers]
    BY <1>1, StepTypes DEF TypeOK, WorkerSteps
  <2>4. QED
    BY <1>1, <1>2, <2>1, <2>2, <2>3 DEF TypeOK, browser, history
<1>4. /\ page' = page /\ wire' = wire /\ sess' = sess /\ closed' = closed
      /\ launches' = launches
      /\ mem'.pending = mem.pending /\ mem'.leases = mem.leases /\ mem'.acks = mem.acks
      /\ mem'.up = mem.up /\ mem'.run = mem.run /\ mem'.quars = mem.quars
  BY <1>1, <1>2 DEF browser, history, TypeOK, Memory
<1>5. \A x \in Runs :
         /\ disk'[x].claim = disk[x].claim /\ disk'[x].cancel = disk[x].cancel
         /\ disk'[x].quar = disk[x].quar /\ disk'[x].rel = disk[x].rel
         /\ worker'[x].pc # "none" =>
                /\ worker[x].pc # "none" /\ worker'[x].inputs = worker[x].inputs
                /\ worker'[x].bad = worker[x].bad /\ worker'[x].mode = worker[x].mode
  BY <1>1, <1>2 DEF browser, history, TypeOK, Folders, Workers
<1>6. FolderInv'
  BY <1>1, <1>2, <1>5 DEF browser, history, FolderInv, TypeOK, Folders,
     Workers, Terminal
<1>7. (OneController /\ OutcomeHonest /\ CallInv)'
  <2>1. OneController'
    BY <1>1, <1>2, <1>4, <1>5 DEF browser, history, OneController, CallInv,
       FolderInv, TypeOK, Folders, Workers
  <2>2. OutcomeHonest'
    BY <1>1, <1>2, <1>5 DEF browser, history, OutcomeHonest, CallInv, TypeOK,
       Folders, Workers
  <2>3. CallInv'
    BY <1>1, <1>2, <1>5 DEF browser, history, CallInv, TypeOK, Folders, Workers
  <2>4. QED
    BY <2>1, <2>2, <2>3
<1>8. WorkInv'
  BY <1>1, <1>2, <1>4, <1>5 DEF browser, history, WorkInv, OneWorker, Live,
     Torn, Known, Damaged, TypeOK, Memory, Inputs, Workers, Folders, Terminal
<1>9. InputInv'
  BY <1>4, <1>5, InputsGoOn
<1>10. LeaseInv'
  BY <1>4, <1>5, LeasesGoOn DEF LeaseInv
<1>11. TurnInv' /\ Undisturbed'
  BY <1>4, TurnsGoOn
<1>12. QED
  BY <1>3, <1>6, <1>7, <1>8, <1>9, <1>10, <1>11 DEF WorkInv

(* failure.json says that the provider was not called only if so. *)
LEMMA FailKeeps ==
    ASSUME RelayInv, NEW r \in Runs, Fail(r)
    PROVE  RelayInv'
<1> USE BridgeAssumption DEF RelayInv, BridgeInv
<1>1. PICK said \in BOOLEAN :
       /\ worker[r].pc = "fail" /\ said \in {disk[r].said, disk[r].said \/ calls[r] = 0}
       /\ disk' = [disk EXCEPT ![r].said = said]
       /\ mem' = [mem EXCEPT !.status = "failed"]
       /\ worker' = [worker EXCEPT ![r].pc = "end"]
  <2>1. disk = [disk EXCEPT ![r].said = disk[r].said]
        /\ disk[r].said \in BOOLEAN
    BY DEF TypeOK, Folders
  <2>2. QED
    BY <2>1 DEF Fail, Step
<1>2. UNCHANGED <<youngest, sess, browser, history>>
  BY DEF Fail
<1>3. TypeOK'
  <2>1. disk' \in [Runs -> Folders]
    BY <1>1 DEF TypeOK, Folders, Terminal
  <2>2. mem' \in Memory
    BY <1>1 DEF TypeOK, Memory, Terminal
  <2>3. worker' \in [Runs -> Workers]
    BY <1>1, StepTypes DEF TypeOK, WorkerSteps
  <2>4. QED
    BY <1>1, <1>2, <2>1, <2>2, <2>3 DEF TypeOK, browser, history
<1>4. /\ page' = page /\ wire' = wire /\ sess' = sess /\ closed' = closed
      /\ launches' = launches
      /\ mem'.pending = mem.pending /\ mem'.leases = mem.leases /\ mem'.acks = mem.acks
      /\ mem'.up = mem.up /\ mem'.run = mem.run /\ mem'.quars = mem.quars
  BY <1>1, <1>2 DEF browser, history, TypeOK, Memory
<1>5. \A x \in Runs :
         /\ disk'[x].claim = disk[x].claim /\ disk'[x].cancel = disk[x].cancel
         /\ disk'[x].quar = disk[x].quar /\ disk'[x].rel = disk[x].rel
         /\ worker'[x].pc # "none" =>
                /\ worker[x].pc # "none" /\ worker'[x].inputs = worker[x].inputs
                /\ worker'[x].bad = worker[x].bad /\ worker'[x].mode = worker[x].mode
  BY <1>1, <1>2 DEF browser, history, TypeOK, Folders, Workers
<1>6. FolderInv'
  BY <1>1, <1>2, <1>5 DEF browser, history, FolderInv, TypeOK, Folders,
     Workers, Terminal
<1>7. (OneController /\ OutcomeHonest /\ CallInv)'
  <2>1. OneController'
    BY <1>1, <1>2, <1>4, <1>5 DEF browser, history, OneController, CallInv,
       FolderInv, TypeOK, Folders, Workers
  <2>2. OutcomeHonest'
    BY <1>1, <1>2, <1>5 DEF browser, history, OutcomeHonest, CallInv, TypeOK,
       Folders, Workers
  <2>3. CallInv'
    BY <1>1, <1>2, <1>5 DEF browser, history, CallInv, TypeOK, Folders, Workers
  <2>4. QED
    BY <2>1, <2>2, <2>3
<1>8. WorkInv'
  BY <1>1, <1>2, <1>4, <1>5 DEF browser, history, WorkInv, OneWorker, Live,
     Torn, Known, Damaged, TypeOK, Memory, Inputs, Workers, Folders, Terminal
<1>9. InputInv'
  BY <1>4, <1>5, InputsGoOn
<1>10. LeaseInv'
  BY <1>4, <1>5, LeasesGoOn DEF LeaseInv
<1>11. TurnInv' /\ Undisturbed'
  BY <1>4, TurnsGoOn
<1>12. QED
  BY <1>3, <1>6, <1>7, <1>8, <1>9, <1>10, <1>11 DEF WorkInv

-----------------------------------------------------------------------------
(* The bounds are numbers. *)
LEMMA BoundTypes == MaxInputs \in Nat /\ MaxFaults \in Nat /\ MaxIds \in Nat
                    /\ MaxTurns \in Nat /\ 0 \in 0..MaxInputs
BY BridgeAssumption

(* A claimed run is a folder still. *)
LEMMA ClaimTypes ==
    ASSUME disk \in [Runs -> Folders], NEW r \in Runs,
           NEW ctl \in {"none", "missing", "requesting", "failed"}
    PROVE  [disk EXCEPT ![r].claim = TRUE, ![r].ctl = ctl] \in [Runs -> Folders]
<1>1. disk[r] \in Folders
  OBVIOUS
<1>2. [disk[r] EXCEPT !.claim = TRUE, !.ctl = ctl] \in Folders
  BY <1>1 DEF Folders, Terminal
<1>3. [disk EXCEPT ![r] = [disk[r] EXCEPT !.claim = TRUE, !.ctl = ctl]] \in [Runs -> Folders]
  BY <1>2
<1>4. QED
  BY <1>3

(* What start() has made sure of before it claims anything. *)
LEMMA StartFacts ==
    ASSUME RelayInv, NEW r \in Runs, MayStart(r)
    PROVE  /\ mem.up /\ ~disk[r].claim /\ disk[r].ctl = "none" /\ ~disk[r].cancel
           /\ mem.quars = {} /\ mem.leases = {} /\ mem.pending = NoInput
           /\ \A x \in Runs : worker[x].pc = "none"
           /\ disk[r].quar = 0 /\ launches[r] = 0 /\ calls[r] = 0
           /\ disk[r].api = "none" /\ r \notin closed
BY BridgeAssumption DEF RelayInv, MayStart, Busy, Live, Cancelled, FolderInv, LeaseInv

(* The new controller finds nothing of an earlier one. *)
LEMMA StartKeeps ==
    ASSUME RelayInv, NEW r \in Runs, NEW leased \in BOOLEAN, NEW way \in Modes,
           Start(r, leased, way)
    PROVE  RelayInv'
<1> USE BridgeAssumption DEF RelayInv, BridgeInv
<1>1. MayStart(r) /\ youngest' = r /\ UNCHANGED <<sess, browser, calls, faults, closed>>
  BY DEF Start
<1>2. /\ mem.up /\ ~disk[r].claim /\ disk[r].ctl = "none" /\ ~disk[r].cancel
      /\ mem.quars = {} /\ mem.leases = {} /\ mem.pending = NoInput
      /\ \A x \in Runs : worker[x].pc = "none"
      /\ disk[r].quar = 0 /\ launches[r] = 0 /\ calls[r] = 0
      /\ disk[r].api = "none" /\ r \notin closed
  BY <1>1, StartFacts
<1>3. PICK ctl \in {"requesting", "failed"}, status \in {"requesting", "failed"} :
         /\ disk' = [disk EXCEPT ![r].claim = TRUE, ![r].ctl = ctl]
         /\ mem'.run = r /\ mem'.status = status /\ mem' \in Memory
         /\ mem'.up = mem.up /\ mem'.quars = mem.quars /\ mem'.acks = mem.acks
         /\ mem'.pending = mem.pending /\ mem'.leases \subseteq {r}
         /\ leased \/ mem'.leases = {}
         /\ status = "failed" => worker' = worker /\ launches' = launches
         /\ status = "requesting" =>
                /\ worker' = [worker EXCEPT ![r] = [NoWorker EXCEPT !.pc = "prepare",
                                                                  !.mode = way]]
                /\ launches' = [launches EXCEPT ![r] = @ + 1]
  <2>1. CASE /\ mem' = [mem EXCEPT !.run = r, !.status = "failed", !.acked = FALSE]
             /\ \E ctl \in {"failed", "requesting"} :
                    disk' = [disk EXCEPT ![r].claim = TRUE, ![r].ctl = ctl]
             /\ UNCHANGED <<worker, launches>>
    BY <1>2, <2>1 DEF TypeOK, Memory, Terminal
  <2>2. CASE /\ disk' = [disk EXCEPT ![r].claim = TRUE, ![r].ctl = "requesting"]
             /\ mem' = [mem EXCEPT !.run = r, !.status = "requesting", !.acked = FALSE,
                                   !.leases = IF leased THEN @ \cup {r} ELSE @]
             /\ worker' = [worker EXCEPT ![r] = [NoWorker EXCEPT !.pc = "prepare",
                                                               !.mode = way]]
             /\ launches' = [launches EXCEPT ![r] = @ + 1]
    BY <1>2, <2>2 DEF TypeOK, Memory, Terminal
  <2>3. QED
    BY <2>1, <2>2 DEF Start
<1>4. way \in {"script", "api", "adaptive"}
  OBVIOUS
<1>5. TypeOK'
  <2>1. disk' \in [Runs -> Folders]
    BY <1>3, ClaimTypes DEF TypeOK
  <2>2. worker' \in [Runs -> Workers]
    <3>1. [NoWorker EXCEPT !.pc = "prepare", !.mode = way] \in Workers
      BY <1>4, BoundTypes DEF Workers, NoWorker, WorkerSteps
    <3>2. QED
      BY <1>3, <3>1 DEF TypeOK
  <2>3. launches' \in [Runs -> Nat]
    BY <1>3 DEF TypeOK
  <2>4. QED
    BY <1>1, <1>3, <2>1, <2>2, <2>3 DEF TypeOK, browser
<1>6. /\ page' = page /\ wire' = wire /\ sess' = sess /\ closed' = closed /\ calls' = calls
      /\ \A x \in Runs : x # r => disk'[x] = disk[x] /\ worker'[x] = worker[x]
                                  /\ launches'[x] = launches[x]
      /\ disk'[r].claim /\ disk'[r].ctl \in {"requesting", "failed"}
      /\ disk'[r].cancel = disk[r].cancel /\ disk'[r].said = disk[r].said
      /\ disk'[r].quar = disk[r].quar /\ disk'[r].rel = disk[r].rel
      /\ disk'[r].api = disk[r].api
      /\ worker'[r].pc \in {"none", "prepare"}
      /\ worker'[r].pc # "none" => launches'[r] = 1
      /\ launches'[r] \in {0, 1}
  BY <1>1, <1>2, <1>3 DEF TypeOK, Folders, browser
<1>7. FolderInv'
  BY <1>1, <1>2, <1>6 DEF FolderInv
<1>8. (OneController /\ OutcomeHonest /\ CallInv)'
  <2>1. worker'[r].pc # "none" => worker'[r].pc = "prepare"
    BY <1>6
  <2>2. OneController'
    BY <1>2, <1>6 DEF OneController
  <2>3. OutcomeHonest'
    BY <1>2, <1>6 DEF OutcomeHonest
  <2>4. CallInv'
    <3>1. disk[r].said => disk[r].cancel
      BY <1>2 DEF FolderInv
    <3>2. QED
      BY <3>1, <1>2, <1>6, <2>1 DEF CallInv
  <2>5. QED
    BY <2>2, <2>3, <2>4
<1>9. WorkInv'
  BY <1>2, <1>3, <1>6 DEF WorkInv, OneWorker, Live, Torn, Known, Damaged, TypeOK, Workers
<1>10. InputInv'
  <2>1. \A x \in Runs : disk[x].claim => disk'[x].claim
    BY <1>6
  <2>2. \A x \in Runs : disk[x].claim => worker'[x].pc = "none"
    BY <1>2, <1>6
  <2>3. QED
    BY <1>3, <1>6, <2>1, <2>2, InputsGoOn
<1>11. LeaseInv'
  BY <1>2, <1>3, <1>6, LeasesGoOn
<1>12. TurnInv' /\ Undisturbed'
  <2>1. CASE ~leased
    BY <1>2, <1>3, <1>6, <2>1, TurnsGoOn
  <2>2. CASE leased
    <3>1. sess.want = "game" /\ sess.acked
      BY <2>2 DEF Start, Connected
    <3>2. QED
      BY <1>6, <3>1 DEF TurnInv, Undisturbed
  <2>3. QED
    BY <2>1, <2>2
<1>13. QED
  BY <1>5, <1>7, <1>8, <1>9, <1>10, <1>11, <1>12 DEF WorkInv

(* Nothing of what is under way can be heard any more: the threads, the    *)
(* memory and the session are gone.                                        *)
LEMMA DiesKeeps ==
    ASSUME RelayInv, Dies, page' = page, wire' = wire, closed' = closed,
           \A r \in Runs : /\ disk[r].claim => disk'[r].claim
                           /\ disk[r].cancel => disk'[r].cancel
    PROVE  InputInv' /\ LeaseInv' /\ TurnInv' /\ Undisturbed' /\ WorkInv'
           /\ mem' \in Memory /\ sess' \in Sessions /\ worker' \in [Runs -> Workers]
<1> USE BridgeAssumption DEF RelayInv, BridgeInv
<1>1. /\ mem'.up = FALSE /\ mem'.run = None /\ mem'.status = "idle" /\ mem'.pending = NoInput
      /\ mem'.leases = {} /\ mem'.acks = {} /\ mem'.quars = {} /\ mem' \in Memory
  BY DEF Dies, Down, ColdStart, Memory
<1>2. worker' \in [Runs -> Workers] /\ \A r \in Runs : worker'[r].pc = "none"
  BY DEF Dies, NoWorker, Workers, WorkerSteps
<1>3. sess' = NoSession(sess.turns) /\ sess' \in Sessions
  BY DEF Dies, NoSession, TypeOK, Sessions, Places
<1>4. InputInv'
  BY <1>1, <1>2, InputsGoOn
<1>5. LeaseInv'
  BY <1>1, <1>2, LeasesGoOn
<1>6. TurnInv' /\ Undisturbed'
  BY <1>1, <1>3, TurnsGoOn
<1>7. WorkInv'
  BY <1>1, <1>2 DEF WorkInv, OneWorker, Live
<1>8. QED
  BY <1>1, <1>2, <1>3, <1>4, <1>5, <1>6, <1>7

(* A claim without a folder, or a folder without a controller.json, has    *)
(* launched nothing, whether the server has died or has only refused.      *)
LEMMA StartFailsKeeps ==
    ASSUME RelayInv, NEW r \in Runs, StartFails(r)
    PROVE  RelayInv'
<1> USE BridgeAssumption DEF RelayInv, BridgeInv
<1>1. MayStart(r) /\ UNCHANGED <<browser, calls, launches, closed>>
      /\ faults' \in 0..MaxFaults
  BY DEF StartFails, Fault, TypeOK
<1>2. PICK ctl \in {"none", "missing", "requesting"} :
         /\ disk' = [disk EXCEPT ![r].claim = TRUE, ![r].ctl = ctl]
         /\ youngest' = IF ctl = "none" THEN youngest ELSE r
         /\ Dies \/ UNCHANGED <<mem, worker, sess>>
  BY DEF StartFails
<1>3. /\ ~disk[r].claim /\ disk[r].ctl = "none" /\ disk[r].quar = 0 /\ launches[r] = 0
      /\ mem.up /\ \A x \in Runs : worker[x].pc = "none"
  BY <1>1, StartFacts
<1>4. disk' \in [Runs -> Folders]
  BY <1>2, ClaimTypes DEF TypeOK
<1>5. \A x \in Runs :
         /\ x # r => disk'[x] = disk[x]
         /\ disk[x].claim => disk'[x].claim
         /\ disk'[x].cancel = disk[x].cancel /\ disk'[x].said = disk[x].said
         /\ disk'[x].quar = disk[x].quar /\ disk'[x].api = disk[x].api
  BY <1>2 DEF TypeOK, Folders
<1>6. disk'[r].ctl = ctl /\ disk'[r].claim
  BY <1>2 DEF TypeOK, Folders
<1>7. InputInv' /\ LeaseInv' /\ TurnInv' /\ Undisturbed' /\ WorkInv'
      /\ mem' \in Memory /\ sess' \in Sessions /\ worker' \in [Runs -> Workers]
  <2>1. CASE Dies
    BY <1>1, <1>5, <2>1, DiesKeeps DEF browser
  <2>2. CASE UNCHANGED <<mem, worker, sess>>
    <3>1. mem' = mem /\ worker' = worker /\ sess' = sess /\ page' = page /\ wire' = wire
          /\ closed' = closed /\ launches' = launches
      BY <1>1, <2>2 DEF browser
    <3>2. InputInv'
      BY <1>5, <3>1, InputsGoOn
    <3>3. LeaseInv'
      BY <1>5, <3>1, LeasesGoOn
    <3>4. TurnInv' /\ Undisturbed'
      BY <3>1, TurnsGoOn
    <3>5. Live' = Live /\ Torn' \subseteq Torn \cup {r} /\ Damaged' \subseteq Damaged
      BY <1>2, <1>3, <1>5, <3>1 DEF Live, Torn, Known, Damaged, TypeOK, Folders
    <3>held. \A x \in mem.quars : disk'[x].quar = disk[x].quar
      BY <1>5 DEF TypeOK, Memory
    <3>6. OneWorker'
      BY <1>3, <3>1, <3>5, <3>held DEF WorkInv, OneWorker
    <3>7. mem.run # None => disk'[mem.run].ctl # "none"
      BY <1>3, <1>5, <1>6 DEF WorkInv, TypeOK, Memory
    <3>8. WorkInv'
      BY <3>1, <3>6, <3>7 DEF WorkInv
    <3>9. QED
      BY <3>1, <3>2, <3>3, <3>4, <3>8 DEF TypeOK
  <2>3. QED
    BY <1>2, <2>1, <2>2
<1>8. \A x \in Runs : worker'[x].pc = "none"
  BY <1>2, <1>3 DEF Dies, NoWorker
<1>9. TypeOK'
  BY <1>1, <1>2, <1>4, <1>7 DEF TypeOK, browser
<1>10. FolderInv'
  <2>1. youngest' # None => disk'[youngest'].ctl # "none"
    <3>1. CASE ctl = "none"
      BY <1>2, <1>3, <1>5, <3>1 DEF FolderInv, TypeOK
    <3>2. CASE ctl # "none"
      BY <1>2, <1>6, <3>2
    <3>3. QED
      BY <3>1, <3>2
  <2>2. \A x \in Runs :
           /\ disk'[x].ctl = "none" => disk'[x].quar = 0
           /\ disk'[x].ctl \in {"missing", "corrupt"} => disk'[x].quar < MaxIds
    BY <1>3, <1>5 DEF FolderInv
  <2>3. \A x \in Runs :
           ~disk'[x].claim => /\ launches'[x] = 0 /\ calls'[x] = 0 /\ disk'[x].api = "none"
                              /\ disk'[x].ctl = "none"
                              /\ (disk'[x].said => disk'[x].cancel)
    BY <1>1, <1>3, <1>5, <1>6 DEF FolderInv
  <2>4. QED
    BY <1>8, <2>1, <2>2, <2>3 DEF FolderInv
<1>11. (OneController /\ OutcomeHonest /\ CallInv)'
  BY <1>1, <1>5, <1>8 DEF OneController, OutcomeHonest, CallInv
<1>12. QED
  BY <1>7, <1>9, <1>10, <1>11 DEF WorkInv

-----------------------------------------------------------------------------
(* The input is younger than every command of its run under way. *)
LEMMA InputKeeps ==
    ASSUME RelayInv, NEW r \in Runs, Input(r)
    PROVE  RelayInv'
<1> USE BridgeAssumption DEF RelayInv, BridgeInv
<1>1. /\ worker[r].pc = "play" /\ worker[r].inputs < MaxInputs /\ mem.pending = NoInput
      /\ worker' = [worker EXCEPT ![r].pc = "input", ![r].inputs = @ + 1]
      /\ mem' = [mem EXCEPT !.pending = [run |-> r, n |-> worker[r].inputs + 1,
                                         sent |-> FALSE, ack |-> "none"]]
  BY DEF Input, browser, history
<1>2. /\ disk' = disk /\ youngest' = youngest /\ sess' = sess /\ page' = page
      /\ wire' = wire /\ calls' = calls /\ launches' = launches /\ faults' = faults
      /\ closed' = closed
  BY DEF Input, browser, history
<1>3. worker[r].pc = "play" /\ mem.pending = NoInput
  BY <1>1
<1>4. mem'.pending.run = r /\ mem'.pending.n = worker[r].inputs + 1 /\ ~mem'.pending.sent
      /\ mem'.pending # NoInput
  BY <1>1 DEF TypeOK, Memory, NoInput
<1>5. worker[r].inputs + 1 \in 1..MaxInputs
  BY <1>1, BoundTypes DEF TypeOK, Workers
<1>6. /\ mem'.up = mem.up /\ mem'.run = mem.run /\ mem'.status = mem.status
      /\ mem'.leases = mem.leases /\ mem'.acks = mem.acks /\ mem'.quars = mem.quars
      /\ mem'.pending = [run |-> r, n |-> worker[r].inputs + 1, sent |-> FALSE, ack |-> "none"]
  BY <1>1 DEF TypeOK, Memory
<1>7. mem' \in Memory
  <2>1. mem'.pending \in Inputs
    BY <1>5, <1>6 DEF Inputs
  <2>2. QED
    BY <1>1, <2>1 DEF TypeOK, Memory
<1>8. \A x \in Runs : /\ x # r => worker'[x] = worker[x]
                      /\ worker'[x].bad = worker[x].bad /\ worker'[x].mode = worker[x].mode
  BY <1>1 DEF TypeOK, Workers
<1>9. worker'[r].pc = "input" /\ worker'[r].inputs = worker[r].inputs + 1
  BY <1>1 DEF TypeOK, Workers
<1>10. worker' \in [Runs -> Workers]
  BY <1>1, <1>5 DEF TypeOK, Workers, WorkerSteps
<1>11. TypeOK'
  BY <1>2, <1>7, <1>10 DEF TypeOK
<1>12. FolderInv'
  BY <1>2, <1>3, <1>8, <1>9 DEF FolderInv
<1>13. (OneController /\ OutcomeHonest /\ CallInv)'
  BY <1>2, <1>3, <1>8, <1>9 DEF OneController, OutcomeHonest, CallInv
<1>14. WorkInv'
  <2>1. r \in Live /\ mem.run = r
    BY <1>1 DEF WorkInv, OneWorker, Live
  <2>2. Live' = Live /\ Torn' = Torn /\ Damaged' = Damaged
    BY <1>2, <1>3, <1>8, <1>9, <2>1 DEF Live, Torn, Known, Damaged
  <2>3. OneWorker'
    BY <1>2, <1>6, <1>4, <2>1, <2>2 DEF WorkInv, OneWorker
  <2>4. QED
    <3>1. \A x \in Runs : worker'[x].pc = "end" =>
             mem'.status \in Terminal /\ (mem'.status = "completed" => ~worker'[x].bad)
      BY <1>6, <1>8, <1>9 DEF WorkInv
    <3>2. mem'.up
      BY <1>6, <2>1 DEF WorkInv, OneWorker
    <3>3. QED
      BY <1>2, <1>6, <1>4, <1>9, <2>1, <2>3, <3>1, <3>2 DEF WorkInv
<1>15. InputInv'
  <2>1. Commanded' = Commanded /\ Reported' = Reported
    BY <1>2 DEF Commanded, Reported
  <2>2. \A c \in Commanded \cup Reported : c.run \in Runs /\ c.n \in Nat
    BY BoundTypes DEF TypeOK, Pages, Replies, Frames, Acks, Commands, Commanded, Reported
  <2>3. \A c \in Commanded \cup Reported : Fresh(c) => Fresh(c)'
    <3>1. TAKE c \in Commanded \cup Reported
    <3>2. c.run \in Runs /\ c.n \in Nat
      BY <2>2
    <3>3. worker[r].inputs \in Nat /\ worker[r].pc # "none"
      BY <1>3, BoundTypes DEF TypeOK, Workers
    <3>4. CASE c.run = r
      <4>1. Fresh(c) => c.n <= worker[r].inputs /\ disk[r].claim
        BY <3>3, <3>4 DEF Fresh
      <4>2. c.n <= worker[r].inputs /\ disk[r].claim => Fresh(c)'
        BY <1>2, <1>4, <1>9, <3>3, <3>2, <3>4 DEF Fresh
      <4>3. QED
        BY <4>1, <4>2
    <3>5. CASE c.run # r
      BY <1>2, <1>4, <1>8, <3>2, <3>5 DEF Fresh
    <3>6. QED
      BY <3>4, <3>5
  <2>4. \A c \in Commanded : Current(c) => Current(c)'
    <3>1. TAKE c \in Commanded
    <3>2. c.run \in Runs
      BY <2>2
    <3>3. mem.pending.run # c.run
      BY <1>3, <3>2 DEF NoInput
    <3>4. QED
      <4>1. Current(c) => worker[c.run].pc = "none" \/ worker[c.run].bad
        BY <3>3 DEF Current
      <4>2. worker[c.run].pc = "none" => worker'[c.run].pc = "none"
        BY <1>3, <1>8, <3>2
      <4>3. QED
        BY <1>8, <3>2, <4>1, <4>2 DEF Current
  <2>5. QED
    BY <1>2, <2>1, <2>3, <2>4 DEF InputInv
<1>16. LeaseInv'
  BY <1>2, <1>3, <1>6, <1>8, LeasesGoOn
<1>17. TurnInv' /\ Undisturbed'
  BY <1>2, <1>6, TurnsGoOn
<1>18. QED
  BY <1>11, <1>12, <1>13, <1>14, <1>15, <1>16, <1>17 DEF WorkInv

(* What is given up makes the run a bad one, what was accepted is over. *)
LEMMA InputEndsKeeps ==
    ASSUME RelayInv, NEW r \in Runs, InputEnds(r)
    PROVE  RelayInv'
<1> USE BridgeAssumption DEF RelayInv, BridgeInv
<1>1. PICK bad \in BOOLEAN :
         /\ ~bad => mem.pending.ack = "ok"
         /\ worker' = [worker EXCEPT ![r].pc = "play", ![r].bad = @ \/ bad]
  BY DEF InputEnds
<1>2. /\ worker[r].pc = "input" /\ mem' = [mem EXCEPT !.pending = NoInput]
      /\ UNCHANGED <<disk, youngest, sess, page, wire, calls, launches, faults, closed>>
  BY DEF InputEnds, browser, history
<1>3. /\ mem'.up = mem.up /\ mem'.run = mem.run /\ mem'.status = mem.status
      /\ mem'.leases = mem.leases /\ mem'.acks = mem.acks /\ mem'.quars = mem.quars
      /\ mem'.pending = NoInput
  BY <1>2 DEF TypeOK, Memory
<1>4. mem' \in Memory
  BY <1>2 DEF TypeOK, Memory
<1>5. \A x \in Runs : /\ x # r => worker'[x] = worker[x]
                      /\ worker'[x].inputs = worker[x].inputs
                      /\ worker'[x].mode = worker[x].mode
  BY <1>1 DEF TypeOK, Workers
<1>6. worker'[r].pc = "play" /\ worker'[r].bad = (worker[r].bad \/ bad)
  BY <1>1 DEF TypeOK, Workers
<1>7. worker' \in [Runs -> Workers]
  <2>1. worker[r] \in Workers
    BY DEF TypeOK
  <2>2. [worker[r] EXCEPT !.pc = "play", !.bad = @ \/ bad] \in Workers
    BY <2>1 DEF Workers, WorkerSteps
  <2>3. QED
    BY <1>1, <2>2 DEF TypeOK
<1>8. TypeOK'
  BY <1>2, <1>4, <1>7 DEF TypeOK
<1>9. FolderInv'
  BY <1>2, <1>5, <1>6 DEF FolderInv
<1>10. (OneController /\ OutcomeHonest /\ CallInv)'
  BY <1>2, <1>5, <1>6 DEF OneController, OutcomeHonest, CallInv
<1>11. r \in Live /\ mem.run = r /\ \A x \in Runs : x # r => worker[x].pc = "none"
  BY <1>2 DEF WorkInv, OneWorker, Live
<1>12. WorkInv'
  <2>1. Live' = Live /\ Torn' = Torn /\ Damaged' = Damaged
    BY <1>2, <1>5, <1>6, <1>11 DEF Live, Torn, Known, Damaged
  <2>2. OneWorker'
    BY <1>2, <1>3, <2>1 DEF WorkInv, OneWorker
  <2>3. QED
    BY <1>2, <1>3, <1>5, <1>6, <2>2 DEF WorkInv
<1>13. InputInv'
  <2>1. Commanded' = Commanded /\ Reported' = Reported
    BY <1>2 DEF Commanded, Reported
  <2>2. \A c \in Commanded \cup Reported : c.run \in Runs
    BY DEF TypeOK, Pages, Replies, Frames, Acks, Commands, Commanded, Reported
  <2>3. \A c \in Commanded \cup Reported : Fresh(c) => Fresh(c)'
    <3>1. TAKE c \in Commanded \cup Reported
    <3>2. c.run \in Runs /\ NoInput.run # c.run
      BY <2>2 DEF NoInput
    <3>3. worker'[c.run].pc # "none" => worker[c.run].pc # "none"
      BY <1>2, <1>5, <3>2
    <3>4. QED
      BY <1>2, <1>3, <1>5, <3>2, <3>3 DEF Fresh
  <2>4. \A c \in Commanded : Current(c) => Current(c)'
    <3>1. TAKE c \in Commanded
    <3>2. c.run \in Runs
      BY <2>2
    <3>3. CASE c.run = r
      BY <1>1, <1>2, <1>6, <3>3 DEF Current
    <3>4. CASE c.run # r
      BY <1>5, <1>11, <3>2, <3>4 DEF Current
    <3>5. QED
      BY <3>3, <3>4
  <2>5. QED
    BY <1>2, <2>1, <2>3, <2>4 DEF InputInv
<1>14. LeaseInv'
  <2>1. \A x \in Runs : worker[x].pc = "none" => worker'[x].pc = "none"
    BY <1>2, <1>5
  <2>2. QED
    BY <1>2, <1>3, <2>1, LeasesGoOn
<1>15. TurnInv' /\ Undisturbed'
  BY <1>2, <1>3, TurnsGoOn
<1>16. QED
  BY <1>8, <1>9, <1>10, <1>12, <1>13, <1>14, <1>15 DEF WorkInv

(* The worker closes the descriptors only if the run has not failed, and a *)
(* run that has not has no command under way.                              *)
LEMMA EndKeeps ==
    ASSUME RelayInv, NEW r \in Runs, End(r)
    PROVE  RelayInv'
<1> USE BridgeAssumption DEF RelayInv, BridgeInv
<1>1. /\ worker[r].pc = "end" /\ worker' = [worker EXCEPT ![r] = NoWorker]
      /\ closed' = IF r \in mem.leases /\ ~Retained(r) THEN closed \cup {r} ELSE closed
  BY DEF End
<1>2. /\ sess' = sess /\ page' = page /\ wire' = wire /\ calls' = calls
      /\ launches' = launches /\ faults' = faults
  BY DEF End, browser
<1>3. PICK status \in {mem.status, "failed"} :
         mem' = [mem EXCEPT !.leases = IF Retained(r) THEN @ ELSE @ \ {r}, !.status = status]
  <2>1. mem = [mem EXCEPT !.status = mem.status]
    BY DEF TypeOK, Memory
  <2>2. [mem EXCEPT !.leases = IF Retained(r) THEN @ ELSE @ \ {r}]
         = [mem EXCEPT !.leases = IF Retained(r) THEN @ ELSE @ \ {r}, !.status = mem.status]
    BY <2>1 DEF TypeOK, Memory
  <2>3. QED
    BY <2>2 DEF End
<1>4. /\ mem.status \in Terminal /\ mem.run = r /\ mem.up /\ mem.pending = NoInput
      /\ (mem.status = "completed" => ~worker[r].bad)
      /\ \A x \in Runs : x # r => worker[x].pc = "none"
  BY <1>1 DEF WorkInv, OneWorker, Live
<1>5. PICK cancel \in BOOLEAN, said \in BOOLEAN, ctl \in {"completed", "failed", disk[r].ctl} :
         /\ disk' = [disk EXCEPT ![r].cancel = cancel, ![r].said = said, ![r].ctl = ctl]
         /\ disk[r].cancel => cancel
         /\ said => disk[r].said \/ calls[r] = 0
         /\ youngest' = r \/ (youngest' = youngest /\ ctl = disk[r].ctl)
         /\ ctl # disk[r].ctl => youngest' = r /\ ctl = mem.status
  <2> DEFINE told == [disk EXCEPT ![r].cancel = TRUE, ![r].said = @ \/ calls[r] = 0]
  <2>1. PICK written \in {disk, told} :
           \/ disk' = [written EXCEPT ![r].ctl = mem.status] /\ youngest' = r
           \/ disk' = written /\ youngest' = youngest
    BY DEF End
  <2>2. disk[r] \in Folders
    BY DEF TypeOK
  <2>3. PICK cancel \in BOOLEAN, said \in BOOLEAN :
           /\ written = [disk EXCEPT ![r].cancel = cancel, ![r].said = said]
           /\ disk[r].cancel => cancel
           /\ said => disk[r].said \/ calls[r] = 0
    <3>1. CASE written = disk
      <4>1. disk = [disk EXCEPT ![r].cancel = disk[r].cancel, ![r].said = disk[r].said]
        BY DEF TypeOK, Folders
      <4>2. disk[r].cancel \in BOOLEAN /\ disk[r].said \in BOOLEAN
        BY <2>2 DEF Folders
      <4>3. QED
        BY <3>1, <4>1, <4>2
    <3>2. CASE written = told
      <4>1. told = [disk EXCEPT ![r].cancel = TRUE, ![r].said = (disk[r].said \/ calls[r] = 0)]
        OBVIOUS
      <4>2. (disk[r].said \/ calls[r] = 0) \in BOOLEAN
        OBVIOUS
      <4>3. QED
        BY <3>2, <4>1, <4>2
    <3>3. QED
      BY <3>1, <3>2
  <2>4. [disk EXCEPT ![r].cancel = cancel, ![r].said = said]
         = [disk EXCEPT ![r].cancel = cancel, ![r].said = said, ![r].ctl = disk[r].ctl]
    <3>1. [disk[r] EXCEPT !.cancel = cancel, !.said = said]
           = [disk[r] EXCEPT !.cancel = cancel, !.said = said, !.ctl = disk[r].ctl]
      BY <2>2 DEF Folders
    <3>2. QED
      BY <3>1 DEF TypeOK
  <2>5. [[disk EXCEPT ![r].cancel = cancel, ![r].said = said] EXCEPT ![r].ctl = mem.status]
            = [disk EXCEPT ![r].cancel = cancel, ![r].said = said, ![r].ctl = mem.status]
    BY <2>2 DEF TypeOK
  <2>6. \E ctl \in {"completed", "failed", disk[r].ctl} :
           /\ disk' = [disk EXCEPT ![r].cancel = cancel, ![r].said = said, ![r].ctl = ctl]
           /\ youngest' = r \/ (youngest' = youngest /\ ctl = disk[r].ctl)
           /\ ctl # disk[r].ctl => youngest' = r /\ ctl = mem.status
    BY <1>4, <2>1, <2>3, <2>4, <2>5 DEF Terminal
  <2>7. QED
    BY <2>3, <2>6
<1>6. /\ mem'.up = mem.up /\ mem'.run = mem.run /\ mem'.pending = mem.pending
      /\ mem'.acks = mem.acks /\ mem'.quars = mem.quars /\ mem'.leases \subseteq mem.leases
      /\ mem'.status \in Terminal /\ mem' \in Memory
  BY <1>3, <1>4 DEF TypeOK, Memory, Terminal
<1>7. worker' \in [Runs -> Workers] /\ \A x \in Runs : worker'[x].pc = "none"
  BY <1>1, <1>4, BoundTypes DEF TypeOK, Workers, NoWorker, WorkerSteps
<1>8. disk' \in [Runs -> Folders]
  <2>1. disk[r] \in Folders
    BY DEF TypeOK
  <2>2. [disk[r] EXCEPT !.cancel = cancel, !.said = said, !.ctl = ctl] \in Folders
    BY <2>1 DEF Folders, Terminal
  <2>3. QED
    BY <1>5, <2>2 DEF TypeOK
<1>9. TypeOK'
  <2>1. closed' \subseteq Runs
    BY <1>1 DEF TypeOK
  <2>2. youngest' \in Runs \cup {None}
    BY <1>5 DEF TypeOK
  <2>3. QED
    BY <1>2, <1>6, <1>7, <1>8, <2>1, <2>2 DEF TypeOK
<1>10. \A x \in Runs :
          /\ x # r => disk'[x] = disk[x]
          /\ disk'[x].claim = disk[x].claim /\ (disk[x].cancel => disk'[x].cancel)
          /\ disk'[x].quar = disk[x].quar /\ disk'[x].rel = disk[x].rel
          /\ disk'[x].api = disk[x].api
          /\ disk'[x].said => disk[x].said \/ calls[x] = 0
          /\ disk'[x].ctl \in {disk[x].ctl, "completed", "failed"}
  BY <1>5 DEF TypeOK, Folders
<1>11. disk[r].claim
  BY <1>1 DEF FolderInv
<1>12. disk'[r].ctl # disk[r].ctl => youngest' = r /\ disk'[r].ctl \in Terminal
  BY <1>4, <1>5 DEF TypeOK, Folders
<1>13. FolderInv'
  <2>1. youngest' # None => disk'[youngest'].ctl # "none"
    <3>1. disk[r].ctl # "none"
      BY <1>1 DEF FolderInv
    <3>2. QED
      BY <1>5, <1>10, <1>12, <3>1 DEF FolderInv, TypeOK, Terminal
  <2>2. QED
    BY <1>2, <1>7, <1>10, <1>11, <2>1 DEF FolderInv
<1>14. (OneController /\ OutcomeHonest /\ CallInv)'
  BY <1>2, <1>7, <1>10 DEF OneController, OutcomeHonest, CallInv
<1>15. WorkInv'
  <2>1. Torn' \subseteq Torn /\ Damaged' = Damaged
    BY <1>10 DEF Torn, Known, Damaged
  <2>held. \A x \in mem.quars : disk'[x].quar = disk[x].quar
    BY <1>10 DEF TypeOK, Memory
  <2>2. OneWorker'
    BY <1>2, <1>4, <1>6, <1>7, <2>1, <2>held DEF WorkInv, OneWorker, Live
  <2>3. disk'[r].ctl # "none"
    BY <1>1, <1>10 DEF FolderInv
  <2>4. QED
    BY <1>4, <1>6, <1>7, <2>2, <2>3 DEF WorkInv, Terminal
<1>16. InputInv'
  BY <1>2, <1>6, <1>7, <1>10, InputsGoOn
<1>17. LeaseInv'
  <2>1. r \in closed' => r \in closed \/ Silent(r)
    <3>1. CASE r \in mem.acks
      BY <3>1 DEF LeaseInv
    <3>2. CASE r \notin mem.acks /\ r \in closed' /\ r \notin closed
      <4>1. ~worker[r].bad
        BY <1>1, <1>4, <3>2 DEF Retained, Terminal
      <4>2. \A c \in Commanded : c.run # r
        <5>1. mem.pending.run # r
          BY <1>4 DEF NoInput
        <5>2. QED
          BY <1>1, <4>1, <5>1 DEF InputInv, Current
      <4>3. QED
        BY <4>2 DEF Silent, Commanded, PageActs
    <3>3. QED
      BY <3>1, <3>2
  <2>2. \A x \in Runs : Silent(x)' <=> Silent(x)
    BY <1>2 DEF Silent, PageActs
  <2>3. closed' \subseteq closed \cup {r} /\ closed \subseteq Runs
    BY <1>1 DEF TypeOK
  <2>4. \A x \in closed' : worker'[x].pc = "none" /\ disk'[x].claim /\ Silent(x)'
    BY <1>7, <1>10, <1>11, <2>1, <2>2, <2>3 DEF LeaseInv
  <2>5. QED
    BY <1>2, <1>6, <1>10, <2>2, <2>4 DEF LeaseInv
<1>18. TurnInv' /\ Undisturbed'
  BY <1>2, <1>6, TurnsGoOn
<1>19. QED
  BY <1>9, <1>13, <1>14, <1>15, <1>16, <1>17, <1>18 DEF WorkInv

(* The outcome of no input is none. *)
LEMMA NothingIsAcked == [NoInput EXCEPT !.ack = "none"] = NoInput
<1>1. \A p \in [run : {None}, n : {0}, sent : {FALSE}, ack : {"none"}] :
         [p EXCEPT !.ack = "none"] = p
  OBVIOUS
<1>2. NoInput \in [run : {None}, n : {0}, sent : {FALSE}, ack : {"none"}]
  BY DEF NoInput
<1>3. QED
  BY <1>1, <1>2

(* A recording is part of a folder. *)
LEMMA RecordTypes == \A f \in Folders : [f EXCEPT !.rec = TRUE] \in Folders
BY DEF Folders

-----------------------------------------------------------------------------
(* The operator cancels before or after the run. *)
LEMMA CancelKeeps ==
    ASSUME RelayInv, NEW r \in Runs, Cancel(r)
    PROVE  RelayInv'
<1> USE BridgeAssumption DEF RelayInv, BridgeInv
<1>1. mem.up /\ worker' = worker /\ sess' = sess /\ page' = page /\ wire' = wire
      /\ calls' = calls /\ launches' = launches /\ faults' = faults /\ closed' = closed
  BY DEF Cancel, browser, history
<1> DEFINE mine == mem.run = r /\ mem.status # "completed"
<1>2. PICK said \in BOOLEAN, ctl \in {"failed", disk[r].ctl}, status \in {"failed", mem.status},
           acked \in BOOLEAN, ack \in {"bad", mem.pending.ack} :
         /\ disk' = [disk EXCEPT ![r].cancel = TRUE, ![r].said = said, ![r].ctl = ctl]
         /\ said => disk[r].said \/ SaysNotStarted(r)
         /\ mem' = [mem EXCEPT !.status = status, !.acked = acked, !.pending.ack = ack]
         /\ mem.pending.run = r \/ ack = mem.pending.ack
         /\ mine => status = "failed"
         /\ ~mine => ctl = disk[r].ctl /\ status = mem.status /\ youngest' = youngest
         /\ youngest' \in {r, youngest}
  <2>1. disk[r].said \in BOOLEAN /\ mem.acked \in BOOLEAN
    BY DEF TypeOK, Folders, Memory
  <2>2. CASE mine
    BY <2>1, <2>2 DEF Cancel
  <2>3. CASE ~mine
    BY <2>1, <2>3 DEF Cancel
  <2>4. QED
    BY <2>2, <2>3
<1>3. /\ mem'.up = mem.up /\ mem'.run = mem.run /\ mem'.leases = mem.leases
      /\ mem'.acks = mem.acks /\ mem'.quars = mem.quars /\ mem'.status = status
      /\ mem'.pending = [mem.pending EXCEPT !.ack = ack]
  BY <1>2 DEF TypeOK, Memory
<1>4. /\ mem'.pending \in Inputs \cup {NoInput} /\ mem'.pending.run = mem.pending.run
      /\ mem'.pending.n = mem.pending.n /\ mem'.pending.sent = mem.pending.sent
      /\ mem'.pending.ack = ack
      /\ mem.pending = NoInput <=> mem'.pending = NoInput
  <2>1. CASE mem.pending = NoInput
    <3>1. ack = "none"
      BY <1>2, <2>1 DEF NoInput
    <3>2. [NoInput EXCEPT !.ack = "none"] = NoInput
      BY NothingIsAcked
    <3>3. mem'.pending = NoInput
      BY <1>3, <2>1, <3>1, <3>2
    <3>4. QED
      BY <2>1, <3>1, <3>3 DEF NoInput
  <2>2. CASE mem.pending # NoInput
    <3>1. mem.pending \in Inputs
      BY <2>2 DEF TypeOK, Memory
    <3>2. ack \in {"none", "ok", "bad"}
      BY <3>1 DEF Inputs
    <3>3. [mem.pending EXCEPT !.ack = ack] \in Inputs
      BY <3>1, <3>2 DEF Inputs
    <3>4. mem'.pending.run \in Runs
      BY <1>3, <3>3 DEF Inputs
    <3>5. QED
      BY <1>3, <2>2, <3>1, <3>3, <3>4 DEF Inputs, NoInput
  <2>3. QED
    BY <2>1, <2>2
<1>5. mem' \in Memory
  BY <1>2, <1>3, <1>4 DEF TypeOK, Memory, Terminal
<1>6. disk' \in [Runs -> Folders]
  <2>1. disk[r] \in Folders
    BY DEF TypeOK
  <2>2. [disk[r] EXCEPT !.cancel = TRUE, !.said = said, !.ctl = ctl] \in Folders
    BY <2>1 DEF Folders, Terminal
  <2>3. QED
    BY <1>2, <2>2 DEF TypeOK
<1>7. \A x \in Runs :
          /\ x # r => disk'[x] = disk[x]
          /\ disk'[x].claim = disk[x].claim /\ (disk[x].cancel => disk'[x].cancel)
          /\ disk'[x].quar = disk[x].quar /\ disk'[x].rel = disk[x].rel
          /\ disk'[x].api = disk[x].api
  BY <1>2 DEF TypeOK, Folders
<1>8. disk'[r].cancel /\ disk'[r].ctl = ctl /\ disk'[r].said = said
  BY <1>2 DEF TypeOK, Folders
<1>9. TypeOK'
  <2>1. youngest' \in Runs \cup {None}
    BY <1>2 DEF TypeOK
  <2>2. QED
    BY <1>1, <1>5, <1>6, <2>1 DEF TypeOK
<1>10. mine => disk[r].claim /\ disk[r].ctl # "none"
  BY DEF WorkInv, FolderInv
<1>11. FolderInv'
  <2>1. CASE mine
    <3>1. \A x \in Runs : disk'[x].ctl \in {disk[x].ctl, "failed"}
      BY <1>2, <1>7, <1>8
    <3>2. youngest' # None => disk'[youngest'].ctl # "none"
      BY <1>2, <1>10, <2>1, <3>1 DEF FolderInv, TypeOK
    <3>3. QED
      BY <1>1, <1>7, <1>8, <1>10, <2>1, <3>1, <3>2 DEF FolderInv
  <2>2. CASE ~mine
    <3>1. \A x \in Runs : disk'[x].ctl = disk[x].ctl
      BY <1>2, <1>7, <1>8, <2>2
    <3>2. youngest' = youngest
      BY <1>2, <2>2
    <3>3. youngest' # None => disk'[youngest'].ctl # "none"
      BY <3>1, <3>2 DEF FolderInv, TypeOK
    <3>4. QED
      BY <1>1, <1>7, <1>8, <3>1, <3>3 DEF FolderInv
  <2>3. QED
    BY <2>1, <2>2
<1>12. (OneController /\ OutcomeHonest /\ CallInv)'
  <2>1. OneController'
    BY <1>1, <1>7 DEF OneController
  <2>2. OutcomeHonest'
    <3>1. said /\ disk[r].api # "none" => calls[r] = 0
      BY <1>2 DEF OutcomeHonest, CallInv, SaysNotStarted
    <3>2. QED
      BY <1>1, <1>7, <1>8, <3>1 DEF OutcomeHonest
  <2>3. CallInv'
    BY <1>1, <1>7, <1>8 DEF CallInv
  <2>4. QED
    BY <2>1, <2>2, <2>3
<1>13. WorkInv'
  <2>1. \A x \in Runs : disk'[x].ctl \in {disk[x].ctl, "failed"}
    BY <1>2, <1>7, <1>8
  <2>2. Live' = Live /\ Torn' \subseteq Torn /\ Damaged' = Damaged
    BY <1>1, <1>7, <2>1 DEF Live, Torn, Known, Damaged
  <2>held. \A x \in mem.quars : disk'[x].quar = disk[x].quar
    BY <1>7 DEF TypeOK, Memory
  <2>3. OneWorker'
    BY <1>1, <1>3, <1>4, <2>2, <2>held DEF WorkInv, OneWorker
  <2>4. \A x \in Runs : worker[x].pc = "end" =>
             status \in Terminal /\ (status = "completed" => ~worker[x].bad)
    BY <1>2 DEF WorkInv, Terminal
  <2>5. mem.run # None => status # "idle" /\ disk'[mem.run].ctl # "none"
    BY <1>2, <2>1 DEF WorkInv, TypeOK, Memory
  <2>6. QED
    BY <1>1, <1>3, <1>4, <2>3, <2>4, <2>5 DEF WorkInv
<1>14. InputInv'
  BY <1>1, <1>2, <1>4, <1>7, InputsGoOn
<1>15. LeaseInv'
  BY <1>1, <1>3, <1>7, LeasesGoOn
<1>16. TurnInv' /\ Undisturbed'
  BY <1>1, <1>3, TurnsGoOn
<1>17. QED
  BY <1>9, <1>11, <1>12, <1>13, <1>14, <1>15, <1>16 DEF WorkInv

(* The recording arrives. *)
LEMMA UploadKeeps ==
    ASSUME RelayInv, NEW r \in Runs, Upload(r)
    PROVE  RelayInv'
<1> USE BridgeAssumption DEF RelayInv, BridgeInv
<1>1. youngest' = youngest /\ mem' = mem /\ worker' = worker /\ sess' = sess /\ page' = page
      /\ wire' = wire /\ calls' = calls /\ launches' = launches /\ faults' = faults
      /\ closed' = closed
  BY DEF Upload, browser, history
<1>2. disk' = [disk EXCEPT ![r].rec = TRUE]
  BY DEF Upload
<1>3. \A x \in Runs :
          /\ disk'[x].claim = disk[x].claim /\ disk'[x].cancel = disk[x].cancel
          /\ disk'[x].quar = disk[x].quar /\ disk'[x].rel = disk[x].rel
          /\ disk'[x].api = disk[x].api /\ disk'[x].said = disk[x].said
          /\ disk'[x].ctl = disk[x].ctl
  BY <1>2 DEF TypeOK, Folders
<1>4. TypeOK'
  <2>1. disk' \in [Runs -> Folders]
    <3>1. [disk[r] EXCEPT !.rec = TRUE] \in Folders
      BY RecordTypes DEF TypeOK
    <3>2. QED
      BY <1>2, <3>1 DEF TypeOK
  <2>2. QED
    BY <1>1, <2>1 DEF TypeOK
<1>5. FolderInv'
  <2>1. youngest' # None => disk'[youngest'].ctl # "none"
    BY <1>1, <1>3 DEF FolderInv, TypeOK
  <2>2. QED
    BY <1>1, <1>3, <2>1 DEF FolderInv
<1>6. (OneController /\ OutcomeHonest /\ CallInv)'
  BY <1>1, <1>3 DEF OneController, OutcomeHonest, CallInv
<1>7. WorkInv'
  <2>1. Live' = Live /\ Torn' = Torn /\ Damaged' = Damaged
    BY <1>1, <1>3 DEF Live, Torn, Known, Damaged
  <2>2. mem.run # None => disk'[mem.run].ctl # "none"
    BY <1>3 DEF WorkInv, TypeOK, Memory
  <2>held. \A x \in mem.quars : disk'[x].quar = disk[x].quar
    BY <1>3 DEF TypeOK, Memory
  <2>3. QED
    BY <1>1, <2>1, <2>2, <2>held DEF WorkInv, OneWorker
<1>8. InputInv'
  BY <1>1, <1>3, InputsGoOn
<1>9. LeaseInv'
  BY <1>1, <1>3, LeasesGoOn
<1>10. TurnInv' /\ Undisturbed'
  BY <1>1, TurnsGoOn
<1>11. QED
  BY <1>4, <1>5, <1>6, <1>7, <1>8, <1>9, <1>10 DEF WorkInv

(* The process dies. *)
LEMMA DieKeeps ==
    ASSUME RelayInv, Die
    PROVE  RelayInv'
<1> USE BridgeAssumption DEF RelayInv, BridgeInv
<1>1. Dies /\ disk' = disk /\ youngest' = youngest /\ page' = page /\ wire' = wire
      /\ calls' = calls /\ launches' = launches /\ closed' = closed /\ faults' \in 0..MaxFaults
  BY DEF Die, Fault, browser, TypeOK
<1>2. InputInv' /\ LeaseInv' /\ TurnInv' /\ Undisturbed' /\ WorkInv'
      /\ mem' \in Memory /\ sess' \in Sessions /\ worker' \in [Runs -> Workers]
  BY <1>1, DiesKeeps
<1>3. \A x \in Runs : worker'[x].pc = "none"
  BY <1>1 DEF Dies, NoWorker
<1>4. TypeOK'
  BY <1>1, <1>2 DEF TypeOK
<1>5. (FolderInv /\ OneController /\ OutcomeHonest /\ CallInv)'
  BY <1>1, <1>3 DEF FolderInv, OneController, OutcomeHonest, CallInv
<1>6. QED
  BY <1>2, <1>4, <1>5 DEF WorkInv

(* Damage is found by the next start, never by this one. *)
LEMMA CorruptKeeps ==
    ASSUME RelayInv, NEW r \in Runs, Corrupt(r)
    PROVE  RelayInv'
<1> USE BridgeAssumption DEF RelayInv, BridgeInv
<1>1. mem' = mem /\ worker' = worker /\ sess' = sess /\ page' = page /\ ~mem.up
      /\ wire' = wire /\ calls' = calls /\ launches' = launches /\ faults' \in 0..MaxFaults
      /\ closed' = closed /\ disk[r].ctl # "none" /\ disk[r].quar < MaxIds
      /\ youngest' \in {youngest, r}
  BY DEF Corrupt, Fault, browser, TypeOK
<1>2. PICK ctl \in {"missing", "corrupt"} : disk' = [disk EXCEPT ![r].ctl = ctl]
  BY DEF Corrupt
<1>3. \A x \in Runs :
          /\ disk'[x].claim = disk[x].claim /\ disk'[x].cancel = disk[x].cancel
          /\ disk'[x].quar = disk[x].quar /\ disk'[x].rel = disk[x].rel
          /\ disk'[x].api = disk[x].api /\ disk'[x].said = disk[x].said
          /\ x # r => disk'[x].ctl = disk[x].ctl
  BY <1>2 DEF TypeOK, Folders
<1>4. disk'[r].ctl = ctl
  BY <1>2 DEF TypeOK, Folders
<1>5. TypeOK'
  <2>1. disk' \in [Runs -> Folders]
    BY <1>2 DEF TypeOK, Folders
  <2>2. youngest' \in Runs \cup {None}
    BY <1>1 DEF TypeOK
  <2>3. QED
    BY <1>1, <2>1, <2>2 DEF TypeOK
<1>6. FolderInv'
  <2>1. \A x \in Runs : disk'[x].ctl = "none" <=> disk[x].ctl = "none"
    BY <1>1, <1>3, <1>4
  <2>2. youngest' # None => disk'[youngest'].ctl # "none"
    BY <1>1, <2>1 DEF FolderInv, TypeOK
  <2>3. \A x \in Runs : disk'[x].ctl \in {"missing", "corrupt"} => disk'[x].quar < MaxIds
    BY <1>1, <1>3 DEF FolderInv
  <2>4. QED
    BY <1>1, <1>3, <2>1, <2>2, <2>3 DEF FolderInv
<1>7. (OneController /\ OutcomeHonest /\ CallInv)'
  BY <1>1, <1>3 DEF OneController, OutcomeHonest, CallInv
<1>8. WorkInv'
  <2>1. Live' = Live
    BY <1>1 DEF Live
  <2>2. mem.run # None => disk'[mem.run].ctl # "none"
    BY <1>3, <1>4 DEF WorkInv, TypeOK, Memory
  <2>3. QED
    BY <1>1, <2>1, <2>2 DEF WorkInv, OneWorker
<1>9. InputInv'
  BY <1>1, <1>3, InputsGoOn
<1>10. LeaseInv'
  BY <1>1, <1>3, LeasesGoOn
<1>11. TurnInv' /\ Undisturbed'
  BY <1>1, TurnsGoOn
<1>12. QED
  BY <1>5, <1>6, <1>7, <1>8, <1>9, <1>10, <1>11 DEF WorkInv

(* The operator acknowledges the damage that is held, and no other. *)
LEMMA ReleaseKeeps ==
    ASSUME RelayInv, NEW r \in Runs, Release(r)
    PROVE  RelayInv'
<1> USE BridgeAssumption DEF RelayInv, BridgeInv
<1>1. /\ mem.up /\ mem.pending = NoInput /\ mem.run \notin Live /\ r \notin mem.leases
      /\ r \in mem.quars \/ mem.run = r
  BY DEF Release
<1>2. page' = page /\ wire' = wire /\ calls' = calls /\ launches' = launches
      /\ faults' = faults /\ closed' = closed
  BY DEF Release, browser, history
<1>3. \A x \in Runs : worker[x].pc = "none"
  BY <1>1 DEF WorkInv, OneWorker, Live
<1>4. disk[r].ctl # "none" /\ disk[r].claim
  BY <1>1 DEF WorkInv, OneWorker, Damaged, FolderInv
<1>5. disk[r] \in Folders /\ Wanted(r) \in 0..(MaxIds + 1)
  <2>1. disk[r] \in Folders
    BY DEF TypeOK
  <2>2. disk[r].quar \in 0..MaxIds
    BY <2>1 DEF Folders
  <2>3. QED
    BY <2>1, <2>2, BoundTypes DEF Wanted
<1>6. PICK ctl \in {"failed", disk[r].ctl} :
         /\ disk' = [disk EXCEPT ![r].rel = Wanted(r), ![r].ctl = ctl]
         /\ youngest' \in {r, youngest}
         /\ \/ /\ worker' = worker /\ sess' = sess
               /\ \E acked \in BOOLEAN, status \in {"failed", mem.status},
                     quars \in {mem.quars, mem.quars \ {r}} :
                     mem' = [mem EXCEPT !.quars = quars, !.acked = acked, !.status = status]
            \/ Dies
  <2> DEFINE receipt == [disk EXCEPT ![r].rel = Wanted(r)]
             released == [mem EXCEPT !.quars = @ \ {r}, !.acked = @ \/ mem.run = r,
                                     !.status = IF mem.run = r THEN "failed" ELSE @]
             Remembered == \E acked \in BOOLEAN, status \in {"failed", mem.status},
                          quars \in {mem.quars, mem.quars \ {r}} :
                          mem' = [mem EXCEPT !.quars = quars, !.acked = acked,
                                             !.status = status]
  <2>1. mem' = released => Remembered
    <3>1. CASE mem.run = r
      BY <3>1 DEF TypeOK, Memory
    <3>2. CASE mem.run # r
      BY <3>2 DEF TypeOK, Memory
    <3>3. QED
      BY <3>1, <3>2
  <2>2. mem' = mem => Remembered
    BY DEF TypeOK, Memory
  <2>3. CASE /\ disk' = [receipt EXCEPT ![r].ctl = "failed"]
             /\ youngest' = r
             /\ mem' = released
             /\ UNCHANGED <<worker, sess>>
    <3>1. disk' = [disk EXCEPT ![r].rel = Wanted(r), ![r].ctl = "failed"]
      BY <2>3, <1>5 DEF TypeOK
    <3>2. QED
      BY <2>1, <2>3, <3>1
  <2>4. CASE /\ disk' = receipt
             /\ UNCHANGED youngest
             /\ \/ Dies
                \/ mem' \in {mem, released} /\ UNCHANGED <<worker, sess>>
    <3>1. [disk[r] EXCEPT !.rel = Wanted(r)]
           = [disk[r] EXCEPT !.rel = Wanted(r), !.ctl = disk[r].ctl]
      BY <1>5 DEF Folders
    <3>2. disk' = [disk EXCEPT ![r].rel = Wanted(r), ![r].ctl = disk[r].ctl]
      BY <2>4, <3>1 DEF TypeOK
    <3>3. QED
      BY <2>1, <2>2, <2>4, <3>2
  <2>5. QED
    BY <2>3, <2>4 DEF Release
<1>7. disk' \in [Runs -> Folders]
  <2>1. [disk[r] EXCEPT !.rel = Wanted(r), !.ctl = ctl] \in Folders
    BY <1>5 DEF Folders, Terminal
  <2>2. QED
    BY <1>6, <2>1 DEF TypeOK
<1>8. \A x \in Runs :
          /\ x # r => disk'[x] = disk[x]
          /\ disk'[x].claim = disk[x].claim /\ disk'[x].cancel = disk[x].cancel
          /\ disk'[x].quar = disk[x].quar /\ disk'[x].said = disk[x].said
          /\ disk'[x].api = disk[x].api
          /\ disk'[x].ctl \in {disk[x].ctl, "failed"}
          /\ disk[x].ctl # "none" => disk'[x].ctl # "none"
  BY <1>5, <1>6 DEF TypeOK, Folders
<1>9. disk'[r].rel = Wanted(r) /\ disk'[r].ctl # "none"
  BY <1>4, <1>5, <1>6 DEF TypeOK, Folders
<1>10. /\ worker' \in [Runs -> Workers] /\ (\A x \in Runs : worker'[x].pc = "none")
       /\ mem' \in Memory /\ sess' \in Sessions
       /\ InputInv' /\ LeaseInv' /\ TurnInv' /\ Undisturbed' /\ WorkInv'
  <2>1. CASE Dies
    <3>1. \A x \in Runs : worker'[x].pc = "none"
      BY <2>1 DEF Dies, NoWorker
    <3>2. QED
      BY <1>2, <1>8, <2>1, <3>1, DiesKeeps
  <2>2. CASE /\ worker' = worker /\ sess' = sess
             /\ \E acked \in BOOLEAN, status \in {"failed", mem.status},
                   quars \in {mem.quars, mem.quars \ {r}} :
                   mem' = [mem EXCEPT !.quars = quars, !.acked = acked, !.status = status]
    <3>1. PICK acked \in BOOLEAN, status \in {"failed", mem.status},
               quars \in {mem.quars, mem.quars \ {r}} :
             mem' = [mem EXCEPT !.quars = quars, !.acked = acked, !.status = status]
      BY <2>2
    <3>2. /\ mem'.up = mem.up /\ mem'.run = mem.run /\ mem'.leases = mem.leases
          /\ mem'.acks = mem.acks /\ mem'.quars = quars /\ mem'.status = status
          /\ mem'.pending = mem.pending /\ mem' \in Memory
      BY <3>1 DEF TypeOK, Memory, Terminal
    <3>3. Torn' \subseteq Torn
      BY <1>8 DEF Torn, Known
    <3>4. Damaged' = Damaged \ {r}
      <4>1. ~(disk[r].quar # 0 /\ disk'[r].rel # 1 + disk[r].quar)
        BY <1>9 DEF Wanted
      <4>2. QED
        BY <1>8, <4>1 DEF Damaged
    <3>held. \A x \in mem.quars : disk'[x].quar = disk[x].quar
      BY <1>8 DEF TypeOK, Memory
    <3>5. OneWorker'
      BY <1>1, <1>2, <1>3, <2>2, <3>2, <3>3, <3>4, <3>held DEF WorkInv, OneWorker, Live
    <3>6. mem.run # None => status # "idle" /\ disk'[mem.run].ctl # "none"
      BY <1>8, <3>1 DEF WorkInv, TypeOK, Memory
    <3>7. WorkInv'
      BY <1>1, <1>3, <2>2, <3>2, <3>5, <3>6 DEF WorkInv
    <3>8. InputInv'
      BY <1>2, <1>8, <2>2, <3>2, InputsGoOn
    <3>9. LeaseInv'
      BY <1>2, <1>8, <2>2, <3>2, LeasesGoOn
    <3>10. TurnInv' /\ Undisturbed'
      BY <1>2, <2>2, <3>2, TurnsGoOn
    <3>11. worker' \in [Runs -> Workers] /\ sess' \in Sessions
      BY <2>2 DEF TypeOK
    <3>12. QED
      BY <1>3, <2>2, <3>2, <3>7, <3>8, <3>9, <3>10, <3>11
  <2>3. QED
    BY <1>6, <2>1, <2>2
<1>11. youngest' \in {youngest, r}
  BY <1>6
<1>12. TypeOK'
  BY <1>2, <1>7, <1>10, <1>11 DEF TypeOK
<1>13. FolderInv'
  <2>1. youngest' # None => disk'[youngest'].ctl # "none"
    BY <1>8, <1>9, <1>11 DEF FolderInv, TypeOK
  <2>2. \A x \in Runs :
           /\ disk'[x].ctl = "none" => disk'[x].quar = 0
           /\ disk'[x].ctl \in {"missing", "corrupt"} => disk'[x].quar < MaxIds
    BY <1>8 DEF FolderInv
  <2>3. \A x \in Runs :
           ~disk'[x].claim => /\ launches'[x] = 0 /\ calls'[x] = 0 /\ disk'[x].api = "none"
                              /\ disk'[x].ctl = "none"
                              /\ (disk'[x].said => disk'[x].cancel)
    BY <1>2, <1>4, <1>8 DEF FolderInv
  <2>4. QED
    BY <1>10, <2>1, <2>2, <2>3 DEF FolderInv
<1>14. (OneController /\ OutcomeHonest /\ CallInv)'
  BY <1>2, <1>8, <1>10 DEF OneController, OutcomeHonest, CallInv
<1>15. QED
  BY <1>10, <1>12, <1>13, <1>14 DEF WorkInv

(* The restarted server holds what is damaged, and nothing else. *)
LEMMA RecoverKeeps ==
    ASSUME RelayInv, Recover
    PROVE  RelayInv'
<1> USE BridgeAssumption DEF RelayInv, BridgeInv
<1> DEFINE broken == Torn \cup Held \cup Cut
           Of(x) == [disk[x] EXCEPT
                        !.ctl = IF x \in broken THEN "failed" ELSE @,
                        !.quar = QuarantineId(x),
                        !.said = @ \/ (x \in Cut \ Held /\ disk[x].api = "none")]
<1>1. /\ ~mem.up /\ disk' = [x \in Runs |-> Of(x)] /\ youngest' \in broken \cup {youngest}
      /\ \E acked \in BOOLEAN :
            mem' = [ColdStart EXCEPT
                       !.run = youngest, !.acked = acked, !.quars = Held,
                       !.status = IF youngest = None THEN @ ELSE Of(youngest).ctl]
  BY DEF Recover
<1>2. worker' = worker /\ sess' = sess /\ page' = page /\ wire' = wire /\ calls' = calls
      /\ launches' = launches /\ faults' = faults /\ closed' = closed
  BY DEF Recover, browser, history
<1>3. /\ \A x \in Runs : worker[x].pc = "none"
      /\ mem.leases = {}
  BY <1>1 DEF WorkInv, OneWorker, Live
<1>4. \A x \in Runs : disk[x] \in Folders /\ QuarantineId(x) \in 0..MaxIds
  <2>1. TAKE x \in Runs
  <2>2. disk[x] \in Folders
    BY DEF TypeOK
  <2>3. disk[x].quar \in 0..MaxIds
    BY <2>2 DEF Folders
  <2>4. x \in Torn => disk[x].quar < MaxIds
    BY DEF FolderInv, Torn, Known
  <2>5. QED
    BY <2>2, <2>3, <2>4, BoundTypes DEF QuarantineId
<1>5. broken \subseteq Known /\ Known \subseteq Runs
  BY DEF Torn, Held, Cut, Known
<1>6. \A x \in Runs :
         /\ disk'[x].claim = disk[x].claim /\ disk'[x].cancel = disk[x].cancel
         /\ disk'[x].rel = disk[x].rel /\ disk'[x].api = disk[x].api
         /\ disk'[x].quar = QuarantineId(x)
         /\ disk'[x].ctl = IF x \in broken THEN "failed" ELSE disk[x].ctl
         /\ disk'[x].said => disk[x].said \/ (x \in Known /\ disk[x].api = "none")
         /\ disk'[x] \in Folders
  <2>1. TAKE x \in Runs
  <2>2. disk[x] \in Folders /\ QuarantineId(x) \in 0..MaxIds
    BY <1>4
  <2>3. disk'[x] = Of(x)
    BY <1>1
  <2>4. /\ Of(x).claim = disk[x].claim /\ Of(x).cancel = disk[x].cancel
        /\ Of(x).rel = disk[x].rel /\ Of(x).api = disk[x].api
        /\ Of(x).quar = QuarantineId(x)
        /\ Of(x).ctl = IF x \in broken THEN "failed" ELSE disk[x].ctl
        /\ Of(x).said = (disk[x].said \/ (x \in Cut \ Held /\ disk[x].api = "none"))
    <3> HIDE DEF broken
    <3>1. QED
      BY <2>2 DEF Folders
  <2>5. Of(x) \in Folders
    <3> HIDE DEF broken
    <3>1. QED
      BY <2>2 DEF Folders, Terminal
  <2>6. x \in Cut => x \in Known
    BY <1>5
  <2>7. QED
    BY <2>3, <2>4, <2>5, <2>6
<1>7. \A x \in Runs \ Known : QuarantineId(x) = 0
  BY DEF Known, QuarantineId, Torn, FolderInv
<1>8. \A x \in Runs : disk'[x].ctl \in {"none"} \cup Terminal
                      /\ (disk'[x].ctl = "none" <=> x \notin Known)
  <2>1. TAKE x \in Runs
  <2>2. x \notin broken => disk[x].ctl \in {"none"} \cup Terminal
    <3>1. disk[x].ctl \in {"none", "missing", "corrupt", "requesting", "running"} \cup Terminal
      BY <1>4 DEF Folders
    <3>2. QED
      BY <3>1 DEF Torn, Cut, Known
  <2>3. QED
    BY <1>5, <1>6, <2>2 DEF Known, Terminal
<1>9. youngest # None => youngest \in Known
  BY DEF FolderInv, TypeOK, Known
<1>10. /\ mem'.run = youngest /\ mem'.quars = Held /\ mem'.leases = {} /\ mem'.acks = {}
       /\ mem'.pending = NoInput /\ mem'.up /\ mem' \in Memory
       /\ mem'.status = IF youngest = None THEN "idle" ELSE disk'[youngest].ctl
  <2>1. PICK acked \in BOOLEAN :
            mem' = [ColdStart EXCEPT
                       !.run = youngest, !.acked = acked, !.quars = Held,
                       !.status = IF youngest = None THEN @ ELSE Of(youngest).ctl]
    BY <1>1
  <2>2. youngest # None => Of(youngest).ctl = disk'[youngest].ctl
    BY <1>1, <1>5, <1>9
  <2> HIDE DEF Of, broken
  <2>3. mem' = [ColdStart EXCEPT
                   !.run = youngest, !.acked = acked, !.quars = Held,
                   !.status = IF youngest = None THEN "idle" ELSE disk'[youngest].ctl]
    BY <2>1, <2>2 DEF ColdStart
  <2>4. Held \subseteq Runs
    BY DEF Held, Known
  <2>5. youngest # None => disk'[youngest].ctl \in Terminal
    BY <1>5, <1>8, <1>9
  <2>6. youngest \in Runs \cup {None}
    BY DEF TypeOK
  <2>7. QED
    BY <2>3, <2>4, <2>5, <2>6 DEF ColdStart, Memory
<1> HIDE DEF Of
<1>11. TypeOK'
  <2>1. disk' \in [Runs -> Folders]
    BY <1>1, <1>6
  <2>2. youngest' \in Runs \cup {None}
    BY <1>1, <1>5 DEF TypeOK
  <2>3. QED
    BY <1>2, <1>10, <2>1, <2>2 DEF TypeOK
<1>12. FolderInv'
  <2>1. youngest' # None => disk'[youngest'].ctl # "none"
    BY <1>1, <1>5, <1>8, <1>9
  <2>2. \A x \in Runs :
           /\ disk'[x].ctl = "none" => disk'[x].quar = 0
           /\ disk'[x].ctl \notin {"missing", "corrupt"}
    BY <1>6, <1>7, <1>8 DEF Terminal
  <2>3. \A x \in Runs :
           ~disk'[x].claim => /\ launches'[x] = 0 /\ calls'[x] = 0 /\ disk'[x].api = "none"
                              /\ disk'[x].ctl = "none"
                              /\ (disk'[x].said => disk'[x].cancel)
    <3>1. \A x \in Runs : ~disk[x].claim => x \notin Known
      BY DEF FolderInv, Known
    <3>2. QED
      BY <1>2, <1>6, <1>8, <3>1 DEF FolderInv
  <2>4. QED
    BY <1>2, <1>3, <2>1, <2>2, <2>3 DEF FolderInv
<1>13. (OneController /\ OutcomeHonest /\ CallInv)'
  BY <1>2, <1>3, <1>6 DEF OneController, OutcomeHonest, CallInv
<1>14. WorkInv'
  <2>1. Torn' = {}
    BY <1>8 DEF Torn, Known, Terminal
  <2>2. Damaged' = Held
    BY <1>5, <1>6, <1>7 DEF Damaged, Held
  <2>3. Live' = {}
    BY <1>2, <1>3 DEF Live
  <2>4. OneWorker'
    <3>1. \A x \in Held : disk'[x].quar # 0
      BY <2>2, <1>5, <1>6, <1>7 DEF Damaged
    <3>2. QED
      BY <1>10, <2>1, <2>2, <2>3, <3>1 DEF OneWorker
  <2>5. youngest # None => disk'[youngest].ctl \notin {"idle", "none"}
    BY <1>5, <1>8, <1>9 DEF Terminal
  <2>6. QED
    BY <1>2, <1>3, <1>10, <2>4, <2>5 DEF WorkInv
<1>15. InputInv'
  BY <1>2, <1>3, <1>6, <1>10, InputsGoOn
<1>16. LeaseInv'
  BY <1>2, <1>3, <1>6, <1>10, LeasesGoOn
<1>17. TurnInv' /\ Undisturbed'
  BY <1>2, <1>10, TurnsGoOn
<1>18. QED
  BY <1>11, <1>12, <1>13, <1>14, <1>15, <1>16, <1>17 DEF WorkInv

-----------------------------------------------------------------------------
(* A step of the page, of which the server knows nothing yet: no command   *)
(* appears, what is reported was commanded, and nobody takes back silence. *)
LEMMA PageKeeps ==
    ASSUME RelayInv, TypeOK', UNCHANGED <<server, calls, launches, closed>>,
           Commanded' \subseteq Commanded,
           \A a \in Reported' :
               \/ a \in Reported
               \/ \E c \in Commanded :
                     /\ a.run = c.run /\ a.n = c.n
                     /\ a.ok => \A d \in Commanded' : d.run # a.run \/ d.n # a.n,
           wire'.reply.cmd # None => wire'.reply.cmd # page'.key,
           \A r \in Runs : Silent(r) => Silent(r)',
           \A r \in Runs : r \in {page'.rel, wire'.late.rel} =>
               r \in {page.rel, wire.late.rel} \/ (disk[r].cancel /\ Silent(r)'),
           {page'.turn, wire'.late.turn} \subseteq 0..sess.turns,
           \/ ~wire'.replied /\ wire'.reply = NoReply
           \/ wire' = wire
    PROVE  RelayInv'
<1> USE BridgeAssumption DEF RelayInv, BridgeInv
<1>1. disk' = disk /\ youngest' = youngest /\ mem' = mem /\ worker' = worker /\ sess' = sess
      /\ calls' = calls /\ launches' = launches /\ closed' = closed
  BY DEF server
<1>2. (FolderInv /\ OneController /\ OutcomeHonest /\ CallInv /\ WorkInv)'
  BY <1>1, ServerRests
<1>3. InputInv'
  <2>1. \A c \in Commanded \cup Reported : Fresh(c) => Fresh(c)'
    BY <1>1 DEF Fresh
  <2>2. \A c \in Commanded : Current(c) => Current(c)'
    BY <1>1 DEF Current
  <2>3. \A c \in Commanded' : Fresh(c)' /\ Current(c)'
    BY <2>1, <2>2 DEF InputInv
  <2>4. \A a \in Reported' :
           /\ Fresh(a)'
           /\ a.ok => \A d \in Commanded' : d.run # a.run \/ d.n # a.n
    <3>1. TAKE a \in Reported'
    <3>2. CASE a \in Reported
      BY <2>1, <3>2 DEF InputInv
    <3>3. CASE \E c \in Commanded :
                  /\ a.run = c.run /\ a.n = c.n
                  /\ a.ok => \A d \in Commanded' : d.run # a.run \/ d.n # a.n
      <4>1. PICK c \in Commanded :
               /\ a.run = c.run /\ a.n = c.n
               /\ a.ok => \A d \in Commanded' : d.run # a.run \/ d.n # a.n
        BY <3>3
      <4>2. Fresh(c)
        BY DEF InputInv
      <4>3. Fresh(a)'
        BY <1>1, <4>1, <4>2 DEF Fresh
      <4>4. QED
        BY <4>1, <4>3
    <3>4. QED
      BY <3>2, <3>3
  <2>5. QED
    BY <2>3, <2>4 DEF InputInv
<1>4. LeaseInv'
  <2>1. closed \subseteq Runs
    BY DEF TypeOK
  <2>2. \A r \in closed' : worker'[r].pc = "none" /\ disk'[r].claim /\ Silent(r)'
    BY <1>1, <2>1 DEF LeaseInv
  <2>3. \A r \in Runs : r \in mem'.acks \/ r \in {page'.rel, wire'.late.rel}
                            => disk'[r].cancel /\ Silent(r)'
    BY <1>1 DEF LeaseInv
  <2>4. \A r \in Runs : wire'.reply.release = r => disk'[r].cancel /\ wire'.reply.cmd = None
    BY <1>1 DEF LeaseInv, NoReply
  <2>5. QED
    BY <2>2, <2>3, <2>4 DEF LeaseInv
<1>5. TurnInv' /\ Undisturbed'
  <2>1. wire'.reply.nav \in 0..sess.turns
    BY DEF TurnInv, NoReply, TypeOK, Sessions
  <2>2. CASE ~wire'.replied /\ wire'.reply = NoReply
    BY <1>1, <2>1, <2>2 DEF TurnInv, Undisturbed
  <2>3. CASE wire' = wire
    BY <1>1, <2>1, <2>3 DEF TurnInv, Undisturbed
  <2>4. QED
    BY <2>2, <2>3
<1>6. QED
  BY <1>2, <1>3, <1>4, <1>5 DEF WorkInv

(* A navigation is a turn that nobody has heard of. *)
LEMMA NavigateKeeps ==
    ASSUME RelayInv, NEW want \in {"waiting", "game"}, Navigate(want)
    PROVE  RelayInv'
<1> USE BridgeAssumption DEF RelayInv, BridgeInv
<1>1. /\ disk' = disk /\ youngest' = youngest /\ mem' = mem /\ worker' = worker
      /\ page' = page /\ wire' = wire /\ calls' = calls /\ launches' = launches
      /\ faults' = faults /\ closed' = closed
  BY DEF Navigate, browser, history
<1>2. /\ sess' \in Sessions /\ sess'.want = want /\ ~sess'.acked
      /\ sess'.turn = sess.turns + 1 /\ sess'.turns = sess.turns + 1
  <2>1. sess \in Sessions
    BY DEF TypeOK
  <2>2. sess' = [sess EXCEPT !.owner = TRUE, !.want = want, !.acked = FALSE,
                             !.turn = sess.turns + 1, !.turns = @ + 1]
    BY DEF Navigate
  <2>3. want \in Places /\ sess.turns + 1 \in Nat
    BY <2>1 DEF Places, Sessions
  <2>4. QED
    BY <2>1, <2>2, <2>3 DEF Sessions
<1>3. TypeOK'
  BY <1>1, <1>2 DEF TypeOK
<1>4. (FolderInv /\ OneController /\ OutcomeHonest /\ CallInv /\ WorkInv)'
  BY <1>1, ServerRests
<1>5. InputInv'
  BY <1>1 DEF InputInv, Commanded, Reported, Fresh, Current
<1>6. LeaseInv'
  BY <1>1 DEF LeaseInv, Silent, PageActs
<1>7. TurnInv' /\ Undisturbed'
  BY <1>1, <1>2 DEF TurnInv, Undisturbed, TypeOK, Sessions, Pages, Frames, Replies
<1>8. QED
  BY <1>3, <1>4, <1>5, <1>6, <1>7 DEF WorkInv

(* A page that is loaded remembers nothing. *)
LEMMA LoadKeeps ==
    ASSUME RelayInv, NEW at \in {"game", "waiting"}, NEW nav \in Nat, nav <= sess.turns,
           Load(at, nav)
    PROVE  RelayInv'
<1> USE BridgeAssumption DEF RelayInv, BridgeInv
<1>1. UNCHANGED <<server, calls, launches, closed>> /\ faults' \in 0..MaxFaults
  BY DEF Load, Fault, TypeOK
<1>2. /\ wire' = [Quiet EXCEPT !.late = wire.late] /\ page' = NewPage(at, nav)
  BY DEF Load
<1>3. /\ wire'.late = wire.late /\ ~wire'.replied /\ wire'.reply = NoReply
      /\ page'.key = None /\ page'.rel = None /\ page'.ack = None /\ page'.turn = nav
  BY <1>2 DEF Quiet, NewPage
<1>4. TypeOK'
  <2>1. page' \in Pages
    BY <1>2 DEF NewPage, Pages, Places, Acks
  <2>2. wire' \in [replied : BOOLEAN, reply : Replies, late : Frames]
    BY <1>2 DEF TypeOK, Quiet, NoReply, Replies, Places, Acks
  <2>3. QED
    BY <1>1, <2>1, <2>2 DEF TypeOK, server
<1>5. Commanded' = {} /\ Reported' \subseteq Reported
  BY <1>3 DEF Commanded, Reported, NoReply
<1>6. \A r \in Runs : Silent(r)'
  BY <1>3 DEF Silent, PageActs, NoReply
<1>7. {page'.turn, wire'.late.turn} \subseteq 0..sess.turns
  BY <1>3 DEF TurnInv, TypeOK, Sessions
<1>8. \A r \in Runs : r \in {page'.rel, wire'.late.rel} => r \in {page.rel, wire.late.rel}
  BY <1>3
<1>9. wire'.reply.cmd = None
  BY <1>3 DEF NoReply
<1>10. QED
  BY <1>1, <1>3, <1>4, <1>5, <1>6, <1>7, <1>8, <1>9, PageKeeps

(* A page that gives up its poll lets its keys go. *)
LEMMA GiveUpKeeps ==
    ASSUME RelayInv, GiveUp
    PROVE  RelayInv'
<1> USE BridgeAssumption DEF RelayInv, BridgeInv
<1>1. UNCHANGED <<server, calls, launches, closed>> /\ faults' \in 0..MaxFaults
  BY DEF GiveUp, Fault, TypeOK
<1>2. PICK late \in {wire.late, Frame} : wire' = [Quiet EXCEPT !.late = late]
  BY DEF GiveUp
<1>3. page' = [page EXCEPT !.broken = page.key # None]
  BY DEF GiveUp
<1>4. late \in Frames /\ late.ack \in {wire.late.ack, page.ack}
      /\ late.rel \in {wire.late.rel, page.rel} /\ late.turn \in {wire.late.turn, page.turn}
  BY DEF Frame, Frames, TypeOK, Pages
<1>5. /\ wire'.late = late /\ ~wire'.replied /\ wire'.reply = NoReply
      /\ page'.key = page.key /\ page'.rel = page.rel /\ page'.ack = page.ack
      /\ page'.turn = page.turn /\ (page'.broken <=> page.key # None)
  BY <1>2, <1>3 DEF Quiet, TypeOK, Pages
<1>6. TypeOK'
  <2>1. page' \in Pages
    BY <1>3 DEF TypeOK, Pages
  <2>2. wire' \in [replied : BOOLEAN, reply : Replies, late : Frames]
    BY <1>2, <1>4 DEF Quiet, NoReply, Replies, Places, Acks
  <2>3. QED
    BY <1>1, <2>1, <2>2 DEF TypeOK, server
<1>7. Commanded' \subseteq Commanded /\ Reported' \subseteq Reported
  BY <1>4, <1>5 DEF Commanded, Reported, NoReply
<1>8. \A r \in Runs : Silent(r)'
  BY <1>5 DEF Silent, PageActs, NoReply
<1>9. {page'.turn, wire'.late.turn} \subseteq 0..sess.turns
  BY <1>4, <1>5 DEF TurnInv
<1>10. \A r \in Runs : r \in {page'.rel, wire'.late.rel} => r \in {page.rel, wire.late.rel}
  BY <1>4, <1>5
<1>11. wire'.reply.cmd = None
  BY <1>5 DEF NoReply
<1>12. QED
  BY <1>1, <1>5, <1>6, <1>7, <1>8, <1>9, <1>10, <1>11, PageKeeps

(* A page that is interrupted lets its keys go. *)
LEMMA InterruptKeeps ==
    ASSUME RelayInv, Interrupt
    PROVE  RelayInv'
<1> USE BridgeAssumption DEF RelayInv, BridgeInv
<1>1. UNCHANGED <<server, calls, launches, closed>> /\ faults' = faults /\ wire' = wire
  BY DEF Interrupt, history
<1>2. page' = [page EXCEPT !.broken = TRUE]
  BY DEF Interrupt
<1>3. /\ page'.key = page.key /\ page'.rel = page.rel /\ page'.ack = page.ack
      /\ page'.turn = page.turn /\ page'.broken
  BY <1>2 DEF TypeOK, Pages
<1>4. TypeOK'
  <2>1. page' \in Pages
    BY <1>2 DEF TypeOK, Pages
  <2>2. QED
    BY <1>1, <2>1 DEF TypeOK, server
<1>5. Commanded' = Commanded /\ Reported' = Reported
  BY <1>1, <1>3 DEF Commanded, Reported
<1>6. \A r \in Runs : Silent(r) => Silent(r)'
  BY <1>1, <1>3 DEF Silent, PageActs
<1>7. {page'.turn, wire'.late.turn} \subseteq 0..sess.turns
  BY <1>1, <1>3 DEF TurnInv
<1>8. wire'.reply.cmd # None => wire'.reply.cmd # page'.key
  BY <1>1, <1>3 DEF InputInv
<1>9. QED
  BY <1>1, <1>3, <1>4, <1>5, <1>6, <1>7, <1>8, PageKeeps

(* An input that is over is reported: the command is held no longer. *)
LEMMA KeyUpKeeps ==
    ASSUME RelayInv, KeyUp
    PROVE  RelayInv'
<1> USE BridgeAssumption DEF RelayInv, BridgeInv
<1>1. UNCHANGED <<server, calls, launches, closed>> /\ faults' = faults /\ wire' = wire
  BY DEF KeyUp, history
<1>2. page.key # None
  BY DEF KeyUp
<1>3. PICK ok \in BOOLEAN :
         page' = [page EXCEPT !.key = None, !.broken = FALSE,
                              !.ack = [run |-> page.key.run, n |-> page.key.n, ok |-> ok]]
  BY DEF KeyUp
<1>4. page.key \in Commands
  BY <1>2 DEF TypeOK, Pages
<1>5. /\ page'.key = None /\ page'.rel = page.rel /\ page'.turn = page.turn
      /\ page'.ack = [run |-> page.key.run, n |-> page.key.n, ok |-> ok]
  BY <1>3 DEF TypeOK, Pages
<1>6. TypeOK'
  <2>1. [run |-> page.key.run, n |-> page.key.n, ok |-> ok] \in Acks
    BY <1>4 DEF Acks, Commands
  <2>2. page' \in Pages
    BY <1>3, <2>1 DEF TypeOK, Pages
  <2>3. QED
    BY <1>1, <2>2 DEF TypeOK, server
<1>7. Commanded' = {wire.reply.cmd} \ {None}
  BY <1>1, <1>5 DEF Commanded
<1>8. \A a \in Reported' :
         \/ a \in Reported
         \/ \E c \in Commanded :
               /\ a.run = c.run /\ a.n = c.n
               /\ a.ok => \A d \in Commanded' : d.run # a.run \/ d.n # a.n
  <2>1. TAKE a \in Reported'
  <2>2. (a = wire.late.ack /\ a # None) \/ a = page'.ack
    BY <1>1 DEF Reported
  <2>3. CASE a = wire.late.ack /\ a # None
    BY <2>3 DEF Reported
  <2>4. CASE a = page'.ack
    <3>1. a.run = page.key.run /\ a.n = page.key.n
      BY <1>5, <2>4
    <3>2. \A d \in Commanded' : d \in Commands /\ d # page.key
      BY <1>7 DEF TypeOK, Replies, InputInv
    <3>3. \A d \in Commands : d.run = page.key.run /\ d.n = page.key.n => d = page.key
      BY <1>4 DEF Commands
    <3>4. page.key \in Commanded
      BY <1>2 DEF Commanded
    <3>5. QED
      BY <3>1, <3>2, <3>3, <3>4
  <2>5. QED
    BY <2>2, <2>3, <2>4
<1>9. \A r \in Runs : Silent(r) => Silent(r)'
  BY <1>1, <1>5 DEF Silent, PageActs
<1>10. {page'.turn, wire'.late.turn} \subseteq 0..sess.turns
  BY <1>1, <1>5 DEF TurnInv
<1>11. Commanded' \subseteq Commanded
  BY <1>7 DEF Commanded
<1>12. wire'.reply.cmd # None => wire'.reply.cmd # page'.key
  BY <1>1, <1>5
<1>13. QED
  BY <1>1, <1>5, <1>6, <1>8, <1>9, <1>10, <1>11, <1>12, PageKeeps

(* A reply is a command, a refusal of it, a release or a navigation. *)
LEMMA ReceiveKeeps ==
    ASSUME RelayInv, Receive
    PROVE  RelayInv'
<1> USE BridgeAssumption DEF RelayInv, BridgeInv
<1> DEFINE told == wire.reply.release
           cmd == wire.reply.cmd
           taken == cmd # None /\ told = None /\ page.key = None
           refusal == [run |-> cmd.run, n |-> cmd.n, ok |-> FALSE]
           heard == [page EXCEPT
                        !.ack = IF @ = wire.reply.told THEN None ELSE @,
                        !.rel = IF told = None THEN @ ELSE told,
                        !.broken = IF told = None THEN @ ELSE page.key # None]
<1>1. UNCHANGED <<server, calls, launches, closed>> /\ faults' = faults
      /\ wire' = [Quiet EXCEPT !.late = wire.late]
  BY DEF Receive, history
<1>2. \/ /\ taken /\ cmd.run # page.rel
         /\ page' = [heard EXCEPT !.key = cmd, !.broken = FALSE]
      \/ /\ taken
         /\ page' = [heard EXCEPT !.ack = refusal]
      \/ /\ ~taken
         /\ page' = heard
      \/ page' = NewPage(wire.reply.want, wire.reply.nav)
  BY DEF Receive
<1>3. /\ wire'.late = wire.late /\ ~wire'.replied /\ wire'.reply = NoReply
      /\ wire'.reply.cmd = None /\ wire'.reply.release = None
  BY <1>1 DEF Quiet, NoReply
<1>4. wire.reply \in Replies /\ page \in Pages
  BY DEF TypeOK
<1>5. /\ heard \in Pages /\ heard.key = page.key /\ heard.turn = page.turn
      /\ heard.ack \in {page.ack, None}
      /\ told = None => heard.rel = page.rel /\ heard.broken = page.broken
      /\ told # None => heard.rel = told /\ (heard.broken <=> page.key # None)
  BY <1>4 DEF Pages, Replies, Acks
<1>6. cmd # None => cmd \in Commands /\ refusal \in Acks
  BY <1>4 DEF Replies, Commands, Acks
<1>7. (wire' \in [replied : BOOLEAN, reply : Replies, late : Frames])
  BY <1>1 DEF TypeOK, Quiet, NoReply, Replies, Places, Acks
<1>8. page' \in Pages => TypeOK'
  BY <1>1, <1>7 DEF TypeOK, server
<1>9. \A r \in Runs : told = r => disk[r].cancel
  BY DEF LeaseInv
<1>10. wire'.late.turn \in 0..sess.turns /\ page.turn \in 0..sess.turns
       /\ wire.reply.nav \in 0..sess.turns
  BY <1>3 DEF TurnInv
<1> HIDE DEF heard
<1>11. CASE /\ taken /\ cmd.run # page.rel
            /\ page' = [heard EXCEPT !.key = cmd, !.broken = FALSE]
  <2>1. /\ page' \in Pages /\ page'.key = cmd /\ page'.rel = page.rel
        /\ page'.turn = page.turn /\ page'.ack \in {page.ack, None}
    BY <1>5, <1>6, <1>11 DEF Pages
  <2>2. Commanded' \subseteq Commanded /\ Reported' \subseteq Reported
    BY <1>3, <2>1 DEF Commanded, Reported
  <2>3. \A r \in Runs : Silent(r) => Silent(r)'
    BY <1>3, <1>11, <2>1 DEF Silent, PageActs
  <2>4. {page'.turn, wire'.late.turn} \subseteq 0..sess.turns
    BY <1>10, <2>1
  <2>5. QED
    BY <1>1, <1>3, <1>8, <2>1, <2>2, <2>3, <2>4, PageKeeps
<1>12. CASE taken /\ page' = [heard EXCEPT !.ack = refusal]
  <2>1. /\ page' \in Pages /\ page'.key = None /\ page'.rel = page.rel
        /\ page'.turn = page.turn /\ page'.ack = refusal
    BY <1>5, <1>6, <1>12 DEF Pages
  <2>2. Commanded' = {} /\ cmd \in Commanded
    BY <1>3, <1>12, <2>1 DEF Commanded
  <2>3. \A a \in Reported' : a \in Reported \/ (a.run = cmd.run /\ a.n = cmd.n)
    BY <1>3, <2>1 DEF Reported
  <2>4. \A r \in Runs : Silent(r)'
    BY <1>3, <2>1 DEF Silent, PageActs
  <2>5. {page'.turn, wire'.late.turn} \subseteq 0..sess.turns
    BY <1>10, <2>1
  <2>6. QED
    BY <1>1, <1>3, <1>8, <2>1, <2>2, <2>3, <2>4, <2>5, PageKeeps
<1>13. CASE ~taken /\ page' = heard
  <2>1. Commanded' \subseteq Commanded /\ Reported' \subseteq Reported
    BY <1>3, <1>5, <1>13 DEF Commanded, Reported
  <2>2. CASE told = None
    <3>1. \A r \in Runs : Silent(r) => Silent(r)'
      BY <1>3, <1>5, <1>13, <2>2 DEF Silent, PageActs
    <3>2. {page'.turn, wire'.late.turn} \subseteq 0..sess.turns
      BY <1>5, <1>10, <1>13
    <3>3. page'.rel = page.rel
      BY <1>5, <1>13, <2>2
    <3>4. QED
      BY <1>1, <1>3, <1>5, <1>8, <1>13, <2>1, <3>1, <3>2, <3>3, PageKeeps
  <2>3. CASE told # None
    <3>1. \A r \in Runs : Silent(r)'
      BY <1>3, <1>5, <1>13, <2>3 DEF Silent, PageActs
    <3>2. {page'.turn, wire'.late.turn} \subseteq 0..sess.turns
      BY <1>5, <1>10, <1>13
    <3>3. \A r \in Runs : r \in {page'.rel, wire'.late.rel} =>
             r \in {page.rel, wire.late.rel} \/ (disk[r].cancel /\ Silent(r)')
      BY <1>3, <1>5, <1>9, <1>13, <2>3, <3>1
    <3>4. QED
      BY <1>1, <1>3, <1>5, <1>8, <1>13, <2>1, <3>1, <3>2, <3>3, PageKeeps
  <2>4. QED
    BY <2>2, <2>3
<1>14. CASE page' = NewPage(wire.reply.want, wire.reply.nav)
  <2>1. /\ page' \in Pages /\ page'.key = None /\ page'.rel = None
        /\ page'.turn = wire.reply.nav /\ page'.ack = None
    BY <1>4, <1>14 DEF NewPage, Pages, Replies, Acks
  <2>2. Commanded' = {} /\ Reported' \subseteq Reported
    BY <1>3, <2>1 DEF Commanded, Reported
  <2>3. \A r \in Runs : Silent(r)'
    BY <1>3, <2>1 DEF Silent, PageActs
  <2>4. {page'.turn, wire'.late.turn} \subseteq 0..sess.turns
    BY <1>10, <2>1
  <2>5. QED
    BY <1>1, <1>3, <1>8, <2>1, <2>2, <2>3, <2>4, PageKeeps
<1>15. QED
  BY <1>2, <1>11, <1>12, <1>13, <1>14

-----------------------------------------------------------------------------
(* What one frame does, given what it chooses from. *)
Served(f, late, frees, lets, ack, send, nav) ==
    /\ lets = (f.rel = mem.run /\ Cancelled(mem.run))
    /\ frees = (lets /\ mem.run \notin Live)
    /\ send => Sendable(f)
    /\ nav # 0 => MayLeave' /\ nav = sess.turn
    /\ closed' = IF frees THEN closed \cup (mem.leases \cap {mem.run}) ELSE closed
    /\ disk' = IF frees THEN [disk EXCEPT ![mem.run].ctl = mem.status] ELSE disk
    /\ youngest' = IF frees THEN mem.run ELSE youngest
    /\ sess' = [sess EXCEPT !.at = f.at,
                            !.acked = IF sess.turn = 0 THEN @
                                      ELSE f.turn = sess.turn /\ f.at = sess.want]
    /\ mem' = [mem EXCEPT !.pending.ack = ack, !.pending.sent = @ \/ send,
                          !.acks = IF lets THEN @ \cup {mem.run} ELSE @,
                          !.leases = IF frees THEN @ \ {mem.run} ELSE @]
    /\ wire' = IF late THEN [wire EXCEPT !.late = NoFrame]
               ELSE [wire EXCEPT
                        !.replied = TRUE,
                        !.reply = [cmd |-> IF send THEN Command ELSE None,
                                   release |-> IF Cancelled(mem.run) THEN mem.run ELSE None,
                                   nav |-> nav, want |-> sess.want, told |-> f.ack]]

(* Every frame is served so. *)
LEMMA ServeFacts ==
    ASSUME RelayInv, NEW f \in Frames, NEW late \in BOOLEAN, Serve(f, late)
    PROVE  \E frees, lets, send \in BOOLEAN, ack \in Acked(f), nav \in Nat :
               Served(f, late, frees, lets, ack, send, nav)
<1> DEFINE lets == f.rel = mem.run /\ Cancelled(mem.run)
           frees == lets /\ mem.run \notin Live
<1>1. PICK ack \in Acked(f), send \in {FALSE, Sendable(f)} :
         /\ mem' = [mem EXCEPT !.pending.ack = ack, !.pending.sent = @ \/ send,
                               !.acks = IF lets THEN @ \cup {mem.run} ELSE @,
                               !.leases = IF frees THEN @ \ {mem.run} ELSE @]
         /\ \E nav \in {0, IF MayLeave' THEN sess.turn ELSE 0} :
                wire' = IF late THEN [wire EXCEPT !.late = NoFrame]
                        ELSE [wire EXCEPT
                                 !.replied = TRUE,
                                 !.reply = [cmd |-> IF send THEN Command ELSE None,
                                            release |-> IF Cancelled(mem.run) THEN mem.run
                                                        ELSE None,
                                            nav |-> nav, want |-> sess.want,
                                            told |-> f.ack]]
  BY DEF Serve
<1>2. PICK nav \in {0, IF MayLeave' THEN sess.turn ELSE 0} :
         wire' = IF late THEN [wire EXCEPT !.late = NoFrame]
                 ELSE [wire EXCEPT
                          !.replied = TRUE,
                          !.reply = [cmd |-> IF send THEN Command ELSE None,
                                     release |-> IF Cancelled(mem.run) THEN mem.run
                                                 ELSE None,
                                     nav |-> nav, want |-> sess.want,
                                     told |-> f.ack]]
  BY <1>1
<1>3. nav \in Nat /\ (nav # 0 => MayLeave' /\ nav = sess.turn)
  BY DEF RelayInv, BridgeInv, TypeOK, Sessions
<1>4. send \in BOOLEAN /\ (send => Sendable(f))
  BY DEF Sendable
<1>5. lets \in BOOLEAN /\ frees \in BOOLEAN
  BY DEF Cancelled
<1>6. /\ closed' = IF frees THEN closed \cup (mem.leases \cap {mem.run}) ELSE closed
      /\ disk' = IF frees THEN [disk EXCEPT ![mem.run].ctl = mem.status] ELSE disk
      /\ youngest' = IF frees THEN mem.run ELSE youngest
      /\ sess' = [sess EXCEPT !.at = f.at,
                              !.acked = IF sess.turn = 0 THEN @
                                        ELSE f.turn = sess.turn /\ f.at = sess.want]
  BY DEF Serve
<1> HIDE DEF lets, frees
<1>7. lets = (f.rel = mem.run /\ Cancelled(mem.run)) /\ frees = (lets /\ mem.run \notin Live)
  BY DEF lets, frees
<1>8. Served(f, late, frees, lets, ack, send, nav)
  BY <1>1, <1>2, <1>3, <1>4, <1>6, <1>7 DEF Served
<1>9. QED
  BY <1>3, <1>4, <1>5, <1>8

(* There is nothing to acknowledge or to send when nothing is pending. *)
LEMMA NothingIsSent ==
    ASSUME NEW ack, ack = "none", NEW send \in BOOLEAN, ~send
    PROVE  [NoInput EXCEPT !.ack = ack, !.sent = @ \/ send] = NoInput
<1> DEFINE p == [NoInput EXCEPT !.ack = ack, !.sent = @ \/ send]
<1>1. p \in [run : {None}, n : {0}, sent : BOOLEAN, ack : {"none"}]
  BY DEF NoInput
<1>2. ~p.sent
  BY DEF NoInput
<1>3. p \in [run : {None}, n : {0}, sent : {FALSE}, ack : {"none"}]
  <2> HIDE DEF p
  <2>1. QED
    BY <1>1, <1>2
<1>4. QED
  <2> HIDE DEF p
  <2>1. p = NoInput
    BY <1>3 DEF NoInput
  <2>2. QED
    BY <2>1 DEF p

(* A frame, late or not: an acknowledgement counts for the input it names, *)
(* a command is sent once and of a run that goes on, the locks are let go  *)
(* when the page is silent, and it is sent away from an idle game.         *)
LEMMA ServeKeeps ==
    ASSUME RelayInv, NEW f \in Frames, NEW late \in BOOLEAN, Serve(f, late),
           f.ack = None \/ f.ack \in Reported,
           \A r \in Runs : f.rel = r => r \in {page.rel, wire.late.rel},
           late => f = wire.late
    PROVE  RelayInv'
<1> USE BridgeAssumption DEF RelayInv, BridgeInv
<1>1. /\ mem.up /\ worker' = worker /\ page' = page /\ calls' = calls
      /\ launches' = launches /\ faults' = faults
  BY DEF Serve
<1>2. PICK frees \in BOOLEAN, lets \in BOOLEAN, send \in BOOLEAN, ack \in Acked(f), nav \in Nat :
        Served(f, late, frees, lets, ack, send, nav)
  BY ServeFacts
<1>3. /\ lets = (f.rel = mem.run /\ Cancelled(mem.run))
      /\ frees = (lets /\ mem.run \notin Live)
      /\ send => Sendable(f)
      /\ nav # 0 => MayLeave' /\ nav = sess.turn
      /\ closed' = IF frees THEN closed \cup (mem.leases \cap {mem.run}) ELSE closed
      /\ disk' = IF frees THEN [disk EXCEPT ![mem.run].ctl = mem.status] ELSE disk
      /\ youngest' = IF frees THEN mem.run ELSE youngest
      /\ sess' = [sess EXCEPT !.at = f.at,
                              !.acked = IF sess.turn = 0 THEN @
                                        ELSE f.turn = sess.turn /\ f.at = sess.want]
      /\ mem' = [mem EXCEPT !.pending.ack = ack, !.pending.sent = @ \/ send,
                            !.acks = IF lets THEN @ \cup {mem.run} ELSE @,
                            !.leases = IF frees THEN @ \ {mem.run} ELSE @]
      /\ wire' = IF late THEN [wire EXCEPT !.late = NoFrame]
                 ELSE [wire EXCEPT
                          !.replied = TRUE,
                          !.reply = [cmd |-> IF send THEN Command ELSE None,
                                     release |-> IF Cancelled(mem.run) THEN mem.run
                                                 ELSE None,
                                     nav |-> nav, want |-> sess.want,
                                     told |-> f.ack]]
  BY <1>2 DEF Served
<1>4. /\ mem \in Memory /\ mem.pending \in Inputs \cup {NoInput} /\ sess \in Sessions
      /\ wire \in [replied : BOOLEAN, reply : Replies, late : Frames] /\ page \in Pages
      /\ disk \in [Runs -> Folders] /\ worker \in [Runs -> Workers]
  BY DEF TypeOK, Memory
(* the pending input *)
<1>5. mem.pending # NoInput => mem.pending \in Inputs /\ mem.pending.run \in Runs
  BY <1>4 DEF Inputs
<1>6. /\ ack \in {"none", "ok", "bad"}
      /\ ack # mem.pending.ack => /\ mem.pending.sent /\ f.ack # None
                                  /\ f.ack.run = mem.pending.run /\ f.ack.n = mem.pending.n
                                  /\ ack = "ok" => f.ack.ok
  BY <1>4 DEF Acked, Inputs, NoInput
<1>7. mem.pending = NoInput => ack = "none" /\ ~send
  BY <1>3, <1>6 DEF NoInput, Sendable
<1>8. /\ mem'.pending.run = mem.pending.run /\ mem'.pending.n = mem.pending.n
      /\ mem'.pending.sent = (mem.pending.sent \/ send) /\ mem'.pending.ack = ack
      /\ mem'.pending \in Inputs \cup {NoInput}
      /\ mem.pending = NoInput <=> mem'.pending = NoInput
  <2>1. mem'.pending = [mem.pending EXCEPT !.ack = ack, !.sent = @ \/ send]
    BY <1>3, <1>4 DEF Memory
  <2>2. CASE mem.pending = NoInput
    <3>1. ack = "none" /\ ~send
      BY <1>7, <2>2
    <3>2. mem'.pending = [NoInput EXCEPT !.ack = ack, !.sent = @ \/ send]
      BY <2>1, <2>2
    <3>3. mem'.pending = NoInput
      BY <3>1, <3>2, NothingIsSent
    <3>4. NoInput.sent = FALSE /\ NoInput.ack = "none"
      BY DEF NoInput
    <3>5. QED
      BY <2>2, <3>1, <3>3, <3>4
  <2>3. CASE mem.pending \in Inputs
    <3>1. /\ mem'.pending.run = mem.pending.run /\ mem'.pending.n = mem.pending.n
          /\ mem'.pending.sent = (mem.pending.sent \/ send) /\ mem'.pending.ack = ack
          /\ mem'.pending \in Inputs
      BY <1>6, <2>1, <2>3 DEF Inputs
    <3>2. NoInput \notin Inputs
      BY BridgeAssumption DEF NoInput, Inputs
    <3>3. QED
      BY <2>3, <3>1, <3>2
  <2>4. QED
    BY <1>4, <2>2, <2>3
<1>9. /\ mem'.up /\ mem'.run = mem.run /\ mem'.status = mem.status /\ mem'.acked = mem.acked
      /\ mem'.quars = mem.quars
      /\ mem'.acks = IF lets THEN mem.acks \cup {mem.run} ELSE mem.acks
      /\ mem'.leases = IF frees THEN mem.leases \ {mem.run} ELSE mem.leases
  BY <1>1, <1>3, <1>4 DEF Memory
<1>10. lets => mem.run \in Runs /\ disk[mem.run].cancel
  BY <1>3, <1>4 DEF Memory, Cancelled
<1>11. frees => /\ worker[mem.run].pc = "none" /\ disk[mem.run].ctl # "none"
                /\ disk[mem.run].claim
                /\ mem.status \in {"requesting", "running"} \cup Terminal
  <2>1. frees => mem.run \in Runs /\ worker[mem.run].pc = "none"
    BY <1>3, <1>10 DEF Live
  <2>2. frees => disk[mem.run].ctl # "none" /\ mem.status # "idle"
    BY <2>1 DEF WorkInv
  <2>3. QED
    BY <1>4, <2>1, <2>2 DEF FolderInv, Memory
(* the folders *)
<1>12. /\ disk' \in [Runs -> Folders]
       /\ \A x \in Runs :
             /\ disk'[x].claim = disk[x].claim /\ disk'[x].cancel = disk[x].cancel
             /\ disk'[x].said = disk[x].said /\ disk'[x].api = disk[x].api
             /\ disk'[x].quar = disk[x].quar /\ disk'[x].rel = disk[x].rel
             /\ disk'[x].ctl = disk[x].ctl
                \/ (frees /\ x = mem.run /\ disk'[x].ctl = mem.status)
  <2>1. CASE frees
    <3>1. disk' = [disk EXCEPT ![mem.run].ctl = mem.status] /\ mem.run \in Runs
      BY <1>3, <1>10, <2>1
    <3>2. [disk[mem.run] EXCEPT !.ctl = mem.status] \in Folders
      BY <1>4, <1>11, <2>1, <3>1 DEF Folders
    <3>3. disk' \in [Runs -> Folders]
      BY <1>4, <3>1, <3>2
    <3>4. QED
      BY <1>4, <2>1, <3>1, <3>3 DEF Folders
  <2>2. CASE ~frees
    BY <1>3, <1>4, <2>2
  <2>3. QED
    BY <2>1, <2>2
<1>13. FolderInv'
  <2>1. youngest' # None => disk'[youngest'].ctl # "none"
    <3>1. \A x \in Runs : disk[x].ctl # "none" => disk'[x].ctl # "none"
      BY <1>11, <1>12 DEF Terminal
    <3>2. youngest \in Runs \cup {None}
      BY DEF TypeOK
    <3>3. youngest # None => disk[youngest].ctl # "none"
      BY DEF FolderInv
    <3>4. frees => disk[mem.run].ctl # "none" /\ mem.run \in Runs
      BY <1>3, <1>10, <1>11
    <3>5. QED
      BY <1>3, <3>1, <3>2, <3>3, <3>4
  <2>2. \A x \in Runs :
           /\ disk'[x].ctl = "none" => disk'[x].quar = 0
           /\ disk'[x].ctl \in {"missing", "corrupt"} => disk'[x].quar < MaxIds
           /\ ~disk'[x].claim => /\ launches'[x] = 0 /\ calls'[x] = 0 /\ disk'[x].api = "none"
                                 /\ disk'[x].ctl = "none"
                                 /\ (disk'[x].said => disk'[x].cancel)
    BY <1>1, <1>11, <1>12 DEF FolderInv, Terminal
  <2>3. \A x \in Runs :
           worker'[x].pc # "none" =>
               disk'[x].claim /\ launches'[x] = 1 /\ disk'[x].ctl # "none"
    BY <1>1, <1>11, <1>12 DEF FolderInv
  <2>4. QED
    BY <2>1, <2>2, <2>3 DEF FolderInv
<1>14. (OneController /\ OutcomeHonest /\ CallInv)'
  BY <1>1, <1>12 DEF OneController, OutcomeHonest, CallInv
<1>15. WorkInv'
  <2>1. Torn' \subseteq Torn
    BY <1>11, <1>12 DEF Torn, Known, Terminal
  <2>2. Damaged' = Damaged /\ Live' = Live
    BY <1>1, <1>12 DEF Damaged, Live
  <2>held. \A x \in mem.quars : disk'[x].quar = disk[x].quar
    BY <1>4, <1>12 DEF TypeOK, Memory
  <2>3. OneWorker'
    <3>1. OneWorker
      BY DEF WorkInv
    <3>2. QED
      BY <1>1, <1>8, <1>9, <2>1, <2>2, <2>held, <3>1 DEF OneWorker
  <2>4. mem'.run # None => mem'.status # "idle" /\ disk'[mem'.run].ctl # "none"
    <3>1. mem.run \in Runs \cup {None}
      BY <1>4 DEF Memory
    <3>2. QED
      BY <1>9, <1>11, <1>12, <3>1 DEF WorkInv, Terminal
  <2>5. mem'.pending # NoInput =>
           /\ worker'[mem'.pending.run].pc = "input"
           /\ worker'[mem'.pending.run].inputs = mem'.pending.n
           /\ mem'.pending.ack = "ok" => mem'.pending.sent
    BY <1>1, <1>6, <1>8 DEF WorkInv
  <2>6. QED
    BY <1>1, <1>9, <2>3, <2>4, <2>5 DEF WorkInv
<1>16. TypeOK'
  <2>1. mem' \in Memory
    <3>1. mem'.leases \subseteq Runs /\ mem'.acks \subseteq Runs
      BY <1>4, <1>9, <1>10 DEF Memory
    <3>2. mem' = [mem EXCEPT !.pending = mem'.pending, !.acks = mem'.acks,
                             !.leases = mem'.leases]
      BY <1>3, <1>4, <1>9 DEF Memory
    <3>3. QED
      BY <1>4, <1>8, <3>1, <3>2 DEF Memory
  <2>2. sess' \in Sessions
    BY <1>3, <1>4 DEF Sessions, Frames
  <2>3. send => Command \in Commands
    BY <1>5, <1>7 DEF Command, Commands, Inputs
  <2>4. wire' \in [replied : BOOLEAN, reply : Replies, late : Frames]
    <3>1. CASE late
      <4>1. NoFrame \in Frames
        BY DEF NoFrame, Frames, Acks, Places
      <4>2. QED
        BY <1>3, <1>4, <3>1, <4>1
    <3>2. CASE ~late
      <4>1. /\ (IF send THEN Command ELSE None) \in Commands \cup {None}
            /\ (IF Cancelled(mem.run) THEN mem.run ELSE None) \in Runs \cup {None}
            /\ nav \in Nat /\ sess.want \in Places /\ f.ack \in Acks
        BY <1>4, <2>3 DEF Memory, Sessions, Frames
      <4>2. wire'.reply \in Replies /\ wire' = [wire EXCEPT !.replied = TRUE, !.reply = wire'.reply]
        BY <1>3, <1>4, <3>2, <4>1 DEF Replies
      <4>3. QED
        BY <1>4, <4>2
    <3>3. QED
      BY <3>1, <3>2
  <2>5. closed' \subseteq Runs /\ youngest' \in Runs \cup {None}
    BY <1>3, <1>4, <1>10 DEF TypeOK, Memory
  <2>6. QED
    BY <1>1, <1>12, <2>1, <2>2, <2>4, <2>5 DEF TypeOK
(* what the page is told *)
<1>17. /\ late => wire'.reply = wire.reply /\ wire'.replied = wire.replied
                  /\ wire'.late = NoFrame
       /\ ~late => /\ wire'.replied /\ wire'.late = wire.late
                   /\ wire'.reply.cmd = (IF send THEN Command ELSE None)
                   /\ wire'.reply.release = (IF Cancelled(mem.run) THEN mem.run ELSE None)
                   /\ wire'.reply.nav = nav /\ wire'.reply.want = sess.want
  BY <1>3, <1>4
<1>18. send => /\ mem.pending # NoInput /\ ~mem.pending.sent /\ ack # "ok"
               /\ mem.pending.run = mem.run /\ ~disk[mem.run].cancel
               /\ worker[mem.run].pc = "input" /\ worker[mem.run].inputs = mem.pending.n
               /\ disk[mem.run].claim /\ mem.run \in Runs
  <2>1. send => /\ mem.pending # NoInput /\ ~mem.pending.sent /\ ~Cancelled(mem.pending.run)
    BY <1>3 DEF Sendable
  <2>2. mem.pending # NoInput => mem.pending.run \in Live /\ mem.pending.run = mem.run
    BY DEF WorkInv, OneWorker
  <2>3. send => mem.run \in Runs /\ ~disk[mem.run].cancel
    BY <2>1, <2>2 DEF Cancelled, Live
  <2>4. send => ack = mem.pending.ack
    BY <1>6, <2>1
  <2>5. QED
    BY <2>1, <2>2, <2>3, <2>4 DEF WorkInv, FolderInv
<1>19. Command.run = mem.pending.run /\ Command.n = mem.pending.n
  BY DEF Command
<1>20. /\ \A c \in Commanded' : c \in Commanded \/ (send /\ c = Command)
       /\ Reported' \subseteq Reported
  BY <1>1, <1>17 DEF Commanded, Reported, NoFrame
<1>21. \A c \in Commanded \cup Reported : c.run \in Runs
  BY <1>4 DEF Pages, Replies, Frames, Acks, Commands, Commanded, Reported
<1>22. InputInv'
  <2>1. \A c \in Commanded \cup Reported : Fresh(c)'
    <3>1. TAKE c \in Commanded \cup Reported
    <3>2. Fresh(c) /\ c.run \in Runs
      BY <1>21 DEF InputInv
    <3>3. QED
      BY <1>1, <1>8, <1>12, <3>2 DEF Fresh
  <2>2. \A c \in Commanded : Current(c)'
    <3>1. SUFFICES ASSUME NEW c \in Commanded,
                          worker[c.run].pc # "none" /\ ~worker[c.run].bad
                   PROVE  /\ mem'.pending.run = c.run /\ mem'.pending.n = c.n
                          /\ mem'.pending.sent /\ mem'.pending.ack # "ok"
      BY <1>1 DEF Current
    <3>2. /\ mem.pending.run = c.run /\ mem.pending.n = c.n
          /\ mem.pending.sent /\ mem.pending.ack # "ok"
      BY <3>1 DEF InputInv, Current
    <3>3. f.ack # None /\ f.ack.ok => f.ack.run # c.run \/ f.ack.n # c.n
      BY DEF InputInv
    <3>4. QED
      BY <1>6, <1>8, <3>2, <3>3
  <2>3. send => \A c \in {Command} : Fresh(c)' /\ Current(c)'
    <3>1. SUFFICES ASSUME send, NEW c, c = Command
                   PROVE  Fresh(c)' /\ Current(c)'
      OBVIOUS
    <3>2. c.run = mem.run /\ c.n = mem.pending.n
      BY <1>18, <1>19, <3>1
    <3>3. Fresh(c)'
      BY <1>1, <1>4, <1>5, <1>8, <1>12, <1>18, <3>1, <3>2 DEF Fresh, Inputs
    <3>4. Current(c)'
      BY <1>1, <1>8, <1>18, <3>1, <3>2 DEF Current
    <3>5. QED
      BY <3>3, <3>4
  <2>4. send => \A c \in Commanded \cup Reported : c.run # Command.run \/ c.n # Command.n
    <3>1. \A c \in Commanded \cup Reported : Fresh(c) /\ (c.n \in Nat)
      BY <1>4 DEF InputInv, Pages, Replies, Frames, Acks, Commands, Commanded, Reported
    <3>2. send => mem.pending.n \in Nat
      BY <1>5, <1>18 DEF Inputs
    <3>3. QED
      BY <1>18, <1>19, <3>1, <3>2 DEF Fresh
  <2>5. wire'.reply.cmd # None => wire'.reply.cmd # page'.key
    <3>1. CASE late
      BY <1>1, <1>17, <3>1 DEF InputInv
    <3>2. CASE ~late
      <4>1. page.key # None => page.key \in Commanded
        BY DEF Commanded
      <4>2. wire'.reply.cmd # None => send /\ wire'.reply.cmd = Command
        BY <1>17, <3>2
      <4>3. QED
        BY <1>1, <2>4, <4>1, <4>2
    <3>3. QED
      BY <3>1, <3>2
  <2>6. \A a \in Reported' : a.ok => \A c \in Commanded' : c.run # a.run \/ c.n # a.n
    BY <1>20, <2>4 DEF InputInv
  <2>7. QED
    BY <1>20, <2>1, <2>2, <2>3, <2>5, <2>6 DEF InputInv
<1>23. LeaseInv'
  <2>1. \A r \in Runs : Silent(r) /\ (send => r # mem.run) => Silent(r)'
    BY <1>1, <1>17, <1>18, <1>19 DEF Silent, PageActs
  <2>2. lets => Silent(mem.run) /\ ~send
    BY <1>3, <1>10, <1>18 DEF LeaseInv
  <2>3. closed \subseteq Runs
    BY DEF TypeOK
  <2>4. \A r \in closed' : worker'[r].pc = "none" /\ disk'[r].claim /\ Silent(r)'
    <3>1. TAKE r \in closed'
    <3>2. CASE r \in closed
      <4>1. worker[r].pc = "none" /\ disk[r].claim /\ Silent(r) /\ r \in Runs
        BY <2>3, <3>2 DEF LeaseInv
      <4>2. send => r # mem.run
        BY <1>18, <4>1
      <4>3. QED
        BY <1>1, <1>12, <2>1, <4>1, <4>2
    <3>3. CASE frees /\ r = mem.run
      <4>1. lets /\ r \in Runs
        BY <1>3, <1>10, <3>3
      <4>2. QED
        BY <1>1, <1>11, <1>12, <2>1, <2>2, <3>3, <4>1
    <3>4. QED
      BY <1>3, <3>2, <3>3
  <2>5. \A r \in Runs : r \in mem'.acks \/ r \in {page'.rel, wire'.late.rel}
                            => disk'[r].cancel /\ Silent(r)'
    <3>1. SUFFICES ASSUME NEW r \in Runs, r \in mem'.acks \/ r \in {page'.rel, wire'.late.rel}
                   PROVE  disk'[r].cancel /\ Silent(r)'
      OBVIOUS
    <3>2. \/ r \in mem.acks \/ r \in {page.rel, wire.late.rel}
          \/ lets /\ r = mem.run
      BY <1>1, <1>9, <1>17, <3>1, BridgeAssumption DEF NoFrame
    <3>3. disk[r].cancel /\ Silent(r)
      BY <1>10, <2>2, <3>2 DEF LeaseInv
    <3>4. QED
      BY <1>12, <1>18, <2>1, <3>3
  <2>6. \A r \in Runs : wire'.reply.release = r => disk'[r].cancel /\ wire'.reply.cmd = None
    <3>1. CASE late
      BY <1>12, <1>17, <3>1 DEF LeaseInv
    <3>2. CASE ~late
      BY <1>12, <1>17, <1>18, <3>2, BridgeAssumption DEF Cancelled
    <3>3. QED
      BY <3>1, <3>2
  <2>7. QED
    BY <2>4, <2>5, <2>6 DEF LeaseInv
<1>24. /\ sess'.turn = sess.turn /\ sess'.want = sess.want /\ sess'.turns = sess.turns
       /\ sess.turn # 0 /\ sess'.acked => f.turn = sess.turn
  BY <1>3, <1>4 DEF Sessions
<1>25. TurnInv'
  <2>1. {sess'.turn, page'.turn, wire'.late.turn, wire'.reply.nav} \subseteq 0..sess'.turns
    <3>1. 0 \in 0..sess.turns
      BY <1>4 DEF Sessions
    <3>2. QED
      BY <1>1, <1>3, <1>17, <1>24, <3>1 DEF TurnInv, NoFrame
  <2>2. wire'.replied /\ wire'.reply.nav # 0 /\ wire'.reply.want = "waiting"
            /\ sess'.want = "game"
        => wire'.late.turn < sess'.turn /\ ~sess'.acked
    <3>1. CASE late
      <4>1. wire.late.turn \in Nat /\ sess.turn \in Nat
        BY <1>4 DEF Frames, Sessions
      <4>2. wire'.late.turn = 0
        BY <1>17, <3>1 DEF NoFrame
      <4>3. sess.turn # 0 /\ sess'.acked => wire.late.turn = sess.turn
        BY <1>24, <3>1
      <4>4. wire.replied /\ wire.reply.nav # 0 /\ wire.reply.want = "waiting"
                /\ sess.want = "game"
            => wire.late.turn < sess.turn
        BY DEF TurnInv
      <4>5. QED
        <5>1. /\ wire'.replied = wire.replied /\ wire'.reply = wire.reply
              /\ sess'.want = sess.want /\ sess'.turn = sess.turn
          BY <1>17, <1>24, <3>1
        <5>2. wire.late.turn < sess.turn => 0 < sess.turn /\ sess.turn # wire.late.turn
          BY <4>1
        <5>3. QED
          BY <4>2, <4>3, <4>4, <5>1, <5>2
    <3>2. CASE ~late
      BY <1>17, <1>24, <3>2
    <3>3. QED
      BY <3>1, <3>2
  <2>3. ~wire'.replied => wire'.reply = NoReply
    BY <1>17 DEF TurnInv
  <2>4. QED
    BY <2>1, <2>2, <2>3 DEF TurnInv
<1>26. Undisturbed'
  <2>1. CASE late
    BY <1>9, <1>17, <2>1 DEF Undisturbed
  <2>2. CASE ~late
    <3>1. mem'.leases \subseteq {mem'.run}
      BY <1>15 DEF WorkInv, OneWorker
    <3>2. nav # 0 => mem'.run \notin mem'.leases
      BY <1>3 DEF MayLeave, Active
    <3>3. QED
      BY <1>17, <2>2, <3>1, <3>2 DEF Undisturbed
  <2>3. QED
    BY <2>1, <2>2
<1>27. QED
  BY <1>13, <1>14, <1>15, <1>16, <1>22, <1>23, <1>25, <1>26 DEF WorkInv

(* The frame that is served is the page's, or was. *)
LEMMA FramesKeep ==
    ASSUME RelayInv, Poll \/ ServeLate
    PROVE  RelayInv'
<1>1. CASE Poll
  <2>1. Serve(Frame, FALSE)
    BY <1>1 DEF Poll
  <2>2. Frame \in Frames /\ Frame.ack = page.ack /\ Frame.rel = page.rel
    BY DEF RelayInv, BridgeInv, TypeOK, Pages, Frames, Frame
  <2>3. Frame.ack = None \/ Frame.ack \in Reported
    BY <2>2 DEF Reported
  <2>4. \A r \in Runs : Frame.rel = r => r \in {page.rel, wire.late.rel}
    BY <2>2
  <2>5. QED
    BY <2>1, <2>2, <2>3, <2>4, ServeKeeps
<1>2. CASE ServeLate
  <2>1. Serve(wire.late, TRUE)
    BY <1>2 DEF ServeLate
  <2>2. wire.late \in Frames
    BY DEF RelayInv, BridgeInv, TypeOK
  <2>3. wire.late.ack = None \/ wire.late.ack \in Reported
    BY DEF Reported
  <2>4. \A r \in Runs : wire.late.rel = r => r \in {page.rel, wire.late.rel}
    OBVIOUS
  <2>5. QED
    BY <2>1, <2>2, <2>3, <2>4, ServeKeeps
<1>3. QED
  BY <1>1, <1>2

-----------------------------------------------------------------------------
(* Nothing is claimed, held or said in the beginning. *)
LEMMA BridgeInit == Init => RelayInv
<1> SUFFICES ASSUME Init
             PROVE  RelayInv
  OBVIOUS
<1> USE BridgeAssumption
<1>1. /\ disk = [r \in Runs |-> NoFolder] /\ youngest = None /\ mem = ColdStart
      /\ worker = [r \in Runs |-> NoWorker] /\ sess = NoSession(0)
      /\ page = NewPage("game", 0) /\ wire = Quiet
      /\ calls = [r \in Runs |-> 0] /\ launches = [r \in Runs |-> 0]
      /\ faults = 0 /\ closed = {}
  BY DEF Init
<1>2. NoFolder \in Folders
  <2>1. 0 \in 0..MaxIds /\ 0 \in 0..(MaxIds + 1)
    OBVIOUS
  <2>2. QED
    BY <2>1 DEF NoFolder, Folders, Terminal
<1>3. \A r \in Runs : /\ disk[r] = NoFolder /\ worker[r] = NoWorker
                      /\ calls[r] = 0 /\ launches[r] = 0
  BY <1>1
<1>4. /\ wire.reply = NoReply /\ ~wire.replied /\ wire.late = NoFrame
      /\ page.key = None /\ page.ack = None /\ page.rel = None /\ page.turn = 0
  BY <1>1 DEF Quiet, NewPage
<1>5. TypeOK
  <2>1. disk \in [Runs -> Folders]
    BY <1>1, <1>2
  <2>2. mem \in Memory
    BY <1>1 DEF ColdStart, Memory
  <2>3. worker \in [Runs -> Workers]
    <3>1. NoWorker \in Workers
      BY BoundTypes DEF NoWorker, Workers, WorkerSteps
    <3>2. QED
      BY <1>1, <3>1
  <2>4. sess \in Sessions
    BY <1>1 DEF NoSession, Sessions, Places
  <2>5. page \in Pages
    BY <1>1 DEF NewPage, Pages, Places, Acks
  <2>6. wire \in [replied : BOOLEAN, reply : Replies, late : Frames]
    <3>1. NoReply \in Replies
      BY DEF NoReply, Replies, Places, Acks
    <3>2. NoFrame \in Frames
      BY DEF NoFrame, Frames, Places, Acks
    <3>3. QED
      BY <1>1, <3>1, <3>2 DEF Quiet
  <2>7. faults \in 0..MaxFaults
    BY <1>1, BoundTypes
  <2>8. QED
    BY <1>1, <2>1, <2>2, <2>3, <2>4, <2>5, <2>6, <2>7 DEF TypeOK
<1>6. OneController /\ OutcomeHonest /\ CallInv /\ FolderInv
  BY <1>1, <1>3 DEF OneController, OutcomeHonest, CallInv, FolderInv, NoFolder, NoWorker
<1>7. OneWorker /\ WorkInv
  <2>1. Live = {} /\ Torn = {} /\ Damaged = {}
    BY <1>3 DEF Live, Torn, Known, Damaged, NoFolder, NoWorker
  <2>2. mem.leases = {} /\ mem.pending = NoInput /\ mem.up /\ mem.quars = {} /\ mem.run = None
    BY <1>1 DEF ColdStart
  <2>3. QED
    BY <1>3, <2>1, <2>2 DEF WorkInv, OneWorker, NoWorker
<1>8. InputInv
  BY <1>4 DEF InputInv, Commanded, Reported, NoReply, NoFrame
<1>9. LeaseInv
  BY <1>1, <1>4 DEF LeaseInv, NoReply, NoFrame, ColdStart
<1>10. TurnInv /\ Undisturbed
  BY <1>1, <1>4 DEF TurnInv, Undisturbed, NoReply, NoFrame, NoSession
<1>11. QED
  BY <1>5, <1>6, <1>7, <1>8, <1>9, <1>10 DEF RelayInv, BridgeInv

(* One step per action *)
LEMMA BridgeNext == RelayInv /\ [Next]_vars => RelayInv'
<1> SUFFICES ASSUME RelayInv, [Next]_vars
             PROVE  RelayInv'
  OBVIOUS
<1>1. CASE UNCHANGED vars
  <2>1. UNCHANGED <<server, browser, history>>
    BY <1>1 DEF vars
  <2>2. (FolderInv /\ OneController /\ OutcomeHonest /\ CallInv /\ WorkInv)'
    BY <2>1, ServerRests DEF server, history
  <2>3. TypeOK' /\ Undisturbed'
    BY <2>1 DEF RelayInv, BridgeInv, TypeOK, Undisturbed, server, browser, history
  <2>4. InputInv' /\ LeaseInv' /\ TurnInv'
    BY <2>1 DEF RelayInv, InputInv, LeaseInv, TurnInv, Commanded, Reported, Fresh, Current,
       Silent, PageActs, server, browser, history
  <2>5. QED
    BY <2>2, <2>3, <2>4 DEF RelayInv, BridgeInv, WorkInv
<1>2. ASSUME NEW r \in Runs, NEW leased \in BOOLEAN, NEW way \in Modes, Start(r, leased, way)
      PROVE  RelayInv'
  BY <1>2, StartKeeps
<1>3. ASSUME NEW r \in Runs, StartFails(r)
      PROVE  RelayInv'
  BY <1>3, StartFailsKeeps
<1>4. ASSUME NEW r \in Runs, Work(r)
      PROVE  RelayInv'
  BY <1>4, RaiseKeeps, PrepareKeeps, AskKeeps, AnswerKeeps, ValidateKeeps, ReadyKeeps,
     InputKeeps, InputEndsKeeps, ReturnKeeps, SaveKeeps, FailKeeps, EndKeeps DEF Work
<1>5. ASSUME NEW r \in Runs, Operate(r)
      PROVE  RelayInv'
  BY <1>5, CancelKeeps, ReleaseKeeps, UploadKeeps DEF Operate
<1>6. ASSUME NEW r \in Runs, Corrupt(r)
      PROVE  RelayInv'
  BY <1>6, CorruptKeeps
<1>7. CASE Die \/ Recover
  BY <1>7, DieKeeps, RecoverKeeps
<1>8. CASE Browse
  <2>1. CASE Poll \/ ServeLate \/ GiveUp \/ Receive \/ Interrupt \/ KeyUp
    BY <2>1, FramesKeep, GiveUpKeeps, ReceiveKeeps, InterruptKeeps, KeyUpKeeps
  <2>2. ASSUME NEW nav \in 0..MaxTurns,
               Reopen(nav) \/ \E at \in {"game", "waiting"} : Reload(at, nav)
        PROVE  RelayInv'
    <3>1. nav \in Nat
      BY BoundTypes
    <3>2. PICK at \in {"game", "waiting"} : nav <= sess.turns /\ Load(at, nav)
      BY <2>2 DEF Reopen, Reload
    <3>3. QED
      BY <3>1, <3>2, LoadKeeps
  <2>3. QED
    BY <1>8, <2>1, <2>2 DEF Browse
<1>9. ASSUME NEW want \in {"waiting", "game"}, Navigate(want)
      PROVE  RelayInv'
  BY <1>9, NavigateKeeps
<1>10. QED
  BY <1>1, <1>2, <1>3, <1>4, <1>5, <1>6, <1>7, <1>8, <1>9 DEF Next

(* All of it holds always. *)
LEMMA RelaySafety == Spec => []RelayInv
<1>1. Init => RelayInv
  BY BridgeInit
<1>2. RelayInv /\ [Next]_vars => RelayInv'
  BY BridgeNext
<1>3. QED
  BY <1>1, <1>2, PTL DEF Spec

-----------------------------------------------------------------------------
(* What the server has in memory is what it wrote and what the page was    *)
(* told, for any runs, and any number of inputs, faults and navigations:   *)
(* one worker at a time, and no page sent away from a run with the world's *)
(* locks.  Code: start(), _recover_incomplete() and both frame()s.         *)
THEOREM BridgeSafety == Spec => []BridgeInv
<1>1. RelayInv => BridgeInv
  BY DEF RelayInv
<1>2. QED
  BY <1>1, RelaySafety, PTL

(* A request has one controller and, but for an adaptive one, one provider *)
(* call, however often it is sent again and the server restarted.  Code:   *)
(* the claim of start().                                                   *)
THEOREM BridgeOneController == Spec => []OneController
<1>1. RelayInv => OneController
  BY DEF RelayInv
<1>2. QED
  BY <1>1, RelaySafety, PTL

(* No document says that the provider was not called when it was.  Code:   *)
(* api_request(), cancel() and _recover_incomplete().                      *)
THEOREM BridgeOutcomeHonest == Spec => []OutcomeHonest
<1>1. RelayInv => OutcomeHonest
  BY DEF RelayInv
<1>2. QED
  BY <1>1, RelaySafety, PTL

(* The server does not let the world's locks of a run go while the page    *)
(* may still press a key of it.  Code: the finally of _run() and the       *)
(* releaseAck of frame().                                                  *)
THEOREM BridgeLease == Spec => []LeaseOutlivesInput
<1>1. RelayInv => LeaseOutlivesInput
  BY DEF RelayInv, LeaseInv, LeaseOutlivesInput, Silent
<1>2. QED
  BY <1>1, RelaySafety, PTL

(* No controller begins while damaged evidence of another waits for the    *)
(* operator, nor over an unreadable folder but that of a start of this     *)
(* server that failed before it launched anything.  Code: the quarantines  *)
(* of _recover_incomplete(), which start() reads from memory, and which    *)
(* hold all the unacknowledged damage on the disk.                         *)
THEOREM BridgeNoStartOverDamage == Spec => NoStartOverDamage
<1>1. ASSUME RelayInv, [Next]_vars, NEW r \in Runs, launches'[r] > launches[r]
      PROVE  Damaged = {} /\ \A t \in Torn : launches[t] = 0
  <2>1. launches[r] \in Nat
    BY <1>1 DEF RelayInv, BridgeInv, TypeOK
  <2>2. launches' # launches
    BY <1>1, <2>1
  <2>3. \E x \in Runs, leased \in BOOLEAN, way \in Modes : Start(x, leased, way)
    <3>1. CASE UNCHANGED vars
      BY <2>2, <3>1 DEF vars, history
    <3>2. ASSUME NEW x \in Runs, StartFails(x) \/ Operate(x) \/ Corrupt(x)
          PROVE  launches' = launches
      BY <3>2 DEF StartFails, Operate, Cancel, Release, Upload, Corrupt, history
    <3>3. ASSUME NEW x \in Runs, Work(x)
          PROVE  launches' = launches
      BY <3>3 DEF Work, Raise, Prepare, Ask, Answer, Validate, Ready, Input, InputEnds,
         Return, Save, Fail, End, history
    <3>4. CASE Die \/ Recover
      BY <2>2, <3>4 DEF Die, Recover, history
    <3>5. CASE Browse
      BY <2>2, <3>5 DEF Browse, Poll, ServeLate, Serve, GiveUp, Receive, Interrupt, KeyUp,
         Reopen, Reload, Load, history
    <3>6. ASSUME NEW want \in {"waiting", "game"}, Navigate(want)
          PROVE  launches' = launches
      BY <3>6 DEF Navigate, history
    <3>7. QED
      BY <1>1, <2>2, <3>1, <3>2, <3>3, <3>4, <3>5, <3>6 DEF Next
  <2>4. mem.up /\ mem.quars = {}
    BY <2>3 DEF Start, MayStart
  <2>5. QED
    BY <1>1, <2>4 DEF RelayInv, BridgeInv, OneWorker
<1>2. RelayInv /\ [Next]_vars
        => [\A r \in Runs : launches'[r] > launches[r] =>
                Damaged = {} /\ \A t \in Torn : launches[t] = 0]_vars
  BY <1>1
<1>3. QED
  BY <1>2, RelaySafety, PTL DEF Spec, NoStartOverDamage

(***************************************************************************)
(* The programmable agent and the adaptive controller                      *)
(***************************************************************************)

(* Why programs and runs end *)
Reasons == Terminals \cup Passive \cup
    {"none", "rpc_limit", "replaced", "program_complete", "program_timeout", "raised",
     "budget_limit", "decision_limit", "cancelled", "wall_time_limit", "request_error",
     "adaptive_wall_deadline", "adaptive_observation_unavailable",
     "adaptive_api_response_identity_invalid", "adaptive_actual_token_limit_exceeded",
     "adaptive_evidence_byte_limit", "adaptive_input_receipt_uncertain",
     "adaptive_execution_unavailable"}

(* Programs, counters and traces *)
Programs == [st : {"none", "running", "ended", "joined"}, limit : Nat, allowance : Int,
             requests : Nat, attempts : Nat, actions : Nat, sending : BOOLEAN,
             doubt : BOOLEAN, cancel : BOOLEAN, reason : Reasons]
Counts   == [calls : Nat, reserved : Nat, used : Nat, attempts : Nat, actions : Nat,
             requests : Nat]
Outcomes == {"none", "not_started", "uncertain", "receipt_saved", "confirmed"}
Traces   == [status : {"running", "ended", "failed", "completed"}, reason : Reasons,
             outcome : [Turns -> Outcomes]]
LoopPCs  == {"top", "observe", "plan", "asking", "replace", "stopping", "submit", "running",
             "final", "done"}
CyclePCs == {"top", "observe", "request", "marked", "asking", "answered", "prepare",
             "running", "waiting", "final", "done"}

LoopTypes ==
    /\ mode \in AllModes /\ mode \in ControlModes /\ clock \in {"open", "closing", "over"}
    /\ pc \in IF Adaptive THEN CyclePCs ELSE LoopPCs
    /\ turn \in 0 .. MaxCalls /\ active \in 0 .. turn
    /\ progs \in [Turns -> Programs] /\ cancelled \in BOOLEAN /\ alive \in BOOLEAN
    /\ counters \in Counts /\ trace \in Traces
    /\ saved \in [trace : Traces, counters : Counts]
    /\ called \subseteq 1 .. turn /\ sent \in Nat /\ landed \in Nat

(* The programs that act, or whose counts were not taken over yet *)
Acting == {t \in Turns : progs[t].st \in {"running", "ended"}}

(* Serial and adaptive: that of the turn, while the loop waits for it.     *)
(* Continuous: the active one, however far the loop is.                    *)
ActingInv ==
    /\ \A t \in Acting : IF mode = "continuous" THEN t = active ELSE pc = "running" /\ t = turn
    /\ mode # "continuous" => active = 0
    /\ mode = "continuous" => pc # "running"
    /\ active # 0 => active \in Acting
    /\ pc = "running" => turn \in Acting
    /\ pc = "stopping" => active # 0
    /\ pc \in {"submit", "done"} => active = 0
    /\ pc \notin {"top", "observe", "plan", "waiting", "final", "done"} => turn > 0
    /\ pc \in {"observe", "plan"} => turn < MaxCalls

One(b) == IF b THEN 1 ELSE 0

(* What a program counts of its own inputs *)
Sound(p) ==
    /\ p.attempts <= p.limit /\ p.actions + One(p.sending) <= p.attempts
    /\ p.st = "ended" => ~p.sending
    /\ ~p.doubt => p.actions + One(p.sending) = p.attempts

(* An executor that raised under a loop without step counts: that ended the *)
(* run, and an adaptive run says that it failed.                            *)
Raised == mode # "continuous" /\ pc \in {"final", "done"}
            /\ (Adaptive => trace.status = "failed")
            /\ \E t \in Turns : progs[t].reason = "raised"

(* What was sent and performed is what the controller and the live program *)
(* count together, and the limit of that program is what is left.          *)
InputsInv ==
    /\ counters.attempts <= MaxActions /\ counters.actions <= counters.attempts
    /\ \A t \in Acting :
           /\ Sound(progs[t]) /\ counters.attempts + progs[t].limit <= MaxActions
           /\ sent = counters.attempts + progs[t].attempts
           /\ counters.actions + progs[t].actions <= landed
           /\ landed + One(progs[t].sending) <= sent
    /\ Acting = {} => landed <= sent /\ sent <= MaxActions /\ counters.actions <= landed
    /\ Acting = {} => sent = counters.attempts \/ Raised

(* What was called is counted and paid for. *)
PaidInv ==
    /\ counters.used <= MaxTokens /\ counters.reserved <= MaxTokens
    /\ Adaptive => /\ counters.reserved = Reserve * counters.calls
                   /\ saved.counters.reserved = Reserve * saved.counters.calls
                   /\ Cardinality(called) <= counters.calls
                   /\ Cardinality(called) <= saved.counters.calls
    /\ Adaptive /\ trace.status # "failed" =>
           counters.calls = Cardinality(called) + One(pc = "marked")
    /\ ~Adaptive => counters.reserved = 0 /\ counters.calls = Cardinality(called)
    /\ ~Adaptive /\ pc = "asking" => counters.used + Reserve <= MaxTokens
    /\ pc \in {"request", "marked"} => turn \notin called
    /\ pc = "marked" => /\ saved.counters = counters
                        /\ trace.outcome[turn] = "uncertain"
                        /\ saved.trace.outcome[turn] = "uncertain"

Saved(o) == o \in {"uncertain", "receipt_saved", "confirmed"}

(* What an adaptive run says of its calls and inputs, in memory and as saved *)
TraceInv ==
    Adaptive =>
    /\ \A t \in called : Saved(trace.outcome[t]) /\ Saved(saved.trace.outcome[t])
    /\ trace.status = "running" <=> pc \notin {"final", "done"}
    /\ \A t \in Turns : t < turn => trace.outcome[t] = "confirmed"
    /\ \A t \in Turns : t > turn => trace.outcome[t] = "none"
    /\ trace.status = "completed" \/ pc \in {"waiting", "request"} =>
           turn = 0 \/ trace.outcome[turn] \in {"not_started", "confirmed"}
    /\ pc \in {"prepare", "running", "top", "observe"} =>
           turn = 0 \/ trace.outcome[turn] = "confirmed"
    /\ trace.status # "failed" /\ Acting = {} =>
           counters.actions = counters.attempts /\ landed = sent
    /\ \A t \in Acting :
           /\ counters.actions = counters.attempts
           /\ ~progs[t].doubt => landed = counters.actions + progs[t].actions
    /\ trace.status = "completed" /\ mode = "horizon" => Over \/ trace.reason = "death"
    /\ saved.trace.status = "completed" =>
           trace.status = "completed" /\ saved.trace = trace /\ saved.counters = counters

(* The result is what was saved last. *)
DoneInv == pc = "done" => saved.counters = counters /\ saved.trace = trace

LoopInv == LoopTypes /\ ActingInv /\ InputsInv /\ PaidInv /\ TraceInv /\ DoneInv

-----------------------------------------------------------------------------
(* The bounds are numbers. *)
LEMMA Bounds ==
    /\ MaxCalls \in Nat /\ MaxActions \in Nat /\ MaxRequests \in Nat /\ MaxTokens \in Nat
    /\ Reserve \in Nat /\ MaxCalls > 0 /\ MaxActions > 0 /\ MaxRequests > 0 /\ Reserve > 0
    /\ Turns = 1 .. MaxCalls
BY ControllerAssumption DEF Turns

(* One more call costs one more reservation. *)
LEMMA Products ==
    /\ \A n \in Nat : Reserve * n \in Nat /\ Reserve * (n + 1) = Reserve * n + Reserve
    /\ \A m, n \in Nat : m <= n => Reserve * m <= Reserve * n
BY Bounds, SMTT(30)

(* LoopTypes of what is not there yet *)
LEMMA EmptyTypes ==
    NoProgram \in Programs /\ NoCounts \in Counts /\ NoTrace \in Traces
<1>1. NoProgram \in Programs
  BY DEF NoProgram, Programs, Reasons
<1>2. NoCounts \in Counts
  BY DEF NoCounts, Counts
<1>3. NoTrace \in Traces
  BY DEF NoTrace, Traces, Outcomes, Reasons
<1>4. QED
  BY <1>1, <1>2, <1>3

(* The calls made are finitely many. *)
LEMMA CalledFacts ==
    ASSUME LoopTypes
    PROVE  /\ IsFiniteSet(called) /\ Cardinality(called) \in Nat
           /\ \A t : t \notin called => Cardinality(called \cup {t}) = Cardinality(called) + 1
<1>1. IsFiniteSet(1 .. turn)
  BY FS_Interval, Bounds DEF LoopTypes
<1>2. IsFiniteSet(called)
  BY <1>1, FS_Subset DEF LoopTypes
<1>3. QED
  BY <1>2, FS_CardinalityType, FS_AddElement

(* One program is live at most. *)
LEMMA ActingFacts ==
    ASSUME LoopTypes, ActingInv
    PROVE  /\ \A s, t \in Acting : s = t
           /\ \A t \in Acting : t \in Turns /\ progs[t] \in Programs
           /\ active # 0 => active \in Acting /\ Acting = {active} /\ ~Adaptive /\ active \in Turns
           /\ active = 0 /\ pc # "running" => Acting = {}
           /\ pc = "running" => turn \in Acting /\ Acting = {turn} /\ turn \in Turns
BY Bounds DEF ActingInv, LoopTypes, Acting, Adaptive

(* The invariant holds before the first turn.                              *)
LEMMA LoopStarts == LoopInit => LoopInv
<1> SUFFICES ASSUME LoopInit PROVE LoopInv
  OBVIOUS
<1>1. Acting = {} /\ turn = 0 /\ active = 0 /\ pc = "top" /\ called = {}
  BY DEF LoopInit, Acting, NoProgram
<1>2. LoopTypes
  <2>1. mode \in AllModes /\ mode \in ControlModes /\ clock \in {"open", "closing", "over"}
    BY ControllerAssumption DEF LoopInit
  <2>2. pc \in LoopPCs /\ pc \in CyclePCs
    BY <1>1 DEF LoopPCs, CyclePCs
  <2>3. turn \in 0 .. MaxCalls /\ active \in 0 .. turn /\ called \subseteq 1 .. turn
    BY <1>1, Bounds
  <2>4. progs \in [Turns -> Programs] /\ cancelled \in BOOLEAN /\ alive \in BOOLEAN
    BY EmptyTypes DEF LoopInit
  <2>5. counters \in Counts /\ trace \in Traces /\ saved \in [trace : Traces, counters : Counts]
    BY EmptyTypes DEF LoopInit
  <2>6. sent \in Nat /\ landed \in Nat
    BY DEF LoopInit
  <2>7. QED
    BY <2>1, <2>2, <2>3, <2>4, <2>5, <2>6 DEF LoopTypes
<1>3. ActingInv
  BY <1>1, Bounds DEF LoopInit, ActingInv
<1>4. InputsInv
  BY <1>1, Bounds DEF LoopInit, InputsInv, NoCounts
<1>5. PaidInv
  BY <1>1, Bounds, FS_EmptySet, Products DEF LoopInit, PaidInv, NoCounts, One
<1>6. TraceInv
  BY <1>1, Bounds DEF LoopInit, TraceInv, NoTrace, NoCounts
<1>7. DoneInv
  BY <1>1 DEF DoneInv
<1>8. QED
  BY <1>2, <1>3, <1>4, <1>5, <1>6, <1>7 DEF LoopInv

-----------------------------------------------------------------------------
(* A program asks, sends or ends within its limit, and what was sent and   *)
(* performed moves with what it counts.                                    *)
LEMMA ExecutorKeeps ==
    ASSUME LoopInv, NEW t \in Turns, progs[t].st = "running", NEW p \in Programs,
           Executor(t, p), p.st \in {"running", "ended"}, p.limit = progs[t].limit, Sound(p),
           sent' \in Nat, landed' \in Nat, sent' = counters.attempts + p.attempts,
           counters.actions + p.actions <= landed', landed' + One(p.sending) <= sent',
           Adaptive /\ ~p.doubt => landed' = counters.actions + p.actions
    PROVE  LoopInv'
<1>1. t \in Acting /\ Acting = {t} /\ LoopTypes /\ ActingInv
  BY ActingFacts DEF LoopInv, Acting
<1>2. /\ progs' = [progs EXCEPT ![t] = p] /\ mode' = mode /\ clock' = clock
      /\ cancelled' = cancelled /\ alive' = alive /\ pc' = pc /\ turn' = turn /\ active' = active
      /\ counters' = counters /\ trace' = trace /\ saved' = saved /\ called' = called
  BY DEF Executor, process
<1>3. progs' \in [Turns -> Programs] /\ progs'[t] = p
      /\ \A s \in Turns : s # t => progs'[s] = progs[s]
  BY <1>1, <1>2 DEF LoopTypes
<1>4. Acting' = {t}
  BY <1>1, <1>3 DEF Acting
<1>5. LoopTypes'
  BY <1>1, <1>2, <1>3 DEF LoopTypes, Adaptive
<1>6. ActingInv'
  BY <1>1, <1>2, <1>4 DEF ActingInv
<1>7. InputsInv'
  BY <1>1, <1>2, <1>3, <1>4 DEF LoopInv, InputsInv
<1>8. PaidInv'
  BY <1>2 DEF LoopInv, PaidInv, Adaptive
<1>9. TraceInv'
  BY <1>1, <1>2, <1>3, <1>4 DEF LoopInv, TraceInv, Adaptive, Over
<1>10. DoneInv'
  BY <1>2 DEF LoopInv, DoneInv
<1>11. QED
  BY <1>5, <1>6, <1>7, <1>8, <1>9, <1>10 DEF LoopInv

(* What is known of the counts while a program acts.                       *)
LEMMA ActingCounts ==
    ASSUME LoopInv, NEW t \in Turns, progs[t].st = "running"
    PROVE  /\ progs[t] \in Programs /\ Sound(progs[t])
           /\ counters \in Counts /\ sent \in Nat /\ landed \in Nat
           /\ sent = counters.attempts + progs[t].attempts
           /\ counters.actions + progs[t].actions <= landed
           /\ landed + One(progs[t].sending) <= sent
           /\ Adaptive /\ ~progs[t].doubt => landed = counters.actions + progs[t].actions
<1>1. t \in Acting
  BY DEF Acting
<1>2. progs[t] \in Programs /\ counters \in Counts /\ sent \in Nat /\ landed \in Nat
  BY DEF LoopInv, LoopTypes
<1>3. /\ Sound(progs[t]) /\ sent = counters.attempts + progs[t].attempts
      /\ counters.actions + progs[t].actions <= landed
      /\ landed + One(progs[t].sending) <= sent
  BY <1>1 DEF LoopInv, InputsInv
<1>4. Adaptive /\ ~progs[t].doubt => landed = counters.actions + progs[t].actions
  <2>1. Adaptive => \A u \in Acting : ~progs[u].doubt => landed = counters.actions + progs[u].actions
    BY DEF LoopInv, TraceInv
  <2>2. QED
    BY <1>1, <2>1
<1>5. QED
  BY <1>2, <1>3, <1>4

(* An end changes no count. *)
LEMMA EndedFacts ==
    ASSUME NEW p \in Programs, NEW why \in Reasons
    PROVE  LET q == Ended(p, why)
           IN  /\ q \in Programs /\ q.st = "ended" /\ q.limit = p.limit /\ q.attempts = p.attempts
               /\ q.actions = p.actions /\ q.sending = p.sending /\ q.doubt = p.doubt
               /\ q.reason = why /\ q.requests = p.requests
BY DEF Ended, Programs

(* A program that is ended where no input of it is on its way              *)
LEMMA EndKeepsLoop ==
    ASSUME LoopInv, NEW t \in Turns, Listening(t), NEW p \in Programs, NEW why \in Reasons,
           Executor(t, Ended(p, why)), p.limit = progs[t].limit, p.attempts = progs[t].attempts,
           p.actions = progs[t].actions, p.sending = progs[t].sending,
           progs[t].doubt => p.doubt, UNCHANGED <<sent, landed>>
    PROVE  LoopInv'
<1> DEFINE q == Ended(p, why)
<1>1. progs[t].st = "running" /\ ~progs[t].sending
  BY DEF Listening
<1>2. /\ q \in Programs /\ q.st = "ended" /\ q.limit = p.limit /\ q.attempts = p.attempts
      /\ q.actions = p.actions /\ q.sending = p.sending /\ q.doubt = p.doubt
  BY EndedFacts
<1>3. Sound(q)
  BY <1>1, <1>2, ActingCounts DEF Sound
<1> HIDE DEF q
<1>4. Executor(t, q)
  BY DEF q
<1>5. QED
  BY <1>1, <1>2, <1>3, <1>4, ActingCounts, ExecutorKeeps

(* One request more *)
LEMMA AskedFacts ==
    ASSUME NEW p \in Programs
    PROVE  LET q == Asked(p)
           IN  /\ q \in Programs /\ q.st = p.st /\ q.limit = p.limit /\ q.attempts = p.attempts
               /\ q.actions = p.actions /\ q.sending = p.sending /\ q.doubt = p.doubt
               /\ [q EXCEPT !.doubt = TRUE] \in Programs
<1> DEFINE q == Asked(p)
<1>1. /\ q \in Programs /\ q.st = p.st /\ q.limit = p.limit /\ q.attempts = p.attempts
      /\ q.actions = p.actions /\ q.sending = p.sending /\ q.doubt = p.doubt
  BY DEF Asked, Programs
<1> HIDE DEF q
<1>2. [q EXCEPT !.doubt = TRUE] \in Programs
  BY <1>1 DEF Programs
<1>3. QED
  BY <1>1, <1>2 DEF q

(* The reasons of programs are reasons. *)
LEMMA WhyFacts ==
    {"rpc_limit", "death", "completed", "infrastructure_error", "action_limit", "replaced",
     "program_complete", "time_limit", "program_timeout", "raised"} \subseteq Reasons
BY DEF Reasons, Terminals, Passive

(* A look at the client, which costs nothing                               *)
LEMMA LooksKeeps == ASSUME LoopInv, NEW t \in Turns, Looks(t) PROVE LoopInv'
<1> DEFINE p == Asked(progs[t])
<1>1. progs[t].st = "running" /\ ~progs[t].sending /\ Listening(t)
  BY DEF Looks, Asks, Listening
<1>2. progs[t] \in Programs /\ UNCHANGED <<sent, landed>>
  BY <1>1, ActingCounts DEF Looks
<1>3. /\ p \in Programs /\ p.st = "running" /\ p.limit = progs[t].limit
      /\ p.attempts = progs[t].attempts /\ p.actions = progs[t].actions
      /\ p.sending = progs[t].sending /\ p.doubt = progs[t].doubt
      /\ [p EXCEPT !.doubt = TRUE] \in Programs
  BY <1>1, <1>2, AskedFacts
<1>4. CASE Executor(t, p)
  <2>1. Sound(p)
    BY <1>1, <1>3, ActingCounts DEF Sound
  <2> HIDE DEF p
  <2>2. QED
    BY <1>1, <1>2, <1>3, <1>4, <2>1, ActingCounts, ExecutorKeeps
<1>5. CASE \E why \in {"death", "completed"} : Executor(t, Ended(p, why))
  <2> HIDE DEF p
  <2>1. QED
    BY <1>1, <1>2, <1>3, <1>5, EndKeepsLoop, WhyFacts
<1>6. CASE Executor(t, Ended([p EXCEPT !.doubt = TRUE], "infrastructure_error"))
  <2> DEFINE d == [p EXCEPT !.doubt = TRUE]
  <2>1. /\ d \in Programs /\ d.limit = p.limit /\ d.attempts = p.attempts
        /\ d.actions = p.actions /\ d.sending = p.sending /\ d.doubt
    BY <1>3 DEF Programs
  <2>2. Executor(t, Ended(d, "infrastructure_error"))
    BY <1>6
  <2> HIDE DEF d, p
  <2>3. QED
    BY <1>1, <1>2, <1>3, <2>1, <2>2, EndKeepsLoop, WhyFacts
<1>7. QED
  BY <1>4, <1>5, <1>6 DEF Looks

(* An input goes out: it is counted as attempted before it is.             *)
LEMMA SendsKeeps == ASSUME LoopInv, NEW t \in Turns, Sends(t) PROVE LoopInv'
<1> DEFINE p == [Asked(progs[t]) EXCEPT !.attempts = @ + 1, !.sending = TRUE]
<1>1. progs[t].st = "running" /\ ~progs[t].sending
  BY DEF Sends, Asks, Listening
<1>2. /\ progs[t] \in Programs /\ sent' = sent + 1 /\ UNCHANGED landed
      /\ progs[t].attempts < progs[t].limit /\ Executor(t, p)
  BY <1>1, ActingCounts DEF Sends
<1>3. /\ p \in Programs /\ p.st = "running" /\ p.limit = progs[t].limit
      /\ p.attempts = progs[t].attempts + 1 /\ p.actions = progs[t].actions
      /\ p.sending /\ p.doubt = progs[t].doubt
  <2> DEFINE a == Asked(progs[t])
  <2>1. /\ a \in Programs /\ a.st = "running" /\ a.limit = progs[t].limit
        /\ a.attempts = progs[t].attempts /\ a.actions = progs[t].actions
        /\ a.doubt = progs[t].doubt
    BY <1>1, <1>2, AskedFacts
  <2> DEFINE b == [a EXCEPT !.attempts = @ + 1]
  <2> HIDE DEF a
  <2>2. /\ b \in Programs /\ b.st = "running" /\ b.limit = progs[t].limit
        /\ b.attempts = progs[t].attempts + 1 /\ b.actions = progs[t].actions
        /\ b.doubt = progs[t].doubt
    BY <2>1 DEF Programs
  <2>3. p = [b EXCEPT !.sending = TRUE]
    BY DEF a
  <2> HIDE DEF b, p
  <2>4. QED
    BY <2>2, <2>3 DEF Programs
<1> HIDE DEF p
<1>4. Sound(p)
  BY <1>1, <1>2, <1>3, ActingCounts DEF Sound, One, Programs
<1>5. /\ sent' \in Nat /\ landed' \in Nat /\ sent' = counters.attempts + p.attempts
      /\ counters.actions + p.actions <= landed' /\ landed' + One(p.sending) <= sent'
      /\ Adaptive /\ ~p.doubt => landed' = counters.actions + p.actions
  <2>1. /\ counters \in Counts /\ sent \in Nat /\ landed \in Nat
        /\ sent = counters.attempts + progs[t].attempts
        /\ counters.actions + progs[t].actions <= landed /\ landed <= sent
        /\ Adaptive /\ ~progs[t].doubt => landed = counters.actions + progs[t].actions
    BY <1>1, ActingCounts DEF One
  <2>2. counters.attempts \in Nat /\ progs[t].attempts \in Nat
    BY <1>2, <2>1 DEF Counts, Programs
  <2>3. QED
    BY <1>2, <1>3, <2>1, <2>2 DEF One
<1>6. QED
  BY <1>1, <1>2, <1>3, <1>4, <1>5, ExecutorKeeps

(* An input is performed, or was and no answer came.                       *)
LEMMA AnswersKeeps == ASSUME LoopInv, NEW t \in Turns, Answers(t) PROVE LoopInv'
<1> DEFINE p   == [progs[t] EXCEPT !.sending = FALSE]
           yes == [p EXCEPT !.actions = @ + 1]
           d   == [p EXCEPT !.doubt = TRUE]
<1>1. progs[t].st = "running" /\ progs[t].sending /\ UNCHANGED sent
  BY DEF Answers
<1>2. /\ progs[t] \in Programs /\ Sound(progs[t])
      /\ counters \in Counts /\ sent \in Nat /\ landed \in Nat
      /\ sent = counters.attempts + progs[t].attempts
      /\ counters.actions + progs[t].actions <= landed /\ landed + 1 <= sent
      /\ Adaptive /\ ~progs[t].doubt => landed = counters.actions + progs[t].actions
  BY <1>1, ActingCounts DEF One
<1>p. /\ p \in Programs /\ p.st = "running" /\ p.limit = progs[t].limit
      /\ p.attempts = progs[t].attempts /\ p.actions = progs[t].actions
      /\ ~p.sending /\ p.doubt = progs[t].doubt
  BY <1>1, <1>2 DEF Programs
<1>3. /\ yes \in Programs /\ yes.st = "running" /\ yes.limit = progs[t].limit
      /\ yes.attempts = progs[t].attempts /\ yes.actions = progs[t].actions + 1
      /\ ~yes.sending /\ yes.doubt = progs[t].doubt
  <2> HIDE DEF p
  <2>1. QED
    BY <1>p DEF Programs
<1>4. /\ d \in Programs /\ d.st = "running" /\ d.limit = progs[t].limit
      /\ d.attempts = progs[t].attempts /\ d.actions = progs[t].actions
      /\ ~d.sending /\ d.doubt
  <2> HIDE DEF p
  <2>1. QED
    BY <1>p DEF Programs
<1>5. Sound(yes) /\ Sound(d)
  BY <1>1, <1>2, <1>3, <1>4 DEF Sound, One, Programs
<1>6. \A why \in Reasons :
          /\ Ended(yes, why) \in Programs /\ Sound(Ended(yes, why)) /\ Ended(yes, why).st = "ended"
          /\ Ended(yes, why).limit = progs[t].limit /\ Ended(yes, why).attempts = progs[t].attempts
          /\ Ended(yes, why).actions = progs[t].actions + 1 /\ ~Ended(yes, why).sending
          /\ Ended(yes, why).doubt = progs[t].doubt
  BY <1>3, <1>5, EndedFacts DEF Sound
<1>7. \A why \in Reasons :
          /\ Ended(d, why) \in Programs /\ Sound(Ended(d, why)) /\ Ended(d, why).st = "ended"
          /\ Ended(d, why).limit = progs[t].limit /\ Ended(d, why).attempts = progs[t].attempts
          /\ Ended(d, why).actions = progs[t].actions /\ ~Ended(d, why).sending
          /\ Ended(d, why).doubt
  BY <1>4, <1>5, EndedFacts DEF Sound
<1>8. \/ /\ Executor(t, yes) \/ \E why \in {"death", "completed"} : Executor(t, Ended(yes, why))
         /\ landed' = landed + 1
      \/ Executor(t, d) /\ UNCHANGED landed
      \/ /\ \E why \in {"replaced", "infrastructure_error"} : Executor(t, Ended(d, why))
         /\ landed' \in {landed, landed + 1}
  BY DEF Answers
<1> HIDE DEF p, yes, d
<1>9. ASSUME NEW q \in Programs, Executor(t, q), q.st \in {"running", "ended"},
             q.limit = progs[t].limit, Sound(q), q.attempts = progs[t].attempts, ~q.sending,
             \/ q.actions = progs[t].actions + 1 /\ q.doubt = progs[t].doubt
                /\ landed' = landed + 1
             \/ q.actions = progs[t].actions /\ q.doubt /\ landed' \in {landed, landed + 1}
      PROVE  LoopInv'
  <2>1. /\ sent' \in Nat /\ landed' \in Nat /\ sent' = counters.attempts + q.attempts
        /\ counters.actions + q.actions <= landed' /\ landed' + One(q.sending) <= sent'
        /\ Adaptive /\ ~q.doubt => landed' = counters.actions + q.actions
    BY <1>1, <1>2, <1>9 DEF One, Programs, Counts
  <2>2. QED
    BY <1>1, <1>9, <2>1, ExecutorKeeps
<1>10. CASE /\ Executor(t, yes) \/ \E why \in {"death", "completed"} : Executor(t, Ended(yes, why))
            /\ landed' = landed + 1
  BY <1>3, <1>5, <1>6, <1>9, <1>10, WhyFacts
<1>11. CASE Executor(t, d) /\ UNCHANGED landed
  BY <1>4, <1>5, <1>9, <1>11
<1>12. CASE /\ \E why \in {"replaced", "infrastructure_error"} : Executor(t, Ended(d, why))
            /\ landed' \in {landed, landed + 1}
  BY <1>7, <1>9, <1>12, WhyFacts
<1>13. QED
  BY <1>8, <1>10, <1>11, <1>12

(* A program's step keeps what is known. *)
LEMMA ProgramKeeps == ASSUME LoopInv, NEW t \in Turns, Program(t) PROVE LoopInv'
<1>1. Listening(t) => progs[t] \in Programs
  BY ActingCounts DEF Listening
<1>2. CASE Exhausts(t)
  <2>1. Listening(t) /\ Executor(t, Ended(progs[t], "rpc_limit")) /\ UNCHANGED <<sent, landed>>
    BY <1>2 DEF Exhausts, Asks
  <2>2. QED
    BY <1>1, <2>1, EndKeepsLoop, WhyFacts
<1>3. CASE OverLimit(t)
  <2> DEFINE p == Asked(progs[t])
  <2>1. Listening(t) /\ Executor(t, Ended(p, "action_limit")) /\ UNCHANGED <<sent, landed>>
    BY <1>3 DEF OverLimit, Asks
  <2>2. /\ p \in Programs /\ p.limit = progs[t].limit /\ p.attempts = progs[t].attempts
        /\ p.actions = progs[t].actions /\ p.sending = progs[t].sending
        /\ p.doubt = progs[t].doubt
    BY <1>1, <2>1, AskedFacts
  <2> HIDE DEF p
  <2>3. QED
    BY <2>1, <2>2, EndKeepsLoop, WhyFacts
<1>4. CASE Returns(t)
  <2>1. Listening(t) /\ Executor(t, Ended(progs[t], "program_complete"))
        /\ UNCHANGED <<sent, landed>>
    BY <1>4 DEF Returns, Asks
  <2>2. QED
    BY <1>1, <2>1, EndKeepsLoop, WhyFacts
<1>5. CASE LeaseEnds(t)
  <2>1. PICK why \in {"replaced", "time_limit", "program_timeout"} :
            Listening(t) /\ Executor(t, Ended(progs[t], why)) /\ UNCHANGED <<sent, landed>>
    BY <1>5 DEF LeaseEnds
  <2>2. QED
    BY <1>1, <2>1, EndKeepsLoop, WhyFacts
<1>6. CASE Raises(t)
  <2>1. Listening(t) /\ Executor(t, Ended(progs[t], "raised")) /\ UNCHANGED <<sent, landed>>
    BY <1>6 DEF Raises
  <2>2. QED
    BY <1>1, <2>1, EndKeepsLoop, WhyFacts
<1>7. QED
  BY <1>2, <1>3, <1>4, <1>5, <1>6, LooksKeeps, SendsKeeps, AnswersKeeps DEF Program

-----------------------------------------------------------------------------
(* A program that is told to stop counts as before.                        *)
LEMMA CancelFacts ==
    ASSUME LoopInv, active # 0, progs' = [progs EXCEPT ![active].cancel = TRUE],
           UNCHANGED <<mode, counters, sent, landed>>
    PROVE  progs' \in [Turns -> Programs] /\ Acting' = Acting /\ InputsInv'
<1>1. /\ active \in Turns /\ Acting = {active} /\ progs \in [Turns -> Programs]
      /\ progs[active] \in Programs /\ ~Adaptive
  BY ActingFacts DEF LoopInv, LoopTypes
<1> DEFINE p == [progs[active] EXCEPT !.cancel = TRUE]
<1>2. /\ p \in Programs /\ p.st = progs[active].st /\ p.attempts = progs[active].attempts
      /\ p.actions = progs[active].actions /\ p.limit = progs[active].limit
      /\ p.sending = progs[active].sending /\ p.doubt = progs[active].doubt
  BY <1>1 DEF Programs
<1>3. progs' = [progs EXCEPT ![active] = p]
  BY <1>1
<1> HIDE DEF p
<1>4. /\ progs' \in [Turns -> Programs] /\ progs'[active] = p
      /\ \A s \in Turns : s # active => progs'[s] = progs[s]
  BY <1>1, <1>2, <1>3
<1>5. Acting' = Acting
  BY <1>1, <1>2, <1>4 DEF Acting
<1>6. InputsInv'
  <2>1. Sound(progs[active]) /\ counters.attempts + progs[active].limit <= MaxActions
        /\ sent = counters.attempts + progs[active].attempts
        /\ counters.actions + progs[active].actions <= landed
        /\ landed + One(progs[active].sending) <= sent
    BY <1>1 DEF LoopInv, InputsInv
  <2>2. Sound(p)
    BY <1>2, <2>1 DEF Sound
  <2>3. counters.attempts <= MaxActions /\ counters.actions <= counters.attempts
    BY DEF LoopInv, InputsInv
  <2>4. QED
    BY <1>1, <1>2, <1>4, <1>5, <2>1, <2>2, <2>3 DEF InputsInv
<1>7. QED
  BY <1>4, <1>5, <1>6

(* The sums of a program that ended                                        *)
LEMMA TallyFacts ==
    ASSUME counters \in Counts, NEW p \in Programs
    PROVE  LET c == Tally(p)
           IN  /\ c \in Counts /\ c.calls = counters.calls /\ c.reserved = counters.reserved
               /\ c.used = counters.used /\ c.attempts = counters.attempts + p.attempts
               /\ c.actions = counters.actions + p.actions
               /\ c.requests = counters.requests + p.requests
<1> DEFINE a == [counters EXCEPT !.attempts = @ + p.attempts]
           b == [a EXCEPT !.actions = @ + p.actions]
           c == [b EXCEPT !.requests = @ + p.requests]
<1>1. /\ a \in Counts /\ a.calls = counters.calls /\ a.reserved = counters.reserved
      /\ a.used = counters.used /\ a.attempts = counters.attempts + p.attempts
      /\ a.actions = counters.actions /\ a.requests = counters.requests
  BY DEF Counts, Programs
<1>2. Tally(p) = c
  BY DEF Tally
<1> HIDE DEF a
<1>3. /\ b \in Counts /\ b.calls = counters.calls /\ b.reserved = counters.reserved
      /\ b.used = counters.used /\ b.attempts = counters.attempts + p.attempts
      /\ b.actions = counters.actions + p.actions /\ b.requests = counters.requests
  BY <1>1 DEF Counts, Programs
<1> HIDE DEF b
<1>4. /\ c \in Counts /\ c.calls = counters.calls /\ c.reserved = counters.reserved
      /\ c.used = counters.used /\ c.attempts = counters.attempts + p.attempts
      /\ c.actions = counters.actions + p.actions
      /\ c.requests = counters.requests + p.requests
  BY <1>3 DEF Counts, Programs
<1> HIDE DEF c
<1>5. QED
  BY <1>2, <1>4

(* A program that was joined is not live.                                  *)
LEMMA ForgetFacts ==
    ASSUME LoopInv, NEW t \in Turns, Acting = {t}, progs' = Forget(t)
    PROVE  /\ progs' \in [Turns -> Programs] /\ Acting' = {} /\ progs'[t].st = "joined"
           /\ progs[t].reason = "raised" => progs'[t].reason = "raised"
<1> DEFINE p == [NoProgram EXCEPT !.st = "joined",
                    !.reason = IF progs[t].reason = "raised" THEN "raised" ELSE "none"]
<1>1. /\ p \in Programs /\ p.st = "joined"
      /\ progs[t].reason = "raised" => p.reason = "raised"
  <2> DEFINE a == [NoProgram EXCEPT !.st = "joined"]
  <2>1. a \in Programs /\ a.st = "joined"
    BY EmptyTypes DEF Programs
  <2>2. p = [a EXCEPT !.reason = IF progs[t].reason = "raised" THEN "raised" ELSE "none"]
    OBVIOUS
  <2> HIDE DEF p, a
  <2>3. QED
    BY <2>1, <2>2 DEF Programs, Reasons
<1>2. progs' = [progs EXCEPT ![t] = p] /\ progs \in [Turns -> Programs]
  BY DEF Forget, LoopInv, LoopTypes
<1> HIDE DEF p
<1>3. /\ progs' \in [Turns -> Programs] /\ progs'[t] = p
      /\ \A s \in Turns : s # t => progs'[s] = progs[s]
  BY <1>1, <1>2
<1>4. Acting' = {}
  BY <1>1, <1>3 DEF Acting
<1>5. QED
  BY <1>1, <1>3, <1>4

(* What a live program counts when it has ended, taken over.               *)
LEMMA JoinedInputs ==
    ASSUME LoopInv, NEW t \in Turns, Acting = {t}, progs[t].st = "ended", progs' = Forget(t),
           counters' = Tally(progs[t]), UNCHANGED <<sent, landed>>
    PROVE  counters' \in Counts /\ InputsInv' /\ sent' = counters'.attempts
<1>1. /\ counters \in Counts /\ progs[t] \in Programs /\ sent \in Nat /\ landed \in Nat
      /\ Acting' = {}
  BY ForgetFacts DEF LoopInv, LoopTypes
<1>2. /\ Sound(progs[t]) /\ counters.attempts + progs[t].limit <= MaxActions
      /\ sent = counters.attempts + progs[t].attempts
      /\ counters.actions + progs[t].actions <= landed
      /\ landed + One(progs[t].sending) <= sent
      /\ counters.attempts <= MaxActions /\ counters.actions <= counters.attempts
  BY DEF LoopInv, InputsInv
<1>3. /\ counters' \in Counts /\ counters'.attempts = counters.attempts + progs[t].attempts
      /\ counters'.actions = counters.actions + progs[t].actions
  BY <1>1, TallyFacts
<1>4. /\ counters.attempts \in Nat /\ counters.actions \in Nat /\ MaxActions \in Nat
      /\ progs[t].attempts \in Nat /\ progs[t].actions \in Nat /\ progs[t].limit \in Nat
  BY <1>1, Bounds DEF Counts, Programs
<1>5. /\ progs[t].attempts <= progs[t].limit /\ progs[t].actions <= progs[t].attempts
      /\ landed <= sent
  BY <1>1, <1>2, <1>4 DEF Sound, One
<1>6. InputsInv'
  BY <1>1, <1>2, <1>3, <1>4, <1>5 DEF InputsInv
<1>7. QED
  BY <1>2, <1>3, <1>6

(* The program in the background ended: its counts are taken over.         *)
LEMMA HarvestFacts ==
    ASSUME LoopInv, Background = "ended", Harvest, UNCHANGED <<mode, sent, landed>>
    PROVE  /\ ~Adaptive /\ mode = "continuous" /\ active \in Turns /\ active' = 0
           /\ progs' \in [Turns -> Programs] /\ counters' \in Counts /\ Acting' = {}
           /\ InputsInv' /\ sent' = counters'.attempts
           /\ counters'.calls = counters.calls /\ counters'.reserved = counters.reserved
           /\ counters'.used = counters.used /\ Verdict(progs[active]) \in Reasons
<1>1. active # 0 /\ progs[active].st = "ended"
  BY DEF Background
<1>2. /\ active \in Turns /\ Acting = {active} /\ ~Adaptive /\ mode = "continuous"
      /\ counters \in Counts /\ progs[active] \in Programs
  BY <1>1, ActingFacts DEF LoopInv, LoopTypes, ActingInv
<1>3. counters' = Tally(progs[active]) /\ progs' = Forget(active) /\ active' = 0
  BY DEF Harvest
<1>4. Verdict(progs[active]) \in Reasons
  BY <1>2 DEF Verdict, Programs, Reasons, Terminals
<1>5. QED
  BY <1>1, <1>2, <1>3, <1>4, ForgetFacts, JoinedInputs, TallyFacts

(* A program that starts may send what is left of the run's inputs.        *)
LEMMA LaunchFacts ==
    ASSUME LoopInv, turn \in Turns, Acting = {}, Launch(turn), sent = counters.attempts,
           UNCHANGED <<counters, sent, landed>>
    PROVE  /\ progs' \in [Turns -> Programs] /\ Acting' = {turn} /\ InputsInv'
           /\ ~progs'[turn].doubt /\ progs'[turn].actions = 0
<1> DEFINE p == [NoProgram EXCEPT !.st = "running", !.limit = Remaining(counters),
                    !.allowance = IF Adaptive THEN MaxRequests - counters.requests
                                  ELSE MaxRequests]
<1>1. /\ counters \in Counts /\ progs \in [Turns -> Programs] /\ sent \in Nat /\ landed \in Nat
      /\ counters.attempts \in Nat /\ counters.requests \in Nat /\ counters.actions \in Nat
      /\ counters.attempts <= MaxActions /\ counters.actions <= counters.attempts
      /\ landed <= sent /\ counters.actions <= landed
  BY DEF LoopInv, LoopTypes, InputsInv, Counts
<1>2. /\ p \in Programs /\ p.st = "running" /\ p.limit = MaxActions - counters.attempts
      /\ p.attempts = 0 /\ p.actions = 0 /\ ~p.sending /\ ~p.doubt
  <2> DEFINE most == IF Adaptive THEN MaxRequests - counters.requests ELSE MaxRequests
         a == [NoProgram EXCEPT !.st = "running"]
         b == [a EXCEPT !.limit = Remaining(counters)]
  <2>1. /\ a \in Programs /\ a.st = "running" /\ a.attempts = 0 /\ a.actions = 0
        /\ ~a.sending /\ ~a.doubt
    <3>1. NoProgram.attempts = 0 /\ NoProgram.actions = 0 /\ ~NoProgram.sending /\ ~NoProgram.doubt
      BY DEF NoProgram
    <3>2. QED
      BY <3>1, EmptyTypes DEF Programs
  <2>2. /\ most \in Int /\ MaxActions - counters.attempts \in Nat
        /\ Remaining(counters) = MaxActions - counters.attempts
    BY <1>1, Bounds DEF Remaining
  <2>3. p = [b EXCEPT !.allowance = most]
    OBVIOUS
  <2> HIDE DEF a, most
  <2>4. /\ b \in Programs /\ b.st = "running" /\ b.limit = MaxActions - counters.attempts
        /\ b.attempts = 0 /\ b.actions = 0 /\ ~b.sending /\ ~b.doubt
    BY <2>1, <2>2 DEF Programs
  <2> HIDE DEF b, p
  <2>5. QED
    BY <2>2, <2>3, <2>4 DEF Programs
<1>3. progs' = [progs EXCEPT ![turn] = p]
  BY DEF Launch
<1> HIDE DEF p
<1>4. /\ progs' \in [Turns -> Programs] /\ progs'[turn] = p
      /\ \A s \in Turns : s # turn => progs'[s] = progs[s]
  BY <1>1, <1>2, <1>3
<1>5. Acting' = {turn}
  BY <1>2, <1>4 DEF Acting
<1>6. Sound(p)
  BY <1>1, <1>2, Bounds DEF Sound, One
<1>7. InputsInv'
  BY <1>1, <1>2, <1>4, <1>5, <1>6, Bounds DEF InputsInv, One
<1>8. QED
  BY <1>2, <1>4, <1>5, <1>7

(* A step of the loop itself sends and counts no input. *)
LEMMA InputsRest ==
    ASSUME LoopInv, UNCHANGED <<mode, progs, sent, landed>>,
           counters'.attempts = counters.attempts, counters'.actions = counters.actions,
           \/ pc \notin {"final", "done"}
           \/ pc' \in {"final", "done"} /\ (Adaptive => UNCHANGED trace)
    PROVE  InputsInv' /\ Acting' = Acting
<1>1. Acting' = Acting
  BY DEF Acting
<1>2. Raised => Raised'
  BY DEF Raised, Adaptive
<1>3. QED
  BY <1>1, <1>2 DEF LoopInv, InputsInv

(* The trace of a loop that ends                                           *)
LEMMA EndsFacts ==
    ASSUME trace \in Traces, NEW why \in Reasons, Ends(why)
    PROVE  pc' = "final" /\ trace' \in Traces
BY DEF Ends, To, Traces

(* What run_agent must show: it keeps no trace of its calls on the way.    *)
LEMMA AgentStep ==
    ASSUME LoopInv, ~Adaptive, LoopTypes', ActingInv', InputsInv',
           UNCHANGED <<mode, called>>, counters'.calls = counters.calls,
           counters'.reserved = counters.reserved, counters'.used = counters.used,
           pc' \notin {"asking", "done", "request", "marked"}
    PROVE  LoopInv'
<1>1. ~Adaptive'
  BY DEF Adaptive
<1>2. PaidInv'
  BY <1>1 DEF LoopInv, PaidInv
<1>3. TraceInv' /\ DoneInv'
  BY <1>1 DEF TraceInv, DoneInv
<1>4. QED
  BY <1>2, <1>3 DEF LoopInv

(* The types of a step of run_agent                                        *)
LEMMA AgentTypes ==
    ASSUME LoopTypes, ~Adaptive, UNCHANGED process, pc' \in LoopPCs,
           turn' \in 0 .. MaxCalls, active' \in 0 .. turn', progs' \in [Turns -> Programs],
           counters' \in Counts, trace' \in Traces,
           saved' \in [trace : Traces, counters : Counts], called' \subseteq 1 .. turn',
           sent' \in Nat, landed' \in Nat
    PROVE  LoopTypes'
BY DEF LoopTypes, Adaptive, process

(* The reasons run_agent ends for *)
LEMMA EndReasons ==
    /\ Terminals \subseteq Reasons
    /\ {"time_limit", "death", "completed", "infrastructure_error", "action_limit",
        "budget_limit", "decision_limit", "none"} \subseteq Reasons
BY DEF Reasons, Terminals

-----------------------------------------------------------------------------
(* The steps of run_agent                                                  *)

(* The agent's next turn, or the end of its loop                           *)
LEMMA TurnTopKeeps == ASSUME LoopInv, TurnTop PROVE LoopInv'
<1>1. /\ ~Adaptive /\ pc = "top" /\ turn < MaxCalls
      /\ UNCHANGED <<mode, clock, cancelled, alive, turn, saved, called, sent, landed>>
      /\ UNCHANGED process /\ LoopTypes
  BY DEF TurnTop, Loop, At, process, world, LoopInv
<1>2. CASE /\ Background \in {"none", "running"} /\ To("observe")
           /\ UNCHANGED <<progs, active, counters, trace>>
  <2>1. InputsInv' /\ Acting' = Acting /\ pc' = "observe"
    BY <1>1, <1>2, InputsRest DEF To
  <2>2. LoopTypes'
    BY <1>1, <1>2, <2>1, AgentTypes DEF LoopTypes, LoopPCs
  <2>3. ActingInv'
    BY <1>1, <1>2, <2>1 DEF LoopInv, ActingInv
  <2>4. QED
    BY <1>1, <1>2, <2>1, <2>2, <2>3, AgentStep
<1>3. CASE /\ Background = "ended" /\ Harvest
           /\ IF Verdict(progs[active]) \in Terminals THEN Ends(Verdict(progs[active]))
              ELSE To("observe") /\ UNCHANGED trace
  <2>1. /\ mode = "continuous" /\ active' = 0
        /\ progs' \in [Turns -> Programs] /\ counters' \in Counts /\ Acting' = {}
        /\ InputsInv' /\ sent' = counters'.attempts
        /\ counters'.calls = counters.calls /\ counters'.reserved = counters.reserved
        /\ counters'.used = counters.used /\ Verdict(progs[active]) \in Reasons
    BY <1>1, <1>3, HarvestFacts
  <2>2. pc' \in {"final", "observe"} /\ trace' \in Traces
    BY <1>1, <1>3, <2>1, EndsFacts DEF To, LoopTypes
  <2>3. LoopTypes'
    BY <1>1, <2>1, <2>2, AgentTypes DEF LoopTypes, LoopPCs
  <2>4. ActingInv'
    BY <1>1, <2>1, <2>2 DEF ActingInv
  <2>5. QED
    BY <1>1, <2>1, <2>2, <2>3, <2>4, AgentStep
<1>4. QED
  BY <1>2, <1>3 DEF TurnTop

(* What the agent sees before it asks                                      *)
LEMMA TurnObserveKeeps == ASSUME LoopInv, TurnObserve PROVE LoopInv'
<1>1. /\ ~Adaptive /\ pc = "observe" /\ LoopTypes /\ UNCHANGED process
      /\ UNCHANGED <<mode, turn, saved, called, sent, landed, progs, active, counters>>
  BY DEF TurnObserve, Loop, At, process, world, LoopInv
<1>2. pc' \in {"plan", "final"} /\ trace' \in Traces
  BY <1>1, EndsFacts, EndReasons DEF TurnObserve, LoopTypes, To
<1>3. InputsInv' /\ Acting' = Acting
  BY <1>1, InputsRest
<1>4. LoopTypes'
  BY <1>1, <1>2, AgentTypes DEF LoopTypes, LoopPCs
<1>5. ActingInv'
  BY <1>1, <1>2, <1>3 DEF LoopInv, ActingInv
<1>6. QED
  BY <1>1, <1>2, <1>3, <1>4, <1>5, AgentStep

(* A call is counted as it is made. *)
LEMMA TurnPlanKeeps == ASSUME LoopInv, TurnPlan PROVE LoopInv'
<1>1. /\ ~Adaptive /\ pc = "plan" /\ LoopTypes /\ ActingInv /\ PaidInv /\ UNCHANGED process
      /\ UNCHANGED <<mode, saved, sent, landed, progs, active>>
      /\ counters \in Counts /\ trace \in Traces /\ turn \in 0 .. MaxCalls
  BY DEF TurnPlan, Loop, At, process, world, LoopInv, LoopTypes
<1>2. CASE /\ \E why \in {"action_limit", "budget_limit", "time_limit"} : Ends(why)
           /\ UNCHANGED <<turn, counters, called>>
  <2>1. pc' = "final" /\ trace' \in Traces
    BY <1>1, <1>2, EndsFacts, EndReasons
  <2>2. InputsInv' /\ Acting' = Acting
    BY <1>1, <1>2, InputsRest
  <2>3. LoopTypes'
    BY <1>1, <1>2, <2>1, AgentTypes DEF LoopTypes, LoopPCs
  <2>4. ActingInv'
    BY <1>1, <1>2, <2>1, <2>2 DEF ActingInv
  <2>5. QED
    BY <1>1, <1>2, <2>1, <2>2, <2>3, <2>4, AgentStep
<1>3. CASE /\ counters.used + Reserve <= MaxTokens /\ turn' = turn + 1
           /\ counters' = [counters EXCEPT !.calls = @ + 1]
           /\ called' = called \cup {turn + 1} /\ To("asking") /\ UNCHANGED trace
  <2>1. /\ counters' \in Counts /\ counters'.calls = counters.calls + 1
        /\ counters'.attempts = counters.attempts /\ counters'.actions = counters.actions
        /\ counters'.reserved = counters.reserved /\ counters'.used = counters.used
    BY <1>1, <1>3 DEF Counts
  <2>2. turn < MaxCalls /\ turn' \in 1 .. MaxCalls /\ called' \subseteq 1 .. turn'
        /\ active' \in 0 .. turn' /\ turn + 1 \notin called /\ pc' = "asking"
    BY <1>1, <1>3, Bounds DEF ActingInv, LoopTypes, To
  <2>3. InputsInv' /\ Acting' = Acting
    BY <1>1, <1>3, <2>1, InputsRest
  <2>4. LoopTypes'
    BY <1>1, <1>3, <2>1, <2>2, AgentTypes DEF LoopTypes, LoopPCs
  <2>5. ActingInv'
    BY <1>1, <1>3, <2>2, <2>3 DEF ActingInv
  <2>6. Cardinality(called') = Cardinality(called) + 1
    BY <1>1, <1>3, <2>2, CalledFacts
  <2>7. ~Adaptive'
    BY <1>1 DEF Adaptive
  <2>8. PaidInv'
    BY <1>1, <1>3, <2>1, <2>2, <2>6, <2>7 DEF PaidInv
  <2>9. QED
    BY <2>2, <2>3, <2>4, <2>5, <2>7, <2>8 DEF LoopInv, TraceInv, DoneInv
<1>4. QED
  BY <1>2, <1>3 DEF TurnPlan

(* The outcome of a turn *)
Told(tr, t, o) == [tr EXCEPT !.outcome[t] = o]

(* It is told of that turn alone. *)
LEMMA OutcomeTypes ==
    ASSUME NEW tr \in Traces, NEW t \in Turns, NEW o \in Outcomes
    PROVE  /\ Told(tr, t, o) \in Traces /\ Told(tr, t, o).status = tr.status
           /\ Told(tr, t, o).reason = tr.reason /\ Told(tr, t, o).outcome[t] = o
           /\ \A s \in Turns : s # t => Told(tr, t, o).outcome[s] = tr.outcome[s]
BY DEF Traces, Told

(* What a program may end with                                             *)
LEMMA ReasonTypes ==
    ASSUME NEW tr \in Traces, NEW why \in Reasons
    PROVE  LET u == [tr EXCEPT !.reason = why]
           IN  /\ u \in Traces /\ u.status = tr.status /\ u.reason = why
               /\ u.outcome = tr.outcome
BY DEF Traces

(* What a run may end as                                                   *)
LEMMA StatusTypes ==
    ASSUME NEW tr \in Traces, NEW st \in {"running", "ended", "failed", "completed"}
    PROVE  LET u == [tr EXCEPT !.status = st]
           IN  /\ u \in Traces /\ u.status = st /\ u.reason = tr.reason
               /\ u.outcome = tr.outcome
BY DEF Traces

(* The provider's answer to the agent                                      *)
LEMMA TurnAnswerKeeps == ASSUME LoopInv, TurnAnswer PROVE LoopInv'
<1>1. /\ ~Adaptive /\ pc = "asking" /\ LoopTypes /\ ActingInv /\ PaidInv /\ UNCHANGED process
      /\ UNCHANGED <<mode, turn, called, sent, landed, progs, active>>
      /\ counters \in Counts /\ trace \in Traces /\ turn \in 0 .. MaxCalls
      /\ saved \in [trace : Traces, counters : Counts] /\ turn > 0
  BY DEF TurnAnswer, Loop, At, process, world, LoopInv, LoopTypes, ActingInv
<1>2. turn \in Turns
  BY <1>1, Bounds
<1>3. CASE /\ \E why \in {"time_limit", "infrastructure_error"} : Ends(why)
           /\ UNCHANGED <<counters, saved>>
  <2>1. pc' = "final" /\ trace' \in Traces
    BY <1>1, <1>3, EndsFacts, EndReasons
  <2>2. InputsInv' /\ Acting' = Acting
    BY <1>1, <1>3, InputsRest
  <2>3. LoopTypes'
    BY <1>1, <1>3, <2>1, AgentTypes DEF LoopTypes, LoopPCs
  <2>4. ActingInv'
    BY <1>1, <1>3, <2>1, <2>2 DEF ActingInv
  <2>5. QED
    BY <1>1, <1>3, <2>1, <2>2, <2>3, <2>4, AgentStep
<1>4. ASSUME NEW usage \in 0 .. Reserve, NEW why \in {"none", "budget_limit", "time_limit"},
             counters' = [counters EXCEPT !.used = @ + (IF usage = 0 THEN Reserve ELSE usage)],
             trace' = [trace EXCEPT !.outcome[turn] = "confirmed", !.reason = why],
             saved' = [saved EXCEPT !.trace.outcome[turn] = "confirmed"],
             pc' \in {"final", "top", "replace"}
      PROVE  LoopInv'
  <2> DEFINE cost == IF usage = 0 THEN Reserve ELSE usage
             tr == [trace EXCEPT !.outcome[turn] = "confirmed"]
  <2>1. cost \in Nat /\ cost <= Reserve
    BY Bounds
  <2>2. /\ counters' \in Counts /\ counters'.calls = counters.calls
        /\ counters'.attempts = counters.attempts /\ counters'.actions = counters.actions
        /\ counters'.reserved = counters.reserved /\ counters'.used = counters.used + cost
    <3> HIDE DEF cost
    <3>1. counters' = [counters EXCEPT !.used = @ + cost]
      BY <1>4 DEF cost
    <3>2. QED
      BY <1>1, <2>1, <3>1 DEF Counts
  <2>3. trace' \in Traces
    <3>1. tr \in Traces
      BY <1>1, <1>2, OutcomeTypes DEF Outcomes, Told
    <3>2. trace' = [tr EXCEPT !.reason = why]
      BY <1>4
    <3> HIDE DEF tr
    <3>3. QED
      BY <3>1, <3>2, ReasonTypes, EndReasons
  <2>4. saved' \in [trace : Traces, counters : Counts]
    <3>1. saved.trace \in Traces
      BY <1>1
    <3>2. [saved.trace EXCEPT !.outcome[turn] = "confirmed"] \in Traces
      BY <1>2, <3>1, OutcomeTypes DEF Outcomes, Told
    <3>3. saved' = [saved EXCEPT !.trace = [saved.trace EXCEPT !.outcome[turn] = "confirmed"]]
      BY <1>1, <1>4
    <3>4. QED
      BY <1>1, <3>2, <3>3
  <2>5. InputsInv' /\ Acting' = Acting
    BY <1>1, <2>2, InputsRest
  <2>6. LoopTypes'
    BY <1>1, <1>4, <2>2, <2>3, <2>4, AgentTypes DEF LoopTypes, LoopPCs
  <2>7. ActingInv'
    BY <1>1, <1>4, <2>5 DEF ActingInv
  <2>8. ~Adaptive'
    BY <1>1 DEF Adaptive
  <2>9. counters'.used <= MaxTokens
    <3>1. counters.used + Reserve <= MaxTokens /\ counters.used \in Nat
      BY <1>1 DEF PaidInv, Counts
    <3>2. QED
      BY <2>1, <2>2, <3>1, Bounds
  <2>10. PaidInv'
    BY <1>1, <1>4, <2>2, <2>8, <2>9 DEF PaidInv
  <2>11. QED
    BY <1>4, <2>5, <2>6, <2>7, <2>8, <2>10 DEF LoopInv, TraceInv, DoneInv
<1>5. QED
  BY <1>3, <1>4 DEF TurnAnswer, To, Ends

(* Continuous: the live program is told to go.                             *)
LEMMA ReplaceKeeps == ASSUME LoopInv, Replace PROVE LoopInv'
<1>1. /\ ~Adaptive /\ pc = "replace" /\ LoopTypes /\ ActingInv /\ UNCHANGED process
      /\ UNCHANGED <<mode, turn, active, counters, trace, saved, called, sent, landed>>
  BY DEF Replace, Loop, At, process, world, LoopInv
<1>2. CASE active = 0 /\ To("submit") /\ UNCHANGED progs
  <2>1. InputsInv' /\ Acting' = Acting /\ pc' = "submit"
    BY <1>1, <1>2, InputsRest DEF To
  <2>2. LoopTypes'
    BY <1>1, <1>2, <2>1, AgentTypes DEF LoopTypes, LoopPCs
  <2>3. ActingInv'
    BY <1>1, <1>2, <2>1 DEF ActingInv
  <2>4. QED
    BY <1>1, <2>1, <2>2, <2>3, AgentStep
<1>3. CASE active # 0 /\ To("stopping") /\ progs' = [progs EXCEPT ![active].cancel = TRUE]
  <2>0. /\ progs' = [progs EXCEPT ![active].cancel = TRUE] /\ active # 0 /\ pc' = "stopping"
    BY <1>3 DEF To
  <2>1. progs' \in [Turns -> Programs] /\ Acting' = Acting /\ InputsInv'
    <3>1. active \in Turns /\ Acting = {active} /\ mode = "continuous"
      BY <1>1, <2>0, ActingFacts DEF ActingInv
    <3>2. QED
      BY <1>1, <2>0, <3>1, CancelFacts DEF Raised
  <2>2. LoopTypes'
    BY <1>1, <2>0, <2>1, AgentTypes DEF LoopTypes, LoopPCs
  <2>3. ActingInv'
    BY <1>1, <2>0, <2>1 DEF ActingInv
  <2>4. QED
    BY <1>1, <2>0, <2>1, <2>2, <2>3, AgentStep
<1>4. QED
  BY <1>2, <1>3 DEF Replace

(* Continuous: the program that went is counted.                           *)
LEMMA JoinedKeeps == ASSUME LoopInv, Joined PROVE LoopInv'
<1>1. /\ ~Adaptive /\ pc = "stopping" /\ LoopTypes /\ ActingInv /\ UNCHANGED process
      /\ UNCHANGED <<mode, turn, saved, called, sent, landed>> /\ Background = "ended"
      /\ Harvest /\ turn > 0
  BY DEF Joined, Loop, At, process, world, LoopInv, ActingInv, Background
<1>2. /\ active' = 0
      /\ progs' \in [Turns -> Programs] /\ counters' \in Counts /\ Acting' = {}
      /\ InputsInv' /\ counters'.calls = counters.calls /\ counters'.reserved = counters.reserved
      /\ counters'.used = counters.used /\ Verdict(progs[active]) \in Reasons
  BY <1>1, HarvestFacts
<1>3. pc' \in {"final", "submit"} /\ trace' \in Traces
  BY <1>1, <1>2, EndsFacts DEF To, LoopTypes, Joined
<1>4. LoopTypes'
  BY <1>1, <1>2, <1>3, AgentTypes DEF LoopTypes, LoopPCs
<1>5. ActingInv'
  BY <1>1, <1>2, <1>3 DEF ActingInv
<1>6. QED
  BY <1>1, <1>2, <1>3, <1>4, <1>5, AgentStep

(* The program of the answer is launched.                                  *)
LEMMA SubmitKeeps == ASSUME LoopInv, Submit PROVE LoopInv'
<1>1. /\ ~Adaptive /\ pc = "submit" /\ LoopTypes /\ ActingInv /\ UNCHANGED process
      /\ UNCHANGED <<mode, turn, counters, saved, called, sent, landed>> /\ turn > 0
      /\ active = 0 /\ turn \in 0 .. MaxCalls
  BY DEF Submit, Loop, At, process, world, LoopInv, LoopTypes, ActingInv
<1>2. turn \in Turns /\ Acting = {} /\ sent = counters.attempts
  <2>1. Acting = {}
    BY <1>1, ActingFacts DEF LoopInv
  <2>2. QED
    BY <1>1, <2>1, Bounds DEF LoopInv, InputsInv, Raised
<1>3. CASE /\ \E why \in {"time_limit", "action_limit"} : Ends(why)
           /\ UNCHANGED <<progs, active>>
  <2>1. pc' = "final" /\ trace' \in Traces
    BY <1>1, <1>3, EndsFacts, EndReasons DEF LoopTypes
  <2>2. InputsInv' /\ Acting' = Acting
    BY <1>1, <1>3, InputsRest
  <2>3. LoopTypes'
    BY <1>1, <1>3, <2>1, AgentTypes DEF LoopTypes, LoopPCs
  <2>4. ActingInv'
    BY <1>1, <1>2, <1>3, <2>1, <2>2 DEF ActingInv
  <2>5. QED
    BY <1>1, <2>1, <2>2, <2>3, <2>4, AgentStep
<1>4. CASE /\ Launch(turn) /\ UNCHANGED trace
           /\ \/ mode = "continuous" /\ active' = turn /\ To("top")
              \/ mode = "serial" /\ UNCHANGED active /\ To("running")
  <2>1. progs' \in [Turns -> Programs] /\ Acting' = {turn} /\ InputsInv'
    BY <1>1, <1>2, <1>4, LaunchFacts
  <2>2. active' \in 0 .. turn' /\ pc' \in {"top", "running"}
    BY <1>1, <1>4 DEF To
  <2>3. LoopTypes'
    BY <1>1, <1>4, <2>1, <2>2, AgentTypes DEF LoopTypes, LoopPCs
  <2>4. ActingInv'
    BY <1>1, <1>2, <1>4, <2>1 DEF ActingInv, To
  <2>5. QED
    BY <1>1, <2>1, <2>2, <2>3, <2>4, AgentStep
<1>5. QED
  BY <1>3, <1>4 DEF Submit

(* An executor that raised: its counts are lost, and the run is over.      *)
LEMMA RaisedInputs ==
    ASSUME LoopInv, NEW t \in Turns, Acting = {t}, progs[t].st = "ended",
           progs[t].reason = "raised", progs' = Forget(t), mode # "continuous",
           pc' = "final", Adaptive => trace'.status = "failed",
           UNCHANGED <<mode, counters, sent, landed>>
    PROVE  InputsInv' /\ Raised'
<1>1. Acting' = {} /\ progs'[t].reason = "raised"
  BY ForgetFacts
<1>2. /\ counters \in Counts /\ progs[t] \in Programs /\ sent \in Nat /\ landed \in Nat
  BY DEF LoopInv, LoopTypes
<1>3. /\ Sound(progs[t]) /\ counters.attempts + progs[t].limit <= MaxActions
      /\ sent = counters.attempts + progs[t].attempts
      /\ counters.actions + progs[t].actions <= landed
      /\ landed + One(progs[t].sending) <= sent
      /\ counters.attempts <= MaxActions /\ counters.actions <= counters.attempts
  BY DEF LoopInv, InputsInv
<1>4. /\ counters.attempts \in Nat /\ counters.actions \in Nat /\ MaxActions \in Nat
      /\ progs[t].attempts \in Nat /\ progs[t].actions \in Nat /\ progs[t].limit \in Nat
  BY <1>2, Bounds DEF Counts, Programs
<1>5. landed <= sent /\ sent <= MaxActions /\ counters.actions <= landed
  BY <1>2, <1>3, <1>4 DEF Sound, One
<1>6. Raised'
  BY <1>1 DEF Raised, Adaptive
<1>7. QED
  BY <1>1, <1>3, <1>5, <1>6 DEF InputsInv

(* Serial: the program that ended is counted.                              *)
LEMMA ExecutedKeeps == ASSUME LoopInv, Executed PROVE LoopInv'
<1>1. /\ ~Adaptive /\ pc = "running" /\ LoopTypes /\ ActingInv /\ UNCHANGED process
      /\ UNCHANGED <<mode, turn, active, saved, called, sent, landed>>
      /\ progs' = Forget(turn) /\ progs[turn].st = "ended"
  BY DEF Executed, Loop, At, process, world, LoopInv
<1>2. turn \in Turns /\ Acting = {turn} /\ mode = "serial" /\ active = 0
      /\ progs[turn] \in Programs
  BY <1>1, ActingFacts DEF LoopInv, ActingInv, LoopTypes, AllModes, Adaptive
<1>3. Verdict(progs[turn]) \in Reasons
  BY <1>2 DEF Verdict, Programs, Reasons, Terminals
<1>4. progs' \in [Turns -> Programs] /\ Acting' = {}
  BY <1>1, <1>2, ForgetFacts
<1>5. /\ pc' \in {"final", "top"} /\ trace' \in Traces
      /\ progs[turn].reason = "raised" => pc' = "final"
  BY <1>1, <1>3, EndsFacts DEF Executed, LoopTypes, To, Verdict, Terminals
<1>6. /\ counters' \in Counts /\ InputsInv' /\ counters'.calls = counters.calls
      /\ counters'.reserved = counters.reserved /\ counters'.used = counters.used
  <2>1. CASE progs[turn].reason = "raised"
    BY <1>1, <1>2, <1>5, <2>1, RaisedInputs DEF Executed, LoopTypes
  <2>2. CASE progs[turn].reason # "raised"
    BY <1>1, <1>2, <2>2, JoinedInputs, TallyFacts DEF Executed, LoopTypes
  <2>3. QED
    BY <2>1, <2>2
<1>7. LoopTypes'
  BY <1>1, <1>4, <1>5, <1>6, AgentTypes DEF LoopTypes, LoopPCs
<1>8. ActingInv'
  BY <1>1, <1>2, <1>4, <1>5 DEF ActingInv
<1>9. QED
  BY <1>1, <1>5, <1>6, <1>7, <1>8, AgentStep

(* Continuous: the last program and the end of its lease                   *)
LEMMA LastLeaseKeeps == ASSUME LoopInv, LastLease PROVE LoopInv'
<1>1. /\ ~Adaptive /\ pc = "top" /\ LoopTypes /\ ActingInv /\ UNCHANGED process
      /\ UNCHANGED <<mode, turn, saved, called, sent, landed>>
  BY DEF LastLease, Loop, At, process, world, LoopInv
<1>2. CASE active = 0 /\ Ends("decision_limit") /\ UNCHANGED <<progs, active, counters>>
  <2>1. pc' = "final" /\ trace' \in Traces
    BY <1>1, <1>2, EndsFacts, EndReasons DEF LoopTypes
  <2>2. InputsInv' /\ Acting' = Acting
    BY <1>1, <1>2, InputsRest
  <2>3. LoopTypes'
    BY <1>1, <1>2, <2>1, AgentTypes DEF LoopTypes, LoopPCs
  <2>4. ActingInv'
    BY <1>1, <1>2, <2>1, <2>2 DEF ActingInv
  <2>5. QED
    BY <1>1, <1>2, <2>1, <2>2, <2>3, <2>4, AgentStep
<1>3. CASE /\ Background = "ended" /\ Harvest
           /\ Ends(IF Verdict(progs[active]) \in Terminals THEN Verdict(progs[active])
                   ELSE "decision_limit")
  <2>1. /\ active' = 0
        /\ progs' \in [Turns -> Programs] /\ counters' \in Counts /\ Acting' = {}
        /\ InputsInv' /\ counters'.calls = counters.calls
        /\ counters'.reserved = counters.reserved
        /\ counters'.used = counters.used /\ Verdict(progs[active]) \in Reasons
    BY <1>1, <1>3, HarvestFacts
  <2>2. pc' = "final" /\ trace' \in Traces
    BY <1>1, <1>3, <2>1, EndsFacts, EndReasons DEF LoopTypes
  <2>3. LoopTypes'
    BY <1>1, <2>1, <2>2, AgentTypes DEF LoopTypes, LoopPCs
  <2>4. ActingInv'
    BY <1>1, <2>1, <2>2 DEF ActingInv
  <2>5. QED
    BY <1>1, <2>1, <2>2, <2>3, <2>4, AgentStep
<1>4. QED
  BY <1>2, <1>3 DEF LastLease

(* Continuous: the last program is told to go.                             *)
LEMMA StopKeeps == ASSUME LoopInv, Stop PROVE LoopInv'
<1>1. /\ ~Adaptive /\ pc = "final" /\ LoopTypes /\ ActingInv /\ UNCHANGED process
      /\ UNCHANGED <<mode, pc, turn, active, counters, trace, saved, called, sent, landed>>
      /\ active # 0 /\ progs' = [progs EXCEPT ![active].cancel = TRUE]
  BY DEF Stop, Loop, At, process, world, LoopInv
<1>2. progs' \in [Turns -> Programs] /\ Acting' = Acting /\ InputsInv'
  BY <1>1, CancelFacts
<1>3. LoopTypes'
  BY <1>1, <1>2, AgentTypes DEF LoopTypes, LoopPCs
<1>4. ActingInv'
  BY <1>1, <1>2 DEF ActingInv
<1>5. QED
  BY <1>1, <1>2, <1>3, <1>4, AgentStep

(* The result of a run, with a program that went counted                   *)
LEMMA ResultKeeps == ASSUME LoopInv, Result PROVE LoopInv'
<1>1. /\ ~Adaptive /\ pc = "final" /\ LoopTypes /\ ActingInv /\ PaidInv /\ UNCHANGED process
      /\ UNCHANGED <<mode, turn, called, sent, landed>> /\ pc' = "done"
      /\ saved' = [trace |-> trace', counters |-> counters'] /\ trace \in Traces
      /\ counters \in Counts /\ progs \in [Turns -> Programs]
  BY DEF Result, Loop, At, process, world, LoopInv, LoopTypes, To, SaveTrace
<1>2. /\ active' = 0 /\ Acting' = {} /\ progs' \in [Turns -> Programs] /\ counters' \in Counts
      /\ InputsInv' /\ counters'.calls = counters.calls
      /\ counters'.reserved = counters.reserved /\ counters'.used = counters.used
      /\ trace' \in Traces
  <2>1. CASE /\ active = 0 /\ trace' = [trace EXCEPT !.status = "ended"]
             /\ UNCHANGED <<progs, active, counters>>
    <3>1. InputsInv' /\ Acting' = Acting
      BY <1>1, <2>1, InputsRest
    <3>2. Acting = {}
      BY <1>1, <2>1, ActingFacts
    <3>3. trace' \in Traces
      BY <1>1, <2>1, StatusTypes
    <3>4. QED
      BY <1>1, <2>1, <3>1, <3>2, <3>3
  <2>2. CASE /\ Background = "ended" /\ Harvest
             /\ \E why \in {trace.reason, Verdict(progs[active])} :
                    trace' = [trace EXCEPT !.status = "ended", !.reason = why]
    <3>1. /\ active' = 0
          /\ progs' \in [Turns -> Programs] /\ counters' \in Counts /\ Acting' = {}
          /\ InputsInv' /\ counters'.calls = counters.calls
          /\ counters'.reserved = counters.reserved
          /\ counters'.used = counters.used /\ Verdict(progs[active]) \in Reasons
      BY <1>1, <2>2, HarvestFacts
    <3>2. trace' \in Traces
      BY <1>1, <2>2, <3>1 DEF Traces
    <3>3. QED
      BY <3>1, <3>2
  <2>3. QED
    BY <2>1, <2>2 DEF Result
<1>3. saved' \in [trace : Traces, counters : Counts]
  BY <1>1, <1>2
<1>4. LoopTypes'
  BY <1>1, <1>2, <1>3, AgentTypes DEF LoopTypes, LoopPCs
<1>5. ActingInv'
  BY <1>1, <1>2 DEF ActingInv
<1>6. ~Adaptive'
  BY <1>1 DEF Adaptive
<1>7. PaidInv'
  BY <1>1, <1>2, <1>6 DEF PaidInv
<1>8. DoneInv'
  BY <1>1 DEF DoneInv
<1>9. QED
  BY <1>2, <1>4, <1>5, <1>6, <1>7, <1>8 DEF LoopInv, TraceInv

(* A step of run_agent keeps what is known. *)
LEMMA AgentKeeps == ASSUME LoopInv, Agent PROVE LoopInv'
BY TurnTopKeeps, TurnObserveKeeps, TurnPlanKeeps, TurnAnswerKeeps, ReplaceKeeps, JoinedKeeps,
   SubmitKeeps, ExecutedKeeps, LastLeaseKeeps, StopKeeps, ResultKeeps DEF Agent

-----------------------------------------------------------------------------
(* The steps of run_adaptive                                               *)

(* Only while the cycle waits for its program is one live; before that,    *)
(* and as long as the run did not fail, every input was surely performed.  *)
LEMMA CycleFacts ==
    ASSUME LoopInv, Adaptive
    PROVE  /\ active = 0 /\ mode # "continuous"
           /\ pc # "running" => Acting = {}
           /\ pc \notin {"final", "done"} => trace.status = "running"
           /\ pc \notin {"running", "final", "done"} =>
                  sent = counters.attempts /\ counters.actions = counters.attempts
                      /\ landed = sent
           /\ pc \notin {"final", "done"} => saved.trace.status # "completed"
           /\ trace \in Traces /\ counters \in Counts /\ saved.trace \in Traces
           /\ saved.counters \in Counts /\ saved \in [trace : Traces, counters : Counts]
           /\ turn \in 0 .. MaxCalls /\ (turn > 0 => turn \in Turns)
<1>1. active = 0 /\ mode # "continuous"
  BY DEF LoopInv, ActingInv, Adaptive
<1>2. pc # "running" => Acting = {}
  BY <1>1, ActingFacts DEF LoopInv
<1>3. pc \notin {"final", "done"} => trace.status = "running" /\ saved.trace.status # "completed"
  BY DEF LoopInv, TraceInv
<1>4. ASSUME pc \notin {"running", "final", "done"}
      PROVE  sent = counters.attempts /\ counters.actions = counters.attempts /\ landed = sent
  BY <1>2, <1>3, <1>4 DEF LoopInv, InputsInv, TraceInv, Raised
<1>5. /\ trace \in Traces /\ counters \in Counts /\ saved.trace \in Traces
      /\ saved.counters \in Counts /\ saved \in [trace : Traces, counters : Counts]
      /\ turn \in 0 .. MaxCalls /\ (turn > 0 => turn \in Turns)
  BY Bounds DEF LoopInv, LoopTypes
<1>6. QED
  BY <1>1, <1>2, <1>3, <1>4, <1>5

(* The types of a step of run_adaptive *)
LEMMA CycleTypes ==
    ASSUME LoopTypes, Adaptive, UNCHANGED process, pc' \in CyclePCs,
           turn' \in 0 .. MaxCalls, active' \in 0 .. turn', progs' \in [Turns -> Programs],
           counters' \in Counts, trace' \in Traces,
           saved' \in [trace : Traces, counters : Counts], called' \subseteq 1 .. turn',
           sent' \in Nat, landed' \in Nat
    PROVE  LoopTypes'
BY DEF LoopTypes, Adaptive, process

(* How an adaptive run ends: its status and its reason                     *)
LEMMA StopsFacts ==
    ASSUME trace \in Traces, NEW status \in {"failed", "completed"}, NEW why \in Reasons,
           Stops(status, why)
    PROVE  /\ pc' = "final" /\ trace' \in Traces /\ trace'.status = status
           /\ trace'.reason = why /\ trace'.outcome = trace.outcome
<1> DEFINE tr == [trace EXCEPT !.status = status]
<1>1. tr \in Traces /\ tr.status = status /\ tr.outcome = trace.outcome
  BY DEF Traces
<1>2. trace' = [tr EXCEPT !.reason = why] /\ pc' = "final"
  BY DEF Stops, To
<1> HIDE DEF tr
<1>3. QED
  BY <1>1, <1>2, ReasonTypes

(* A run that fails says so, and denies nothing of what it did.            *)
LEMMA FailsKeeps ==
    ASSUME LoopInv, Adaptive, pc \notin {"running", "final", "done"}, NEW why \in Reasons,
           Fails(why), UNCHANGED <<process, turn, progs, active, counters, world>>,
           UNCHANGED saved \/ SaveTrace
    PROVE  LoopInv'
<1>1. /\ UNCHANGED <<mode, turn, progs, active, counters, called, sent, landed>>
      /\ UNCHANGED process /\ LoopTypes /\ ActingInv /\ PaidInv /\ TraceInv
  BY DEF process, world, LoopInv
<1>2. /\ Acting = {} /\ trace \in Traces /\ counters \in Counts /\ Adaptive'
      /\ saved \in [trace : Traces, counters : Counts] /\ saved.trace.status # "completed"
  BY <1>1, CycleFacts DEF Adaptive
<1>3. /\ pc' = "final" /\ trace' \in Traces /\ trace'.status = "failed"
      /\ trace'.outcome = trace.outcome
  BY <1>2, StopsFacts DEF Fails
<1>4. InputsInv' /\ Acting' = {}
  BY <1>1, <1>2, InputsRest
<1>5. saved' = saved \/ saved' = [trace |-> trace', counters |-> counters]
  BY <1>1 DEF SaveTrace
<1>6. LoopTypes'
  BY <1>1, <1>2, <1>3, <1>5, CycleTypes DEF LoopTypes, CyclePCs
<1>7. ActingInv'
  BY <1>1, <1>3, <1>4, CycleFacts DEF ActingInv
<1>8. PaidInv'
  BY <1>1, <1>2, <1>3, <1>5 DEF PaidInv
<1>9. TraceInv'
  BY <1>1, <1>2, <1>3, <1>4, <1>5 DEF TraceInv
<1>10. DoneInv'
  BY <1>3 DEF DoneInv
<1>11. QED
  BY <1>4, <1>6, <1>7, <1>8, <1>9, <1>10 DEF LoopInv

(* A run completes between two cycles, or before its program starts.       *)
LEMMA CompletesKeeps ==
    ASSUME LoopInv, Adaptive, pc \in {"top", "observe", "request", "prepare", "waiting"},
           NEW why \in Reasons, Completes(why), mode = "horizon" => Over \/ why = "death",
           UNCHANGED <<process, turn, progs, active, counters, world>>,
           UNCHANGED saved \/ SaveTrace
    PROVE  LoopInv'
<1>1. /\ UNCHANGED <<mode, clock, turn, progs, active, counters, called, sent, landed>>
      /\ UNCHANGED process /\ LoopTypes /\ ActingInv /\ PaidInv /\ TraceInv
  BY DEF process, world, LoopInv
<1>2. /\ Acting = {} /\ trace \in Traces /\ counters \in Counts /\ Adaptive'
      /\ saved \in [trace : Traces, counters : Counts] /\ saved.trace.status # "completed"
      /\ counters.actions = counters.attempts /\ landed = sent /\ trace.status = "running"
  BY <1>1, CycleFacts DEF Adaptive
<1>3. /\ pc' = "final" /\ trace' \in Traces /\ trace'.status = "completed"
      /\ trace'.outcome = trace.outcome /\ trace'.reason = why
  BY <1>2, StopsFacts DEF Completes
<1>4. InputsInv' /\ Acting' = {}
  BY <1>1, <1>2, InputsRest
<1>5. saved' = saved \/ saved' = [trace |-> trace', counters |-> counters]
  BY <1>1 DEF SaveTrace
<1>6. LoopTypes'
  BY <1>1, <1>2, <1>3, <1>5, CycleTypes DEF LoopTypes, CyclePCs
<1>7. ActingInv'
  BY <1>1, <1>3, <1>4, CycleFacts DEF ActingInv
<1>8. PaidInv'
  BY <1>1, <1>2, <1>3, <1>5 DEF PaidInv, One
<1>9. TraceInv'
  BY <1>1, <1>2, <1>3, <1>4, <1>5 DEF TraceInv, Over
<1>10. DoneInv'
  BY <1>3 DEF DoneInv
<1>11. QED
  BY <1>4, <1>6, <1>7, <1>8, <1>9, <1>10 DEF LoopInv

(* Under the horizon policy it waits. *)
LEMMA FinishesKeeps ==
    ASSUME LoopInv, Adaptive, pc \in {"top", "observe", "request"},
           NEW why \in Reasons, Finishes(why),
           UNCHANGED <<process, turn, progs, active, counters, world>>, SaveTrace
    PROVE  LoopInv'
<1>1. /\ UNCHANGED <<mode, clock, turn, progs, active, counters, called, sent, landed>>
      /\ UNCHANGED process /\ LoopTypes /\ ActingInv /\ PaidInv /\ TraceInv
  BY DEF process, world, LoopInv
<1>2. /\ Acting = {} /\ trace \in Traces /\ counters \in Counts /\ Adaptive'
      /\ saved \in [trace : Traces, counters : Counts] /\ saved.trace.status # "completed"
      /\ counters.actions = counters.attempts /\ landed = sent /\ trace.status = "running"
  BY <1>1, CycleFacts DEF Adaptive
<1>3. CASE mode # "horizon"
  BY <1>3, CompletesKeeps DEF Finishes, WaitsOut, Completes, Stops
<1>4. CASE mode = "horizon"
  <2>1. /\ pc' = "waiting" /\ trace' \in Traces /\ trace'.status = "running"
        /\ trace'.outcome = trace.outcome
    BY <1>2, <1>4, ReasonTypes DEF Traces, Finishes, WaitsOut, To
  <2>2. InputsInv' /\ Acting' = {}
    BY <1>1, <1>2, InputsRest
  <2>3. saved' = [trace |-> trace', counters |-> counters]
    BY <1>1 DEF SaveTrace
  <2>4. LoopTypes'
    BY <1>1, <1>2, <2>1, <2>3, CycleTypes DEF LoopTypes, CyclePCs
  <2>5. ActingInv'
    BY <1>1, <2>1, <2>2, CycleFacts DEF ActingInv
  <2>6. PaidInv'
    BY <1>1, <1>2, <2>1, <2>3 DEF PaidInv, One
  <2>7. TraceInv'
    BY <1>1, <1>2, <2>1, <2>2, <2>3 DEF TraceInv, Over
  <2>8. DoneInv'
    BY <2>1 DEF DoneInv
  <2>9. QED
    BY <2>2, <2>4, <2>5, <2>6, <2>7, <2>8 DEF LoopInv
<1>5. QED
  BY <1>3, <1>4

(* Why adaptive runs end *)
LEMMA CycleReasons ==
    {"cancelled", "wall_time_limit", "api_request_limit", "action_limit", "sdk_request_limit",
     "request_window_closed", "death", "adaptive_observation_unavailable",
     "adaptive_wall_deadline", "token_reservation_limit", "request_error",
     "adaptive_api_response_identity_invalid", "adaptive_actual_token_limit_exceeded",
     "adaptive_evidence_byte_limit", "adaptive_input_receipt_uncertain",
     "adaptive_execution_unavailable"} \subseteq Reasons
BY DEF Reasons, Terminals, Passive

(* The next cycle of an adaptive run, or its end                           *)
LEMMA CycleTopKeeps == ASSUME LoopInv, CycleTop PROVE LoopInv'
<1>1. /\ Adaptive /\ pc = "top" /\ LoopTypes /\ ActingInv /\ PaidInv /\ TraceInv
      /\ UNCHANGED <<process, turn, progs, active, counters, world>>
      /\ UNCHANGED <<mode, clock, turn, progs, active, counters, called, sent, landed>>
  BY DEF CycleTop, Cycle, At, LoopInv, process, world
<1>2. CASE \E why \in {"api_request_limit", "action_limit", "sdk_request_limit",
                       "request_window_closed"} : Finishes(why) /\ SaveTrace
  BY <1>1, <1>2, FinishesKeeps, CycleReasons
<1>3. CASE Fails("cancelled") /\ UNCHANGED saved
  BY <1>1, <1>3, FailsKeeps, CycleReasons
<1>4. CASE Over /\ Completes("wall_time_limit") /\ UNCHANGED saved
  BY <1>1, <1>4, CompletesKeeps, CycleReasons
<1>5. CASE turn < MaxCalls /\ To("observe") /\ UNCHANGED <<trace, saved>>
  <2>1. /\ Acting = {} /\ trace \in Traces /\ counters \in Counts /\ Adaptive'
        /\ trace.status = "running"
    BY <1>1, CycleFacts DEF Adaptive
  <2>2. InputsInv' /\ Acting' = {} /\ pc' = "observe"
    BY <1>1, <1>5, <2>1, InputsRest DEF To
  <2>3. LoopTypes'
    BY <1>1, <1>5, <2>1, <2>2, CycleTypes DEF LoopTypes, CyclePCs
  <2>4. ActingInv'
    BY <1>1, <1>5, <2>2, CycleFacts DEF ActingInv
  <2>5. PaidInv'
    BY <1>1, <1>5, <2>1, <2>2 DEF PaidInv, One
  <2>6. TraceInv'
    BY <1>1, <1>5, <2>1, <2>2 DEF TraceInv, Over
  <2>7. QED
    BY <2>2, <2>3, <2>4, <2>5, <2>6 DEF LoopInv, DoneInv
<1>6. QED
  BY <1>2, <1>3, <1>4, <1>5 DEF CycleTop, Exhausted

(* The observation a cycle starts with                                     *)
LEMMA CycleObserveKeeps == ASSUME LoopInv, CycleObserve PROVE LoopInv'
<1>1. /\ Adaptive /\ pc = "observe" /\ LoopTypes /\ ActingInv /\ PaidInv /\ TraceInv
      /\ UNCHANGED <<process, progs, active, counters, world>>
      /\ UNCHANGED <<mode, clock, progs, active, counters, called, sent, landed>>
  BY DEF CycleObserve, Cycle, At, LoopInv, process, world
<1>2. CASE Fails("adaptive_observation_unavailable") /\ UNCHANGED <<turn, saved>>
  BY <1>1, <1>2, FailsKeeps, CycleReasons
<1>3. CASE Completes("death") /\ UNCHANGED <<turn, saved>>
  BY <1>1, <1>3, CompletesKeeps, CycleReasons
<1>4. CASE Finishes("request_window_closed") /\ SaveTrace /\ UNCHANGED turn
  BY <1>1, <1>4, FinishesKeeps, CycleReasons
<1>5. CASE /\ turn' = turn + 1 /\ trace' = [trace EXCEPT !.outcome[turn + 1] = "not_started"]
           /\ To("request") /\ UNCHANGED saved
  <2>1. /\ Acting = {} /\ trace \in Traces /\ counters \in Counts /\ Adaptive'
        /\ trace.status = "running" /\ saved \in [trace : Traces, counters : Counts]
        /\ turn \in 0 .. MaxCalls /\ saved.trace.status # "completed"
    BY <1>1, CycleFacts DEF Adaptive
  <2>2. /\ turn < MaxCalls /\ turn + 1 \in Turns /\ turn' \in 1 .. MaxCalls
        /\ called \subseteq 1 .. turn /\ called' \subseteq 1 .. turn' /\ turn' \notin called
    BY <1>1, <1>5, <2>1, Bounds DEF ActingInv, LoopTypes
  <2>3. InputsInv' /\ Acting' = {} /\ pc' = "request"
    BY <1>1, <1>5, <2>1, InputsRest DEF To
  <2>4. /\ trace' \in Traces /\ trace'.status = "running" /\ trace'.outcome[turn'] = "not_started"
        /\ \A s \in Turns : s # turn' => trace'.outcome[s] = trace.outcome[s]
    <3>1. trace' = Told(trace, turn', "not_started") /\ turn' \in Turns
      BY <1>5, <2>2 DEF Told
    <3>2. "not_started" \in Outcomes
      BY DEF Outcomes
    <3>3. QED
      BY <2>1, <3>1, <3>2, OutcomeTypes
  <2>5. LoopTypes'
    BY <1>1, <1>5, <2>1, <2>2, <2>3, <2>4, CycleTypes DEF LoopTypes, CyclePCs
  <2>6. ActingInv'
    BY <1>1, <2>2, <2>3, CycleFacts DEF ActingInv
  <2>7. PaidInv'
    BY <1>1, <1>5, <2>1, <2>2, <2>3, <2>4 DEF PaidInv, One
  <2>8. TraceInv'
    <3>1. \A t \in called : t \in Turns /\ t # turn'
      BY <2>1, <2>2, Bounds
    <3>2. \A t \in Turns : t < turn' => trace'.outcome[t] = "confirmed"
      BY <1>1, <1>5, <2>1, <2>4, Bounds DEF TraceInv
    <3>3. \A t \in Turns : t > turn' => trace'.outcome[t] = "none"
      BY <1>1, <1>5, <2>1, <2>4, Bounds DEF TraceInv
    <3>4. QED
      BY <1>1, <1>5, <2>1, <2>3, <2>4, <3>1, <3>2, <3>3 DEF TraceInv, Over
  <2>9. QED
    BY <2>3, <2>5, <2>6, <2>7, <2>8 DEF LoopInv, DoneInv
<1>6. QED
  BY <1>2, <1>3, <1>4, <1>5 DEF CycleObserve

(* The mark that a call may be made is saved with its reservation.         *)
LEMMA RequestKeeps == ASSUME LoopInv, Request PROVE LoopInv'
<1>1. /\ Adaptive /\ pc = "request" /\ LoopTypes /\ ActingInv /\ PaidInv /\ TraceInv
      /\ UNCHANGED <<process, turn, progs, active, world>>
      /\ UNCHANGED <<mode, clock, turn, progs, active, called, sent, landed>>
  BY DEF Request, Cycle, At, LoopInv, process, world
<1>2. CASE Fails("adaptive_wall_deadline") /\ UNCHANGED <<counters, saved>>
  BY <1>1, <1>2, FailsKeeps, CycleReasons
<1>3. CASE /\ \E why \in {"request_window_closed", "token_reservation_limit"} : Finishes(why)
           /\ UNCHANGED counters /\ SaveTrace
  BY <1>1, <1>3, FinishesKeeps, CycleReasons
<1>4. CASE /\ counters.reserved + Reserve <= MaxTokens
           /\ counters' = [counters EXCEPT !.calls = @ + 1, !.reserved = @ + Reserve]
           /\ trace' = [trace EXCEPT !.outcome[turn] = "uncertain"]
           /\ To("marked") /\ SaveTrace
  <2>1. /\ Acting = {} /\ trace \in Traces /\ counters \in Counts /\ Adaptive'
        /\ trace.status = "running" /\ turn \in 0 .. MaxCalls
    BY <1>1, CycleFacts DEF Adaptive
  <2>2. turn > 0 /\ turn \in Turns /\ turn \notin called
    BY <1>1, <2>1, Bounds DEF ActingInv, PaidInv
  <2>3. /\ counters' \in Counts /\ counters'.calls = counters.calls + 1
        /\ counters'.reserved = counters.reserved + Reserve
        /\ counters'.attempts = counters.attempts /\ counters'.actions = counters.actions
        /\ counters'.used = counters.used
    <3> DEFINE a == [counters EXCEPT !.calls = @ + 1]
    <3>1. /\ a \in Counts /\ a.calls = counters.calls + 1 /\ a.reserved = counters.reserved
          /\ a.attempts = counters.attempts /\ a.actions = counters.actions
          /\ a.used = counters.used
      BY <2>1 DEF Counts
    <3>2. counters' = [a EXCEPT !.reserved = @ + Reserve]
      BY <1>4
    <3> HIDE DEF a
    <3>3. QED
      BY <3>1, <3>2, Bounds DEF Counts
  <2>4. InputsInv' /\ Acting' = {} /\ pc' = "marked"
    BY <1>1, <1>4, <2>1, <2>3, InputsRest DEF To
  <2>5. /\ trace' \in Traces /\ trace'.status = "running" /\ trace'.outcome[turn] = "uncertain"
        /\ \A s \in Turns : s # turn => trace'.outcome[s] = trace.outcome[s]
    <3>1. trace' = Told(trace, turn, "uncertain")
      BY <1>4 DEF Told
    <3>2. "uncertain" \in Outcomes
      BY DEF Outcomes
    <3>3. QED
      BY <2>1, <2>2, <3>1, <3>2, OutcomeTypes
  <2>6. saved' = [trace |-> trace', counters |-> counters']
    BY <1>4 DEF SaveTrace
  <2>7. LoopTypes'
    BY <1>1, <2>1, <2>3, <2>4, <2>5, <2>6, CycleTypes DEF LoopTypes, CyclePCs
  <2>8. ActingInv'
    BY <1>1, <2>2, <2>4, CycleFacts DEF ActingInv
  <2>9. PaidInv'
    <3>1. /\ counters.calls \in Nat /\ counters.reserved \in Nat /\ Cardinality(called) \in Nat
          /\ counters.calls = Cardinality(called) /\ counters.reserved = Reserve * counters.calls
      BY <1>1, <2>1, CalledFacts DEF PaidInv, Counts, One
    <3>2. counters'.reserved = Reserve * counters'.calls
      BY <2>3, <3>1, Products
    <3>3. counters'.used <= MaxTokens /\ counters'.reserved <= MaxTokens
      BY <1>1, <1>4, <2>3 DEF PaidInv
    <3>4. saved'.counters = counters' /\ saved'.trace = trace'
      BY <2>6
    <3>5. Cardinality(called') <= counters'.calls /\ counters'.calls = Cardinality(called') + 1
      BY <1>1, <2>3, <3>1
    <3>6. turn' \notin called' /\ trace'.outcome[turn'] = "uncertain"
      BY <1>1, <2>2, <2>5
    <3>7. QED
      BY <2>1, <2>4, <3>2, <3>3, <3>4, <3>5, <3>6 DEF PaidInv, One
  <2>10. TraceInv'
    <3>1. \A t \in called : t \in Turns /\ t # turn
      BY <1>1, <2>2, Bounds DEF LoopTypes
    <3>2. counters.actions = counters.attempts /\ landed = sent
      BY <1>1, CycleFacts
    <3>3. QED
      BY <1>1, <2>1, <2>2, <2>3, <2>4, <2>5, <2>6, <3>1, <3>2 DEF TraceInv, Over
  <2>11. QED
    BY <2>4, <2>7, <2>8, <2>9, <2>10 DEF LoopInv, DoneInv
<1>5. counters.reserved + Reserve > MaxTokens \/ counters.reserved + Reserve <= MaxTokens
  <2>1. counters.reserved \in Nat
    BY <1>1 DEF LoopTypes, Counts
  <2>2. QED
    BY <2>1, Bounds
<1>6. QED
  BY <1>2, <1>3, <1>4, <1>5 DEF Request

(* A call that is refused is given back, one that is made has its mark.    *)
LEMMA CallKeeps == ASSUME LoopInv, Call PROVE LoopInv'
<1>1. /\ Adaptive /\ pc = "marked" /\ LoopTypes /\ ActingInv /\ PaidInv /\ TraceInv
      /\ UNCHANGED <<process, turn, progs, active, sent, landed>>
      /\ UNCHANGED <<mode, clock, turn, progs, active, sent, landed>>
  BY DEF Call, Cycle, At, LoopInv, process
<1>2. /\ Acting = {} /\ trace \in Traces /\ counters \in Counts /\ Adaptive'
      /\ trace.status = "running" /\ turn \in 0 .. MaxCalls /\ turn > 0 /\ turn \in Turns
      /\ saved.trace.status # "completed" /\ saved \in [trace : Traces, counters : Counts]
      /\ counters.actions = counters.attempts /\ landed = sent /\ mode # "continuous"
  BY <1>1, CycleFacts DEF Adaptive, ActingInv
<1>3. /\ counters.calls \in Nat /\ counters.reserved \in Nat /\ Cardinality(called) \in Nat
      /\ counters.calls = Cardinality(called) + 1 /\ turn \notin called
      /\ counters.reserved = Reserve * counters.calls /\ counters.reserved <= MaxTokens
      /\ counters.used <= MaxTokens
      /\ saved.counters = counters /\ trace.outcome[turn] = "uncertain"
      /\ saved.trace.outcome[turn] = "uncertain"
  BY <1>1, <1>2, CalledFacts DEF PaidInv, Counts, One
<1>4. CASE Fails("adaptive_wall_deadline") /\ UNCHANGED <<counters, called, saved>>
  BY <1>1, <1>4, FailsKeeps, CycleReasons DEF world
<1>5. CASE /\ mode = "horizon" /\ UNCHANGED called /\ SaveTrace
           /\ counters' = [counters EXCEPT !.calls = @ - 1, !.reserved = @ - Reserve]
           /\ WaitsOut("request_window_closed", [trace EXCEPT !.outcome[turn] = "not_started"])
  <2> DEFINE a == [counters EXCEPT !.calls = @ - 1]
             tr == Told(trace, turn, "not_started")
  <2>1. /\ counters' \in Counts /\ counters'.calls = Cardinality(called)
        /\ counters'.reserved = counters.reserved - Reserve
        /\ counters'.attempts = counters.attempts /\ counters'.actions = counters.actions
        /\ counters'.used = counters.used
    <3>1. /\ a \in Counts /\ a.calls = Cardinality(called) /\ a.reserved = counters.reserved
          /\ a.attempts = counters.attempts /\ a.actions = counters.actions
          /\ a.used = counters.used
      BY <1>2, <1>3 DEF Counts
    <3>2. counters' = [a EXCEPT !.reserved = @ - Reserve]
      BY <1>5
    <3>3. counters.reserved - Reserve \in Nat
      <4>1. Reserve * (Cardinality(called) + 1) = Reserve * Cardinality(called) + Reserve
            /\ Reserve * Cardinality(called) \in Nat
        BY <1>3, Products
      <4>2. QED
        BY <1>3, <4>1, Bounds
    <3> HIDE DEF a
    <3>4. QED
      BY <3>1, <3>2, <3>3 DEF Counts
  <2>2. counters'.reserved = Reserve * counters'.calls /\ counters'.reserved <= MaxTokens
    <3>1. Reserve * (Cardinality(called) + 1) = Reserve * Cardinality(called) + Reserve
          /\ Reserve * Cardinality(called) \in Nat
      BY <1>3, Products
    <3>2. QED
      BY <1>3, <2>1, <3>1, Bounds
  <2>3. /\ tr \in Traces /\ tr.status = "running" /\ tr.outcome[turn] = "not_started"
        /\ \A s \in Turns : s # turn => tr.outcome[s] = trace.outcome[s]
    <3>1. "not_started" \in Outcomes
      BY DEF Outcomes
    <3>2. QED
      BY <1>2, <3>1, OutcomeTypes
  <2>4. pc' = "waiting" /\ trace' = [tr EXCEPT !.reason = "request_window_closed"]
    BY <1>5 DEF WaitsOut, To, Told
  <2> HIDE DEF tr
  <2>5. trace' \in Traces /\ trace'.status = "running" /\ trace'.outcome = tr.outcome
    BY <2>3, <2>4, CycleReasons, ReasonTypes DEF Traces
  <2>6. saved' = [trace |-> trace', counters |-> counters']
    BY <1>5 DEF SaveTrace
  <2>7. InputsInv' /\ Acting' = {}
    BY <1>1, <1>2, <2>1, InputsRest
  <2>8. LoopTypes'
    BY <1>1, <1>2, <1>5, <2>1, <2>4, <2>5, <2>6, CycleTypes DEF LoopTypes, CyclePCs
  <2>9. ActingInv'
    BY <1>1, <1>2, <2>4, <2>7 DEF ActingInv
  <2>10. PaidInv'
    <3>1. counters'.used <= MaxTokens
      BY <1>3, <2>1
    <3>2. saved'.counters = counters'
      BY <2>6
    <3>3. /\ Cardinality(called') <= counters'.calls /\ counters'.calls = Cardinality(called')
          /\ Cardinality(called') \in Nat
      BY <1>3, <1>5, <2>1
    <3>4. QED
      BY <1>2, <2>2, <2>4, <3>1, <3>2, <3>3 DEF PaidInv, One
  <2>11. TraceInv'
    <3>1. \A t \in called : t \in Turns /\ t # turn
      BY <1>1, <1>2, <1>3, Bounds DEF LoopTypes
    <3>2. \A t \in called : Saved(trace'.outcome[t])
      BY <1>1, <1>2, <2>3, <2>5, <3>1 DEF TraceInv
    <3>3. \A t \in Turns : /\ t < turn => trace'.outcome[t] = "confirmed"
                           /\ t > turn => trace'.outcome[t] = "none"
      BY <1>1, <1>2, <2>3, <2>5 DEF TraceInv
    <3>4. saved'.trace = trace' /\ saved'.counters = counters' /\ trace'.status = "running"
          /\ trace'.outcome[turn] = "not_started"
      BY <2>3, <2>5, <2>6
    <3>5. QED
      BY <1>1, <1>2, <1>5, <2>1, <2>4, <2>7, <3>2, <3>3, <3>4 DEF TraceInv
  <2>12. QED
    BY <2>4, <2>7, <2>8, <2>9, <2>10, <2>11 DEF LoopInv, DoneInv
<1>6. CASE called' = called \cup {turn} /\ To("asking") /\ UNCHANGED <<counters, trace, saved>>
  <2>1. InputsInv' /\ Acting' = {} /\ pc' = "asking"
    BY <1>1, <1>2, <1>6, InputsRest DEF To
  <2>2. LoopTypes'
    <3>1. called \subseteq 1 .. turn /\ turn \in 1 .. turn
      BY <1>1, <1>2 DEF LoopTypes
    <3>2. called' \subseteq 1 .. turn'
      BY <1>1, <1>6, <3>1
    <3>3. QED
      BY <1>1, <1>2, <1>6, <2>1, <3>2, CycleTypes DEF LoopTypes, CyclePCs
  <2>3. ActingInv'
    BY <1>1, <1>2, <2>1 DEF ActingInv
  <2>4. Cardinality(called') = counters.calls
    BY <1>1, <1>3, <1>6, CalledFacts
  <2>5. PaidInv'
    BY <1>1, <1>2, <1>3, <1>6, <2>1, <2>4 DEF PaidInv, One
  <2>6. TraceInv'
    BY <1>1, <1>2, <1>3, <1>6, <2>1 DEF TraceInv, Over, Saved
  <2>7. QED
    BY <2>1, <2>2, <2>3, <2>5, <2>6 DEF LoopInv, DoneInv
<1>7. QED
  BY <1>4, <1>5, <1>6 DEF Call, WindowOpen

(* The answer of a cycle                                                   *)
LEMMA CycleAnswerKeeps == ASSUME LoopInv, CycleAnswer PROVE LoopInv'
<1>1. /\ Adaptive /\ pc = "asking" /\ LoopTypes /\ ActingInv /\ PaidInv /\ TraceInv
      /\ UNCHANGED <<process, turn, progs, active, counters, world>>
      /\ UNCHANGED <<mode, clock, turn, progs, active, counters, called, sent, landed>>
  BY DEF CycleAnswer, Cycle, At, LoopInv, process, world
<1>2. CASE Fails("request_error") /\ UNCHANGED saved
  BY <1>1, <1>2, FailsKeeps, CycleReasons
<1>3. CASE /\ trace' = [trace EXCEPT !.outcome[turn] = "receipt_saved"]
           /\ SaveTrace /\ To("answered")
  <2>1. /\ Acting = {} /\ trace \in Traces /\ counters \in Counts /\ Adaptive'
        /\ trace.status = "running" /\ turn \in 0 .. MaxCalls /\ turn > 0 /\ turn \in Turns
        /\ mode # "continuous" /\ counters.actions = counters.attempts /\ landed = sent
    BY <1>1, CycleFacts DEF Adaptive, ActingInv
  <2>2. /\ trace' \in Traces /\ trace'.status = "running" /\ trace'.outcome[turn] = "receipt_saved"
        /\ \A s \in Turns : s # turn => trace'.outcome[s] = trace.outcome[s]
    <3>1. "receipt_saved" \in Outcomes /\ trace' = Told(trace, turn, "receipt_saved")
      BY <1>3 DEF Outcomes, Told
    <3>2. QED
      BY <2>1, <3>1, OutcomeTypes
  <2>3. InputsInv' /\ Acting' = {} /\ pc' = "answered"
    BY <1>1, <1>3, <2>1, InputsRest DEF To
  <2>4. saved' = [trace |-> trace', counters |-> counters]
    BY <1>1, <1>3 DEF SaveTrace
  <2>5. LoopTypes'
    BY <1>1, <2>1, <2>2, <2>3, <2>4, CycleTypes DEF LoopTypes, CyclePCs
  <2>6. ActingInv'
    BY <1>1, <2>1, <2>3 DEF ActingInv
  <2>7. PaidInv'
    BY <1>1, <2>1, <2>3, <2>4 DEF PaidInv, One
  <2>8. TraceInv'
    <3>1. \A t \in called : t \in Turns
      BY <1>1, <2>1, Bounds DEF LoopTypes
    <3>2. QED
      BY <1>1, <2>1, <2>2, <2>3, <2>4, <3>1 DEF TraceInv, Over, Saved
  <2>9. QED
    BY <2>3, <2>5, <2>6, <2>7, <2>8 DEF LoopInv, DoneInv
<1>4. QED
  BY <1>2, <1>3 DEF CycleAnswer

(* A confirmed answer is saved together with what it ended.                *)
LEMMA ConfirmKeeps == ASSUME LoopInv, Confirm PROVE LoopInv'
<1>1. /\ Adaptive /\ pc = "answered" /\ LoopTypes /\ ActingInv /\ PaidInv /\ TraceInv
      /\ UNCHANGED <<process, turn, progs, active, world>>
      /\ UNCHANGED <<mode, clock, turn, progs, active, called, sent, landed>>
  BY DEF Confirm, Cycle, At, LoopInv, process, world
<1>2. CASE /\ \E why \in {"adaptive_api_response_identity_invalid",
                          "adaptive_actual_token_limit_exceeded"} : Fails(why)
           /\ UNCHANGED <<counters, saved>>
  BY <1>1, <1>2, FailsKeeps, CycleReasons
<1>3. ASSUME NEW usage \in 1 .. (Reserve + 1), counters.used + usage <= MaxTokens,
             counters' = [counters EXCEPT !.used = @ + usage],
             NEW next \in {"running", "failed", "completed"}, next = "completed" => Over,
             NEW why \in Reasons,
             trace' = [trace EXCEPT !.outcome[turn] = "confirmed", !.status = next, !.reason = why],
             IF next = "running" THEN pc' \in {"top", "prepare"} ELSE pc' = "final", SaveTrace
      PROVE  LoopInv'
  <2>1. /\ Acting = {} /\ trace \in Traces /\ counters \in Counts /\ Adaptive'
        /\ trace.status = "running" /\ turn \in 0 .. MaxCalls /\ turn > 0 /\ turn \in Turns
        /\ mode # "continuous" /\ counters.actions = counters.attempts /\ landed = sent
    BY <1>1, CycleFacts DEF Adaptive, ActingInv
  <2>2. /\ counters' \in Counts /\ counters'.calls = counters.calls
        /\ counters'.reserved = counters.reserved
        /\ counters'.attempts = counters.attempts /\ counters'.actions = counters.actions
        /\ counters'.used <= MaxTokens
    <3>1. counters.used + usage \in Nat
      BY <2>1, Bounds DEF Counts
    <3>2. counters' = [counters EXCEPT !.used = counters.used + usage]
      BY <1>3
    <3>3. QED
      BY <1>3, <2>1, <3>1, <3>2 DEF Counts
  <2>3. /\ trace' \in Traces /\ trace'.status = next /\ trace'.outcome[turn] = "confirmed"
        /\ trace'.reason = why
        /\ \A s \in Turns : s # turn => trace'.outcome[s] = trace.outcome[s]
    <3> DEFINE a == Told(trace, turn, "confirmed")
               b == [a EXCEPT !.status = next]
    <3>1. /\ a \in Traces /\ a.outcome[turn] = "confirmed"
          /\ \A s \in Turns : s # turn => a.outcome[s] = trace.outcome[s]
      <4>1. "confirmed" \in Outcomes
        BY DEF Outcomes
      <4>2. QED
        BY <2>1, <4>1, OutcomeTypes
    <3>2. trace' = [b EXCEPT !.reason = why]
      BY <1>3 DEF Told
    <3> HIDE DEF a
    <3>3. b \in Traces /\ b.outcome = a.outcome /\ b.status = next
      BY <3>1 DEF Traces
    <3> HIDE DEF b
    <3>4. trace' \in Traces /\ trace'.outcome = a.outcome /\ trace'.status = next
          /\ trace'.reason = why
      BY <3>2, <3>3 DEF Traces
    <3>5. QED
      BY <3>1, <3>4
  <2>4. InputsInv' /\ Acting' = {}
    BY <1>1, <2>1, <2>2, InputsRest
  <2>5. saved' = [trace |-> trace', counters |-> counters']
    BY <1>3 DEF SaveTrace
  <2>6. LoopTypes'
    BY <1>1, <1>3, <2>1, <2>2, <2>3, <2>5, CycleTypes DEF LoopTypes, CyclePCs
  <2>7. ActingInv'
    BY <1>1, <1>3, <2>1, <2>4 DEF ActingInv
  <2>8. PaidInv'
    BY <1>1, <1>3, <2>1, <2>2, <2>5 DEF PaidInv, One
  <2>9. TraceInv'
    <3>1. \A t \in called : t \in Turns
      BY <1>1, <2>1, Bounds DEF LoopTypes
    <3>2. \A t \in called : Saved(trace'.outcome[t])
      BY <1>1, <2>3, <3>1 DEF TraceInv, Saved
    <3>3. \A t \in Turns : /\ t < turn => trace'.outcome[t] = "confirmed"
                           /\ t > turn => trace'.outcome[t] = "none"
      BY <1>1, <2>1, <2>3 DEF TraceInv
    <3>4. trace'.status = "running" <=> pc' \notin {"final", "done"}
      BY <1>3, <2>3
    <3>5. trace'.status = "completed" => Over'
      BY <1>1, <1>3, <2>3 DEF Over
    <3>6. QED
      BY <1>1, <1>3, <2>1, <2>2, <2>3, <2>4, <2>5, <3>2, <3>3, <3>4, <3>5 DEF TraceInv
  <2>10. QED
    BY <1>3, <2>4, <2>6, <2>7, <2>8, <2>9 DEF LoopInv, DoneInv
<1>4. trace.reason \in Reasons
  BY <1>1, CycleFacts DEF Traces
<1>5. CASE \E usage \in 1 .. (Reserve + 1) :
              /\ counters.used + usage <= MaxTokens
              /\ counters' = [counters EXCEPT !.used = @ + usage]
              /\ \E next \in {"running", "failed", "completed"} :
                 \E why \in {trace.reason, "cancelled", "wall_time_limit"} :
                   /\ next = "completed" => Over
                   /\ trace' = [trace EXCEPT !.outcome[turn] = "confirmed",
                                             !.status = next, !.reason = why]
                   /\ IF next = "running" THEN pc' \in {"top", "prepare"} ELSE pc' = "final"
              /\ SaveTrace
  BY <1>3, <1>4, <1>5, CycleReasons
<1>6. \A usage \in 1 .. (Reserve + 1) :
          counters.used + usage > MaxTokens \/ counters.used + usage <= MaxTokens
  <2>1. counters.used \in Nat
    BY <1>1 DEF LoopTypes, Counts
  <2>2. QED
    BY <2>1, Bounds
<1>7. QED
  BY <1>2, <1>5, <1>6 DEF Confirm, To

(* The program starts with the inputs that are left, all before it sure.   *)
LEMMA PrepareProgramKeeps == ASSUME LoopInv, PrepareProgram PROVE LoopInv'
<1>1. /\ Adaptive /\ pc = "prepare" /\ LoopTypes /\ ActingInv /\ PaidInv /\ TraceInv
      /\ UNCHANGED <<process, turn, active, counters, world>>
      /\ UNCHANGED <<mode, clock, turn, active, counters, called, sent, landed>>
  BY DEF PrepareProgram, Cycle, At, LoopInv, process, world
<1>2. CASE Fails("adaptive_observation_unavailable") /\ UNCHANGED <<progs, saved>>
  BY <1>1, <1>2, FailsKeeps, CycleReasons
<1>3. CASE Completes("death") /\ UNCHANGED <<progs, saved>>
  BY <1>1, <1>3, CompletesKeeps, CycleReasons
<1>4. CASE Launch(turn) /\ UNCHANGED trace /\ SaveTrace /\ To("running")
  <2>1. /\ Acting = {} /\ trace \in Traces /\ counters \in Counts /\ Adaptive'
        /\ trace.status = "running" /\ turn \in 0 .. MaxCalls /\ turn > 0 /\ turn \in Turns
        /\ mode # "continuous" /\ counters.actions = counters.attempts /\ landed = sent
        /\ sent = counters.attempts
    BY <1>1, CycleFacts DEF Adaptive, ActingInv
  <2>2. /\ progs' \in [Turns -> Programs] /\ Acting' = {turn} /\ InputsInv'
        /\ ~progs'[turn].doubt /\ progs'[turn].actions = 0 /\ pc' = "running"
    BY <1>1, <1>4, <2>1, LaunchFacts DEF To
  <2>3. saved' = [trace |-> trace, counters |-> counters]
    BY <1>1, <1>4 DEF SaveTrace
  <2>4. LoopTypes'
    BY <1>1, <1>4, <2>1, <2>2, <2>3, CycleTypes DEF LoopTypes, CyclePCs
  <2>5. ActingInv'
    BY <1>1, <2>1, <2>2 DEF ActingInv
  <2>6. PaidInv'
    BY <1>1, <1>4, <2>1, <2>2, <2>3 DEF PaidInv, One
  <2>7. TraceInv'
    <3>1. counters.actions \in Nat
      BY <2>1 DEF Counts
    <3>2. QED
      BY <1>1, <1>4, <2>1, <2>2, <2>3, <3>1 DEF TraceInv, Over
  <2>8. QED
    BY <2>2, <2>4, <2>5, <2>6, <2>7 DEF LoopInv, DoneInv
<1>5. QED
  BY <1>2, <1>3, <1>4 DEF PrepareProgram

(* The receipts of a program are counted and saved before they are judged, *)
(* and only a program that is sure of every input lets the run go on.      *)
LEMMA SettleKeeps == ASSUME LoopInv, Settle PROVE LoopInv'
<1> DEFINE p == progs[turn]
           c == Tally(p)
<1>1. /\ Adaptive /\ pc = "running" /\ LoopTypes /\ ActingInv /\ PaidInv /\ TraceInv
      /\ UNCHANGED <<process, turn, active, world>> /\ p.st = "ended" /\ progs' = Forget(turn)
      /\ UNCHANGED <<mode, clock, turn, active, called, sent, landed>>
  BY DEF Settle, Cycle, At, LoopInv, process, world
<1>2. /\ trace \in Traces /\ counters \in Counts /\ Adaptive' /\ mode # "continuous"
      /\ trace.status = "running" /\ turn \in 0 .. MaxCalls /\ turn > 0 /\ turn \in Turns
      /\ saved.trace.status # "completed" /\ saved \in [trace : Traces, counters : Counts]
      /\ active = 0
  BY <1>1, CycleFacts DEF Adaptive, ActingInv
<1>3. /\ Acting = {turn} /\ p \in Programs /\ turn \in Acting
  BY <1>1, <1>2, ActingFacts DEF LoopTypes
<1>4. progs' \in [Turns -> Programs] /\ Acting' = {}
  BY <1>1, <1>2, <1>3, ForgetFacts
<1>5. /\ sent \in Nat /\ landed \in Nat /\ active' \in 0 .. turn' /\ called' \subseteq 1 .. turn'
      /\ turn' \in 0 .. MaxCalls
  BY <1>1 DEF LoopTypes
<1>6. CASE /\ p.reason = "raised" /\ Fails("adaptive_evidence_byte_limit")
           /\ UNCHANGED <<counters, saved>>
  <2>1. /\ pc' = "final" /\ trace' \in Traces /\ trace'.status = "failed"
        /\ trace'.outcome = trace.outcome
    BY <1>2, <1>6, StopsFacts, CycleReasons DEF Fails
  <2>2. InputsInv'
    BY <1>1, <1>2, <1>3, <1>6, <2>1, RaisedInputs
  <2>3. LoopTypes'
    BY <1>1, <1>2, <1>4, <1>5, <1>6, <2>1, CycleTypes DEF CyclePCs
  <2>4. ActingInv'
    BY <1>1, <1>2, <1>4, <2>1 DEF ActingInv
  <2>5. PaidInv'
    BY <1>1, <1>2, <1>6, <2>1 DEF PaidInv, One
  <2>6. TraceInv'
    BY <1>1, <1>2, <1>4, <1>6, <2>1 DEF TraceInv
  <2>7. QED
    BY <2>1, <2>2, <2>3, <2>4, <2>5, <2>6 DEF LoopInv, DoneInv
<1>7. ASSUME counters' = c,
             \/ \E why \in Reasons : Fails(why)
             \/ ~p.doubt /\ \E why \in Reasons :
                    Completes(why) /\ (mode = "horizon" => Over \/ why = "death")
             \/ ~p.doubt /\ \E why \in Reasons : Finishes(why)
             \/ ~p.doubt /\ To("top") /\ UNCHANGED trace,
             saved' = [trace |-> IF pc' = "waiting" THEN trace' ELSE trace, counters |-> c]
      PROVE  LoopInv'
  <2>1. /\ c \in Counts /\ c.calls = counters.calls /\ c.reserved = counters.reserved
        /\ c.used = counters.used /\ c.attempts = counters.attempts + p.attempts
        /\ c.actions = counters.actions + p.actions
    BY <1>2, <1>3, TallyFacts
  <2>2. counters' \in Counts /\ InputsInv' /\ sent' = counters'.attempts
    BY <1>1, <1>2, <1>3, <1>7, JoinedInputs
  <2>3. ~p.doubt => counters'.actions = counters'.attempts /\ landed' = sent'
    <3>1. /\ Sound(p) /\ ~p.sending
      BY <1>1, <1>3 DEF LoopInv, InputsInv, Sound
    <3>2. /\ counters.actions = counters.attempts
          /\ ~p.doubt => landed = counters.actions + p.actions
      BY <1>1, <1>3 DEF TraceInv
    <3>3. counters.actions \in Nat /\ p.actions \in Nat /\ p.attempts \in Nat
      BY <1>2, <1>3 DEF Counts, Programs
    <3>4. ~p.doubt => p.actions = p.attempts
      BY <3>1, <3>3 DEF Sound, One
    <3>5. QED
      BY <1>1, <1>7, <2>1, <2>2, <3>2, <3>3, <3>4
  <2>4. /\ trace' \in Traces /\ trace'.outcome = trace.outcome
        /\ pc' \in {"final", "waiting", "top"}
        /\ trace'.status = "running" <=> pc' # "final"
        /\ trace'.status # "failed" => ~p.doubt
        /\ trace'.status = "completed" /\ mode = "horizon" => Over \/ trace'.reason = "death"
    <3>1. CASE \E why \in Reasons : Fails(why)
      BY <1>2, <3>1, StopsFacts DEF Fails
    <3>2. CASE ~p.doubt /\ \E why \in Reasons :
                    Completes(why) /\ (mode = "horizon" => Over \/ why = "death")
      BY <1>2, <3>2, StopsFacts DEF Completes
    <3>3. CASE ~p.doubt /\ \E why \in Reasons : Finishes(why)
      <4>1. PICK why \in Reasons : Finishes(why)
        BY <3>3
      <4>2. CASE mode = "horizon"
        <5>1. pc' = "waiting" /\ trace' = [trace EXCEPT !.reason = why]
          BY <4>1, <4>2 DEF Finishes, WaitsOut, To
        <5>2. trace' \in Traces /\ trace'.outcome = trace.outcome /\ trace'.status = "running"
          BY <1>2, <5>1 DEF Traces
        <5>3. QED
          BY <3>3, <5>1, <5>2
      <4>3. CASE mode # "horizon"
        <5>1. Stops("completed", why)
          BY <4>1, <4>3 DEF Finishes, WaitsOut, Stops
        <5>2. QED
          BY <1>2, <3>3, <4>3, <5>1, StopsFacts
      <4>4. QED
        BY <4>2, <4>3
    <3>4. CASE ~p.doubt /\ To("top") /\ UNCHANGED trace
      BY <1>2, <3>4 DEF To
    <3>5. QED
      BY <1>7, <3>1, <3>2, <3>3, <3>4
  <2> HIDE DEF c, p
  <2>5. /\ saved' \in [trace : Traces, counters : Counts] /\ saved'.counters = counters'
        /\ saved'.trace \in {trace, trace'} /\ saved'.trace.status = "running"
        /\ saved'.trace.outcome = trace.outcome
    BY <1>2, <1>7, <2>1, <2>4
  <2>6. LoopTypes'
    BY <1>1, <1>2, <1>4, <1>5, <2>2, <2>4, <2>5, CycleTypes DEF CyclePCs
  <2>7. ActingInv'
    BY <1>1, <1>2, <1>4, <2>4 DEF ActingInv
  <2>8. PaidInv'
    <3>1. /\ counters'.calls = counters.calls /\ counters'.reserved = counters.reserved
          /\ counters'.used = counters.used
      BY <1>7, <2>1
    <3>2. counters.calls = Cardinality(called) + One(pc = "marked")
      BY <1>1, <1>2 DEF PaidInv
    <3>3. QED
      BY <1>1, <1>2, <2>4, <2>5, <3>1, <3>2 DEF PaidInv, One
  <2>9. TraceInv'
    <3>1. \A t \in called : Saved(trace.outcome[t])
      BY <1>1, <1>2 DEF TraceInv
    <3>2. \A t \in Turns : /\ t < turn => trace.outcome[t] = "confirmed"
                           /\ t > turn => trace.outcome[t] = "none"
      BY <1>1, <1>2 DEF TraceInv
    <3>3. trace.outcome[turn] = "confirmed"
      BY <1>1, <1>2 DEF TraceInv
    <3>4. Over' = Over
      BY <1>1 DEF Over
    <3>5. QED
      BY <1>1, <1>2, <1>4, <2>3, <2>4, <2>5, <3>1, <3>2, <3>3, <3>4 DEF TraceInv
  <2>10. QED
    BY <2>2, <2>4, <2>6, <2>7, <2>8, <2>9 DEF LoopInv, DoneInv
<1>8. CASE /\ p.reason # "raised" /\ counters' = c
           /\ \/ \E why \in {"adaptive_input_receipt_uncertain", "adaptive_execution_unavailable"} :
                     Fails(why)
              \/ ~p.doubt /\ Completes("death")
              \/ ~p.doubt /\ \E why \in {"action_limit", "sdk_request_limit"} : Finishes(why)
              \/ ~p.doubt /\ Over /\ Completes("wall_time_limit")
              \/ ~p.doubt /\ To("top") /\ UNCHANGED trace
           /\ saved' = [trace |-> IF pc' = "waiting" THEN trace' ELSE trace, counters |-> c]
  BY <1>7, <1>8, CycleReasons
<1>9. QED
  BY <1>6, <1>8 DEF Settle

(* The wait until the world has changed                                    *)
LEMMA WatchKeeps == ASSUME LoopInv, Watch PROVE LoopInv'
<1>1. /\ Adaptive /\ pc = "waiting" /\ SaveTrace
      /\ UNCHANGED <<process, turn, progs, active, counters, world>>
  BY DEF Watch, Cycle, At
<1>2. trace.reason \in Reasons
  BY <1>1, CycleFacts DEF Traces
<1>3. \/ \E why \in {"adaptive_observation_unavailable", "cancelled"} : Fails(why)
      \/ \E why \in {trace.reason, "death"} :
             Completes(why) /\ (mode = "horizon" => Over \/ why = "death")
  BY DEF Watch
<1>4. QED
  BY <1>1, <1>2, <1>3, FailsKeeps, CompletesKeeps, CycleReasons

(* The result is what is saved last. *)
LEMMA CloseKeeps == ASSUME LoopInv, Close PROVE LoopInv'
<1>1. /\ Adaptive /\ pc = "final" /\ LoopTypes /\ ActingInv /\ PaidInv /\ TraceInv
      /\ UNCHANGED <<mode, clock, turn, progs, active, counters, trace, called, sent, landed>>
      /\ UNCHANGED process /\ pc' = "done" /\ saved' = [trace |-> trace, counters |-> counters]
  BY DEF Close, Cycle, At, To, SaveTrace, LoopInv, process, world
<1>2. /\ trace \in Traces /\ counters \in Counts /\ Adaptive' /\ mode # "continuous"
      /\ Acting = {}
  BY <1>1, CycleFacts DEF Adaptive
<1>3. InputsInv' /\ Acting' = {}
  BY <1>1, <1>2, InputsRest
<1>4. LoopTypes'
  BY <1>1, <1>2, CycleTypes DEF LoopTypes, CyclePCs
<1>5. ActingInv'
  BY <1>1, <1>2, <1>3 DEF ActingInv
<1>6. PaidInv'
  BY <1>1, <1>2 DEF PaidInv, One
<1>7. TraceInv'
  BY <1>1, <1>2, <1>3 DEF TraceInv, Over
<1>8. DoneInv'
  BY <1>1 DEF DoneInv
<1>9. QED
  BY <1>3, <1>4, <1>5, <1>6, <1>7, <1>8 DEF LoopInv

(* A step of run_adaptive keeps what is known. *)
LEMMA AdaptiveKeeps == ASSUME LoopInv, AdaptiveLoop PROVE LoopInv'
BY CycleTopKeeps, CycleObserveKeeps, RequestKeeps, CallKeeps, CycleAnswerKeeps, ConfirmKeeps,
   PrepareProgramKeeps, SettleKeeps, WatchKeeps, CloseKeeps DEF AdaptiveLoop

(* Time, the operator and a kill touch nothing that is counted.            *)
LEMMA OutsideKeeps ==
    ASSUME LoopInv, Tick \/ CancelRun \/ Kill \/ UNCHANGED loopVars PROVE LoopInv'
<1>1. /\ UNCHANGED <<mode, pc, turn, progs, active, counters, trace, saved, called, sent, landed>>
      /\ clock' = clock \/ (clock' \in {"closing", "over"} /\ ~Over)
      /\ clock' \in {"open", "closing", "over"}
      /\ cancelled' \in BOOLEAN /\ alive' \in BOOLEAN
  BY DEF Tick, CancelRun, Kill, loopVars, world, LoopInv, LoopTypes
<1>2. Acting' = Acting /\ (Adaptive' <=> Adaptive) /\ (Raised' <=> Raised) /\ (Over => Over')
  BY <1>1 DEF Acting, Adaptive, Raised, Over
<1>3. LoopTypes'
  BY <1>1, <1>2 DEF LoopInv, LoopTypes
<1>4. ActingInv'
  BY <1>1, <1>2 DEF LoopInv, ActingInv
<1>5. InputsInv'
  BY <1>1, <1>2 DEF LoopInv, InputsInv
<1>6. PaidInv'
  BY <1>1, <1>2 DEF LoopInv, PaidInv
<1>7. TraceInv'
  BY <1>1, <1>2 DEF LoopInv, TraceInv
<1>8. DoneInv'
  BY <1>1 DEF LoopInv, DoneInv
<1>9. QED
  BY <1>3, <1>4, <1>5, <1>6, <1>7, <1>8 DEF LoopInv

(* The invariant of the loops *)
LEMMA LoopsSafe == LoopSpec => []LoopInv
<1>1. LoopInv /\ [LoopNext]_loopVars => LoopInv'
  BY ProgramKeeps, AgentKeeps, AdaptiveKeeps, OutsideKeeps DEF LoopNext
<1>2. QED
  BY LoopStarts, <1>1, PTL DEF LoopSpec

-----------------------------------------------------------------------------
(* What a run was really allowed to do (maple_agent.py:379, :642,          *)
(* full_client_adaptive.py:337)                                            *)
LEMMA LimitsKept == LoopInv => WithinLimits
<1> SUFFICES ASSUME LoopInv PROVE WithinLimits
  OBVIOUS
<1>1. /\ LoopTypes /\ InputsInv /\ PaidInv
  BY DEF LoopInv
<1>2. /\ mode \in ControlModes /\ clock \in {"open", "closing", "over"}
      /\ turn \in 0 .. MaxCalls /\ active \in 0 .. turn /\ called \subseteq 1 .. turn
      /\ counters \in Counts /\ sent \in Nat /\ landed \in Nat
  BY <1>1 DEF LoopTypes
<1>3. counters.used <= MaxTokens /\ counters.reserved <= MaxTokens
      /\ counters.actions <= counters.attempts
  BY <1>1 DEF PaidInv, InputsInv
<1>4. Adaptive => Reserve * Cardinality(called) <= counters.reserved
  <2>1. Cardinality(called) \in Nat /\ counters.calls \in Nat
    BY <1>1, <1>2, CalledFacts DEF Counts
  <2>2. QED
    BY <1>1, <2>1, Products DEF PaidInv
<1>5. sent <= MaxActions /\ landed <= sent
  <2>1. CASE Acting = {}
    BY <1>1, <2>1 DEF InputsInv
  <2>2. ASSUME NEW t \in Acting PROVE sent <= MaxActions /\ landed <= sent
    <3>1. /\ Sound(progs[t]) /\ counters.attempts + progs[t].limit <= MaxActions
          /\ sent = counters.attempts + progs[t].attempts
          /\ landed + One(progs[t].sending) <= sent
      BY <1>1 DEF InputsInv
    <3>2. progs[t] \in Programs
      BY <1>1 DEF LoopTypes, Acting
    <3>3. /\ progs[t].attempts \in Nat /\ progs[t].limit \in Nat /\ counters.attempts \in Nat
      BY <1>2, <3>2 DEF Programs, Counts
    <3>4. QED
      BY <1>2, <3>1, <3>3, Bounds DEF Sound, One
  <2>3. QED
    BY <2>1, <2>2
<1>6. QED
  BY <1>2, <1>3, <1>4, <1>5 DEF WithinLimits

(* Two programs never act together (maple_agent.py:624, :665).             *)
LEMMA OneActs == LoopInv => OneProgram
<1> SUFFICES ASSUME LoopInv PROVE OneProgram
  OBVIOUS
<1> DEFINE acting == {t \in Turns : progs[t].st = "running"}
<1>1. acting \subseteq Acting
  BY DEF Acting
<1>2. \A s, t \in Acting : s = t
  BY ActingFacts DEF LoopInv
<1>3. acting = {} \/ \E t : acting = {t}
  BY <1>1, <1>2
<1>4. Cardinality(acting) <= 1
  <2>1. CASE acting = {}
    BY <2>1, FS_EmptySet
  <2>2. ASSUME NEW t, acting = {t} PROVE Cardinality(acting) <= 1
    <3>1. Cardinality({t}) = 1
      BY FS_Singleton
    <3>2. QED
      BY <2>2, <3>1
  <2>3. QED
    BY <1>3, <2>1, <2>2
<1>5. pc = "done" => acting = {}
  <2>1. pc = "done" => Acting = {}
    BY ActingFacts DEF LoopInv, ActingInv
  <2>2. QED
    BY <1>1, <2>1
<1>6. QED
  BY <1>4, <1>5 DEF OneProgram

(* The totals of a run that returned (maple_agent.py:532, :546)            *)
LEMMA TotalsKept == LoopInv => Accounted
<1> SUFFICES ASSUME LoopInv, pc = "done" PROVE
        \/ mode # "continuous" /\ \E t \in Turns : progs[t].reason = "raised"
        \/ /\ saved.counters.attempts = sent
           /\ saved.counters.actions <= landed
           /\ Cardinality(called) <= saved.counters.calls
  BY DEF Accounted
<1>1. Acting = {} /\ saved.counters = counters
  BY ActingFacts DEF LoopInv, ActingInv, DoneInv
<1>2. Raised \/ sent = counters.attempts
  BY <1>1 DEF LoopInv, InputsInv
<1>3. counters.actions <= landed
  BY <1>1 DEF LoopInv, InputsInv
<1>4. Cardinality(called) <= counters.calls
  BY CalledFacts DEF LoopInv, PaidInv
<1>5. QED
  BY <1>1, <1>2, <1>3, <1>4 DEF Raised

(* Whatever the model's programs do, in every way of control and for any   *)
(* budgets: what was called, reserved and sent stays within them, programs *)
(* never act together, and the totals of a run that returned are those of  *)
(* what it did (maple_agent.py:262, :532, :624; full_client_adaptive.py).  *)
THEOREM ControllerSafe == LoopSpec => []ControllerInv
<1>1. LoopInv => ControllerInv
  BY LimitsKept, OneActs, TotalsKept DEF ControllerInv
<1>2. QED
  BY LoopsSafe, <1>1, PTL

(* At whatever step an adaptive run is killed, cancelled or refused, for   *)
(* any budgets: its saved trace denies no call and counts and reserves at  *)
(* least what was called, and a run it calls completed is whole            *)
(* (full_client_adaptive.py:249, :347, :425).                              *)
THEOREM ControllerHonest == LoopSpec => []TraceHonest
<1>1. LoopInv => NeverDenied
  <2> SUFFICES ASSUME LoopInv, Adaptive
               PROVE  /\ \A t \in called : saved.trace.outcome[t]
                                \in {"uncertain", "receipt_saved", "confirmed"}
                      /\ Cardinality(called) <= saved.counters.calls
                      /\ Reserve * Cardinality(called) <= saved.counters.reserved
    BY DEF NeverDenied
  <2>1. Cardinality(called) \in Nat /\ saved.counters.calls \in Nat
    BY CalledFacts DEF LoopInv, LoopTypes, Counts
  <2>2. Cardinality(called) <= saved.counters.calls
        /\ saved.counters.reserved = Reserve * saved.counters.calls
    BY DEF LoopInv, PaidInv
  <2>3. \A t \in called : Saved(saved.trace.outcome[t])
    BY DEF LoopInv, TraceInv
  <2>4. QED
    BY <2>1, <2>2, <2>3, Products DEF Saved
<1>2. LoopInv => CompletedWhole
  <2> SUFFICES ASSUME LoopInv, Adaptive, saved.trace.status = "completed"
               PROVE  /\ \A t \in Turns :
                            saved.trace.outcome[t] \in {"none", "not_started", "confirmed"}
                      /\ saved.counters.calls = Cardinality(called)
                      /\ saved.counters.reserved = Reserve * Cardinality(called)
                      /\ saved.counters.actions = sent /\ landed = sent
                      /\ mode = "horizon" => Over \/ saved.trace.reason = "death"
    BY DEF CompletedWhole
  <2>1. /\ trace.status = "completed" /\ saved.trace = trace /\ saved.counters = counters
        /\ pc \in {"final", "done"}
    BY DEF LoopInv, TraceInv
  <2>2. Acting = {} /\ turn \in 0 .. MaxCalls
    BY <2>1, CycleFacts
  <2>3. /\ counters.actions = counters.attempts /\ landed = sent
        /\ mode = "horizon" => Over \/ trace.reason = "death"
    BY <2>1, <2>2 DEF LoopInv, TraceInv
  <2>4. sent = counters.actions
    <3>1. CASE sent = counters.attempts
      BY <2>3, <3>1
    <3>2. CASE Raised
      BY <2>1, <3>2 DEF Raised
    <3>3. QED
      BY <2>2, <3>1, <3>2 DEF LoopInv, InputsInv
  <2>5. counters.calls = Cardinality(called) /\ counters.reserved = Reserve * counters.calls
    <3>1. Cardinality(called) \in Nat
      BY CalledFacts DEF LoopInv
    <3>2. QED
      BY <2>1, <3>1 DEF LoopInv, PaidInv, One
  <2>6. \A t \in Turns : trace.outcome[t] \in {"none", "not_started", "confirmed"}
    <3>1. \A t \in Turns : t < turn \/ t = turn \/ t > turn
      BY <2>2, Bounds
    <3>2. QED
      BY <2>1, <3>1, Bounds DEF LoopInv, TraceInv
  <2>7. QED
    BY <2>1, <2>3, <2>4, <2>5, <2>6
<1>3. QED
  BY LoopsSafe, <1>1, <1>2, PTL DEF TraceHonest

=============================================================================
