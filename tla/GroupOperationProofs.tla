------------------------ MODULE GroupOperationProofs ------------------------
(***************************************************************************)
(* What GroupOperation promises, proved for a group of any size and any    *)
(* number of commands: GroupInv holds initially and every step keeps it,   *)
(* and it gives the properties that the run checks.                        *)
(*                                                                         *)
(* GroupInv has two sides: DataInv, about the journals, the attempts, the  *)
(* claim and the child, and CommandInv, about where the command that holds *)
(* the gate may be in that state.  A step moves the command and touches    *)
(* one of the files at most, so the lemmas on DataInv are one for each     *)
(* kind of file, and CommandInv is looked at step by step.                 *)
(***************************************************************************)
EXTENDS GroupOperation, TLAPS

Ops == [kind : Kinds \cup {"none"}, pc : PCs, quoted : BOOLEAN]
ChildProcesses == [entry : 0..N, entered : BOOLEAN, recovery : BOOLEAN, orphan : BOOLEAN]

DataInv == TypeOK /\ Backed /\ OneEnd /\ ChildInv /\ TrialsInv /\ WrapperInv /\ ClaimInv

-----------------------------------------------------------------------------
(* Phases, steps, attempts *)

(* The phases are numbered in their order. *)
LEMMA PhaseFacts ==
    /\ Phase.absent = 0 /\ Phase.admitted = 1 /\ Phase.experiment_running = 2
    /\ Phase.seal_intent = 3 /\ Phase.group_sealed = 4 /\ Phase.handoff_intent = 5
    /\ Phase.handoff_prepared = 6 /\ Phase.restoration_intent = 7
    /\ Phase.normal_restoring = 8 /\ Phase.normal_verified = 9 /\ Phase.completed = 10
    /\ Phases = 0..10
<1>1. /\ Phase.absent = 0 /\ Phase.admitted = 1 /\ Phase.experiment_running = 2
      /\ Phase.seal_intent = 3 /\ Phase.group_sealed = 4 /\ Phase.handoff_intent = 5
      /\ Phase.handoff_prepared = 6 /\ Phase.restoration_intent = 7
      /\ Phase.normal_restoring = 8 /\ Phase.normal_verified = 9 /\ Phase.completed = 10
  BY DEF Phase
<1>2. DOMAIN Phase = {"absent", "admitted", "experiment_running", "seal_intent",
                      "group_sealed", "handoff_intent", "handoff_prepared",
                      "restoration_intent", "normal_restoring", "normal_verified",
                      "completed"}
  BY DEF Phase
<1>3. Phases = {0, 1, 2, 3, 4, 5, 6, 7, 8, 9, 10}
  BY <1>1, <1>2 DEF Phases
<1>4. QED
  BY <1>1, <1>3

(* Which programs have a step *)
LEMMA StepFacts ==
    ASSUME CommandInv, TypeOK
    PROVE  /\ op.pc = "idle" <=> op.kind = "none"
           /\ op.pc \in {"create", "check"} => op.kind = "run"
           /\ op.pc \in {"load", "reverify"} => op.kind = "reconcile"
           /\ op.pc \in {"continue", "sealed", "handoff", "prepare", "prepared", "restore",
                         "restoring", "verify", "complete"} => op.kind \in WrapperKinds
           /\ op.pc \in {"submit", "dispatch"} => op.kind \in {"run", "begin", "resume"}
           /\ op.pc = "wait" => op.kind \in {"run", "begin", "resume", "recover"}
           /\ op.pc = "open" => op.kind \in {"resume", "seal"}
           /\ op.pc = "seal" => op.kind \in WrapperKinds \cup ExperimentKinds
           /\ op.pc \in {"receipt", "marker"} =>
                  op.kind \in WrapperKinds \cup ExperimentKinds \cup {"abort"}
           /\ op.pc \in {"describe", "recover", "conclude"} => op.kind = "recover"
           /\ op.pc \in {"save", "observe", "prove_status", "commit", "report"} =>
                  op.kind = "status"
           /\ op.pc \in {"folder", "intent", "prove", "certify"} => op.kind = "abort"
<1>1. op.kind \in Kinds \cup {"none"} /\ op.pc \in StepsOf(op.kind)
  BY DEF TypeOK, CommandInv
<1>2. QED
  BY <1>1 DEF StepsOf, Continuing, Submitting, Kinds, WrapperKinds, ExperimentKinds

(* Every program has its steps. *)
LEMMA ProgramFacts ==
    /\ StepsOf("none") = {"idle"}
    /\ {"submit", "dispatch", "wait", "seal", "receipt", "marker"} \subseteq StepsOf("run")
    /\ {"create", "check"} \subseteq StepsOf("run")
    /\ {"submit", "dispatch", "wait", "seal", "receipt", "marker"} \subseteq StepsOf("begin")
    /\ {"open", "submit", "dispatch", "wait", "seal", "receipt", "marker"}
           \subseteq StepsOf("resume")
    /\ {"open", "seal", "receipt", "marker"} \subseteq StepsOf("seal")
    /\ {"load", "reverify"} \subseteq StepsOf("reconcile")
    /\ \A k \in WrapperKinds : Continuing \subseteq StepsOf(k)
    /\ StepsOf("recover") = {"describe", "recover", "wait", "conclude"}
    /\ StepsOf("status") = {"save", "observe", "prove_status", "commit", "report"}
    /\ StepsOf("abort") = {"folder", "intent", "prove", "receipt", "marker", "certify"}
    /\ \A k \in Kinds \cup {"none"} : StepsOf(k) \subseteq PCs
<1>1. \A k \in Kinds \cup {"none"} : StepsOf(k) \subseteq PCs
  BY DEF PCs
<1>2. QED
  BY <1>1 DEF StepsOf, Continuing, Submitting, WrapperKinds

(* A command goes on to a step of its program, or ends. *)
LEMMA GoFacts ==
    ASSUME TypeOK, NEW p, p \in StepsOf(op.kind), Go(p)
    PROVE  /\ op' \in Ops /\ op'.kind = op.kind /\ op'.pc = p /\ op'.quoted = op.quoted
           /\ op'.pc \in StepsOf(op'.kind)
<1>1. op \in Ops /\ p \in PCs
  BY ProgramFacts DEF TypeOK, Ops
<1>2. QED
  BY <1>1 DEF Go, Ops

(* A command that ended is no program's. *)
LEMMA EndFacts ==
    ASSUME End
    PROVE  op' \in Ops /\ op'.kind = "none" /\ op'.pc = "idle"
BY ProgramFacts DEF End, Idle, Ops

(* The submitted entries that must have an attempt *)
LEMMA ExpectedFacts ==
    ASSUME TypeOK
    PROVE  /\ Last \in 0..N /\ Entries = 1..N /\ N \in Nat
           /\ \A e : e \in Expected <=> e \in 1..Last /\ ~(coord.retired /\ e = Last)
           /\ Expected \subseteq Entries
           /\ att \in [Entries -> Attempts] /\ coord \in Coordinators
<1>1. /\ Last \in 0..N /\ Entries = 1..N /\ N \in Nat
      /\ att \in [Entries -> Attempts] /\ coord \in Coordinators
  BY GroupAssumption DEF TypeOK, Coordinators, Last, Entries
<1>2. \A e : e \in Expected <=> e \in 1..Last /\ ~(coord.retired /\ e = Last)
  BY DEF Expected
<1>3. Expected \subseteq Entries
  BY <1>1, <1>2
<1>4. QED
  BY <1>1, <1>2, <1>3

(* An untouched entry is neither clean nor missing, so nothing else is     *)
(* resolved of its group.                                                  *)
LEMMA UntouchedFacts ==
    ASSUME TypeOK, Untouched
    PROVE  /\ ~Resolved /\ ~coord.closed /\ Last = 1 /\ att[Last].st = "untouched"
<1>1. /\ Last = 1 /\ ~coord.retired /\ ~coord.closed /\ att[1].st = "untouched"
  BY DEF Untouched, NeverTouched
<1>2. 1 \in Expected
  BY <1>1, ExpectedFacts
<1>3. QED
  BY <1>1, <1>2 DEF Resolved, Clean

-----------------------------------------------------------------------------
(* DataInv under the kinds of steps there are *)

(* Files are added, the host changes, a child goes or loses its parent:    *)
(* nothing that the invariant is about.                                    *)
LEMMA FilesGrow ==
    ASSUME DataInv, op' \in Ops, files \subseteq files',
           UNCHANGED <<registry, trials, journal, life, asked>>,
           \/ child' \in {child, NoChild}
           \/ child # NoChild /\ child' = [child EXCEPT !.orphan = TRUE],
           up' \in BOOLEAN, waiting' \in BOOLEAN, over' \subseteq {"restoration", "total"},
           other' \in BOOLEAN, other' => claim = "completed", commands' \in 0..MaxCommands
    PROVE  DataInv'
<1>1. /\ claim' = claim /\ receipt' = receipt /\ owner' = owner /\ coord' = coord
      /\ att' = att /\ journal' = journal /\ life' = life /\ asked' = asked
  BY DEF registry, trials
<1>2. NoChild \in ChildProcesses /\ child \in ChildProcesses
  BY GroupAssumption DEF NoChild, ChildProcesses, DataInv, TypeOK
<1>3. /\ child' \in ChildProcesses
      /\ child' # NoChild => /\ child # NoChild /\ child'.entry = child.entry
                             /\ child'.recovery = child.recovery
                             /\ child'.entered = child.entered
  BY <1>2 DEF ChildProcesses, NoChild
<1>4. TypeOK'
  BY <1>1, <1>3 DEF DataInv, TypeOK, Ops, ChildProcesses
<1>5. Backed'
  BY <1>1 DEF DataInv, Backed, Loads
<1>6. OneEnd'
  BY <1>1 DEF DataInv, OneEnd, Resolved, Expected, Last, Untouched, NeverTouched
<1>7. ChildInv'
  BY <1>1, <1>3 DEF DataInv, ChildInv, Current, Last
<1>8. TrialsInv'
  BY <1>1 DEF DataInv, TrialsInv, Resolved, Expected, Last
<1>9. WrapperInv' /\ ClaimInv'
  BY <1>1 DEF DataInv, WrapperInv, ClaimInv
<1>10. QED
  BY <1>4, <1>5, <1>6, <1>7, <1>8, <1>9 DEF DataInv

(* The wrapper's journal is replaced by one that loads: its phase is one   *)
(* that the files and the lifecycle already back.                          *)
LEMMA JournalMoves ==
    ASSUME DataInv, op' \in Ops, owner = "group", files \subseteq files',
           UNCHANGED <<registry, trials, life, rest>>,
           journal.status # "completed", journal' \in Journals, journal'.phase # 0,
           journal'.phase \in 0..10,
           journal'.status = "completed" <=> journal'.phase = 10,
           journal'.writes = IF journal'.phase = 10 THEN 1 ELSE 0,
           journal'.phase >= 4 => /\ journal'.coordinator # "none" /\ coord.closed
                                  /\ The("report") \in files',
           journal'.phase >= 6 => The("handoff") \in files',
           journal'.phase >= 9 => /\ journal'.lifecycle # "none" /\ life = "done"
                                  /\ The("verification") \in files'
    PROVE  DataInv'
<1>1. /\ claim' = claim /\ receipt' = receipt /\ owner' = owner /\ coord' = coord
      /\ att' = att /\ life' = life /\ asked' = asked /\ child' = child /\ up' = up
      /\ over' = over /\ waiting' = waiting /\ other' = other /\ commands' = commands
  BY DEF registry, trials, rest, host
<1>2. TypeOK'
  BY <1>1 DEF DataInv, TypeOK, Ops
<1>3. Backed'
  <2>1. /\ journal'.phase > 0 => Loads'
    BY PhaseFacts DEF Loads
  <2>2. \A e \in Entries : att'[e].st = "reconciled" =>
            {<<"descriptor", e>>, The("failed_status"), The("status_proof")} \subseteq files'
    BY <1>1 DEF DataInv, Backed
  <2>3. QED
    BY <1>1, <2>1, <2>2, PhaseFacts DEF Backed
<1>4. OneEnd'
  BY <1>1 DEF DataInv, OneEnd, Resolved, Expected, Last, Untouched, NeverTouched
<1>5. ChildInv' /\ TrialsInv'
  BY <1>1 DEF DataInv, ChildInv, TrialsInv, Current, Resolved, Expected, Last
<1>6. WrapperInv'
  BY <1>1, PhaseFacts DEF DataInv, WrapperInv
<1>7. ClaimInv'
  BY <1>1 DEF DataInv, ClaimInv
<1>8. QED
  BY <1>2, <1>3, <1>4, <1>5, <1>6, <1>7 DEF DataInv

(* What a new coordinator or lifecycle does to the references to it *)
JournalAgrees ==
    /\ journal' \in Journals
    /\ journal'.phase = journal.phase /\ journal'.status = journal.status
    /\ journal'.writes = journal.writes
    /\ journal'.coordinator = "none" <=> journal.coordinator = "none"
    /\ journal'.lifecycle = "none" <=> journal.lifecycle = "none"
    /\ journal = NoJournal => journal' = NoJournal

(* Writing the coordinator or the lifecycle only ages the references to it. *)
LEMMA ReferencesAgree ==
    ASSUME TypeOK, CoordinatorWritten \/ LifecycleWritten \/ UNCHANGED journal
    PROVE  JournalAgrees
<1>1. journal \in Journals
  BY DEF TypeOK
<1>2. \A ref \in {"none", "current", "stale"} :
         /\ Outdated(ref) \in {"none", "current", "stale"}
         /\ Outdated(ref) = "none" <=> ref = "none"
  BY DEF Outdated
<1>3. Outdated("none") = "none"
  BY DEF Outdated
<1> HIDE DEF Outdated
<1>4. CASE CoordinatorWritten
  BY <1>1, <1>2, <1>3, <1>4 DEF CoordinatorWritten, Journals, NoJournal, JournalAgrees
<1>5. CASE LifecycleWritten
  BY <1>1, <1>2, <1>3, <1>5 DEF LifecycleWritten, Journals, NoJournal, JournalAgrees
<1>6. CASE UNCHANGED journal
  BY <1>1, <1>6 DEF JournalAgrees
<1>7. QED
  BY <1>4, <1>5, <1>6

(* The coordinator is written, of a group that is neither sealed nor       *)
(* untouched.                                                              *)
LEMMA CoordinatorMoves ==
    ASSUME DataInv, op' \in Ops, UNCHANGED <<registry, att, files, life, rest>>,
           JournalAgrees, coord' \in Coordinators, ~coord.closed, ~Untouched,
           child = NoChild, TrialsInv'
    PROVE  DataInv'
<1>1. /\ claim' = claim /\ receipt' = receipt /\ owner' = owner /\ files' = files
      /\ att' = att /\ life' = life /\ asked' = asked /\ child' = NoChild /\ up' = up
      /\ over' = over /\ waiting' = waiting /\ other' = other /\ commands' = commands
  BY DEF registry, rest, host
<1>2. life = "none" /\ receipt.by = "none" /\ journal.phase < 4
  BY PhaseFacts DEF DataInv, TypeOK, WrapperInv, OneEnd, Backed, Journals
<1>3. TypeOK'
  BY <1>1 DEF DataInv, TypeOK, Ops, JournalAgrees
<1>4. Backed'
  BY <1>1, <1>2, PhaseFacts DEF DataInv, Backed, Loads, JournalAgrees
<1>5. OneEnd'
  BY <1>1, <1>2 DEF DataInv, OneEnd
<1>6. ChildInv'
  BY <1>1 DEF ChildInv
<1>7. WrapperInv'
  BY <1>1, <1>2, PhaseFacts DEF DataInv, WrapperInv, JournalAgrees
<1>8. ClaimInv'
  BY <1>1 DEF DataInv, ClaimInv
<1>9. QED
  BY <1>3, <1>4, <1>5, <1>6, <1>7, <1>8 DEF DataInv

(* The attempt of the last submission is written, of a group whose claim   *)
(* is pending and that nothing was decided of.                             *)
LEMMA AttemptMoves ==
    ASSUME DataInv, op' \in Ops, claim = "pending", Current, att[Last].st # "untouched",
           files \subseteq files',
           UNCHANGED <<registry, coord, journal, life, host, asked, commands>>,
           NEW a \in Attempts, att' = [att EXCEPT ![Last] = a],
           a.st = "reconciled" =>
               {<<"descriptor", Last>>, The("failed_status"), The("status_proof")}
                   \subseteq files',
           child' \in ChildProcesses,
           child' # NoChild => /\ child'.entry = Last
                               /\ a.st \in CASE child'.recovery -> Broken
                                    [] child'.entered /\ ~child'.recovery -> {"running"}
                                    [] OTHER -> {"missing"}
    PROVE  DataInv'
<1>1. /\ claim' = claim /\ receipt' = receipt /\ owner' = owner /\ coord' = coord
      /\ journal' = journal /\ life' = life /\ asked' = asked /\ up' = up
      /\ over' = over /\ waiting' = waiting /\ other' = other /\ commands' = commands
  BY DEF registry, host
<1>2. /\ Last \in Entries /\ Last' = Last /\ Entries = 1..N /\ Expected' = Expected
      /\ att' \in [Entries -> Attempts] /\ att'[Last] = a
      /\ \A e \in Entries : e # Last => att'[e] = att[e]
      /\ ~coord.closed /\ ~coord.retired /\ Last \notin coord.settled
  BY <1>1, ExpectedFacts DEF DataInv, Current, Last, Expected
<1>3. life = "none" /\ receipt.by # "experiment" /\ receipt.by # "abort"
  <2>1. ~Untouched
    BY UntouchedFacts DEF DataInv
  <2>2. QED
    BY <1>2, <2>1 DEF DataInv, WrapperInv, OneEnd
<1>4. TypeOK'
  BY <1>1, <1>2 DEF DataInv, TypeOK, Ops, ChildProcesses
<1>5. Backed'
  <2>1. \A e \in Entries : att'[e].st = "reconciled" =>
            {<<"descriptor", e>>, The("failed_status"), The("status_proof")} \subseteq files'
    BY <1>2 DEF DataInv, Backed
  <2>2. QED
    BY <1>1, <2>1 DEF DataInv, Backed, Loads
<1>6. OneEnd'
  BY <1>1, <1>3 DEF DataInv, OneEnd
<1>7. ChildInv'
  BY <1>1, <1>2 DEF ChildInv, Current
<1>8. TrialsInv'
  BY <1>1, <1>2 DEF DataInv, TrialsInv
<1>9. WrapperInv' /\ ClaimInv'
  BY <1>1 DEF DataInv, WrapperInv, ClaimInv
<1>10. QED
  BY <1>4, <1>5, <1>6, <1>7, <1>8, <1>9 DEF DataInv

(* The restoration lives on, of a sealed group. *)
LEMMA LifeMoves ==
    ASSUME DataInv, op' \in Ops, owner = "group", coord.closed, journal.phase < 9,
           UNCHANGED <<registry, trials, files, over, waiting, other, child, commands>>,
           JournalAgrees, up' \in BOOLEAN,
           life' \in {"open", "asked", "named", "done"}, asked' \in 0..2,
           asked' = IF life' = "open" THEN 0 ELSE 1
    PROVE  DataInv'
<1>1. /\ claim' = claim /\ receipt' = receipt /\ owner' = owner /\ files' = files
      /\ coord' = coord /\ att' = att /\ child' = child
      /\ over' = over /\ waiting' = waiting /\ other' = other /\ commands' = commands
  BY DEF registry, trials
<1>2. TypeOK'
  BY <1>1 DEF DataInv, TypeOK, Ops, JournalAgrees
<1>3. Backed'
  BY <1>1, PhaseFacts DEF DataInv, Backed, Loads, JournalAgrees
<1>4. OneEnd'
  <2>1. receipt.by \notin {"abort", "experiment", "group"}
    <3>1. ~Untouched
      BY UntouchedFacts DEF DataInv
    <3>2. journal.status # "completed"
      <4>1. journal.phase = 0 => journal = NoJournal
        BY PhaseFacts DEF DataInv, WrapperInv
      <4>2. NoJournal.status = "pending"
        BY DEF NoJournal
      <4>3. journal.phase \in 0..10
        BY PhaseFacts DEF DataInv, TypeOK, Journals
      <4>4. QED
        BY <4>1, <4>2, <4>3, PhaseFacts DEF DataInv, Backed, Loads
    <3>3. QED
      BY <3>1, <3>2 DEF DataInv, OneEnd, ClaimInv
  <2>2. QED
    BY <1>1, <2>1 DEF DataInv, OneEnd
<1>5. ChildInv' /\ TrialsInv'
  BY <1>1 DEF DataInv, ChildInv, TrialsInv, Current, Resolved, Expected, Last
<1>6. WrapperInv'
  <2>1. journal.phase \in 0..10
    BY PhaseFacts DEF DataInv, TypeOK, Journals
  <2>2. asked' = IF life' \in {"none", "open"} THEN 0 ELSE 1
    OBVIOUS
  <2>3. QED
    BY <1>1, <2>1, <2>2, PhaseFacts DEF DataInv, WrapperInv, JournalAgrees
<1>7. ClaimInv'
  BY <1>1 DEF DataInv, ClaimInv
<1>8. QED
  BY <1>2, <1>3, <1>4, <1>5, <1>6, <1>7 DEF DataInv

-----------------------------------------------------------------------------
(* Commands that end, and steps beside the command *)

(* A command that ended is nowhere. *)
LEMMA EndsKeep ==
    ASSUME DataInv', op' = Idle
    PROVE  GroupInv'
<1>1. op'.kind = "none" /\ op'.pc = "idle"
  BY DEF Idle
<1>2. op'.pc \in StepsOf(op'.kind)
  BY <1>1, ProgramFacts
<1>3. CommandInv'
  BY <1>1, <1>2 DEF CommandInv, WrapperKinds, ExperimentKinds
<1>4. QED
  BY <1>3 DEF GroupInv, DataInv

(* Nothing changes that a command could rely on. *)
LEMMA SameCommand ==
    ASSUME GroupInv, DataInv', op' = op, files \subseteq files', child' \in {child, NoChild},
           UNCHANGED <<registry, trials, journal, life>>
    PROVE  GroupInv'
<1>1. /\ claim' = claim /\ receipt' = receipt /\ owner' = owner /\ coord' = coord
      /\ att' = att /\ journal' = journal /\ life' = life /\ op' = op
  BY DEF registry, trials
<1>2. CommandInv'
  BY <1>1 DEF GroupInv, CommandInv, Current, Last, Untouched, NeverTouched
<1>3. QED
  BY <1>2 DEF GroupInv, DataInv

(* A command that is killed, and its child, which may outlive it *)
LEMMA KillKeeps ==
    ASSUME GroupInv, Kill
    PROVE  GroupInv'
<1>1. /\ op' = Idle /\ UNCHANGED <<disk, host, asked, commands>>
      /\ child' = child \/ (child # NoChild /\ child' = [child EXCEPT !.orphan = TRUE])
  BY DEF Kill, End
<1>2. op' \in Ops
  BY <1>1, EndFacts DEF End
<1>3. DataInv'
  BY <1>1, <1>2, FilesGrow DEF GroupInv, DataInv, disk, host, TypeOK, ClaimInv
<1>4. QED
  BY <1>1, <1>3, EndsKeep

(* An exception, noted in the journal where it can be *)
LEMMA RaiseKeeps ==
    ASSUME GroupInv, Raise
    PROVE  GroupInv'
<1>1. op' = Idle /\ UNCHANGED <<registry, trials, files, life, rest>> /\ op' \in Ops
  BY EndFacts DEF Raise, End
<1>2. CASE UNCHANGED journal
  <2>1. DataInv'
    BY <1>1, <1>2, FilesGrow DEF GroupInv, DataInv, rest, host, TypeOK, ClaimInv
  <2>2. QED
    BY <1>1, <2>1, EndsKeep
<1>3. CASE /\ op.kind \in WrapperKinds /\ op.pc # "create" /\ claim = "pending"
           /\ journal.status # "completed"
           /\ journal' = [journal EXCEPT !.status = "needs_reconciliation"]
  <2>1. owner = "group" /\ journal \in Journals
    BY <1>3 DEF GroupInv, CommandInv, TypeOK
  <2>2. journal.phase # 0 /\ journal.phase \in 0..10
    <3>1. journal.phase \in PhasesAt(op.pc)
      BY <1>3 DEF GroupInv, CommandInv
    <3>2. journal.phase \in 0..10
      BY <2>1, PhaseFacts DEF Journals
    <3>3. 0 \notin PhasesAt(op.pc)
      BY <1>3, PhaseFacts DEF PhasesAt
    <3>4. QED
      BY <3>1, <3>2, <3>3
  <2>3. Loads
    BY <2>2, PhaseFacts DEF GroupInv, Backed
  <2>4. /\ journal' \in Journals /\ journal'.phase = journal.phase
        /\ journal'.status = "needs_reconciliation" /\ journal'.writes = journal.writes
        /\ journal'.coordinator = journal.coordinator
        /\ journal'.lifecycle = journal.lifecycle
    BY <1>3, <2>1 DEF Journals
  <2>5. journal.phase # 10 /\ journal.writes = 0
    BY <1>3, <2>3, PhaseFacts DEF Loads, GroupInv, WrapperInv
  <2>6. /\ journal.phase >= 4 => /\ journal.coordinator # "none" /\ coord.closed
                                 /\ The("report") \in files
        /\ journal.phase >= 6 => The("handoff") \in files
        /\ journal.phase >= 9 => /\ journal.lifecycle # "none" /\ life = "done"
                                 /\ The("verification") \in files
    BY <2>3, PhaseFacts DEF Loads, GroupInv, Backed, WrapperInv
  <2>7. DataInv'
    BY <1>1, <1>3, <2>1, <2>2, <2>4, <2>5, <2>6, JournalMoves DEF GroupInv, DataInv
  <2>8. QED
    BY <1>1, <2>7, EndsKeep
<1>4. QED
  BY <1>2, <1>3 DEF Raise

(* A child is refused or killed, another trial starts, time passes, the    *)
(* browser moves, the services stop.                                       *)
LEMMA BesidesKeep ==
    ASSUME GroupInv,
           ChildRefused \/ ChildKilled \/ OtherTrial \/ TimePasses \/ BrowserMoves
               \/ ServicesStop
    PROVE  GroupInv'
<1>1. /\ claim' = claim /\ receipt' = receipt /\ owner' = owner /\ coord' = coord
      /\ att' = att /\ journal' = journal /\ life' = life /\ op' = op /\ files' = files
      /\ asked' = asked /\ commands' = commands
      /\ child' \in {child, NoChild}
  BY DEF ChildRefused, ChildKilled, OtherTrial, TimePasses, BrowserMoves, ServicesStop,
         disk, host, registry, trials
<1>2. up' \in BOOLEAN /\ waiting' \in BOOLEAN
  BY DEF ChildRefused, ChildKilled, OtherTrial, TimePasses, BrowserMoves, ServicesStop,
         host, GroupInv, TypeOK
<1>3. over' \subseteq {"restoration", "total"}
  <2>1. over \subseteq {"restoration", "total"}
    BY DEF GroupInv, TypeOK
  <2>2. TimePasses => over' \subseteq {"restoration", "total"}
    BY <2>1 DEF TimePasses
  <2>3. QED
    BY <2>1, <2>2 DEF ChildRefused, ChildKilled, OtherTrial, BrowserMoves, ServicesStop, host
<1>4. other' \in BOOLEAN /\ (other' => claim = "completed")
  <2>1. other \in BOOLEAN /\ (other => claim = "completed")
    BY DEF GroupInv, TypeOK, ClaimInv
  <2>2. CASE OtherTrial
    BY <2>2 DEF OtherTrial
  <2>3. CASE other' = other
    BY <2>1, <2>3
  <2>4. QED
    BY <2>2, <2>3 DEF ChildRefused, ChildKilled, TimePasses, BrowserMoves, ServicesStop, host
<1>5. op' \in Ops /\ commands' \in 0..MaxCommands
  BY <1>1 DEF GroupInv, TypeOK, Ops
<1>6. DataInv'
  BY <1>1, <1>2, <1>3, <1>4, <1>5, FilesGrow DEF GroupInv, DataInv, registry, trials
<1>7. QED
  BY <1>1, <1>6, SameCommand DEF registry, trials

-----------------------------------------------------------------------------
(* Commands that go on *)

(* What CommandInv asks of the state when a command is about to take step  *)
(* p of its program.                                                       *)
Ready(p) ==
    /\ op.kind \in WrapperKinds => journal.phase \in PhasesAt(p)
    /\ p \in {"dispatch", "wait", "recover"} => Current
    /\ p = "wait" => claim = "pending"
    /\ p = "dispatch" => att[Last].st = "missing"
    /\ p \in {"observe", "prove_status", "commit"} =>
           /\ Current /\ att[Last].st = "unready"
           /\ {<<"descriptor", Last>>, The("failed_status")} \subseteq files
    /\ p = "commit" => The("status_proof") \in files
    /\ p \in {"sealed", "handoff", "prepare", "prepared", "restore", "restoring"}
           => coord.closed
    /\ p = "prepared" => The("handoff") \in files
    /\ p = "verify" => life = "done"
    /\ p \in {"receipt", "marker"} =>
           /\ op.kind \in ExperimentKinds => coord.closed
           /\ op.kind = "abort" => Untouched
    /\ p = "marker" => receipt # NoReceipt

(* A command goes on to step p, for which the state is ready. *)
LEMMA GoKeeps ==
    ASSUME GroupInv, DataInv', NEW p, p \in StepsOf(op.kind), Go(p), Ready(p)',
           owner' = owner, claim' = claim \/ op.kind \notin {"recover", "status"},
           claim' \in {claim, "completed"},
           child' = NoChild \/ p = "wait"
    PROVE  GroupInv'
<1>1. /\ op'.kind = op.kind /\ op'.pc = p /\ op'.pc \in StepsOf(op'.kind)
  BY GoFacts DEF GroupInv
<1>2. /\ op.kind \in WrapperKinds => owner = "group"
      /\ op.kind \in ExperimentKinds \cup {"recover"} => owner = "experiment"
      /\ op.kind \in {"recover", "status"} => claim = "pending"
      /\ op.kind # "none" => claim # "none"
  BY DEF GroupInv, CommandInv
<1>3. CommandInv'
  BY <1>1, <1>2 DEF CommandInv, Ready
<1>4. QED
  BY <1>3 DEF GroupInv, DataInv

(* What CommandInv says of the step a command is at *)
LEMMA ReadyHere == GroupInv => Ready(op.pc)
BY DEF GroupInv, CommandInv, Ready

(* A command that neither waits for a child nor has ended has none. *)
LEMMA NoChildBeside ==
    ASSUME GroupInv, op.pc # "wait", op.kind # "none"
    PROVE  child = NoChild
BY DEF GroupInv, CommandInv

(* Nothing but files that are added *)
Quiet == files \subseteq files' /\ UNCHANGED <<registry, trials, journal, life, rest>>

(* Nothing the invariant reads changes, but for the files. *)
LEMMA QuietFacts ==
    ASSUME Quiet
    PROVE  /\ claim' = claim /\ receipt' = receipt /\ owner' = owner /\ coord' = coord
           /\ att' = att /\ journal' = journal /\ life' = life /\ child' = child
           /\ files \subseteq files' /\ Last' = Last
           /\ Current' = Current /\ Untouched' = Untouched
BY DEF Quiet, registry, trials, rest, Last, Current, Untouched, NeverTouched

(* So its side about the data is kept. *)
LEMMA QuietData ==
    ASSUME GroupInv, Quiet, op' \in Ops
    PROVE  DataInv'
BY FilesGrow DEF GroupInv, DataInv, Quiet, rest, host, TypeOK, ClaimInv

(* A command that goes on after it keeps GroupInv. *)
LEMMA QuietGo ==
    ASSUME GroupInv, Quiet, NEW p, p \in StepsOf(op.kind), Go(p), Ready(p)',
           child = NoChild
    PROVE  GroupInv'
<1>1. op' \in Ops
  BY GoFacts DEF GroupInv
<1>2. QED
  BY <1>1, QuietData, QuietFacts, GoKeeps

(* And one that ends does. *)
LEMMA QuietEnd ==
    ASSUME GroupInv, Quiet, End
    PROVE  GroupInv'
BY QuietData, EndFacts, EndsKeep DEF End

-----------------------------------------------------------------------------
(* The steps that write nothing, or only files of their own *)

(* execute() of the abort *)
LEMMA AbortKeeps ==
    ASSUME GroupInv, Folder \/ AbortIntent \/ Prove \/ Certify
    PROVE  GroupInv'
<1>1. op.pc \in {"folder", "intent", "prove", "certify"} /\ Quiet
  BY DEF Folder, AbortIntent, Prove, Certify, Quiet
<1>2. op.kind = "abort" /\ child = NoChild
  BY <1>1, StepFacts, NoChildBeside DEF GroupInv
<1>3. op'.kind = op.kind \/ op'.kind = "none"
  BY DEF Folder, AbortIntent, Prove, Certify, Go, End, Idle, GroupInv, TypeOK
<1>4. \A p \in {"certify", "intent", "prove", "receipt"} : p \in StepsOf(op.kind)
  BY <1>2, ProgramFacts
<1>5. CASE Folder
  <2>1. PICK p \in {"certify", "intent"} : Go(p)
    BY <1>5 DEF Folder
  <2>2. op'.kind = "abort"
    BY <1>2, <1>4, <2>1, GoFacts DEF GroupInv
  <2>3. Ready(p)'
    BY <1>1, <2>1, <2>2, QuietFacts DEF Ready, WrapperKinds
  <2>4. QED
    BY <1>1, <1>2, <1>4, <2>1, <2>3, QuietGo
<1>6. CASE AbortIntent
  <2>1. Go("prove")
    BY <1>6 DEF AbortIntent
  <2>2. op'.kind = "abort"
    BY <1>2, <1>4, <2>1, GoFacts DEF GroupInv
  <2>3. Ready("prove")'
    BY <1>1, <2>2, QuietFacts DEF Ready, WrapperKinds
  <2>4. QED
    BY <1>1, <1>2, <1>4, <2>1, <2>3, QuietGo
<1>7. CASE Prove
  <2>1. Go("receipt") /\ Untouched
    BY <1>7 DEF Prove
  <2>2. op'.kind = "abort"
    BY <1>2, <1>4, <2>1, GoFacts DEF GroupInv
  <2>3. Ready("receipt")'
    BY <1>1, <2>1, <2>2, QuietFacts DEF Ready, WrapperKinds, ExperimentKinds
  <2>4. QED
    BY <1>1, <1>2, <1>4, <2>1, <2>3, QuietGo
<1>8. CASE Certify
  BY <1>1, <1>8, QuietEnd DEF Certify
<1>9. QED
  BY <1>5, <1>6, <1>7, <1>8

(* reconcile_locked() up to its commit, and its report *)
LEMMA StatusKeeps ==
    ASSUME GroupInv, Save \/ Observe \/ ProveStatus \/ Report
    PROVE  GroupInv'
<1>1. op.pc \in {"save", "observe", "prove_status", "report"} /\ Quiet
  BY DEF Save, Observe, ProveStatus, Report, Quiet, disk
<1>2. op.kind = "status" /\ child = NoChild
  BY <1>1, StepFacts, NoChildBeside DEF GroupInv
<1>3. \A p \in {"observe", "prove_status", "commit", "report"} : p \in StepsOf(op.kind)
  BY <1>2, ProgramFacts
<1>4. \A p \in {"observe", "prove_status", "commit", "report"} :
          Go(p) => op'.kind = "status"
  BY <1>2, <1>3, GoFacts DEF GroupInv
<1>5. CASE Save
  <2>1. CASE Go("report")
    <3>1. Ready("report")'
      BY <1>1, <1>4, <2>1, QuietFacts DEF Ready, WrapperKinds
    <3>2. QED
      BY <1>1, <1>2, <1>3, <2>1, <3>1, QuietGo
  <2>2. CASE CleanupReturned(Last) /\ Go("observe")
    <3>1. att[Last].st = "unready" /\ Last > 0 /\ Last \notin coord.settled /\ ~coord.closed
      BY <1>5, <2>2 DEF Save, CleanupReturned
    <3>2. Current
      BY <3>1 DEF GroupInv, TrialsInv, Current
    <3>3. {<<"descriptor", Last>>, The("failed_status")} \subseteq files'
      BY <1>5 DEF Save
    <3>4. Ready("observe")'
      BY <1>1, <1>4, <2>2, <3>1, <3>2, <3>3, QuietFacts DEF Ready, WrapperKinds
    <3>5. QED
      BY <1>1, <1>2, <1>3, <2>2, <3>4, QuietGo
  <2>3. QED
    BY <1>5, <2>1, <2>2 DEF Save
<1>6. CASE Observe
  <2>1. Go("prove_status") /\ op.pc = "observe"
    BY <1>6 DEF Observe
  <2>2. Ready("prove_status")'
    BY <1>1, <1>4, <2>1, QuietFacts, ReadyHere DEF Ready, WrapperKinds
  <2>3. QED
    BY <1>1, <1>2, <1>3, <2>1, <2>2, QuietGo
<1>7. CASE ProveStatus
  <2>1. Go("commit") /\ op.pc = "prove_status" /\ The("status_proof") \in files'
    BY <1>7 DEF ProveStatus
  <2>2. Ready("commit")'
    BY <1>1, <1>4, <2>1, QuietFacts, ReadyHere DEF Ready, WrapperKinds
  <2>3. QED
    BY <1>1, <1>2, <1>3, <2>1, <2>2, QuietGo
<1>8. CASE Report
  BY <1>1, <1>8, QuietEnd DEF Report
<1>9. QED
  BY <1>5, <1>6, <1>7, <1>8

(* recover-entry beside its child *)
LEMMA RecoverKeeps ==
    ASSUME GroupInv, Describe \/ RecoveryReturned \/ Conclude
    PROVE  GroupInv'
<1>1. Quiet
  BY DEF Describe, RecoveryReturned, Conclude, Quiet, disk
<1>2. op.kind = "recover" /\ child = NoChild
  BY StepFacts, NoChildBeside DEF GroupInv, Describe, RecoveryReturned, Conclude
<1>3. \A p \in {"recover", "conclude"} : p \in StepsOf(op.kind)
  BY <1>2, ProgramFacts
<1>4. \A p \in {"recover", "conclude"} : Go(p) => op'.kind = "recover"
  BY <1>2, <1>3, GoFacts DEF GroupInv
<1>5. CASE Go("conclude")
  <2>1. Ready("conclude")'
    BY <1>1, <1>4, <1>5, QuietFacts DEF Ready, WrapperKinds
  <2>2. QED
    BY <1>1, <1>2, <1>3, <1>5, <2>1, QuietGo
<1>6. CASE Describe /\ Go("recover")
  <2>1. Current
    BY <1>6 DEF Describe, Current
  <2>2. Ready("recover")'
    BY <1>1, <1>4, <1>6, <2>1, QuietFacts DEF Ready, WrapperKinds
  <2>3. QED
    BY <1>1, <1>2, <1>3, <1>6, <2>2, QuietGo
<1>7. CASE Conclude
  BY <1>1, <1>7, QuietEnd DEF Conclude
<1>8. QED
  BY <1>5, <1>6, <1>7 DEF Describe, RecoveryReturned

(* The steps of run, reconcile and the experiment's commands that only     *)
(* look                                                                    *)
LEMMA LookingKeeps ==
    ASSUME GroupInv, AlreadyCompleted \/ AllSubmitted \/ Load \/ Prepare \/ Reverify
    PROVE  GroupInv'
<1>1. Quiet
  BY DEF AlreadyCompleted, AllSubmitted, Load, Prepare, Reverify, Quiet, disk
<1>2. child = NoChild
  BY StepFacts, NoChildBeside
     DEF GroupInv, AlreadyCompleted, AllSubmitted, Load, Prepare, Reverify
<1>3. Ready(op.pc)
  BY ReadyHere
<1>4. CASE AlreadyCompleted
  BY <1>1, <1>4, QuietEnd DEF AlreadyCompleted
<1>5. CASE AllSubmitted
  <2>1. op.pc = "submit" /\ op.kind \in {"run", "begin", "resume"} /\ Go(AfterRun)
    BY <1>5, StepFacts DEF AllSubmitted, GroupInv
  <2>2. AfterRun \in StepsOf(op.kind)
    BY <2>1, ProgramFacts DEF AfterRun, WrapperKinds, Continuing
  <2>3. op'.kind = op.kind
    BY <2>1, <2>2, GoFacts DEF GroupInv
  <2>4. CASE op.kind = "run"
    <3>1. AfterRun = "continue" /\ journal.phase = 2
      BY <1>3, <2>1, <2>4, PhaseFacts DEF AfterRun, Ready, PhasesAt, WrapperKinds
    <3>2. Ready("continue")'
      BY <1>1, <2>3, <3>1, QuietFacts, PhaseFacts DEF Ready, PhasesAt
    <3>3. QED
      BY <1>1, <1>2, <2>1, <2>2, <3>1, <3>2, QuietGo
  <2>5. CASE op.kind # "run"
    <3>1. AfterRun = "seal" /\ op.kind \notin WrapperKinds
      BY <2>1, <2>5 DEF AfterRun, WrapperKinds
    <3>2. Ready("seal")'
      BY <1>1, <2>3, <3>1, QuietFacts DEF Ready
    <3>3. QED
      BY <1>1, <1>2, <2>1, <2>2, <3>1, <3>2, QuietGo
  <2>6. QED
    BY <2>4, <2>5
<1>6. CASE Load
  <2>1. op.pc = "load" /\ op.kind = "reconcile"
    BY <1>6, StepFacts DEF Load, GroupInv
  <2>2. journal.phase \in Phases \ {0}
    BY <1>3, <2>1, PhaseFacts DEF Ready, PhasesAt, WrapperKinds
  <2>3. (journal.status = "completed") = (journal.phase = 10)
    BY <2>2, PhaseFacts DEF GroupInv, Backed, Loads
  <2>4. {"reverify", "continue"} \subseteq StepsOf(op.kind)
    BY <2>1, ProgramFacts DEF WrapperKinds, Continuing
  <2>5. CASE End
    BY <1>1, <2>5, QuietEnd
  <2>6. CASE journal.status = "completed" /\ Go("reverify")
    <3>1. op'.kind = op.kind
      BY <2>4, <2>6, GoFacts DEF GroupInv
    <3>2. Ready("reverify")'
      BY <1>1, <2>1, <2>3, <2>6, <3>1, QuietFacts, PhaseFacts DEF Ready, PhasesAt
    <3>3. QED
      BY <1>1, <1>2, <2>4, <2>6, <3>2, QuietGo
  <2>7. CASE journal.status # "completed" /\ Go("continue")
    <3>1. op'.kind = op.kind
      BY <2>4, <2>7, GoFacts DEF GroupInv
    <3>2. Ready("continue")'
      BY <1>1, <2>1, <2>2, <2>3, <2>7, <3>1, QuietFacts, PhaseFacts DEF Ready, PhasesAt
    <3>3. QED
      BY <1>1, <1>2, <2>4, <2>7, <3>2, QuietGo
  <2>8. QED
    BY <1>6, <2>5, <2>6, <2>7 DEF Load
<1>7. CASE Prepare
  <2>1. /\ op.pc = "prepare" /\ op.kind \in WrapperKinds /\ Go("prepared")
        /\ The("handoff") \in files'
    BY <1>7, StepFacts DEF Prepare, GroupInv
  <2>2. "prepared" \in StepsOf(op.kind)
    BY <2>1, ProgramFacts DEF Continuing
  <2>3. op'.kind = op.kind
    BY <2>1, <2>2, GoFacts DEF GroupInv
  <2>4. Ready("prepared")'
    BY <1>1, <1>3, <2>1, <2>3, QuietFacts DEF Ready, PhasesAt
  <2>5. QED
    BY <1>1, <1>2, <2>1, <2>2, <2>4, QuietGo
<1>8. CASE Reverify
  <2>1. op.pc = "reverify" /\ op.kind = "reconcile" /\ Go("receipt")
    BY <1>8, StepFacts DEF Reverify, GroupInv
  <2>2. "receipt" \in StepsOf(op.kind)
    BY <2>1, ProgramFacts DEF Continuing, WrapperKinds
  <2>3. op'.kind = op.kind
    BY <2>1, <2>2, GoFacts DEF GroupInv
  <2>4. Ready("receipt")'
    BY <1>1, <1>3, <2>1, <2>3, QuietFacts DEF Ready, PhasesAt, ExperimentKinds, WrapperKinds
  <2>5. QED
    BY <1>1, <1>2, <2>1, <2>2, <2>4, QuietGo
<1>9. QED
  BY <1>4, <1>5, <1>6, <1>7, <1>8

-----------------------------------------------------------------------------
(* The steps that write the wrapper's journal *)

Refs == {"none", "current", "stale"}

(* What persist() writes. *)
LEMMA JournalFacts ==
    ASSUME TypeOK, NEW p \in 0..10, NEW c \in Refs, NEW l \in Refs, Journal(p, c, l)
    PROVE  /\ journal' \in Journals /\ journal'.phase = p
           /\ journal'.coordinator = c /\ journal'.lifecycle = l
           /\ journal'.status = IF p = 10 THEN "completed" ELSE journal.status
           /\ journal.writes = 0 => journal'.writes = IF p = 10 THEN 1 ELSE 0
<1>1. journal \in Journals /\ Phase.completed = 10 /\ Phases = 0..10
  BY PhaseFacts DEF TypeOK
<1>2. journal.writes \in 0..2
  BY <1>1 DEF Journals
<1> DEFINE s == IF p = 10 THEN "completed" ELSE journal.status
           w == IF p = 10 /\ journal.writes < 2 THEN journal.writes + 1 ELSE journal.writes
<1>3. journal' = [journal EXCEPT !.phase = p, !.coordinator = c, !.lifecycle = l,
                                 !.status = s, !.writes = w]
  BY <1>1 DEF Journal
<1>4. /\ w \in 0..2 /\ s \in {"pending", "needs_reconciliation", "completed"}
      /\ journal.writes = 0 => w = IF p = 10 THEN 1 ELSE 0
  BY <1>1, <1>2 DEF Journals
<1>5. s = IF p = 10 THEN "completed" ELSE journal.status
  OBVIOUS
<1> HIDE DEF s, w
<1>6. /\ journal' \in Journals /\ journal'.phase = p /\ journal'.coordinator = c
      /\ journal'.lifecycle = l /\ journal'.status = s /\ journal'.writes = w
  BY <1>1, <1>3, <1>4 DEF Journals, Refs
<1>7. QED
  BY <1>4, <1>5, <1>6

(* What the journal says while it is not completed *)
LEMMA OpenJournal ==
    ASSUME GroupInv, op.kind \in WrapperKinds,
           op.pc \notin {"load", "reverify", "receipt", "marker", "idle"}
    PROVE  /\ owner = "group" /\ journal \in Journals /\ journal.phase \in 0..9
           /\ journal.status # "completed" /\ journal.writes = 0
           /\ journal.coordinator \in Refs /\ journal.lifecycle \in Refs
           /\ journal.phase \in PhasesAt(op.pc)
           /\ journal.phase >= 4 => /\ journal.coordinator # "none" /\ coord.closed
                                    /\ The("report") \in files
           /\ journal.phase >= 6 => The("handoff") \in files
           /\ journal.phase >= 9 => /\ journal.lifecycle # "none" /\ life = "done"
                                    /\ The("verification") \in files
<1>1. owner = "group" /\ journal \in Journals /\ journal.phase \in PhasesAt(op.pc)
  BY DEF GroupInv, CommandInv, TypeOK
<1>2. journal.phase \in 0..10 /\ journal.coordinator \in Refs /\ journal.lifecycle \in Refs
  BY <1>1, PhaseFacts DEF Journals, Refs
<1>3. op.pc \in {"create", "check"} \cup Submitting \cup Continuing
  <2>1. op.pc \in StepsOf("run") \cup StepsOf("reconcile")
    BY DEF GroupInv, CommandInv, WrapperKinds
  <2>2. QED
    BY <2>1 DEF StepsOf
<1>4. 10 \notin PhasesAt(op.pc)
  BY <1>3, PhaseFacts DEF PhasesAt, Submitting, Continuing
<1>5. journal.phase \in 0..9
  BY <1>1, <1>2, <1>4
<1>6. CASE journal.phase = 0
  <2>1. journal.status # "completed"
    BY <1>6, PhaseFacts DEF GroupInv, WrapperInv, NoJournal
  <2>2. QED
    BY <1>1, <1>2, <1>5, <1>6, <2>1, PhaseFacts DEF GroupInv, WrapperInv
<1>7. CASE journal.phase # 0
  <2>1. Loads
    BY <1>5, <1>7, PhaseFacts DEF GroupInv, Backed
  <2>2. QED
    BY <1>1, <1>2, <1>5, <2>1, PhaseFacts DEF GroupInv, Backed, Loads, WrapperInv
<1>8. QED
  BY <1>6, <1>7

(* The wrapper writes its journal, of a phase that is backed, and goes on. *)
LEMMA WrapperWrites ==
    ASSUME GroupInv, op.kind \in WrapperKinds, op.pc # "wait",
           op.pc \notin {"load", "reverify", "receipt", "marker", "idle"},
           NEW p \in 1..10, NEW c \in Refs, NEW l \in Refs, Journal(p, c, l),
           UNCHANGED <<registry, trials, life, rest>>, files \subseteq files',
           p >= 4 => c # "none" /\ coord.closed /\ The("report") \in files',
           p >= 6 => The("handoff") \in files',
           p >= 9 => l # "none" /\ life = "done" /\ The("verification") \in files',
           NEW q, q \in Continuing \cup StepsOf(op.kind), Go(q),
           q \notin {"dispatch", "wait", "recover", "observe", "prove_status", "commit",
                     "marker"},
           p \in PhasesAt(q),
           q \in {"sealed", "handoff", "prepare", "prepared", "restore", "restoring"}
               => coord.closed,
           q = "prepared" => The("handoff") \in files',
           q = "verify" => life = "done"
    PROVE  GroupInv'
<1>1. /\ journal' \in Journals /\ journal'.phase = p
      /\ journal'.coordinator = c /\ journal'.lifecycle = l
      /\ journal'.status = IF p = 10 THEN "completed" ELSE journal.status
      /\ journal'.writes = IF p = 10 THEN 1 ELSE 0
  BY JournalFacts, OpenJournal DEF GroupInv
<1>2. q \in StepsOf(op.kind)
  BY ProgramFacts
<1>3. op' \in Ops /\ op'.kind = op.kind
  BY <1>2, GoFacts DEF GroupInv
<1>4. owner = "group" /\ journal.status # "completed"
  BY OpenJournal
<1>5. DataInv'
  BY <1>1, <1>3, <1>4, JournalMoves DEF GroupInv, DataInv
<1>6. child' = NoChild /\ owner' = owner /\ claim' = claim /\ coord' = coord /\ life' = life
  BY StepFacts, NoChildBeside DEF rest, registry, trials, WrapperKinds, GroupInv
<1>7. Ready(q)'
  BY <1>1, <1>3, <1>6 DEF Ready, WrapperKinds, ExperimentKinds
<1>8. QED
  BY <1>2, <1>5, <1>6, <1>7, GoKeeps

(* run() *)
LEMMA RunKeeps ==
    ASSUME GroupInv, Create \/ Check
    PROVE  GroupInv'
<1>1. op.pc \in {"create", "check"} /\ op.kind = "run" /\ op.kind \in WrapperKinds
  BY StepFacts DEF Create, Check, GroupInv, WrapperKinds
<1>2. journal.coordinator \in Refs /\ journal.lifecycle \in Refs
  BY <1>1, OpenJournal
<1>3. CASE Create
  <2>1. /\ Journal(1, journal.coordinator, journal.lifecycle) /\ Go("check")
        /\ UNCHANGED <<registry, trials, life, rest>> /\ files \subseteq files'
    BY <1>3, PhaseFacts DEF Create, Persist
  <2>2. 1 \in PhasesAt("check") /\ "check" \in StepsOf(op.kind)
    BY <1>1, PhaseFacts, ProgramFacts DEF PhasesAt
  <2>3. QED
    BY <1>1, <1>2, <2>1, <2>2, WrapperWrites
<1>4. CASE Check
  <2>1. /\ Journal(2, journal.coordinator, journal.lifecycle) /\ Go("submit")
        /\ UNCHANGED <<registry, trials, life, rest>> /\ files \subseteq files'
    BY <1>4, PhaseFacts DEF Check, Persist
  <2>2. 2 \in PhasesAt("submit") /\ "submit" \in StepsOf(op.kind)
    BY <1>1, PhaseFacts, ProgramFacts DEF PhasesAt
  <2>3. QED
    BY <1>1, <1>2, <2>1, <2>2, WrapperWrites
<1>5. QED
  BY <1>3, <1>4

(* continue_clean, from the saved evidence to the sealed group *)
LEMMA SealingKeeps ==
    ASSUME GroupInv, Continue \/ Sealed
    PROVE  GroupInv'
<1>1. op.pc \in {"continue", "sealed"} /\ op.kind \in WrapperKinds
  BY StepFacts DEF Continue, Sealed, GroupInv
<1>2. /\ journal.phase \in 0..9 /\ journal.lifecycle \in Refs
      /\ journal.phase \in PhasesAt(op.pc)
      /\ journal.phase >= 4 => coord.closed
  BY <1>1, OpenJournal
<1>3. \A q \in {"sealed", "seal", "handoff"} : q \in Continuing /\ q \in StepsOf(op.kind)
  BY <1>1, ProgramFacts DEF Continuing
<1>4. CASE Continue
  <2>1. journal.phase >= 1
    <3>1. PhasesAt("continue") = 1..9
      BY PhaseFacts DEF PhasesAt
    <3>2. op.pc = "continue"
      BY <1>4 DEF Continue
    <3>3. QED
      BY <1>2, <3>1, <3>2
  <2>2. child = NoChild
    BY <1>1, NoChildBeside DEF WrapperKinds
  <2>3. CASE journal.phase <= 3 /\ ~coord.closed
    <3>1. Journal(3, "current", journal.lifecycle) /\ Go("seal")
      BY <1>4, <2>3, PhaseFacts DEF Continue
    <3>2. 3 \in PhasesAt("seal") /\ "current" \in Refs
      BY PhaseFacts DEF PhasesAt, Refs
    <3>3. UNCHANGED <<registry, trials, life, rest>> /\ files \subseteq files'
      BY <1>4 DEF Continue
    <3>4. QED
      BY <1>1, <1>2, <1>3, <3>1, <3>2, <3>3, WrapperWrites
  <2>4. CASE journal.phase <= 3 /\ coord.closed
    <3>1. Go("sealed") /\ Quiet
      BY <1>4, <2>4, PhaseFacts DEF Continue, Quiet
    <3>2. op'.kind = op.kind
      BY <1>3, <3>1, GoFacts DEF GroupInv
    <3>3. Ready("sealed")'
      BY <1>2, <2>1, <2>4, <3>1, <3>2, QuietFacts, PhaseFacts DEF Ready, PhasesAt
    <3>4. QED
      BY <1>3, <2>2, <3>1, <3>3, QuietGo
  <2>5. CASE journal.phase > 3
    <3>1. Go("handoff") /\ Quiet
      BY <1>2, <1>4, <2>5, PhaseFacts DEF Continue, Quiet
    <3>2. op'.kind = op.kind
      BY <1>3, <3>1, GoFacts DEF GroupInv
    <3>3. journal.phase \in PhasesAt("handoff") /\ coord.closed
      <4>1. PhasesAt("handoff") = 4..9
        BY PhaseFacts DEF PhasesAt
      <4>2. QED
        BY <1>2, <2>5, <4>1
    <3>4. Ready("handoff")'
      BY <3>1, <3>2, <3>3, QuietFacts DEF Ready
    <3>5. QED
      BY <1>3, <2>2, <3>1, <3>4, QuietGo
  <2>6. QED
    BY <1>2, <2>3, <2>4, <2>5
<1>5. CASE Sealed
  <2>1. /\ Journal(4, "current", journal.lifecycle) /\ Go("handoff") /\ coord.closed
        /\ UNCHANGED <<registry, trials, life, rest>> /\ files \subseteq files'
        /\ The("report") \in files'
    BY <1>5, PhaseFacts DEF Sealed
  <2>2. 4 \in PhasesAt("handoff") /\ "current" \in Refs
    BY PhaseFacts DEF PhasesAt, Refs
  <2>3. QED
    BY <1>1, <1>2, <1>3, <2>1, <2>2, WrapperWrites
<1>6. QED
  BY <1>4, <1>5

(* The handoff to the restoration *)
LEMMA HandoffKeeps ==
    ASSUME GroupInv, HandoffIntent \/ Prepared \/ Intend
    PROVE  GroupInv'
<1>1. op.pc \in {"handoff", "prepared"} /\ op.kind \in WrapperKinds
  BY StepFacts DEF HandoffIntent, Prepared, Intend, GroupInv
<1>2. /\ journal.phase \in 0..9 /\ journal.coordinator \in Refs /\ journal.lifecycle \in Refs
      /\ journal.phase \in PhasesAt(op.pc) /\ journal.phase >= 4
  BY <1>1, OpenJournal, PhaseFacts DEF PhasesAt
<1>3. \A q \in {"prepare", "handoff", "restore"} : q \in Continuing /\ q \in StepsOf(op.kind)
  BY <1>1, ProgramFacts DEF Continuing
<1>4. /\ coord.closed /\ journal.coordinator # "none" /\ The("report") \in files
      /\ journal.phase >= 6 => The("handoff") \in files
      /\ op.pc = "prepared" => The("handoff") \in files
  BY <1>1, <1>2, OpenJournal DEF GroupInv, CommandInv
<1>5. UNCHANGED <<registry, trials, life, rest>> /\ files \subseteq files'
  BY DEF HandoffIntent, Prepared, Intend
<1>6. CASE HandoffIntent
  <2>1. Journal(5, journal.coordinator, journal.lifecycle) /\ Go("prepare")
    BY <1>6, PhaseFacts DEF HandoffIntent, Persist
  <2>2. 5 \in PhasesAt("prepare")
    BY PhaseFacts DEF PhasesAt
  <2>3. QED
    BY <1>1, <1>2, <1>3, <1>4, <1>5, <2>1, <2>2, WrapperWrites
<1>7. CASE Prepared
  <2>1. /\ Journal(6, journal.coordinator, journal.lifecycle) /\ Go("handoff")
        /\ The("handoff") \in files'
    BY <1>4, <1>5, <1>7, PhaseFacts DEF Prepared, Persist
  <2>2. 6 \in PhasesAt("handoff")
    BY PhaseFacts DEF PhasesAt
  <2>3. QED
    BY <1>1, <1>2, <1>3, <1>4, <1>5, <2>1, <2>2, WrapperWrites
<1>8. CASE Intend
  <2>1. /\ journal.phase >= 6 /\ Go("restore") /\ The("handoff") \in files'
    BY <1>4, <1>5, <1>8, PhaseFacts DEF Intend, HandedOver
  <2>2. CASE journal.phase < 7
    <3>1. Journal(7, journal.coordinator, journal.lifecycle)
      BY <1>8, <2>2, PhaseFacts DEF Intend, Persist
    <3>2. 7 \in PhasesAt("restore")
      BY PhaseFacts DEF PhasesAt
    <3>3. QED
      BY <1>1, <1>2, <1>3, <1>4, <1>5, <2>1, <3>1, <3>2, WrapperWrites
  <2>3. CASE journal.phase >= 7
    <3>1. Quiet
      BY <1>2, <1>5, <1>8, <2>3, PhaseFacts DEF Intend, Quiet
    <3>2. op'.kind = op.kind
      BY <1>3, <2>1, GoFacts DEF GroupInv
    <3>3. Ready("restore")'
      BY <1>2, <1>4, <2>3, <3>1, <3>2, QuietFacts, PhaseFacts DEF Ready, PhasesAt
    <3>4. QED
      BY <1>1, <1>3, <2>1, <3>1, <3>3, NoChildBeside, QuietGo DEF WrapperKinds
  <2>4. QED
    BY <1>2, <2>2, <2>3
<1>9. QED
  BY <1>6, <1>7, <1>8

(* The restoration is taken up, verified, and the journal completed. *)
LEMMA RestoringKeeps ==
    ASSUME GroupInv, Restore \/ Verify \/ Complete
    PROVE  GroupInv'
<1>1. op.pc \in {"restore", "verify", "complete"} /\ op.kind \in WrapperKinds
  BY StepFacts DEF Restore, Verify, Complete, GroupInv
<1>2. /\ journal.phase \in 7..9 /\ journal.coordinator \in Refs /\ journal.lifecycle \in Refs
      /\ journal.phase \in PhasesAt(op.pc)
  BY <1>1, OpenJournal, PhaseFacts DEF PhasesAt
<1>3. \A q \in {"restoring", "verify", "complete", "receipt"} :
          q \in Continuing /\ q \in StepsOf(op.kind)
  BY <1>1, ProgramFacts DEF Continuing
<1>4. /\ coord.closed /\ journal.coordinator # "none" /\ The("report") \in files
      /\ The("handoff") \in files
      /\ journal.phase = 9 => /\ journal.lifecycle # "none" /\ life = "done"
                              /\ The("verification") \in files
  BY <1>1, <1>2, OpenJournal
<1>5. UNCHANGED <<registry, trials, life, rest>> /\ files \subseteq files'
  BY DEF Restore, Verify, Complete
<1>6. CASE Restore
  <2>1. CASE life # "done"
    <3>1. PICK l \in Refs : Journal(8, journal.coordinator, l) /\ Go("restoring")
      <4>1. "current" \in Refs /\ journal.lifecycle \in Refs
        BY <1>2 DEF Refs
      <4>2. QED
        BY <1>6, <2>1, <4>1, PhaseFacts DEF Restore, Persist
    <3>2. 8 \in PhasesAt("restoring")
      BY PhaseFacts DEF PhasesAt
    <3>3. QED
      BY <1>1, <1>2, <1>3, <1>4, <1>5, <3>1, <3>2, WrapperWrites
  <2>2. CASE life = "done"
    <3>1. Go("verify") /\ Quiet
      BY <1>5, <1>6, <2>2 DEF Restore, Quiet
    <3>2. op'.kind = op.kind
      BY <1>3, <3>1, GoFacts DEF GroupInv
    <3>3. Ready("verify")'
      BY <1>2, <2>2, <3>1, <3>2, QuietFacts, PhaseFacts DEF Ready, PhasesAt
    <3>4. QED
      BY <1>1, <1>3, <3>1, <3>3, NoChildBeside, QuietGo DEF WrapperKinds
  <2>3. QED
    BY <2>1, <2>2
<1>7. CASE Verify
  <2>1. /\ Journal(9, journal.coordinator, "current") /\ Go("complete") /\ life = "done"
        /\ The("verification") \in files'
    BY <1>7, PhaseFacts DEF Verify, Verified
  <2>2. 9 \in PhasesAt("complete") /\ "current" \in Refs
    BY PhaseFacts DEF PhasesAt, Refs
  <2>3. QED
    BY <1>1, <1>2, <1>3, <1>4, <1>5, <2>1, <2>2, WrapperWrites
<1>8. CASE Complete
  <2>1. journal.phase = 9
    BY <1>2, <1>8, PhaseFacts DEF Complete, PhasesAt
  <2>2. Journal(10, journal.coordinator, journal.lifecycle) /\ Go("receipt")
    BY <1>8, PhaseFacts DEF Complete, Persist
  <2>3. 10 \in PhasesAt("receipt")
    BY PhaseFacts DEF PhasesAt
  <2>4. QED
    BY <1>1, <1>2, <1>3, <1>4, <1>5, <2>1, <2>2, <2>3, WrapperWrites
<1>9. QED
  BY <1>6, <1>7, <1>8

-----------------------------------------------------------------------------
(* The steps that write the coordinator *)

(* A command goes on after the coordinator was written. *)
LEMMA CoordinatorGo ==
    ASSUME GroupInv, UNCHANGED <<registry, att, files, life, rest>>, JournalAgrees,
           coord' \in Coordinators, ~coord.closed, ~Untouched, child = NoChild, TrialsInv',
           NEW p, p \in StepsOf(op.kind), Go(p), Ready(p)'
    PROVE  GroupInv'
<1>1. op' \in Ops
  BY GoFacts DEF GroupInv
<1>2. DataInv'
  BY <1>1, CoordinatorMoves DEF GroupInv, DataInv
<1>3. claim' = claim /\ owner' = owner /\ child' = NoChild
  BY DEF registry, rest
<1>4. QED
  BY <1>2, <1>3, GoKeeps

(* What a step that writes only settled in the coordinator leaves *)
LEMMA SettledFacts ==
    ASSUME TypeOK, NEW s \in SUBSET Entries, coord' = [coord EXCEPT !.settled = s]
    PROVE  /\ coord' \in Coordinators /\ coord'.settled = s
           /\ coord'.made = coord.made /\ coord'.submissions = coord.submissions
           /\ coord'.retired = coord.retired /\ coord'.closed = coord.closed
           /\ Last' = Last /\ Expected' = Expected
<1>1. /\ coord' \in Coordinators /\ coord'.settled = s
      /\ coord'.made = coord.made /\ coord'.submissions = coord.submissions
      /\ coord'.retired = coord.retired /\ coord'.closed = coord.closed
  BY DEF TypeOK, Coordinators
<1>2. Last' = Last
  BY <1>1 DEF Last
<1>3. QED
  BY <1>1, <1>2 DEF Expected

(* The saved attempts settle the coordinator, or it was sealed already. *)
LEMMA OpenKeeps ==
    ASSUME GroupInv, Open
    PROVE  GroupInv'
<1>1. op.pc = "open" /\ op.kind \in {"resume", "seal"} /\ op.kind \notin WrapperKinds
  BY StepFacts DEF Open, GroupInv, WrapperKinds
<1>2. child = NoChild /\ Resolved
  BY <1>1, NoChildBeside DEF Open
<1>3. {"receipt", "seal"} \subseteq StepsOf(op.kind)
  BY <1>1, ProgramFacts
<1>4. CASE coord.closed
  <2>1. Quiet /\ Go("receipt")
    BY <1>4 DEF Open, Quiet, trials
  <2>2. op'.kind = op.kind
    BY <1>3, <2>1, GoFacts DEF GroupInv
  <2>3. Ready("receipt")'
    BY <1>1, <1>4, <2>1, <2>2, QuietFacts DEF Ready
  <2>4. QED
    BY <1>2, <1>3, <2>1, <2>3, QuietGo
<1>5. CASE ~coord.closed
  <2>1. /\ coord' = [coord EXCEPT !.settled = Expected] /\ CoordinatorWritten
        /\ UNCHANGED <<registry, att, files, life, rest>>
    BY <1>5 DEF Open
  <2>2. Expected \in SUBSET Entries /\ TypeOK
    BY ExpectedFacts DEF GroupInv
  <2>3. /\ coord' \in Coordinators /\ coord'.settled = Expected
        /\ coord'.retired = coord.retired /\ coord'.closed = coord.closed
        /\ Last' = Last /\ Expected' = Expected /\ att' = att
    BY <2>1, <2>2, SettledFacts
  <2>4. TrialsInv'
    BY <1>5, <2>3 DEF GroupInv, TrialsInv
  <2>5. JournalAgrees /\ ~Untouched
    BY <1>2, <2>1, <2>2, ReferencesAgree, UntouchedFacts
  <2>6. PICK p \in {"seal", "submit"} : Go(p) /\ p \in StepsOf(op.kind)
    BY <1>1, <1>5, ProgramFacts DEF Open
  <2>7. op'.kind = op.kind
    BY <2>2, <2>6, GoFacts
  <2>8. Ready(p)'
    BY <1>1, <2>6, <2>7 DEF Ready
  <2>9. QED
    BY <1>2, <1>5, <2>1, <2>3, <2>4, <2>5, <2>6, <2>8, CoordinatorGo
<1>6. QED
  BY <1>4, <1>5

(* The next entry is submitted, after every earlier one was resolved. *)
LEMMA SubmitKeeps ==
    ASSUME GroupInv, Submit
    PROVE  GroupInv'
<1>1. op.pc = "submit" /\ op.kind \in {"run", "begin", "resume"}
  BY StepFacts DEF Submit, GroupInv
<1>2. child = NoChild
  BY <1>1, NoChildBeside
<1>3. /\ Last < N /\ ~coord.retired /\ ~coord.closed /\ Resolved
      /\ att[Last + 1].st = "missing" /\ Go("dispatch") /\ CoordinatorWritten
      /\ coord' = [coord EXCEPT !.made = TRUE, !.submissions = @ + 1]
      /\ UNCHANGED <<registry, att, files, life, rest>>
  BY DEF Submit
<1>4. "dispatch" \in StepsOf(op.kind) /\ TypeOK
  BY <1>1, ProgramFacts DEF GroupInv
<1>5. /\ Last \in 0..N /\ N \in Nat /\ Entries = 1..N /\ coord \in Coordinators
      /\ \A e : e \in Expected <=> e \in 1..Last
  BY <1>3, <1>4, ExpectedFacts
<1>6. /\ coord' \in Coordinators /\ coord'.submissions = Last + 1
      /\ coord'.settled = coord.settled /\ ~coord'.retired /\ ~coord'.closed
  <2>1. Last + 1 \in 0..N
    BY <1>3, <1>5
  <2>2. coord' = [coord EXCEPT !.made = TRUE, !.submissions = Last + 1]
    BY <1>3 DEF Last
  <2>3. QED
    BY <1>3, <1>5, <2>1, <2>2 DEF Coordinators
<1>7. /\ Last' = Last + 1 /\ att' = att /\ claim' = claim /\ op'.kind = op.kind
      /\ \A e : e \in Expected' <=> e \in 1..(Last + 1)
  BY <1>3, <1>4, <1>6, GoFacts DEF Last, Expected, registry
<1>8. \A e \in coord.settled : e \in 1..Last
  BY <1>5 DEF GroupInv, TrialsInv
<1>9. TrialsInv'
  <2>1. \A e \in Entries : e < Last' => att'[e].st \in Clean
    BY <1>3, <1>5, <1>7 DEF Resolved
  <2>2. \A e \in Entries : e > Last' => att'[e].st = "missing"
    BY <1>5, <1>7 DEF GroupInv, TrialsInv
  <2>3. coord'.settled \subseteq Expected'
    BY <1>5, <1>6, <1>7, <1>8
  <2>4. QED
    BY <1>6, <2>1, <2>2, <2>3 DEF TrialsInv
<1>10. JournalAgrees /\ ~Untouched
  BY <1>3, <1>4, ReferencesAgree, UntouchedFacts
<1>11. Ready("dispatch")'
  <2>1. Current'
    BY <1>5, <1>6, <1>7, <1>8 DEF Current
  <2>2. op.kind \in WrapperKinds => journal.phase \in PhasesAt("dispatch")
    BY <1>1, ReadyHere DEF Ready, PhasesAt
  <2>3. QED
    BY <1>3, <1>7, <1>10, <2>1, <2>2 DEF Ready, JournalAgrees
<1>12. QED
  BY <1>2, <1>3, <1>4, <1>6, <1>9, <1>10, <1>11, CoordinatorGo

(* The last submission is withdrawn: no process was started for it. *)
LEMMA RetireKeeps ==
    ASSUME GroupInv, Retire
    PROVE  GroupInv'
<1>1. op.pc = "dispatch" /\ op.kind \in {"run", "begin", "resume"}
  BY StepFacts DEF Retire, GroupInv
<1>2. child = NoChild /\ Current /\ TypeOK
  BY <1>1, NoChildBeside DEF GroupInv, CommandInv
<1>3. /\ att[Last].st = "missing" /\ CoordinatorWritten
      /\ coord' = [coord EXCEPT !.retired = TRUE]
      /\ UNCHANGED <<registry, att, files, life, rest>>
  BY DEF Retire
<1>4. /\ coord' \in Coordinators /\ coord'.submissions = coord.submissions
      /\ coord'.settled = coord.settled /\ coord'.retired /\ ~coord'.closed
  BY <1>2, <1>3 DEF TypeOK, Coordinators, Current
<1>5. /\ Last' = Last /\ att' = att
      /\ \A e : e \in Expected' <=> e \in 1..Last /\ e # Last
  BY <1>3, <1>4 DEF Last, Expected
<1>6. \A e \in coord.settled : e \in 1..Last /\ e # Last
  BY <1>2, ExpectedFacts DEF GroupInv, TrialsInv, Current
<1>7. TrialsInv'
  BY <1>2, <1>3, <1>4, <1>5, <1>6 DEF GroupInv, TrialsInv, Current
<1>8. JournalAgrees /\ ~Untouched
  BY <1>2, <1>3, ReferencesAgree, UntouchedFacts
<1>9. CASE op.kind = "run"
  <2>1. Go("continue") /\ "continue" \in StepsOf(op.kind)
    BY <1>9, ProgramFacts DEF Retire, Continuing, WrapperKinds
  <2>2. op'.kind = op.kind
    BY <1>2, <2>1, GoFacts
  <2>3. journal.phase = 2
    BY <1>1, <1>9, ReadyHere, PhaseFacts DEF Ready, PhasesAt, WrapperKinds
  <2>4. Ready("continue")'
    BY <1>8, <2>2, <2>3, PhaseFacts DEF Ready, PhasesAt, JournalAgrees
  <2>5. QED
    BY <1>2, <1>3, <1>4, <1>7, <1>8, <2>1, <2>4, CoordinatorGo DEF Current
<1>10. CASE op.kind # "run"
  <2>1. End
    BY <1>10 DEF Retire
  <2>2. DataInv'
    BY <1>2, <1>3, <1>4, <1>7, <1>8, <2>1, EndFacts, CoordinatorMoves
       DEF GroupInv, DataInv, Current
  <2>3. QED
    BY <2>1, <2>2, EndsKeep DEF End
<1>11. QED
  BY <1>9, <1>10

(* A child is gone and its attempt is looked at. *)
LEMMA ReturnedKeeps ==
    ASSUME GroupInv, Returned
    PROVE  GroupInv'
<1>1. op.pc = "wait" /\ op.kind \in {"run", "begin", "resume"} /\ child = NoChild
  BY StepFacts DEF Returned, GroupInv
<1>2. Current /\ TypeOK
  BY <1>1 DEF GroupInv, CommandInv
<1>3. op.kind \in WrapperKinds => op.kind = "run" /\ journal.phase = 2
  BY <1>1, ReadyHere, PhaseFacts DEF Ready, PhasesAt, WrapperKinds
<1>4. CASE att[Last].st \in Clean
  <2>1. /\ coord' = [coord EXCEPT !.settled = @ \cup {Last}] /\ CoordinatorWritten
        /\ Go("submit") /\ UNCHANGED <<registry, att, files, life, rest>>
    BY <1>4 DEF Returned
  <2>2. Last \in Expected /\ Expected \subseteq Entries
    BY <1>2, ExpectedFacts DEF Current
  <2>3. coord.settled \cup {Last} \in SUBSET Entries
    BY <1>2, <2>2 DEF TypeOK, Coordinators
  <2>4. /\ coord' \in Coordinators /\ coord'.settled = coord.settled \cup {Last}
        /\ coord'.retired = coord.retired /\ coord'.closed = coord.closed
        /\ Last' = Last /\ Expected' = Expected /\ att' = att
    BY <1>2, <2>1, <2>3, SettledFacts
  <2>5. TrialsInv'
    BY <1>2, <2>2, <2>4 DEF GroupInv, TrialsInv, Current
  <2>6. JournalAgrees /\ ~Untouched
    <3>1. "untouched" \notin Clean
      BY DEF Clean
    <3>2. QED
      BY <1>2, <1>4, <2>1, <3>1, ReferencesAgree, UntouchedFacts
  <2>7. "submit" \in StepsOf(op.kind)
    BY <1>1, ProgramFacts
  <2>8. op'.kind = op.kind
    BY <1>2, <2>1, <2>7, GoFacts
  <2>9. Ready("submit")'
    BY <1>3, <2>6, <2>8, PhaseFacts DEF Ready, PhasesAt, JournalAgrees
  <2>10. QED
    BY <1>1, <1>2, <2>1, <2>4, <2>5, <2>6, <2>7, <2>9, CoordinatorGo DEF Current
<1>5. CASE att[Last].st \notin Clean
  <2>1. Quiet
    BY <1>5 DEF Returned, Quiet, trials
  <2>2. CASE op.kind = "run"
    <3>1. Go("continue") /\ "continue" \in StepsOf(op.kind)
      BY <1>5, <2>2, ProgramFacts DEF Returned, Continuing, WrapperKinds
    <3>2. op'.kind = op.kind
      BY <1>2, <3>1, GoFacts
    <3>3. Ready("continue")'
      BY <1>3, <2>1, <3>2, QuietFacts, PhaseFacts DEF Ready, PhasesAt
    <3>4. QED
      BY <1>1, <2>1, <3>1, <3>3, QuietGo
  <2>3. CASE op.kind # "run"
    BY <1>5, <2>1, <2>3, QuietEnd DEF Returned
  <2>4. QED
    BY <2>2, <2>3
<1>6. QED
  BY <1>4, <1>5

(* The group is sealed by its own program or by the wrapper. *)
LEMMA SealKeeps ==
    ASSUME GroupInv, Seal
    PROVE  GroupInv'
<1>1. op.pc = "seal" /\ op.kind \in WrapperKinds \cup ExperimentKinds
  BY StepFacts DEF Seal, GroupInv
<1>2. child = NoChild /\ TypeOK
  BY <1>1, NoChildBeside DEF GroupInv, WrapperKinds, ExperimentKinds
<1>3. /\ coord.made /\ ~coord.closed /\ Resolved /\ CoordinatorWritten
      /\ coord' = [coord EXCEPT !.closed = TRUE, !.settled = Expected,
                                !.parent = journal.coordinator = "current"]
      /\ UNCHANGED <<registry, att, files, life, rest>>
  BY DEF Seal
<1>4. Expected \subseteq Entries /\ coord \in Coordinators
  BY <1>2, ExpectedFacts
<1>5. (journal.coordinator = "current") \in BOOLEAN
  OBVIOUS
<1>6. /\ coord' \in Coordinators /\ coord'.submissions = coord.submissions /\ coord'.made
      /\ coord'.settled = Expected /\ coord'.retired = coord.retired /\ coord'.closed
  BY <1>3, <1>4, <1>5 DEF Coordinators
<1>7. Last' = Last /\ att' = att
  BY <1>3, <1>6 DEF Last
<1>8. Expected' = Expected
  BY <1>6, <1>7 DEF Expected
<1>9. TrialsInv'
  BY <1>3, <1>6, <1>7, <1>8 DEF GroupInv, TrialsInv, Resolved
<1>10. JournalAgrees /\ ~Untouched
  BY <1>2, <1>3, ReferencesAgree, UntouchedFacts
<1>11. CASE op.kind \in WrapperKinds
  <2>1. Go("sealed") /\ "sealed" \in StepsOf(op.kind)
    BY <1>11, ProgramFacts DEF Seal, Continuing
  <2>2. op'.kind = op.kind
    BY <1>2, <2>1, GoFacts
  <2>3. journal.phase = 3
    BY <1>1, <1>11, ReadyHere, PhaseFacts DEF Ready, PhasesAt
  <2>4. Ready("sealed")'
    BY <1>6, <1>10, <2>2, <2>3, PhaseFacts DEF Ready, PhasesAt, JournalAgrees
  <2>5. QED
    BY <1>2, <1>3, <1>6, <1>9, <1>10, <2>1, <2>4, CoordinatorGo
<1>12. CASE op.kind \notin WrapperKinds
  <2>1. op.kind \in {"begin", "resume", "seal"}
    BY <1>1, <1>12 DEF ExperimentKinds
  <2>2. Go("receipt") /\ "receipt" \in StepsOf(op.kind)
    BY <1>12, <2>1, ProgramFacts DEF Seal
  <2>3. op'.kind = op.kind
    BY <1>2, <2>2, GoFacts
  <2>4. Ready("receipt")'
    BY <1>6, <1>12, <2>1, <2>3 DEF Ready
  <2>5. QED
    BY <1>2, <1>3, <1>6, <1>9, <1>10, <2>2, <2>4, CoordinatorGo
<1>13. QED
  BY <1>11, <1>12

-----------------------------------------------------------------------------
(* The steps of the children *)

(* What is known of a child *)
LEMMA ChildFacts ==
    ASSUME GroupInv, child # NoChild
    PROVE  /\ child \in ChildProcesses /\ child.entry = Last /\ claim = "pending"
           /\ Current /\ Last \in Entries /\ att[Last] \in Attempts
           /\ att[Last].st \in CASE child.recovery -> Broken
                                [] child.entered /\ ~child.recovery -> {"running"}
                                [] OTHER -> {"missing"}
           /\ att[Last].st \notin {"untouched", "reconciled"}
           /\ op.pc \in {"wait", "idle"}
<1>1. /\ child \in ChildProcesses /\ child.entry = Last /\ claim = "pending" /\ Current
      /\ att[Last].st \in CASE child.recovery -> Broken
                           [] child.entered /\ ~child.recovery -> {"running"}
                           [] OTHER -> {"missing"}
  BY DEF GroupInv, TypeOK, ChildInv, ChildProcesses
<1>2. Last \in Entries /\ att[Last] \in Attempts
  BY <1>1, ExpectedFacts DEF GroupInv, Current
<1>3. att[Last].st \notin {"untouched", "reconciled"}
  BY <1>1 DEF Broken
<1>4. op.pc \in {"wait", "idle"}
  BY StepFacts DEF GroupInv, CommandInv
<1>5. QED
  BY <1>1, <1>2, <1>3, <1>4

(* A child is started, of an entry that has no attempt or a broken one. *)
LEMMA ChildStarts ==
    ASSUME GroupInv, op.pc \in {"dispatch", "recover"}, claim = "pending",
           NEW b \in BOOLEAN, child'.entry = Last, child'.recovery = b, ~child'.entered,
           child' \in ChildProcesses, att[Last].st \in IF b THEN Broken ELSE {"missing"},
           b = (op.pc = "recover"),
           UNCHANGED <<registry, trials, journal, life, host, asked, commands>>,
           files \subseteq files', Go("wait")
    PROVE  GroupInv'
<1>1. Current /\ TypeOK /\ op.kind \in {"run", "begin", "resume", "recover"}
  BY StepFacts DEF GroupInv, CommandInv
<1>2. "wait" \in StepsOf(op.kind)
  BY <1>1, ProgramFacts
<1>3. op' \in Ops /\ op'.kind = op.kind
  BY <1>1, <1>2, GoFacts
<1>4. Last \in Entries /\ Last \in 0..N /\ att[Last] \in Attempts
      /\ att = [att EXCEPT ![Last] = att[Last]]
  BY <1>1, ExpectedFacts DEF Current
<1>5. /\ child' \in ChildProcesses /\ child'.entry = Last /\ child'.recovery = b
      /\ ~child'.entered
  OBVIOUS
<1>6. att[Last].st \in CASE child'.recovery -> Broken
                        [] child'.entered /\ ~child'.recovery -> {"running"}
                        [] OTHER -> {"missing"}
  BY <1>5
<1>7. att[Last].st \notin {"untouched", "reconciled"}
  BY DEF Broken
<1>8. att' = [att EXCEPT ![Last] = att[Last]]
  BY <1>4 DEF trials
<1>9. DataInv'
  <2>1. UNCHANGED <<registry, coord, journal, life, host, asked, commands>>
    BY DEF trials
  <2>2. QED
    BY <1>1, <1>3, <1>4, <1>5, <1>6, <1>7, <1>8, <2>1, AttemptMoves DEF GroupInv, DataInv
<1>10. Ready("wait")'
  <2>1. op.kind \in WrapperKinds => journal.phase \in PhasesAt("wait")
    <3>1. op.kind \in WrapperKinds => op.pc = "dispatch"
      BY StepFacts DEF GroupInv, WrapperKinds
    <3>2. QED
      BY <3>1, ReadyHere DEF Ready, PhasesAt
  <2>2. Current' /\ claim' = "pending" /\ journal' = journal
    BY <1>1 DEF Current, Last, trials, registry
  <2>3. QED
    BY <1>3, <2>1, <2>2 DEF Ready
<1>11. owner' = owner /\ claim' = claim
  BY DEF registry
<1>12. QED
  BY <1>2, <1>9, <1>10, <1>11, GoKeeps

(* The two commands that start a child *)
LEMMA DispatchKeeps ==
    ASSUME GroupInv, Dispatch \/ RecoveryDispatch
    PROVE  GroupInv'
<1>1. Last \in 0..N
  BY ExpectedFacts DEF GroupInv
<1>2. CASE Dispatch
  <2>1. op.pc = "dispatch" /\ claim = "pending" /\ files \subseteq files' /\ Go("wait")
        /\ child' = [NoChild EXCEPT !.entry = Last]
        /\ UNCHANGED <<registry, trials, journal, life, host, asked, commands>>
    BY <1>2 DEF Dispatch, MayDispatch
  <2>2. att[Last].st = "missing"
    BY <2>1 DEF GroupInv, CommandInv
  <2>3. /\ child' \in ChildProcesses /\ child'.entry = Last /\ child'.recovery = FALSE
        /\ ~child'.entered
    BY <1>1, <2>1 DEF NoChild, ChildProcesses
  <2>4. QED
    BY <2>1, <2>2, <2>3, ChildStarts
<1>3. CASE RecoveryDispatch
  <2>1. op.pc = "recover" /\ files \subseteq files' /\ Go("wait") /\ att[Last].st \in Broken
        /\ child' = [NoChild EXCEPT !.entry = Last, !.recovery = TRUE]
        /\ UNCHANGED <<registry, trials, journal, life, host, asked, commands>>
    BY <1>3 DEF RecoveryDispatch
  <2>2. claim = "pending"
    BY <2>1, StepFacts DEF GroupInv, CommandInv
  <2>3. /\ child' \in ChildProcesses /\ child'.entry = Last /\ child'.recovery = TRUE
        /\ ~child'.entered
    BY <1>1, <2>1 DEF NoChild, ChildProcesses
  <2>4. QED
    BY <2>1, <2>2, <2>3, ChildStarts
<1>4. QED
  BY <1>2, <1>3

(* The command, if it is still there, waits on while its child acts. *)
LEMMA WaitsOn ==
    ASSUME GroupInv, DataInv', op.pc \in {"wait", "idle"}, op' = op,
           UNCHANGED <<registry, coord, journal>>, child' = NoChild \/ op.pc = "wait"
    PROVE  GroupInv'
<1>1. op \in Ops /\ Go(op.pc) /\ op.pc \in StepsOf(op.kind)
  BY DEF GroupInv, TypeOK, Ops, Go, CommandInv
<1>2. owner' = owner /\ claim' = claim
  BY DEF registry
<1>3. Ready(op.pc)'
  <2>1. Ready(op.pc)
    BY ReadyHere
  <2>2. QED
    BY <1>2, <2>1 DEF Ready, Current, Last
<1>4. QED
  BY <1>1, <1>2, <1>3, GoKeeps

(* A child passes its checks and takes up its entry. *)
LEMMA ChildEntersKeeps ==
    ASSUME GroupInv, ChildEnters
    PROVE  GroupInv'
<1>1. /\ child # NoChild /\ op.pc = "wait" /\ op' = op /\ files \subseteq files'
      /\ child' = [child EXCEPT !.entered = TRUE]
      /\ UNCHANGED <<registry, coord, journal, life, host, asked, commands>>
  BY DEF ChildEnters, DirectParent
<1>2. /\ child \in ChildProcesses /\ child.entry = Last /\ claim = "pending" /\ Current
      /\ Last \in Entries /\ att[Last] \in Attempts
      /\ att[Last].st \notin {"untouched", "reconciled"}
      /\ child.recovery => att[Last].st \in Broken
  BY <1>1, ChildFacts
<1>3. /\ child' \in ChildProcesses /\ child'.entry = Last /\ child'.entered
      /\ child'.recovery = child.recovery
  BY <1>1, <1>2 DEF ChildProcesses
<1>4. PICK a \in Attempts :
         /\ att' = [att EXCEPT ![Last] = a] /\ a.st # "reconciled"
         /\ a.st \in IF child.recovery THEN Broken ELSE {"running"}
  <2>1. att \in [Entries -> Attempts]
    BY DEF GroupInv, TypeOK
  <2>2. CASE child.recovery
    <3>1. att' = [att EXCEPT ![Last] = att[Last]]
      BY <1>2, <2>1, <2>2 DEF ChildEnters
    <3>2. QED
      BY <1>2, <2>2, <3>1
  <2>3. CASE ~child.recovery
    <3> DEFINE b == [att[Last] EXCEPT !.st = "running"]
    <3>1. att' = [att EXCEPT ![Last] = b]
      BY <1>2, <2>1, <2>3 DEF ChildEnters
    <3>2. b \in Attempts /\ b.st = "running"
      BY <1>2 DEF Attempts, Statuses
    <3> HIDE DEF b
    <3>3. b.st # "reconciled" /\ b.st \in IF child.recovery THEN Broken ELSE {"running"}
      BY <2>3, <3>2
    <3>4. QED
      BY <3>1, <3>2, <3>3
  <2>4. QED
    BY <2>2, <2>3
<1>5. a.st \in CASE child'.recovery -> Broken
                [] child'.entered /\ ~child'.recovery -> {"running"}
                [] OTHER -> {"missing"}
  BY <1>3, <1>4
<1>6. op' \in Ops
  BY <1>1 DEF GroupInv, TypeOK, Ops
<1>7. DataInv'
  BY <1>1, <1>2, <1>3, <1>4, <1>5, <1>6, AttemptMoves DEF GroupInv, DataInv
<1>8. QED
  BY <1>1, <1>7, WaitsOn

(* A child leaves an outcome behind. *)
LEMMA ChildEndsKeeps ==
    ASSUME GroupInv, ChildEnds
    PROVE  GroupInv'
<1>1. /\ child # NoChild /\ op' = op /\ files' = files /\ child' = NoChild
      /\ UNCHANGED <<registry, coord, journal, life, host, asked, commands>>
  BY DEF ChildEnds, NoChild
<1>2. /\ child.entry = Last /\ claim = "pending" /\ Current
      /\ Last \in Entries /\ att[Last] \in Attempts
      /\ att[Last].st \notin {"untouched", "reconciled"} /\ op.pc \in {"wait", "idle"}
  BY <1>1, ChildFacts
<1>3. PICK a \in Outcomes(Last) : att' = [att EXCEPT ![Last] = a]
  BY <1>2 DEF ChildEnds
<1>4. a \in Attempts /\ a.st # "reconciled"
  <2>1. att[Last].final \in BOOLEAN
    BY <1>2 DEF Attempts
  <2>2. CASE child.recovery
    <3>1. a \in [st : {"recovered", "unready", "failed", "untouched"}, final : {att[Last].final}]
      BY <1>3, <2>2 DEF Outcomes
    <3>2. QED
      BY <2>1, <3>1 DEF Attempts, Statuses, Clean, Broken
  <2>3. CASE ~child.recovery
    <3>1. \/ a = [st |-> "completed", final |-> TRUE]
          \/ a = [st |-> "early", final |-> FALSE]
          \/ a \in [st : {"failed"}, final : BOOLEAN]
      BY <1>3, <2>3 DEF Outcomes
    <3>2. CASE a = [st |-> "completed", final |-> TRUE]
      BY <3>2 DEF Attempts, Statuses, Clean, Broken
    <3>3. CASE a = [st |-> "early", final |-> FALSE]
      BY <3>3 DEF Attempts, Statuses, Clean, Broken
    <3>4. CASE a \in [st : {"failed"}, final : BOOLEAN]
      BY <3>4 DEF Attempts, Statuses, Clean, Broken
    <3>5. QED
      BY <3>1, <3>2, <3>3, <3>4
  <2>4. QED
    BY <2>2, <2>3
<1>5. op' \in Ops /\ NoChild \in ChildProcesses
  BY <1>1, GroupAssumption DEF GroupInv, TypeOK, Ops, NoChild, ChildProcesses
<1>6. DataInv'
  BY <1>1, <1>2, <1>3, <1>4, <1>5, AttemptMoves DEF GroupInv, DataInv
<1>7. QED
  BY <1>1, <1>2, <1>6, WaitsOn

(* commit_reconciliation(), of the proof that was written before it *)
LEMMA CommitKeeps ==
    ASSUME GroupInv, Commit
    PROVE  GroupInv'
<1>1. /\ op.pc = "commit" /\ Go("report") /\ att' = [att EXCEPT ![Last].st = "reconciled"]
      /\ UNCHANGED <<registry, coord, files, journal, life, rest>>
  BY DEF Commit
<1>2. op.kind = "status" /\ child = NoChild
  BY <1>1, StepFacts, NoChildBeside DEF GroupInv
<1>3. /\ claim = "pending" /\ Current /\ att[Last].st = "unready"
      /\ {<<"descriptor", Last>>, The("failed_status"), The("status_proof")} \subseteq files
  BY <1>1, <1>2 DEF GroupInv, CommandInv
<1>4. Last \in Entries /\ att \in [Entries -> Attempts]
  BY <1>3, ExpectedFacts DEF GroupInv, Current
<1>5. PICK a \in Attempts : att' = [att EXCEPT ![Last] = a]
  <2>1. att' = [att EXCEPT ![Last] = [att[Last] EXCEPT !.st = "reconciled"]]
    BY <1>1, <1>4
  <2>2. [att[Last] EXCEPT !.st = "reconciled"] \in Attempts
    BY <1>4 DEF Attempts, Statuses, Clean
  <2>3. QED
    BY <2>1, <2>2
<1>6. "report" \in StepsOf(op.kind)
  BY <1>2, ProgramFacts
<1>7. op' \in Ops /\ op'.kind = "status"
  BY <1>1, <1>2, <1>6, GoFacts DEF GroupInv
<1>8. child' = NoChild /\ claim' = claim /\ owner' = owner /\ NoChild \in ChildProcesses
  BY <1>1, <1>2, GroupAssumption DEF registry, rest, NoChild, ChildProcesses
<1>9. DataInv'
  <2>1. UNCHANGED <<registry, coord, journal, life, host, asked, commands>> /\ files' = files
    BY <1>1 DEF rest
  <2>2. QED
    BY <1>3, <1>5, <1>7, <1>8, <2>1, AttemptMoves DEF GroupInv, DataInv
<1>10. Ready("report")'
  BY <1>7 DEF Ready, WrapperKinds
<1>11. QED
  BY <1>1, <1>6, <1>8, <1>9, <1>10, GoKeeps

-----------------------------------------------------------------------------
(* The steps of the restoration, the receipt and the marker *)

(* The normal lifecycle moves under the wrapper that waits for it. *)
LEMMA LifecycleKeeps ==
    ASSUME GroupInv, LifecyclePublish \/ LifecycleAsk \/ LifecycleName \/ LifecycleFinish
    PROVE  GroupInv'
<1>1. /\ op.pc = "restoring" /\ LifecycleWritten
      /\ UNCHANGED <<registry, trials, files, over, waiting, other, child, commands>>
  BY DEF LifecyclePublish, LifecycleAsk, LifecycleName, LifecycleFinish, LifecycleStep
<1>2. op.kind \in WrapperKinds /\ child = NoChild /\ TypeOK
  BY <1>1, StepFacts, NoChildBeside DEF GroupInv, WrapperKinds
<1>3. owner = "group" /\ journal.phase = 8 /\ coord.closed
  BY <1>1, <1>2, ReadyHere, PhaseFacts DEF GroupInv, CommandInv, Ready, PhasesAt
<1>4. JournalAgrees
  BY <1>1, <1>2, ReferencesAgree
<1>5. asked = IF life \in {"none", "open"} THEN 0 ELSE 1
  BY DEF GroupInv, WrapperInv
<1>6. /\ life' \in {"open", "asked", "named", "done"} /\ asked' \in 0..2
      /\ asked' = IF life' = "open" THEN 0 ELSE 1
  <2>1. CASE LifecyclePublish
    BY <1>5, <2>1 DEF LifecyclePublish, LifecycleStep
  <2>2. CASE LifecycleAsk
    BY <1>5, <2>2 DEF LifecycleAsk, LifecycleStep
  <2>3. CASE LifecycleName
    BY <1>5, <2>3 DEF LifecycleName, LifecycleStep
  <2>4. CASE LifecycleFinish
    BY <1>5, <2>4 DEF LifecycleFinish, LifecycleStep
  <2>5. QED
    BY <2>1, <2>2, <2>3, <2>4
<1>7. up' \in BOOLEAN
  BY <1>2 DEF LifecyclePublish, LifecycleAsk, LifecycleName, LifecycleFinish, TypeOK
<1>8. PICK p \in {"restoring", "verify"} : Go(p) /\ (p = "verify" => life' = "done")
  <2>1. op' = op => Go("restoring")
    BY <1>1, <1>2 DEF Go, TypeOK
  <2>2. op' = op \/ (Go("verify") /\ life' = "done")
    BY DEF LifecyclePublish, LifecycleAsk, LifecycleName, LifecycleFinish, LifecycleStep
  <2>3. QED
    BY <2>1, <2>2
<1>9. p \in StepsOf(op.kind)
  BY <1>2, ProgramFacts DEF Continuing
<1>10. op' \in Ops /\ op'.kind = op.kind
  BY <1>2, <1>8, <1>9, GoFacts
<1>11. DataInv'
  BY <1>1, <1>3, <1>4, <1>6, <1>7, <1>10, LifeMoves DEF GroupInv, DataInv
<1>12. /\ owner' = owner /\ claim' = claim /\ child' = NoChild /\ coord' = coord
       /\ journal'.phase = 8
  BY <1>1, <1>2, <1>3, <1>4 DEF registry, trials, JournalAgrees
<1>13. 8 \in PhasesAt("restoring") /\ 8 \in PhasesAt("verify")
  BY PhaseFacts DEF PhasesAt
<1>14. Ready(p)'
  BY <1>3, <1>8, <1>12, <1>13 DEF Ready
<1>15. QED
  BY <1>8, <1>9, <1>11, <1>12, <1>14, GoKeeps

(* Admission.finish writes the receipt of what the command found or did. *)
LEMMA ReceiptKeeps ==
    ASSUME GroupInv, Receipt
    PROVE  GroupInv'
<1>1. /\ op.pc = "receipt" /\ claim = "pending" /\ receipt' = Evidenced /\ Go("marker")
      /\ UNCHANGED <<claim, owner, trials, files, journal, life, rest>>
  BY DEF Receipt
<1>2. /\ op.kind \in WrapperKinds \cup ExperimentKinds \cup {"abort"} /\ child = NoChild
      /\ TypeOK /\ Ready("receipt")
  BY <1>1, StepFacts, ReadyHere, NoChildBeside
     DEF GroupInv, WrapperKinds, ExperimentKinds
<1>3. /\ coord' = coord /\ att' = att /\ files' = files /\ journal' = journal /\ life' = life
      /\ claim' = claim /\ owner' = owner /\ child' = NoChild /\ asked' = asked
      /\ up' = up /\ over' = over /\ waiting' = waiting /\ other' = other
      /\ commands' = commands
  BY <1>1, <1>2 DEF trials, rest, host
<1>4. "marker" \in StepsOf(op.kind)
  BY <1>2, ProgramFacts DEF Continuing, ExperimentKinds
<1>5. op' \in Ops /\ op'.kind = op.kind
  BY <1>1, <1>2, <1>4, GoFacts
<1>6. journal.writes \in 0..2
  BY <1>2 DEF TypeOK, Journals
<1>7. /\ receipt' \in [by : {"none", "group", "experiment", "abort"}, writes : 0..2]
      /\ receipt'.by # "none"
      /\ receipt'.by = "group" <=> op.kind \in WrapperKinds
      /\ receipt'.by = "group" => receipt'.writes = journal.writes
      /\ receipt'.by = "abort" <=> op.kind = "abort"
      /\ receipt'.by = "experiment" => op.kind \in ExperimentKinds
  <2>1. CASE op.kind \in WrapperKinds
    BY <1>1, <1>6, <2>1 DEF Evidenced, WrapperKinds
  <2>2. CASE op.kind = "abort"
    BY <1>1, <2>2 DEF Evidenced, WrapperKinds
  <2>3. CASE op.kind \in ExperimentKinds
    BY <1>1, <2>3 DEF Evidenced, WrapperKinds, ExperimentKinds
  <2>4. QED
    BY <1>2, <2>1, <2>2, <2>3
<1>8. TypeOK'
  BY <1>2, <1>3, <1>5, <1>7 DEF TypeOK, Ops
<1>9. Backed'
  BY <1>3 DEF GroupInv, Backed, Loads
<1>10. OneEnd'
  <2>1. receipt' # NoReceipt
    BY <1>7 DEF NoReceipt
  <2>2. receipt'.by = "group" => /\ journal.status = "completed" /\ life = "done"
                                 /\ journal.writes = receipt'.writes
    <3>1. SUFFICES ASSUME receipt'.by = "group" 
                   PROVE  journal.status = "completed" /\ life = "done"
      BY <1>7
    <3>2. journal.phase = 10
      BY <1>2, <1>7, <3>1, PhaseFacts DEF Ready, PhasesAt
    <3>3. QED
      BY <3>2, PhaseFacts DEF GroupInv, Backed, Loads, WrapperInv
  <2>3. receipt'.by = "experiment" => coord.closed /\ Resolved /\ life = "none"
    <3>1. op.kind \in ExperimentKinds => owner = "experiment" /\ coord.closed
      BY <1>2 DEF GroupInv, CommandInv, Ready
    <3>2. QED
      BY <1>7, <3>1 DEF GroupInv, TrialsInv, WrapperInv
  <2>4. receipt'.by = "abort" => Untouched /\ life = "none"
    <3>1. op.kind = "abort" => Untouched
      BY <1>2 DEF Ready
    <3>2. Untouched => ~coord.closed
      BY DEF Untouched
    <3>3. QED
      BY <1>7, <3>1, <3>2 DEF GroupInv, WrapperInv
  <2>5. Resolved' = Resolved /\ Untouched' = Untouched
    BY <1>3 DEF Resolved, Expected, Last, Untouched, NeverTouched
  <2>6. QED
    BY <1>1, <1>3, <2>1, <2>2, <2>3, <2>4, <2>5 DEF OneEnd
<1>11. ChildInv' /\ TrialsInv'
  BY <1>3 DEF GroupInv, ChildInv, TrialsInv, Resolved, Expected, Last
<1>12. WrapperInv'
  BY <1>3 DEF GroupInv, WrapperInv
<1>13. ClaimInv'
  <2>1. op.kind \in WrapperKinds => owner = "group"
    BY DEF GroupInv, CommandInv
  <2>2. op.kind \in ExperimentKinds => owner = "experiment"
    BY DEF GroupInv, CommandInv
  <2>3. QED
    BY <1>3, <1>7, <2>1, <2>2 DEF GroupInv, ClaimInv
<1>14. Ready("marker")'
  <2>1. receipt' # NoReceipt
    BY <1>7 DEF NoReceipt
  <2>2. Untouched' = Untouched
    BY <1>3 DEF Last, Untouched, NeverTouched
  <2>3. QED
    BY <1>2, <1>3, <1>5, <2>1, <2>2 DEF Ready, PhasesAt
<1>15. DataInv'
  BY <1>8, <1>9, <1>10, <1>11, <1>12, <1>13 DEF DataInv
<1>16. QED
  BY <1>1, <1>3, <1>4, <1>14, <1>15, GoKeeps

(* The terminal marker of a claim that has its receipt *)
LEMMA MarkerKeeps ==
    ASSUME GroupInv, Marker
    PROVE  GroupInv'
<1>1. /\ op.pc = "marker" /\ claim' = "completed"
      /\ UNCHANGED <<receipt, owner, trials, files, journal, life, rest>>
  BY DEF Marker
<1>2. /\ op.kind \in WrapperKinds \cup ExperimentKinds \cup {"abort"} /\ child = NoChild
      /\ TypeOK /\ receipt # NoReceipt /\ claim # "none"
  BY <1>1, StepFacts, NoChildBeside
     DEF GroupInv, CommandInv, WrapperKinds, ExperimentKinds
<1>3. /\ coord' = coord /\ att' = att /\ files' = files /\ journal' = journal /\ life' = life
      /\ receipt' = receipt /\ owner' = owner /\ child' = NoChild /\ asked' = asked
      /\ up' = up /\ over' = over /\ waiting' = waiting /\ other' = other
      /\ commands' = commands
  BY <1>1, <1>2 DEF trials, rest, host
<1>4. op.kind = "abort" => "certify" \in StepsOf(op.kind)
  BY ProgramFacts
<1>5. op' \in Ops
  BY <1>2, <1>4, GoFacts, EndFacts DEF Marker
<1>6. TypeOK'
  BY <1>1, <1>2, <1>3, <1>5 DEF TypeOK, Ops
<1>7. Backed' /\ WrapperInv'
  BY <1>3 DEF GroupInv, Backed, Loads, WrapperInv
<1>8. OneEnd'
  BY <1>2, <1>3 DEF GroupInv, OneEnd, Resolved, Expected, Last, Untouched, NeverTouched
<1>9. ChildInv' /\ TrialsInv'
  BY <1>3 DEF GroupInv, ChildInv, TrialsInv, Resolved, Expected, Last
<1>10. ClaimInv'
  BY <1>1, <1>2, <1>3 DEF GroupInv, ClaimInv
<1>11. DataInv'
  BY <1>6, <1>7, <1>8, <1>9, <1>10 DEF DataInv
<1>12. CASE op.kind = "abort"
  <2>1. Go("certify")
    BY <1>12 DEF Marker
  <2>2. op'.kind = "abort"
    BY <1>2, <1>4, <1>12, <2>1, GoFacts
  <2>3. Ready("certify")'
    BY <2>2 DEF Ready, WrapperKinds
  <2>4. QED
    BY <1>1, <1>3, <1>4, <1>11, <1>12, <2>1, <2>3, GoKeeps
<1>13. CASE op.kind # "abort"
  BY <1>11, <1>13, EndsKeep DEF Marker, End
<1>14. QED
  BY <1>12, <1>13

-----------------------------------------------------------------------------
(* A command takes the gate *)

(* The claim, if it is new, is the command's; nothing else is written. *)
LEMMA CommandKeeps ==
    ASSUME GroupInv, Command
    PROVE  GroupInv'
<1>1. PICK kind \in Kinds, quoted \in BOOLEAN :
         /\ Admits(kind)
         /\ op' = [kind |-> kind, pc |-> Opening(kind), quoted |-> quoted]
         /\ owner' = CASE kind = "run" -> "group"
                       [] kind = "begin" -> "experiment"
                       [] OTHER -> owner
  BY DEF Command
<1>2. /\ child = NoChild /\ commands' \in 0..MaxCommands /\ TypeOK
      /\ claim' = (IF claim = "none" THEN "pending" ELSE claim)
      /\ UNCHANGED <<receipt, trials, files, journal, life, host, child, asked>>
  BY GroupAssumption DEF Command, Free, GroupInv, TypeOK
<1>3. /\ coord' = coord /\ att' = att /\ files' = files /\ journal' = journal /\ life' = life
      /\ receipt' = receipt /\ child' = NoChild /\ asked' = asked
      /\ up' = up /\ over' = over /\ waiting' = waiting /\ other' = other
  BY <1>2 DEF trials, host
<1>4. kind \in {"run", "reconcile", "begin", "resume", "seal", "recover", "status", "abort"}
  BY DEF Kinds, WrapperKinds, ExperimentKinds
<1>5. /\ Opening("run") = "create" /\ Opening("reconcile") = "load"
      /\ Opening("begin") = "submit" /\ Opening("resume") = "open"
      /\ Opening("seal") = "open" /\ Opening("recover") = "describe"
      /\ Opening("status") = "save" /\ Opening("abort") = "folder"
  BY DEF Opening
<1>6. Opening(kind) \in StepsOf(kind)
  BY <1>4, <1>5, ProgramFacts
<1>7. op' \in Ops /\ op'.kind = kind /\ op'.pc = Opening(kind)
  BY <1>1, <1>6, ProgramFacts DEF Ops
<1>8. /\ owner' \in {"none", "group", "experiment"}
      /\ claim' \in {"none", "pending", "completed"}
      /\ claim # "none" => owner' = owner /\ claim' = claim
      /\ claim = "none" => owner = "none" /\ claim' = "pending"
      /\ claim = "none" => kind \in {"run", "begin"}
      /\ kind = "run" => owner' = "group" /\ journal.phase = 0
      /\ kind = "reconcile" => owner' = "group" /\ journal.phase # 0
      /\ kind \in ExperimentKinds \cup {"recover"} => owner' = "experiment"
      /\ kind \in {"recover", "status"} => claim' = "pending"
  <2>1. owner \in {"none", "group", "experiment"} /\ (claim = "none" <=> owner = "none")
    BY DEF GroupInv, TypeOK, ClaimInv
  <2>2. claim \in {"none", "pending", "completed"}
    BY DEF GroupInv, TypeOK
  <2>3. Loads => journal.phase # 0
    BY PhaseFacts DEF GroupInv, TypeOK, Journals, Loads
  <2>4. Unused => journal.phase = 0
    BY PhaseFacts DEF Unused
  <2> HIDE DEF Loads, Unused
  <2>5. QED
    BY <1>1, <1>2, <1>4, <2>1, <2>2, <2>3, <2>4 DEF Admits, ExperimentKinds
<1>9. TypeOK'
  BY <1>2, <1>3, <1>7, <1>8 DEF TypeOK, Ops
<1>10. Backed'
  BY <1>3 DEF GroupInv, Backed, Loads
<1>11. OneEnd'
  BY <1>3, <1>8 DEF GroupInv, OneEnd, Resolved, Expected, Last, Untouched, NeverTouched
<1>12. ChildInv' /\ TrialsInv'
  BY <1>3 DEF GroupInv, ChildInv, TrialsInv, Resolved, Expected, Last
<1>13. WrapperInv'
  BY <1>3, <1>8 DEF GroupInv, WrapperInv, ClaimInv
<1>14. ClaimInv'
  BY <1>3, <1>8 DEF GroupInv, ClaimInv, ExperimentKinds
<1>15. CommandInv'
  <2>1. op'.kind \in WrapperKinds => owner' = "group" /\ journal'.phase \in PhasesAt(op'.pc)
    <3>1. 0 \in PhasesAt("create") /\ PhasesAt("load") = (0..10) \ {0}
      BY PhaseFacts DEF PhasesAt
    <3>2. journal.phase \in 0..10
      BY <1>2, PhaseFacts DEF TypeOK, Journals
    <3>3. QED
      BY <1>3, <1>5, <1>7, <1>8, <3>1, <3>2 DEF WrapperKinds
  <2>2. op'.pc \in {"create", "load", "submit", "open", "describe", "save", "folder"}
    BY <1>4, <1>5, <1>7
  <2>3. claim' # "none"
    BY <1>8
  <2>4. QED
    BY <1>3, <1>6, <1>7, <1>8, <2>1, <2>2, <2>3 DEF CommandInv
<1>16. QED
  BY <1>9, <1>10, <1>11, <1>12, <1>13, <1>14, <1>15 DEF GroupInv
-----------------------------------------------------------------------------
(* The invariant *)

(* Nothing was claimed yet. *)
LEMMA GroupInit == Init => GroupInv
<1> SUFFICES ASSUME Init PROVE GroupInv
  OBVIOUS
<1>1. /\ claim = "none" /\ receipt = NoReceipt /\ owner = "none"
      /\ coord = NoCoordinator
      /\ att = [e \in Entries |-> [st |-> "missing", final |-> FALSE]]
      /\ files = {} /\ journal = NoJournal /\ life = "none"
      /\ up = FALSE /\ over = {} /\ waiting = TRUE /\ other = FALSE
      /\ op = Idle /\ child = NoChild /\ asked = 0 /\ commands = 0
  BY DEF Init
<1>2. N \in Nat /\ Entries = 1..N /\ MaxCommands \in Nat
  BY GroupAssumption DEF Entries
<1>3. /\ coord \in Coordinators /\ coord.submissions = 0 /\ ~coord.closed /\ ~coord.retired
      /\ coord.settled = {}
  BY <1>1, <1>2 DEF NoCoordinator, Coordinators
<1>4. att \in [Entries -> Attempts] /\ \A e \in Entries : att[e].st = "missing"
  BY <1>1 DEF Attempts, Statuses, Clean, Broken
<1>5. journal \in Journals /\ journal.phase = 0 /\ journal.writes = 0
  BY <1>1, PhaseFacts DEF NoJournal, Journals
<1>6. op \in Ops /\ op.kind = "none" /\ op.pc = "idle" /\ op.pc \in StepsOf(op.kind)
  BY <1>1, ProgramFacts DEF Idle, Ops
<1>7. child \in ChildProcesses
  BY <1>1, <1>2 DEF NoChild, ChildProcesses
<1>8. /\ receipt \in [by : {"none", "group", "experiment", "abort"}, writes : 0..2]
      /\ receipt.by = "none"
  BY <1>1 DEF NoReceipt
<1>9. TypeOK
  <2>1. /\ claim \in {"none", "pending", "completed"} /\ owner \in {"none", "group", "experiment"}
        /\ life \in {"none", "open", "asked", "named", "done"}
    BY <1>1
  <2>2. /\ up \in BOOLEAN /\ waiting \in BOOLEAN /\ other \in BOOLEAN
        /\ over \subseteq {"restoration", "total"}
    BY <1>1
  <2>3. asked \in 0..2 /\ commands \in 0..MaxCommands
    BY <1>1, <1>2
  <2>4. QED
    BY <1>3, <1>4, <1>5, <1>6, <1>7, <1>8, <2>1, <2>2, <2>3 DEF TypeOK, Ops, ChildProcesses
<1>10. Backed
  BY <1>4, <1>5, PhaseFacts DEF Backed
<1>11. OneEnd
  BY <1>1, <1>8 DEF OneEnd
<1>12. ChildInv
  BY <1>1 DEF ChildInv
<1>13. TrialsInv
  BY <1>2, <1>3, <1>4 DEF TrialsInv, Last
<1>14. WrapperInv
  BY <1>1, <1>5, PhaseFacts DEF WrapperInv
<1>15. ClaimInv
  BY <1>1, <1>8 DEF ClaimInv
<1>16. CommandInv
  BY <1>1, <1>6 DEF CommandInv, WrapperKinds, ExperimentKinds
<1>17. QED
  BY <1>9, <1>10, <1>11, <1>12, <1>13, <1>14, <1>15, <1>16 DEF GroupInv

(* Every step of a command, of a child and of the host keeps it. *)
LEMMA GroupNext == GroupInv /\ [Next]_vars => GroupInv'
<1> SUFFICES ASSUME GroupInv, [Next]_vars PROVE GroupInv'
  OBVIOUS
<1>1. CASE Work
  <2>1. CASE \/ AlreadyCompleted \/ AllSubmitted \/ Load \/ Prepare \/ Reverify
    BY <2>1, LookingKeeps
  <2>2. CASE Describe \/ RecoveryReturned \/ Conclude
    BY <2>2, RecoverKeeps
  <2>3. CASE Save \/ Observe \/ ProveStatus \/ Report
    BY <2>3, StatusKeeps
  <2>4. CASE Folder \/ AbortIntent \/ Prove \/ Certify
    BY <2>4, AbortKeeps
  <2>5. CASE Create \/ Check \/ Continue \/ Sealed
    BY <2>5, RunKeeps, SealingKeeps
  <2>6. CASE HandoffIntent \/ Prepared \/ Intend \/ Restore \/ Verify \/ Complete
    BY <2>6, HandoffKeeps, RestoringKeeps
  <2>7. CASE LifecyclePublish \/ LifecycleAsk \/ LifecycleName \/ LifecycleFinish
    BY <2>7, LifecycleKeeps
  <2>8. CASE Open \/ Submit \/ Returned \/ Seal \/ Commit
    BY <2>8, OpenKeeps, SubmitKeeps, ReturnedKeeps, SealKeeps, CommitKeeps
  <2>9. CASE Dispatch \/ RecoveryDispatch
    BY <2>9, DispatchKeeps
  <2>10. CASE Receipt \/ Marker
    BY <2>10, ReceiptKeeps, MarkerKeeps
  <2>11. QED
    BY <1>1, <2>1, <2>2, <2>3, <2>4, <2>5, <2>6, <2>7, <2>8, <2>9, <2>10 DEF Work
<1>2. CASE ChildEnters \/ ChildEnds
  BY <1>2, ChildEntersKeeps, ChildEndsKeeps
<1>3. CASE \/ ChildRefused \/ ChildKilled \/ OtherTrial \/ TimePasses \/ BrowserMoves
           \/ ServicesStop
  BY <1>3, BesidesKeep
<1>4. CASE Command \/ Raise \/ Kill \/ Retire
  BY <1>4, CommandKeeps, RaiseKeeps, KillKeeps, RetireKeeps
<1>5. CASE UNCHANGED vars
  <2>1. /\ op' = op /\ UNCHANGED <<registry, trials, journal, life, asked>>
        /\ files' = files /\ child' = child /\ up' = up /\ over' = over
        /\ waiting' = waiting /\ other' = other /\ commands' = commands
    BY <1>5 DEF vars, disk, rest, host
  <2>2. DataInv'
    BY <2>1, FilesGrow DEF GroupInv, DataInv, TypeOK, Ops, ClaimInv
  <2>3. QED
    BY <2>1, <2>2, SameCommand
<1>6. QED
  BY <1>1, <1>2, <1>3, <1>4, <1>5 DEF Next, ChildWork

(* GroupInv: whatever command is interrupted where, and whatever child     *)
(* outlives it, the journals of the wrapper, the coordinator, the trials   *)
(* and the normal lifecycle agree with the files they quote and with the   *)
(* claim's terminal receipt (Operations.load, Admission.finish).           *)
THEOREM GroupSafety == Spec => []GroupInv
<1>1. Init => GroupInv
  BY GroupInit
<1>2. GroupInv /\ [Next]_vars => GroupInv'
  BY GroupNext
<1>3. QED
  BY <1>1, <1>2, PTL DEF Spec

-----------------------------------------------------------------------------
(* What follows from it *)

(* What a completed claim leaves of the group does not change, and files   *)
(* are never taken away; another trial starts by its own step only.        *)
LEMMA CompletedStays ==
    ASSUME GroupInv, [Next]_vars, ~OtherTrial
    PROVE  /\ other' = other /\ files \subseteq files'
           /\ claim = "completed" => att' = att
<1>1. child # NoChild => claim = "pending"
  BY DEF GroupInv, ChildInv
<1>2. op.pc = "commit" => claim = "pending"
  BY StepFacts DEF GroupInv, CommandInv
<1>3. CASE Work
  <2>1. CASE \/ AlreadyCompleted \/ AllSubmitted \/ Load \/ Prepare \/ Reverify
             \/ Describe \/ RecoveryReturned \/ Conclude
             \/ Save \/ Observe \/ ProveStatus \/ Report
             \/ Folder \/ AbortIntent \/ Prove \/ Certify
    BY <2>1 DEF AlreadyCompleted, AllSubmitted, Load, Prepare, Reverify, Describe,
       RecoveryReturned, Conclude, Save, Observe, ProveStatus, Report, Folder, AbortIntent,
       Prove, Certify, disk, rest, host, trials
  <2>2. CASE \/ Create \/ Check \/ Continue \/ Sealed \/ HandoffIntent \/ Prepared \/ Intend
             \/ Restore \/ Verify \/ Complete
    BY <2>2 DEF Create, Check, Continue, Sealed, HandoffIntent, Prepared, Intend, Restore,
       Verify, Complete, rest, host, trials
  <2>3. CASE LifecyclePublish \/ LifecycleAsk \/ LifecycleName \/ LifecycleFinish
    BY <2>3 DEF LifecyclePublish, LifecycleAsk, LifecycleName, LifecycleFinish,
       LifecycleStep, trials
  <2>4. CASE Open \/ Submit \/ Returned \/ Seal
    BY <2>4 DEF Open, Submit, Returned, Seal, rest, host, trials
  <2>5. CASE Commit
    BY <1>2, <2>5 DEF Commit, rest, host
  <2>6. CASE Dispatch \/ RecoveryDispatch
    BY <2>6 DEF Dispatch, RecoveryDispatch, host, trials
  <2>7. CASE Receipt \/ Marker
    BY <2>7 DEF Receipt, Marker, rest, host, trials
  <2>8. QED
    BY <1>3, <2>1, <2>2, <2>3, <2>4, <2>5, <2>6, <2>7 DEF Work
<1>4. CASE ChildEnters \/ ChildEnds
  <2>1. CASE ChildEnters
    BY <1>1, <2>1 DEF ChildEnters, host
  <2>2. CASE ChildEnds
    BY <1>1, <2>2 DEF ChildEnds, NoChild, host
  <2>3. QED
    BY <1>4, <2>1, <2>2
<1>5. CASE ChildRefused \/ ChildKilled \/ TimePasses \/ BrowserMoves \/ ServicesStop
  BY <1>5 DEF ChildRefused, ChildKilled, TimePasses, BrowserMoves, ServicesStop, disk,
     trials, host
<1>6. CASE Command \/ Raise \/ Kill \/ Retire
  BY <1>6 DEF Command, Raise, Kill, Retire, disk, rest, host, trials
<1>7. CASE UNCHANGED vars
  BY <1>7 DEF vars, disk, rest, host, trials
<1>8. QED
  BY <1>3, <1>4, <1>5, <1>6, <1>7 DEF Next, ChildWork

(* NoTrialOverFailure: _require_no_unrecovered lets a trial of another     *)
(* operation start over this group only when every attempt of it is clean  *)
(* or was certified as untouched, and nothing that the group's own         *)
(* commands or children do later makes it dirty again.                     *)
THEOREM GroupNoTrialOverFailure == Spec => []NoTrialOverFailure
<1>1. Init => NoTrialOverFailure
  BY DEF Init, NoTrialOverFailure
<1>2. GroupInv /\ NoTrialOverFailure /\ [Next]_vars => NoTrialOverFailure'
  <2> SUFFICES ASSUME GroupInv, NoTrialOverFailure, [Next]_vars PROVE NoTrialOverFailure'
    OBVIOUS
  <2>1. CASE OtherTrial
    <3>1. att' = att /\ files' = files
      BY <2>1 DEF OtherTrial, disk, trials
    <3>2. The("abort") \in files => /\ att[1].st = "untouched"
                                    /\ The("certificate") \in files
      BY <2>1 DEF OtherTrial, Certified, Untouched, NeverTouched
    <3>3. \A e \in Entries : \/ att[e].st \in Clean \cup {"missing"}
                             \/ The("abort") \in files /\ e = 1
      BY <2>1 DEF OtherTrial
    <3>4. QED
      BY <3>1, <3>2, <3>3 DEF NoTrialOverFailure
  <2>2. CASE ~OtherTrial
    <3>1. other => claim = "completed"
      BY DEF GroupInv, ClaimInv
    <3>2. QED
      BY <2>2, <3>1, CompletedStays DEF NoTrialOverFailure
  <2>3. QED
    BY <2>1, <2>2
<1>3. QED
  BY <1>1, <1>2, GroupSafety, PTL DEF Spec

(* A service start is requested by one step, in time. *)
LEMMA AskedInTime ==
    ASSUME GroupInv, [Next]_vars, asked' > asked
    PROVE  over = {}
<1>1. asked \in 0..2
  BY DEF GroupInv, TypeOK
<1>2. asked' # asked
  BY <1>1
<1>3. CASE Work
  <2>1. CASE \/ AlreadyCompleted \/ AllSubmitted \/ Load \/ Prepare \/ Reverify
             \/ Describe \/ RecoveryReturned \/ Conclude
             \/ Save \/ Observe \/ ProveStatus \/ Report \/ Commit
             \/ Folder \/ AbortIntent \/ Prove \/ Certify
             \/ Create \/ Check \/ Continue \/ Sealed \/ HandoffIntent \/ Prepared \/ Intend
             \/ Restore \/ Verify \/ Complete \/ Receipt \/ Marker
             \/ Open \/ Submit \/ Returned \/ Seal \/ Dispatch \/ RecoveryDispatch
    BY <1>2, <2>1 DEF AlreadyCompleted, AllSubmitted, Load, Prepare, Reverify, Describe,
       RecoveryReturned, Conclude, Save, Observe, ProveStatus, Report, Commit, Folder,
       AbortIntent, Prove, Certify, Create, Check, Continue, Sealed, HandoffIntent,
       Prepared, Intend, Restore, Verify, Complete, Receipt, Marker, Open, Submit,
       Returned, Seal, Dispatch, RecoveryDispatch, rest
  <2>2. CASE LifecyclePublish \/ LifecycleAsk \/ LifecycleName \/ LifecycleFinish
    BY <2>2 DEF LifecyclePublish, LifecycleAsk, LifecycleName, LifecycleFinish,
       LifecycleStep, InTime
  <2>3. QED
    BY <1>3, <2>1, <2>2 DEF Work
<1>4. CASE \/ ChildWork \/ Command \/ Raise \/ Kill \/ Retire \/ OtherTrial \/ TimePasses
           \/ BrowserMoves \/ ServicesStop \/ UNCHANGED vars
  BY <1>2, <1>4 DEF ChildWork, ChildEnters, ChildEnds, ChildRefused, ChildKilled, Command,
     Raise, Kill, Retire, OtherTrial, TimePasses, BrowserMoves, ServicesStop, vars, rest
<1>5. QED
  BY <1>3, <1>4 DEF Next

(* RestoredOnce: run() and reconcile() ask for the normal services at most *)
(* once for a group, of a sealed group whose children are gone, and in the *)
(* time that was recorded with the intent (BoundLifecycle).                *)
THEOREM GroupRestoredOnce == Spec => RestoredOnce
<1>1. GroupInv => asked <= 1
  BY DEF GroupInv, WrapperInv
<1>2. GroupInv => (life # "none" => /\ child = NoChild
                                    /\ coord.closed /\ Resolved
                                    /\ coord.settled = Expected)
  BY DEF GroupInv, WrapperInv, TrialsInv, ChildInv, Current
<1>3. GroupInv /\ [Next]_vars => [asked' > asked => over = {}]_vars
  BY AskedInTime
<1>4. QED
  BY <1>1, <1>2, <1>3, GroupSafety, PTL DEF Spec, RestoredOnce
=============================================================================
