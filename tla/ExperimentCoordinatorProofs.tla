-------------------- MODULE ExperimentCoordinatorProofs --------------------
(***************************************************************************)
(* What ExperimentCoordinator and FollowPublication promise, proved for    *)
(* any plan, cohort, limits, times and number of commands: CoordinatorInv  *)
(* and FollowSafe hold initially and every step keeps them, and they give  *)
(* the properties that the runs check.                                     *)
(*                                                                         *)
(* A step of the coordinator changes its memory or replaces the file with  *)
(* what is in memory; a step of a trial changes neither.  The lemmas are   *)
(* about journals first, then about each of these kinds of step.  The      *)
(* follower of the coordinator's cohort comes after it, a lemma for each   *)
(* of its steps and of those of its exporter, its driver, the provider and *)
(* the cohort.                                                             *)
(***************************************************************************)
EXTENDS ExperimentCoordinator, FollowPublication, FiniteSetTheorems, TLAPS

-----------------------------------------------------------------------------
(* Journals *)

(* A journal's submissions are entries in order, retired or not. *)
LEMMA JournalFacts ==
    ASSUME NEW j \in Journal
    PROVE  /\ Len(j.subs) \in Nat /\ DOMAIN j.subs = 1..Len(j.subs)
           /\ Len(j.events) \in Nat /\ DOMAIN j.events = 1..Len(j.events)
           /\ \A e \in DOMAIN j.subs : j.subs[e] \in Submission
           /\ \A e : e \in Retired(j) <=> e \in 1..Len(j.subs) /\ j.subs[e].retired # 0
           /\ \A e : e \in Submitted(j) <=> e \in 1..Len(j.subs) /\ j.subs[e].retired = 0
<1>1. j.subs \in Seq(Submission) /\ j.events \in Seq(EventKinds)
  BY DEF Journal
<1>2. /\ Len(j.subs) \in Nat /\ DOMAIN j.subs = 1..Len(j.subs)
      /\ Len(j.events) \in Nat /\ DOMAIN j.events = 1..Len(j.events)
      /\ \A e \in DOMAIN j.subs : j.subs[e] \in Submission
  BY <1>1
<1>3. QED
  BY <1>2 DEF Retired, Submitted

(* The bounds are numbers. *)
LEMMA PlanFacts == N \in Nat /\ Entries = 1..N /\ Entries \subseteq Nat
BY CoordinatorAssumption DEF Entries

(* The journal before the first one *)
LEMMA NoJournalFacts ==
    /\ NoJournal \in Journal /\ NoJournal.status = "absent" /\ Len(NoJournal.subs) = 0
    /\ NoJournal.settled = {} /\ Len(NoJournal.events) = 0 /\ ~NoJournal.sealed
    /\ NoJournal.subs = <<>> /\ NoJournal.events = <<>>
    /\ Retired(NoJournal) = {} /\ Submitted(NoJournal) = {}
<1>1. <<>> \in Seq(Submission) /\ <<>> \in Seq(EventKinds) /\ Len(<<>>) = 0
  OBVIOUS
<1>2. /\ NoJournal \in Journal /\ NoJournal.status = "absent" /\ Len(NoJournal.subs) = 0
      /\ NoJournal.settled = {} /\ Len(NoJournal.events) = 0 /\ ~NoJournal.sealed
      /\ NoJournal.subs = <<>> /\ NoJournal.events = <<>>
  BY <1>1 DEF NoJournal, Journal
<1>3. QED
  BY <1>2, JournalFacts

(* The same submissions are submitted and retired. *)
LEMMA SameSubmissions ==
    ASSUME NEW i, NEW j, i.subs = j.subs
    PROVE  Retired(i) = Retired(j) /\ Submitted(i) = Submitted(j)
BY DEF Retired, Submitted

(* persist() adds one event to what is in memory. *)
LEMMA WrittenFacts ==
    ASSUME mem \in Journal, pc \in Persisting
    PROVE  /\ Written \in Journal /\ Written.status = mem.status /\ Written.subs = mem.subs
           /\ Written.settled = mem.settled /\ Written.sealed = mem.sealed
           /\ Len(Written.events) = Len(mem.events) + 1
           /\ \A i \in DOMAIN mem.events : Written.events[i] = mem.events[i]
           /\ Retired(Written) = Retired(mem) /\ Submitted(Written) = Submitted(mem)
<1>1. Event[pc] \in EventKinds
  BY DEF Persisting, Event, EventKinds
<1>2. mem.events \in Seq(EventKinds)
  BY DEF Journal
<1>3. /\ Append(mem.events, Event[pc]) \in Seq(EventKinds)
      /\ Len(Append(mem.events, Event[pc])) = Len(mem.events) + 1
      /\ \A i \in DOMAIN mem.events : Append(mem.events, Event[pc])[i] = mem.events[i]
  BY <1>1, <1>2
<1> DEFINE added == Append(mem.events, Event[pc])
<1> HIDE DEF added
<1>4. Written = [mem EXCEPT !.events = added]
  BY DEF Written, added
<1>5. /\ Written \in Journal /\ Written.status = mem.status /\ Written.subs = mem.subs
      /\ Written.settled = mem.settled /\ Written.sealed = mem.sealed
      /\ Written.events = added
  <2>1. added \in Seq(EventKinds)
    BY <1>3 DEF added
  <2>2. QED
    BY <1>4, <2>1 DEF Journal
<1>6. QED
  BY <1>3, <1>5, SameSubmissions DEF added

(* reconcile() settles submitted entries whose trials ended well, and all  *)
(* of them if it returns.                                                  *)
LEMMA ReconciledFacts ==
    ASSUME NEW j \in Journal, Len(j.subs) <= N
    PROVE  /\ Reconciled(j) \in Journal /\ Reconciled(j).status = j.status
           /\ Reconciled(j).subs = j.subs /\ Reconciled(j).events = j.events
           /\ Reconciled(j).sealed = j.sealed /\ j.settled \subseteq Reconciled(j).settled
           /\ \A e \in Reconciled(j).settled \ j.settled :
                  e \in Submitted(j) /\ attempt[e] \in Terminal
           /\ Reconciles(j) => Submitted(j) \subseteq Reconciled(j).settled
           /\ Retired(Reconciled(j)) = Retired(j) /\ Submitted(Reconciled(j)) = Submitted(j)
<1> DEFINE new == {e \in Submitted(j) : \A d \in 1 .. e : Resolved(j, d)}
<1>1. Submitted(j) \subseteq 1..Len(j.subs) /\ 1..Len(j.subs) \subseteq Entries
  BY JournalFacts, PlanFacts
<1>2. new \subseteq Entries
  BY <1>1
<1>3. \A e \in new : e \in Submitted(j) /\ attempt[e] \in Terminal
  <2>1. TAKE e \in new
  <2>2. e \in 1..e /\ e \in Submitted(j) /\ e \notin Retired(j)
    BY <1>1, JournalFacts
  <2>3. Resolved(j, e)
    BY <2>2
  <2>4. QED
    BY <2>2, <2>3 DEF Resolved
<1>4. Reconciles(j) => Submitted(j) \subseteq new
  <2>1. SUFFICES ASSUME Reconciles(j), NEW e \in Submitted(j)
                 PROVE  \A d \in 1..e : Resolved(j, d)
    OBVIOUS
  <2>2. \A d \in 1..e : d \in DOMAIN j.subs
    BY <1>1, JournalFacts
  <2>3. QED
    BY <2>1, <2>2 DEF Reconciles
<1> HIDE DEF new
<1>5. Reconciled(j) = [j EXCEPT !.settled = @ \cup new]
  BY DEF Reconciled, new
<1>6. /\ Reconciled(j) \in Journal /\ Reconciled(j).status = j.status
      /\ Reconciled(j).subs = j.subs /\ Reconciled(j).events = j.events
      /\ Reconciled(j).sealed = j.sealed /\ Reconciled(j).settled = j.settled \cup new
  BY <1>2, <1>5 DEF Journal
<1>7. QED
  BY <1>3, <1>4, <1>6, SameSubmissions

(* The except clause of run() *)
LEMMA RaiseFacts ==
    ASSUME NEW j \in Journal, Raise(j)
    PROVE  /\ pc' = "stop" /\ mem' \in Journal /\ mem'.status = "stopped"
           /\ mem'.subs = j.subs /\ mem'.settled = j.settled /\ mem'.events = j.events
           /\ mem'.sealed = j.sealed
           /\ Retired(mem') = Retired(j) /\ Submitted(mem') = Submitted(j)
<1>1. /\ pc' = "stop" /\ mem' \in Journal /\ mem'.status = "stopped"
      /\ mem'.subs = j.subs /\ mem'.settled = j.settled /\ mem'.events = j.events
      /\ mem'.sealed = j.sealed
  BY DEF Raise, Journal
<1>2. QED
  BY <1>1, SameSubmissions

-----------------------------------------------------------------------------
(* The invariant without what follows from it *)
JournalInv == TypeOK /\ MemoryExtendsDisk /\ LaunchInv /\ OrderInv

(* The entry submitted last is the only one that may be unresolved. *)
LEMMA LastIsUnresolved == JournalInv => OneUnresolved
<1> SUFFICES ASSUME JournalInv
             PROVE  OneUnresolved
  OBVIOUS
<1>1. disk \in Journal
  BY DEF JournalInv, TypeOK
<1>2. \A e \in Unresolved : e = Len(disk.subs)
  <2>1. TAKE e \in Unresolved
  <2>2. e \in Entries /\ launches[e] = 1 /\ attempt[e] \notin Terminal
    BY DEF Unresolved, JournalInv, LaunchInv
  <2>3. e \in 1..Len(disk.subs) /\ ~(e < Len(disk.subs))
    BY <1>1, <2>2, JournalFacts DEF JournalInv, LaunchInv, OrderInv, Quiet
  <2>4. QED
    BY <1>1, <2>3, JournalFacts
<1>3. QED
  BY <1>2 DEF OneUnresolved

(* Trials go on: no trial without a launch, and what has ended well stays  *)
(* so.                                                                     *)
TrialsGoOn ==
    /\ attempt' \in [Entries -> Attempts] /\ usage' \in [Entries -> Nat]
    /\ child' \in [Entries -> Children]
    /\ \A e \in Entries : /\ launches[e] = 0 => attempt'[e] = "missing" /\ child'[e] = "none"
                          /\ attempt[e] \in Terminal => attempt'[e] \in Terminal

(* Everything that is settled stays settled then. *)
LEMMA QuietStays ==
    ASSUME JournalInv, TrialsGoOn, launches' = launches
    PROVE  /\ \A e \in Entries : Quiet(e) => Quiet(e)'
           /\ \A j \in Journal : Len(j.subs) <= N /\ AllSettled(j) =>
                  /\ j.settled = Submitted(j)
                  /\ \A e \in DOMAIN j.subs : Quiet(e)' /\ (launches'[e] = 0 => e \in Retired(j))
<1>1. \A e \in Entries : Quiet(e) => Quiet(e)'
  BY DEF TrialsGoOn, Quiet
<1>2. \A j \in Journal : Len(j.subs) <= N => DOMAIN j.subs \subseteq Entries
  BY JournalFacts, PlanFacts
<1>3. QED
  BY <1>1, <1>2 DEF AllSettled

(* A step of the trials, or of the clock *)
LEMMA TrialsKeep ==
    ASSUME JournalInv, TrialsGoOn, clock' \in Nat,
           UNCHANGED <<disk, mem, pc, launches, invocations>>
    PROVE  JournalInv'
<1>1. TypeOK'
  BY DEF JournalInv, TypeOK, TrialsGoOn
<1>2. MemoryExtendsDisk'
  BY DEF JournalInv, MemoryExtendsDisk, Retired
<1>3. LaunchInv'
  BY DEF JournalInv, LaunchInv, TrialsGoOn, Retired, Submitted, Current
<1>4. disk \in Journal /\ mem \in Journal /\ Len(disk.subs) <= N /\ Len(mem.subs) <= N
  BY DEF JournalInv, TypeOK, MemoryExtendsDisk
<1>5. (AllSettled(disk) => AllSettled(disk)') /\ (AllSettled(mem) => AllSettled(mem)')
  <2>1. Submitted(disk)' = Submitted(disk) /\ Retired(disk)' = Retired(disk)
        /\ Submitted(mem)' = Submitted(mem) /\ Retired(mem)' = Retired(mem)
    BY DEF Submitted, Retired
  <2>2. QED
    BY <1>4, <2>1, QuietStays DEF AllSettled
<1>6. OrderInv'
  BY <1>5, QuietStays DEF JournalInv, OrderInv
<1>7. QED
  BY <1>1, <1>2, <1>3, <1>6 DEF JournalInv

(* The end of an invocation: memory is gone. *)
LEMMA IdleKeeps ==
    ASSUME JournalInv, Idle, UNCHANGED <<disk, clock, trialVars, invocations>>
    PROVE  JournalInv'
<1>1. /\ pc' = "idle" /\ mem' = NoJournal /\ disk' = disk /\ clock' = clock
      /\ attempt' = attempt /\ usage' = usage /\ child' = child /\ launches' = launches
      /\ invocations' = invocations
  BY DEF Idle, trialVars
<1>2. TypeOK'
  BY <1>1, NoJournalFacts DEF JournalInv, TypeOK, PCs
<1>3. MemoryExtendsDisk'
  BY <1>1, NoJournalFacts, PlanFacts DEF JournalInv, MemoryExtendsDisk
<1>4. LaunchInv'
  BY <1>1, NoJournalFacts DEF JournalInv, LaunchInv, Submitted, Retired
<1>5. OrderInv'
  BY <1>1, NoJournalFacts DEF JournalInv, OrderInv, AllSettled, Quiet, Submitted, Retired
<1>6. QED
  BY <1>2, <1>3, <1>4, <1>5 DEF JournalInv

(* Whatever raises, the handler finds in memory what was there, or more of *)
(* it.                                                                     *)
LEMMA RaiseKeeps ==
    ASSUME JournalInv, TrialsGoOn, pc \in Trying,
           NEW j \in Journal, Raise(j), j.subs = mem.subs, j.sealed = mem.sealed,
           mem.settled \subseteq j.settled, \A e \in j.settled : launches[e] = 1,
           Len(mem.events) <= Len(j.events),
           \A i \in DOMAIN mem.events : j.events[i] = mem.events[i],
           UNCHANGED <<disk, launches, clock, invocations>>
    PROVE  JournalInv'
<1>1. /\ pc' = "stop" /\ mem' \in Journal /\ mem'.status = "stopped"
      /\ mem'.subs = mem.subs /\ mem'.settled = j.settled /\ mem'.events = j.events
      /\ mem'.sealed = mem.sealed /\ disk' = disk /\ launches' = launches
      /\ Retired(mem') = Retired(mem) /\ Submitted(mem') = Submitted(mem)
  BY RaiseFacts, SameSubmissions
<1>2. disk \in Journal /\ mem \in Journal /\ pc \notin {"idle", "stop", "seal"}
  BY DEF JournalInv, TypeOK, Trying
<1>3. TypeOK'
  BY <1>1 DEF JournalInv, TypeOK, TrialsGoOn, PCs, Persisting, Event
<1>4. MemoryExtendsDisk'
  <2>1. DOMAIN disk.events \subseteq DOMAIN mem.events
    BY <1>2, JournalFacts DEF JournalInv, MemoryExtendsDisk
  <2>2. /\ Len(disk.events) <= Len(mem'.events)
        /\ \A i \in DOMAIN disk.events : mem'.events[i] = disk.events[i]
    BY <1>1, <1>2, <2>1, JournalFacts DEF JournalInv, MemoryExtendsDisk
  <2>3. disk.settled \subseteq mem'.settled
    BY <1>1, <1>2 DEF JournalInv, MemoryExtendsDisk
  <2>4. QED
    BY <1>1, <1>2, <2>2, <2>3 DEF JournalInv, MemoryExtendsDisk
<1>5. LaunchInv'
  <2>1. \A e \in disk'.settled \cup mem'.settled : launches'[e] = 1
    BY <1>1 DEF JournalInv, LaunchInv
  <2>2. QED
    BY <1>1, <1>2, <2>1 DEF JournalInv, LaunchInv, TrialsGoOn
<1>6. OrderInv'
  <2>1. disk'.sealed \/ disk'.status = "completed" => AllSettled(disk)'
    <3>1. Len(disk.subs) <= N
      BY DEF JournalInv, MemoryExtendsDisk
    <3>2. Submitted(disk)' = Submitted(disk) /\ Retired(disk)' = Retired(disk)
      BY <1>1 DEF Submitted, Retired
    <3>3. AllSettled(disk) => AllSettled(disk)'
      BY <1>1, <1>2, <3>1, <3>2, QuietStays DEF AllSettled
    <3>4. QED
      BY <1>1, <3>3 DEF JournalInv, OrderInv
  <2>2. \A e \in Entries : e < Len(mem'.subs) => Quiet(e)'
    BY <1>1, <1>2, QuietStays DEF JournalInv, OrderInv
  <2>3. \A e \in Entries : e < Len(disk'.subs) => Quiet(e)'
    BY <1>1, QuietStays DEF JournalInv, OrderInv
  <2>4. QED
    BY <1>1, <2>1, <2>2, <2>3 DEF OrderInv
<1>7. QED
  BY <1>3, <1>4, <1>5, <1>6 DEF JournalInv

-----------------------------------------------------------------------------
(* The commands *)

(* A trial that is not stepped goes on. *)
LEMMA NoTrialSteps == JournalInv /\ UNCHANGED trialVars => TrialsGoOn
BY DEF JournalInv, TypeOK, LaunchInv, TrialsGoOn, trialVars

(* run() is the first to write a journal. *)
LEMMA RunKeeps ==
    ASSUME JournalInv, Run
    PROVE  JournalInv'
<1>1. /\ pc = "idle" /\ pc' = "admit" /\ disk.status = "absent" /\ disk' = mem'
      /\ mem' = [NoJournal EXCEPT !.status = "running", !.events = <<"experiment_started">>]
      /\ invocations < MaxInvocations /\ invocations' = invocations + 1
      /\ clock' = clock /\ attempt' = attempt /\ usage' = usage /\ child' = child
      /\ launches' = launches
  BY DEF Run, Invoke, trialVars
<1>2. /\ mem' \in Journal /\ mem'.status = "running" /\ mem'.subs = <<>> /\ mem'.settled = {}
      /\ ~mem'.sealed
  <2>1. <<"experiment_started">> \in Seq(EventKinds)
    BY DEF EventKinds
  <2>2. QED
    BY <1>1, <2>1, NoJournalFacts DEF Journal
<1>3. Len(mem'.subs) = 0 /\ Retired(mem') = {} /\ Submitted(mem') = {}
  BY <1>2, JournalFacts
<1>4. disk = NoJournal
  BY <1>1 DEF JournalInv, MemoryExtendsDisk
<1>5. \A e \in Entries : launches[e] = 0
  BY <1>4, NoJournalFacts DEF JournalInv, LaunchInv
<1>6. TypeOK'
  BY <1>1, <1>2, CoordinatorAssumption DEF JournalInv, TypeOK, PCs
<1>7. MemoryExtendsDisk'
  <2>1. Len(mem'.events) \in Nat
    BY <1>2, JournalFacts
  <2>2. QED
    BY <1>1, <1>2, <1>3, <2>1, PlanFacts DEF MemoryExtendsDisk
<1>8. LaunchInv'
  BY <1>1, <1>2, <1>3, <1>5 DEF JournalInv, LaunchInv
<1>9. OrderInv'
  BY <1>1, <1>2, <1>3, <1>5 DEF OrderInv, Quiet
<1>10. QED
  BY <1>6, <1>7, <1>8, <1>9 DEF JournalInv

(* resume() takes up what it finds. *)
LEMMA ResumeKeeps ==
    ASSUME JournalInv, Resume
    PROVE  JournalInv'
<1>1. /\ pc = "idle" /\ pc' = "admit" /\ disk.status # "absent" /\ ~disk.sealed
      /\ disk' = disk /\ mem' = disk
      /\ invocations < MaxInvocations /\ invocations' = invocations + 1
      /\ clock' = clock /\ attempt' = attempt /\ usage' = usage /\ child' = child
      /\ launches' = launches
  BY DEF Resume, Invoke, trialVars
<1>2. TypeOK'
  BY <1>1, CoordinatorAssumption DEF JournalInv, TypeOK, PCs
<1>3. MemoryExtendsDisk'
  <2>1. disk \in Journal
    BY DEF JournalInv, TypeOK
  <2>2. Len(disk.events) \in Nat
    BY <2>1, JournalFacts
  <2>3. QED
    BY <1>1, <2>2 DEF JournalInv, MemoryExtendsDisk
<1>4. LaunchInv'
  BY <1>1 DEF JournalInv, LaunchInv, Submitted, Retired
<1>5. OrderInv'
  BY <1>1 DEF JournalInv, OrderInv, AllSettled, Quiet, Submitted, Retired
<1>6. QED
  BY <1>2, <1>3, <1>4, <1>5 DEF JournalInv

(* What is reconciled is settled, all of it. *)
LEMMA ReconcilesSettles ==
    ASSUME JournalInv, NEW j \in Journal, Len(j.subs) <= N, Reconciles(j),
           \A e \in j.settled : e \in Submitted(j),
           \A e \in Entries : launches[e] = 1 => e \in Submitted(j)
    PROVE  /\ Reconciled(j).settled = Submitted(j)
           /\ \A e \in DOMAIN j.subs : Quiet(e) /\ (launches[e] = 0 => e \in Retired(j))
<1>1. Reconciled(j).settled = Submitted(j)
  <2>1. Reconciled(j).settled \subseteq Submitted(j)
    BY ReconciledFacts
  <2>2. QED
    BY <2>1, ReconciledFacts
<1>2. DOMAIN j.subs \subseteq Entries
  BY JournalFacts, PlanFacts
<1>3. \A e \in DOMAIN j.subs : Resolved(j, e)
  BY DEF Reconciles
<1>4. \A e \in DOMAIN j.subs : Quiet(e) /\ (launches[e] = 0 => e \in Retired(j))
  <2>1. TAKE e \in DOMAIN j.subs
  <2>2. e \in Entries /\ Resolved(j, e)
    BY <1>2, <1>3
  <2>3. CASE e \in Retired(j)
    <3>1. launches[e] # 1
      BY <2>2, <2>3, JournalFacts
    <3>2. QED
      BY <2>3, <3>1 DEF Quiet
  <2>4. CASE e \notin Retired(j)
    <3>1. attempt[e] \in Terminal
      BY <2>2, <2>4 DEF Resolved
    <3>2. launches[e] # 0
      BY <2>2, <3>1 DEF JournalInv, LaunchInv, Terminal
    <3>3. QED
      BY <3>1, <3>2 DEF Quiet
  <2>5. QED
    BY <2>3, <2>4
<1>5. QED
  BY <1>1, <1>4

(* What is settled is submitted. *)
LEMMA SettledIsSubmitted ==
    ASSUME JournalInv
    PROVE  /\ \A e \in disk.settled : e \in Submitted(disk)
           /\ pc # "idle" => \A e \in mem.settled : e \in Submitted(mem)
           /\ \A e \in Entries : launches[e] = 1 =>
                  e \in Submitted(disk) /\ (pc # "idle" => e \in Submitted(mem))
           /\ disk \in Journal /\ mem \in Journal /\ Len(disk.subs) <= N /\ Len(mem.subs) <= N
<1>1. disk.settled \subseteq Entries /\ mem.settled \subseteq Entries
  BY DEF JournalInv, TypeOK, Journal
<1>2. QED
  BY <1>1 DEF JournalInv, LaunchInv, TypeOK, MemoryExtendsDisk

(* seal() settles what is left and will be the last to write. *)
LEMMA SealKeeps ==
    ASSUME JournalInv, Seal
    PROVE  JournalInv'
<1> DEFINE R == Reconciled(disk)
<1>1. /\ pc = "idle" /\ pc' = "seal" /\ disk.status # "absent" /\ ~disk.sealed
      /\ disk' = disk /\ Reconciles(disk)
      /\ mem' = [R EXCEPT !.sealed = TRUE, !.status = IF @ = "completed" THEN @ ELSE "stopped"]
      /\ invocations < MaxInvocations /\ invocations' = invocations + 1
      /\ clock' = clock /\ attempt' = attempt /\ usage' = usage /\ child' = child
      /\ launches' = launches
  BY DEF Seal, Invoke, trialVars
<1>2. disk \in Journal /\ Len(disk.subs) <= N
  BY SettledIsSubmitted
<1>3. /\ R \in Journal /\ R.subs = disk.subs /\ R.events = disk.events
      /\ disk.settled \subseteq R.settled /\ R.settled = Submitted(disk)
      /\ \A e \in DOMAIN disk.subs : Quiet(e) /\ (launches[e] = 0 => e \in Retired(disk))
      /\ \A e \in R.settled \ disk.settled : attempt[e] \in Terminal
  BY <1>1, <1>2, ReconciledFacts, ReconcilesSettles, SettledIsSubmitted
<1> HIDE DEF R
<1>4. /\ mem' \in Journal /\ mem'.subs = disk.subs /\ mem'.events = disk.events
      /\ mem'.settled = R.settled /\ mem'.sealed /\ mem'.status \in {"completed", "stopped"}
  BY <1>1, <1>3 DEF Journal
<1>5. Retired(mem') = Retired(disk) /\ Submitted(mem') = Submitted(disk)
  BY <1>4, SameSubmissions
<1>6. TypeOK'
  BY <1>1, <1>4, CoordinatorAssumption DEF JournalInv, TypeOK, PCs, Persisting, Event
<1>7. MemoryExtendsDisk'
  <2>1. Len(disk.events) \in Nat
    BY <1>2, JournalFacts
  <2>2. QED
    BY <1>1, <1>2, <1>3, <1>4, <1>5, <2>1 DEF JournalInv, MemoryExtendsDisk
<1>8. LaunchInv'
  <2>1. \A e \in R.settled : launches[e] = 1
    <3>1. TAKE e \in R.settled
    <3>2. e \in Entries
      BY <1>3 DEF Journal
    <3>3. CASE e \in disk.settled
      BY <3>3 DEF JournalInv, LaunchInv
    <3>4. CASE e \notin disk.settled
      <4>1. attempt[e] # "missing"
        BY <1>3, <3>4 DEF Terminal
      <4>2. QED
        BY <3>2, <4>1 DEF JournalInv, LaunchInv
    <3>5. QED
      BY <3>3, <3>4
  <2>2. QED
    BY <1>1, <1>4, <1>5, <2>1 DEF JournalInv, LaunchInv
<1>9. OrderInv'
  <2>1. \A e \in Entries : e < Len(disk.subs) => Quiet(e)'
    BY <1>1 DEF JournalInv, OrderInv, Quiet
  <2>2. AllSettled(mem)'
    BY <1>1, <1>3, <1>4, <1>5 DEF AllSettled, Quiet
  <2>3. disk.status = "completed" => AllSettled(disk)'
    BY <1>1, <1>3 DEF JournalInv, OrderInv, AllSettled, Quiet, Submitted, Retired
  <2>4. QED
    BY <1>1, <1>4, <2>1, <2>2, <2>3 DEF OrderInv
<1>10. QED
  BY <1>6, <1>7, <1>8, <1>9 DEF JournalInv

-----------------------------------------------------------------------------
(* The steps of run() and resume() *)

(* What reconcile() settles has been launched. *)
LEMMA SettledIsLaunched ==
    ASSUME JournalInv, pc # "idle"
    PROVE  /\ \A e \in Reconciled(mem).settled : launches[e] = 1
           /\ Reconciled(mem) \in Journal /\ Reconciled(mem).subs = mem.subs
           /\ Reconciled(mem).sealed = mem.sealed /\ Reconciled(mem).status = mem.status
           /\ Reconciled(mem).events = mem.events /\ mem.settled \subseteq Reconciled(mem).settled
           /\ Reconciles(mem) =>
                /\ Reconciled(mem).settled = Submitted(mem)
                /\ \A e \in DOMAIN mem.subs : Quiet(e) /\ (launches[e] = 0 => e \in Retired(mem))
<1>1. /\ Reconciled(mem) \in Journal /\ Reconciled(mem).subs = mem.subs
      /\ Reconciled(mem).sealed = mem.sealed /\ Reconciled(mem).status = mem.status
      /\ Reconciled(mem).events = mem.events /\ mem.settled \subseteq Reconciled(mem).settled
      /\ \A e \in Reconciled(mem).settled \ mem.settled : attempt[e] \in Terminal
  BY SettledIsSubmitted, ReconciledFacts
<1>2. Reconciles(mem) =>
          /\ Reconciled(mem).settled = Submitted(mem)
          /\ \A e \in DOMAIN mem.subs : Quiet(e) /\ (launches[e] = 0 => e \in Retired(mem))
  BY SettledIsSubmitted, ReconcilesSettles
<1>3. \A e \in Reconciled(mem).settled : launches[e] = 1
  <2>1. TAKE e \in Reconciled(mem).settled
  <2>2. e \in Entries
    BY <1>1 DEF Journal
  <2>3. CASE e \in mem.settled
    BY <2>3 DEF JournalInv, LaunchInv
  <2>4. CASE e \notin mem.settled
    <3>1. attempt[e] # "missing"
      BY <1>1, <2>4 DEF Terminal
    <3>2. QED
      BY <2>2, <3>1 DEF JournalInv, LaunchInv
  <2>5. QED
    BY <2>3, <2>4
<1>4. QED
  BY <1>1, <1>2, <1>3

(* Raising with what reconcile() has recorded, or without it *)
LEMMA RaisesKeep ==
    ASSUME JournalInv, pc \in Trying, Raise(mem) \/ Raise(Reconciled(mem)),
           UNCHANGED <<disk, clock, trialVars, invocations>>
    PROVE  JournalInv'
<1>1. TrialsGoOn /\ launches' = launches
  BY NoTrialSteps DEF trialVars
<1>2. pc # "idle" /\ mem \in Journal /\ Len(mem.events) \in Nat
  BY JournalFacts DEF Trying, JournalInv, TypeOK
<1>3. \A e \in mem.settled : launches[e] = 1
  BY DEF JournalInv, LaunchInv
<1>4. CASE Raise(mem)
  BY <1>1, <1>2, <1>3, <1>4, RaiseKeeps
<1>5. CASE Raise(Reconciled(mem))
  BY <1>1, <1>2, <1>5, SettledIsLaunched, RaiseKeeps
<1>6. QED
  BY <1>4, <1>5

(* resume() and run() begin when everything is resolved. *)
LEMMA AdmitKeeps ==
    ASSUME JournalInv, Admit
    PROVE  JournalInv'
<1>1. pc = "admit" /\ UNCHANGED <<disk, clock, trialVars, invocations>>
  BY DEF Admit
<1>2. pc \in Trying
  BY <1>1 DEF Trying, PCs
<1>3. CASE ~Reconciles(mem)
  BY <1>1, <1>2, <1>3, RaisesKeep DEF Admit
<1>4. CASE Reconciles(mem)
  <2>1. /\ pc' = "admitted" /\ mem' = [Reconciled(mem) EXCEPT !.status = "running"]
        /\ disk' = disk /\ clock' = clock /\ attempt' = attempt /\ usage' = usage
        /\ child' = child /\ launches' = launches /\ invocations' = invocations
    BY <1>1, <1>4 DEF Admit, trialVars
  <2>2. /\ mem' \in Journal /\ mem'.subs = mem.subs /\ mem'.events = mem.events
        /\ mem'.settled = Reconciled(mem).settled /\ mem'.sealed = mem.sealed
        /\ mem'.status = "running"
    BY <1>1, <2>1, SettledIsLaunched DEF Journal
  <2>3. Retired(mem') = Retired(mem) /\ Submitted(mem') = Submitted(mem)
    BY <2>2, SameSubmissions
  <2>4. TypeOK'
    BY <2>1, <2>2 DEF JournalInv, TypeOK, PCs, Persisting, Event
  <2>5. MemoryExtendsDisk'
    BY <1>1, <2>1, <2>2, <2>3, SettledIsLaunched DEF JournalInv, MemoryExtendsDisk
  <2>6. LaunchInv'
    BY <1>1, <2>1, <2>2, <2>3, SettledIsLaunched DEF JournalInv, LaunchInv
  <2>7. AllSettled(mem)'
    BY <1>1, <1>4, <2>1, <2>2, <2>3, SettledIsLaunched DEF AllSettled, Quiet
  <2>8. OrderInv'
    BY <1>1, <2>1, <2>2, <2>7
       DEF JournalInv, OrderInv, AllSettled, Quiet, Submitted, Retired
  <2>9. QED
    BY <2>4, <2>5, <2>6, <2>8 DEF JournalInv
<1>5. QED
  BY <1>3, <1>4

(* After the last entry the journal is complete. *)
LEMMA AllSubmittedKeeps ==
    ASSUME JournalInv, AllSubmitted
    PROVE  JournalInv'
<1>1. /\ pc = "next" /\ pc' = "complete" /\ mem' = [mem EXCEPT !.status = "completed"]
      /\ disk' = disk /\ clock' = clock /\ attempt' = attempt /\ usage' = usage
      /\ child' = child /\ launches' = launches /\ invocations' = invocations
  BY DEF AllSubmitted, trialVars
<1>2. /\ mem' \in Journal /\ mem'.subs = mem.subs /\ mem'.events = mem.events
      /\ mem'.settled = mem.settled /\ mem'.sealed = mem.sealed /\ mem'.status = "completed"
  BY <1>1 DEF JournalInv, TypeOK, Journal
<1>3. Retired(mem') = Retired(mem) /\ Submitted(mem') = Submitted(mem)
  BY <1>2, SameSubmissions
<1>4. TypeOK'
  BY <1>1, <1>2 DEF JournalInv, TypeOK, PCs, Persisting, Event
<1>5. MemoryExtendsDisk'
  BY <1>1, <1>2, <1>3 DEF JournalInv, MemoryExtendsDisk
<1>6. LaunchInv'
  BY <1>1, <1>2, <1>3 DEF JournalInv, LaunchInv
<1>7. AllSettled(mem)'
  BY <1>1, <1>2, <1>3 DEF JournalInv, OrderInv, AllSettled, Quiet
<1>8. OrderInv'
  BY <1>1, <1>2, <1>7 DEF JournalInv, OrderInv, AllSettled, Quiet, Submitted, Retired
<1>9. QED
  BY <1>4, <1>5, <1>6, <1>8 DEF JournalInv

(* The next entry is submitted in memory: everything before it is settled, *)
(* and nobody has heard of it.                                             *)
LEMMA SubmitKeeps ==
    ASSUME JournalInv, Submit
    PROVE  JournalInv'
<1> DEFINE new == [returncode |-> "none", retired |-> 0]
           R == Reconciled(mem)
<1>1. pc = "next" /\ Current < N /\ UNCHANGED <<disk, clock, trialVars, invocations>>
  BY DEF Submit
<1>2. CASE ~MaySubmit(Current + 1)
  <2>1. pc \in Trying /\ Raise(Reconciled(mem))
    BY <1>1, <1>2 DEF Submit, Trying, PCs
  <2>2. QED
    BY <1>1, <2>1, RaisesKeep
<1>3. CASE MaySubmit(Current + 1)
  <2>1. /\ pc' = "intent" /\ mem' = [R EXCEPT !.subs = Append(@, new)]
        /\ disk' = disk /\ clock' = clock /\ attempt' = attempt /\ usage' = usage
        /\ child' = child /\ launches' = launches /\ invocations' = invocations
    BY <1>1, <1>3 DEF Submit, trialVars
  <2>2. /\ R \in Journal /\ R.subs = mem.subs /\ R.events = mem.events
        /\ R.sealed = mem.sealed /\ R.status = mem.status
        /\ mem.settled \subseteq R.settled /\ \A e \in R.settled : launches[e] = 1
    BY <1>1, SettledIsLaunched
  <2>3. /\ mem \in Journal /\ mem.subs \in Seq(Submission) /\ Len(mem.subs) \in Nat
        /\ DOMAIN mem.subs = 1..Len(mem.subs) /\ disk \in Journal /\ Len(mem.subs) <= N
    BY SettledIsSubmitted, JournalFacts DEF Journal
  <2>4. new \in Submission /\ new.retired = 0
    BY DEF Submission
  <2> HIDE DEF new, R
  <2>5. /\ Append(mem.subs, new) \in Seq(Submission)
        /\ Len(Append(mem.subs, new)) = Len(mem.subs) + 1
        /\ \A e \in 1..Len(mem.subs) : Append(mem.subs, new)[e] = mem.subs[e]
        /\ Append(mem.subs, new)[Len(mem.subs) + 1] = new
    BY <2>3, <2>4
  <2> DEFINE subs == Append(mem.subs, new)
  <2> HIDE DEF subs
  <2>6. mem' = [R EXCEPT !.subs = subs]
    BY <2>1, <2>2 DEF subs
  <2>7. /\ mem' \in Journal /\ mem'.subs = subs /\ mem'.events = mem.events
        /\ mem'.settled = R.settled /\ mem'.sealed = mem.sealed /\ mem'.status = mem.status
    BY <2>2, <2>5, <2>6 DEF Journal, subs
  <2>8. /\ Len(mem'.subs) = Len(mem.subs) + 1
        /\ \A e \in 1..Len(mem.subs) : mem'.subs[e] = mem.subs[e]
        /\ mem'.subs[Len(mem.subs) + 1] = new
    BY <2>5, <2>7 DEF subs
  <2>9. /\ Retired(mem') = Retired(mem) /\ Submitted(mem) \subseteq Submitted(mem')
        /\ Len(mem.subs) + 1 \in Submitted(mem')
    <3>1. \A e : e \in Retired(mem) <=> e \in Retired(mem')
      <4>1. \A e \in 1..Len(mem.subs) + 1 : e \in 1..Len(mem.subs) \/ e = Len(mem.subs) + 1
        BY <2>3
      <4>2. \A e \in 1..Len(mem.subs) : e \in 1..Len(mem.subs) + 1
        BY <2>3
      <4>3. QED
        BY <2>3, <2>4, <2>7, <2>8, <4>1, <4>2, JournalFacts
    <3>2. \A e \in Submitted(mem) : e \in Submitted(mem')
      <4>1. \A e \in 1..Len(mem.subs) : e \in 1..Len(mem.subs) + 1
        BY <2>3
      <4>2. QED
        BY <2>3, <2>7, <2>8, <4>1, JournalFacts
    <3>3. Len(mem.subs) + 1 \in Submitted(mem')
      BY <2>3, <2>4, <2>7, <2>8, JournalFacts
    <3>4. QED
      BY <3>1, <3>2, <3>3
  <2>10. TypeOK'
    BY <2>1, <2>7 DEF JournalInv, TypeOK, PCs, Persisting, Event
  <2>11. Len(mem.subs) = Len(disk.subs)
    BY <1>1 DEF JournalInv, MemoryExtendsDisk
  <2>12. MemoryExtendsDisk'
    <3>1. Len(mem.subs) + 1 <= N
      BY <1>1, <2>3, PlanFacts DEF Current
    <3>2. \A e \in Retired(disk) : mem'.subs[e] = disk.subs[e]
      <4>1. Retired(disk) \subseteq 1..Len(mem.subs)
        BY <2>3, <2>11, JournalFacts
      <4>2. QED
        BY <1>1, <2>8, <4>1 DEF JournalInv, MemoryExtendsDisk
    <3>3. QED
      BY <1>1, <2>1, <2>2, <2>7, <2>8, <2>9, <2>11, <3>1, <3>2
         DEF JournalInv, MemoryExtendsDisk
  <2>13. LaunchInv'
    BY <1>1, <2>1, <2>2, <2>7, <2>8, <2>9 DEF JournalInv, LaunchInv, Current
  <2>14. OrderInv'
    <3>1. \A e \in Entries : e < Len(mem'.subs) => Quiet(e)'
      <4>1. \A e \in Entries : e < Len(mem.subs) + 1 => e \in DOMAIN mem.subs
        BY <2>3, PlanFacts
      <4>2. \A e \in DOMAIN mem.subs : Quiet(e)
        BY <1>1 DEF JournalInv, OrderInv, AllSettled
      <4>3. QED
        BY <2>1, <2>8, <4>1, <4>2 DEF Quiet
    <3>2. mem.status # "completed"
      BY <1>1 DEF JournalInv, OrderInv
    <3>3. QED
      BY <1>1, <2>1, <2>7, <3>1, <3>2
         DEF JournalInv, OrderInv, AllSettled, Quiet, Submitted, Retired
  <2>15. QED
    BY <2>10, <2>12, <2>13, <2>14 DEF JournalInv
<1>4. QED
  BY <1>2, <1>3

(* The submission as it is but for one of its fields *)
LEMMA ResubmittedFacts ==
    ASSUME NEW j \in Journal, NEW k \in 1..Len(j.subs), NEW s \in Submission,
           NEW i, i = [j EXCEPT !.subs[k] = s]
    PROVE  /\ i \in Journal /\ i.status = j.status /\ i.events = j.events
           /\ i.settled = j.settled /\ i.sealed = j.sealed
           /\ Len(i.subs) = Len(j.subs) /\ i.subs[k] = s
           /\ \A e \in 1..Len(j.subs) : e # k => i.subs[e] = j.subs[e]
<1>1. j.subs \in Seq(Submission) /\ DOMAIN j.subs = 1..Len(j.subs)
  BY JournalFacts DEF Journal
<1> DEFINE subs == [j.subs EXCEPT ![k] = s]
<1>2. /\ subs \in Seq(Submission) /\ Len(subs) = Len(j.subs) /\ subs[k] = s
      /\ \A e \in 1..Len(j.subs) : e # k => subs[e] = j.subs[e]
  BY <1>1
<1> HIDE DEF subs
<1>3. i = [j EXCEPT !.subs = subs]
  BY DEF subs
<1>4. QED
  BY <1>2, <1>3 DEF Journal

(* Between the intent and the launch the entry is known on both sides. *)
LEMMA DispatchFacts ==
    ASSUME JournalInv, pc = "dispatch"
    PROVE  /\ mem \in Journal /\ disk \in Journal /\ Len(mem.subs) = Len(disk.subs)
           /\ Current = Len(mem.subs) /\ Current \in Nat /\ Current > 0
           /\ launches[Current] = 0
           /\ Current \in Submitted(mem) /\ Current \notin Retired(disk)
           /\ Len(mem.events) \in Nat
<1>1. mem \in Journal /\ disk \in Journal
  BY SettledIsSubmitted
<1>2. Len(mem.subs) \in Nat /\ Len(mem.events) \in Nat
  BY <1>1, JournalFacts
<1>3. Len(mem.subs) = Len(disk.subs) /\ Retired(disk) \subseteq Retired(mem)
  BY DEF JournalInv, MemoryExtendsDisk
<1>4. Current > 0 /\ launches[Current] = 0 /\ Current \in Submitted(mem)
  BY DEF JournalInv, LaunchInv
<1>5. QED
  BY <1>1, <1>2, <1>3, <1>4 DEF Current, Submitted

(* Too late: the entry is retired, as nobody was launched for it. *)
LEMMA RetireUnlaunchedKeeps ==
    ASSUME JournalInv, RetireUnlaunched
    PROVE  JournalInv'
<1> DEFINE s == [mem.subs[Current] EXCEPT !.retired = Len(mem.events)]
<1>1. /\ pc = "dispatch" /\ pc' = "retire"
      /\ mem' = [mem EXCEPT !.subs[Current].retired = Len(mem.events)]
      /\ disk' = disk /\ clock' = clock /\ attempt' = attempt /\ usage' = usage
      /\ child' = child /\ launches' = launches /\ invocations' = invocations
  BY DEF RetireUnlaunched, trialVars
<1>2. /\ mem \in Journal /\ disk \in Journal /\ Len(mem.subs) = Len(disk.subs)
      /\ Current = Len(mem.subs) /\ Current \in Nat /\ Current > 0 /\ launches[Current] = 0
      /\ Current \in Submitted(mem) /\ Current \notin Retired(disk)
      /\ Len(mem.events) \in Nat
  BY <1>1, DispatchFacts
<1>3. s \in Submission
  BY <1>2, JournalFacts DEF Submission
<1>4. mem' = [mem EXCEPT !.subs[Current] = s]
  BY <1>1
<1> HIDE DEF s
<1>5. /\ mem' \in Journal /\ mem'.status = mem.status /\ mem'.events = mem.events
      /\ mem'.settled = mem.settled /\ mem'.sealed = mem.sealed
      /\ Len(mem'.subs) = Len(mem.subs) /\ mem'.subs[Current] = s
      /\ \A e \in 1..Len(mem.subs) : e # Current => mem'.subs[e] = mem.subs[e]
  BY <1>2, <1>3, <1>4, ResubmittedFacts
<1>6. /\ \A e \in Submitted(mem) : e # Current => e \in Submitted(mem')
      /\ \A e \in Retired(mem) : e \in Retired(mem') /\ e # Current
  <2>1. \A e : /\ e \in Retired(mem) <=> e \in 1..Len(mem.subs) /\ mem.subs[e].retired # 0
               /\ e \in Submitted(mem) <=> e \in 1..Len(mem.subs) /\ mem.subs[e].retired = 0
    BY <1>2, JournalFacts
  <2>2. \A e : /\ e \in Retired(mem') <=> e \in 1..Len(mem.subs) /\ mem'.subs[e].retired # 0
               /\ e \in Submitted(mem') <=> e \in 1..Len(mem.subs) /\ mem'.subs[e].retired = 0
    BY <1>5, JournalFacts
  <2>3. QED
    BY <1>2, <1>5, <2>1, <2>2
<1>7. TypeOK'
  BY <1>1, <1>5 DEF JournalInv, TypeOK, PCs, Persisting, Event
<1>8. MemoryExtendsDisk'
  <2>1. \A e \in Retired(disk) : e \in Retired(mem) /\ mem'.subs[e] = disk.subs[e]
    BY <1>1, <1>2, <1>5, <1>6, JournalFacts DEF JournalInv, MemoryExtendsDisk
  <2>2. QED
    BY <1>1, <1>2, <1>5, <1>6, <2>1 DEF JournalInv, MemoryExtendsDisk
<1>9. LaunchInv'
  <2>1. Submitted(disk)' = Submitted(disk)
    BY <1>1 DEF Submitted, Retired
  <2>2. \A e \in Entries : launches[e] = 1 => e \in Submitted(disk) /\ e \in Submitted(mem')
    BY <1>1, <1>2, <1>6, SettledIsSubmitted
  <2>3. Current' = Current
    BY <1>5 DEF Current
  <2>4. QED
    BY <1>1, <1>2, <1>5, <2>1, <2>2, <2>3 DEF JournalInv, LaunchInv
<1>10. OrderInv'
  BY <1>1, <1>2, <1>5 DEF JournalInv, OrderInv, AllSettled, Quiet, Submitted, Retired
<1>11. QED
  BY <1>7, <1>8, <1>9, <1>10 DEF JournalInv

(* A launch is of an entry that every reader of the journal knows. *)
LEMMA LaunchKeeps ==
    ASSUME JournalInv, Launch
    PROVE  JournalInv'
<1>1. /\ pc = "dispatch" /\ pc' = "waiting" /\ mem' = mem /\ disk' = disk /\ clock' = clock
      /\ attempt' = attempt /\ usage' = usage /\ invocations' = invocations
      /\ child' = [child EXCEPT ![Current] = "launched"]
      /\ launches' = [launches EXCEPT ![Current] = @ + 1]
  BY DEF Launch
<1>2. /\ mem \in Journal /\ disk \in Journal /\ Len(mem.subs) = Len(disk.subs)
      /\ Current = Len(mem.subs) /\ Current \in Nat /\ Current > 0 /\ launches[Current] = 0
      /\ Current \in Submitted(mem) /\ Current \notin Retired(disk)
  BY <1>1, DispatchFacts
<1>3. Current \in Entries /\ Current \in Submitted(disk)
  BY <1>2, JournalFacts, PlanFacts, SettledIsSubmitted
<1>4. /\ launches'[Current] = 1 /\ launches' \in [Entries -> Nat]
      /\ \A e \in Entries : e # Current => launches'[e] = launches[e] /\ child'[e] = child[e]
      /\ child' \in [Entries -> Children]
  BY <1>1, <1>2, <1>3 DEF JournalInv, TypeOK, Children
<1>5. TypeOK'
  BY <1>1, <1>4 DEF JournalInv, TypeOK, PCs
<1>6. MemoryExtendsDisk'
  BY <1>1 DEF JournalInv, MemoryExtendsDisk, Retired
<1>7. LaunchInv'
  <2>1. \A e \in disk.settled \cup mem.settled : e \in Entries
    BY <1>2 DEF Journal
  <2>2. Submitted(disk)' = Submitted(disk) /\ Submitted(mem)' = Submitted(mem)
    BY <1>1 DEF Submitted, Retired
  <2>3. QED
    BY <1>1, <1>2, <1>3, <1>4, <2>1, <2>2 DEF JournalInv, LaunchInv, Current
<1>8. OrderInv'
  <2>1. \A e \in Entries : e # Current /\ Quiet(e) => Quiet(e)'
    BY <1>1, <1>4 DEF Quiet
  <2>2. \A e \in Entries : e < Len(mem.subs) => Quiet(e)'
    BY <1>1, <1>2, <2>1 DEF JournalInv, OrderInv
  <2>3. ~AllSettled(disk)
    BY <1>2, <1>3 DEF AllSettled, JournalInv, LaunchInv
  <2>4. mem.status # "completed"
    BY <1>1 DEF JournalInv, OrderInv
  <2>5. QED
    BY <1>1, <1>2, <2>2, <2>3, <2>4 DEF JournalInv, OrderInv
<1>9. QED
  BY <1>5, <1>6, <1>7, <1>8 DEF JournalInv

(* The child's return code is noted, of an entry that was launched. *)
LEMMA ChildReturnedKeeps ==
    ASSUME JournalInv, ChildReturned
    PROVE  JournalInv'
<1> DEFINE s == [mem.subs[Current] EXCEPT !.returncode =
                    IF attempt[Current] = "completed" THEN "zero" ELSE "error"]
<1>1. /\ pc = "waiting" /\ pc' = "returned"
      /\ mem' = [mem EXCEPT !.subs[Current].returncode =
                    IF attempt[Current] = "completed" THEN "zero" ELSE "error"]
      /\ disk' = disk /\ clock' = clock /\ attempt' = attempt /\ usage' = usage
      /\ child' = child /\ launches' = launches /\ invocations' = invocations
  BY DEF ChildReturned, trialVars
<1>2. mem \in Journal /\ disk \in Journal /\ Len(mem.subs) \in Nat
  BY SettledIsSubmitted, JournalFacts
<1>3. Current > 0 /\ launches[Current] = 1 /\ Current = Len(mem.subs) /\ Current \in Entries
  BY <1>1, <1>2, SettledIsSubmitted, PlanFacts DEF JournalInv, LaunchInv, Current
<1>4. Current \in 1..Len(mem.subs) /\ Current \in Submitted(disk) /\ Current \in Submitted(mem)
  BY <1>1, <1>2, <1>3, SettledIsSubmitted
<1>5. s \in Submission /\ s.retired = mem.subs[Current].retired
  <2>1. mem.subs[Current] \in Submission
    BY <1>2, <1>4, JournalFacts
  <2>2. QED
    BY <2>1 DEF Submission
<1>6. mem' = [mem EXCEPT !.subs[Current] = s]
  BY <1>1
<1> HIDE DEF s
<1>7. /\ mem' \in Journal /\ mem'.status = mem.status /\ mem'.events = mem.events
      /\ mem'.settled = mem.settled /\ mem'.sealed = mem.sealed
      /\ Len(mem'.subs) = Len(mem.subs) /\ mem'.subs[Current] = s
      /\ \A e \in 1..Len(mem.subs) : e # Current => mem'.subs[e] = mem.subs[e]
  BY <1>2, <1>4, <1>5, <1>6, ResubmittedFacts
<1>8. Submitted(mem') = Submitted(mem) /\ Retired(mem') = Retired(mem)
  <2>1. \A e \in 1..Len(mem.subs) : mem'.subs[e].retired = mem.subs[e].retired
    BY <1>5, <1>7
  <2>2. DOMAIN mem'.subs = DOMAIN mem.subs /\ DOMAIN mem.subs = 1..Len(mem.subs)
    BY <1>2, <1>7, JournalFacts
  <2>3. \A e \in DOMAIN mem.subs : mem'.subs[e].retired = mem.subs[e].retired
    BY <2>1, <2>2
  <2>4. Retired(mem') = Retired(mem)
    BY <2>2, <2>3 DEF Retired
  <2>5. Submitted(mem') = Submitted(mem)
    BY <2>2, <2>4 DEF Submitted
  <2>6. QED
    BY <2>4, <2>5
<1>9. TypeOK'
  BY <1>1, <1>7 DEF JournalInv, TypeOK, PCs, Persisting, Event
<1>10. MemoryExtendsDisk'
  <2>1. \A e \in Retired(disk) : mem'.subs[e] = disk.subs[e]
    <3>1. \A e \in Retired(disk) : e # Current /\ e \in 1..Len(mem.subs)
      BY <1>1, <1>2, <1>4, JournalFacts DEF JournalInv, MemoryExtendsDisk
    <3>2. QED
      BY <1>1, <1>7, <3>1 DEF JournalInv, MemoryExtendsDisk
  <2>2. QED
    BY <1>1, <1>7, <1>8, <2>1 DEF JournalInv, MemoryExtendsDisk
<1>11. LaunchInv'
  BY <1>1, <1>3, <1>7, <1>8 DEF JournalInv, LaunchInv, Current
<1>12. OrderInv'
  BY <1>1, <1>7 DEF JournalInv, OrderInv, AllSettled, Quiet, Submitted, Retired
<1>13. QED
  BY <1>9, <1>10, <1>11, <1>12 DEF JournalInv

(* The entry is settled only if it is resolved. *)
LEMMA CheckReturnedKeeps ==
    ASSUME JournalInv, CheckReturned
    PROVE  JournalInv'
<1>1. pc = "check" /\ UNCHANGED <<disk, clock, trialVars, invocations>>
  BY DEF CheckReturned
<1>2. pc \in Trying /\ pc # "idle"
  BY <1>1 DEF Trying, PCs
<1>3. CASE Raise(mem) \/ Raise(Reconciled(mem))
  BY <1>1, <1>2, <1>3, RaisesKeep
<1>4. CASE Reconciles(mem) /\ pc' = "settle" /\ mem' = Reconciled(mem)
  <2>1. /\ disk' = disk /\ clock' = clock /\ attempt' = attempt /\ usage' = usage
        /\ child' = child /\ launches' = launches /\ invocations' = invocations
    BY <1>1 DEF trialVars
  <2>2. /\ mem' \in Journal /\ mem'.subs = mem.subs /\ mem'.events = mem.events
        /\ mem'.sealed = mem.sealed /\ mem'.status = mem.status
        /\ mem.settled \subseteq mem'.settled /\ \A e \in mem'.settled : launches[e] = 1
        /\ mem'.settled = Submitted(mem)
        /\ \A e \in DOMAIN mem.subs : Quiet(e) /\ (launches[e] = 0 => e \in Retired(mem))
    BY <1>2, <1>4, SettledIsLaunched
  <2>3. Retired(mem') = Retired(mem) /\ Submitted(mem') = Submitted(mem)
    BY <2>2, SameSubmissions
  <2>4. TypeOK'
    BY <1>4, <2>1, <2>2 DEF JournalInv, TypeOK, PCs, Persisting, Event
  <2>5. MemoryExtendsDisk'
    BY <1>1, <1>4, <2>1, <2>2, <2>3 DEF JournalInv, MemoryExtendsDisk
  <2>6. LaunchInv'
    BY <1>1, <1>4, <2>1, <2>2, <2>3 DEF JournalInv, LaunchInv
  <2>7. AllSettled(mem)'
    BY <2>1, <2>2, <2>3 DEF AllSettled, Quiet
  <2>8. OrderInv'
    BY <1>1, <1>4, <2>1, <2>2, <2>7
       DEF JournalInv, OrderInv, AllSettled, Quiet, Submitted, Retired
  <2>9. QED
    BY <2>4, <2>5, <2>6, <2>8 DEF JournalInv
<1>5. QED
  BY <1>3, <1>4 DEF CheckReturned

(* A trial that is killed leaves what has ended well as it is. *)
LEMMA KilledGoesOn ==
    ASSUME JournalInv, NEW e \in Entries, launches[e] # 0, Killed(e)
    PROVE  TrialsGoOn /\ launches' = launches
<1>1. /\ child' = [child EXCEPT ![e] = "none"] /\ usage' = usage /\ launches' = launches
      /\ \/ attempt' = attempt
         \/ attempt[e] = "running" /\ attempt' = [attempt EXCEPT ![e] = "failed"]
  BY DEF Killed
<1>2. attempt' \in [Entries -> Attempts] /\ child' \in [Entries -> Children]
  BY <1>1 DEF JournalInv, TypeOK, Attempts, Children
<1>3. \A d \in Entries :
         /\ launches[d] = 0 => attempt'[d] = "missing" /\ child'[d] = "none"
         /\ attempt[d] \in Terminal => attempt'[d] \in Terminal
  BY <1>1 DEF JournalInv, TypeOK, LaunchInv, Terminal
<1>4. QED
  BY <1>1, <1>2, <1>3 DEF TrialsGoOn, JournalInv, TypeOK

(* The launcher kills the trial it waits for, and the run stops. *)
LEMMA LauncherRaisesKeeps ==
    ASSUME JournalInv, LauncherRaises
    PROVE  JournalInv'
<1>1. /\ pc = "waiting" /\ Killed(Current) /\ Raise(mem)
      /\ UNCHANGED <<disk, clock, invocations>>
  BY DEF LauncherRaises
<1>2. mem \in Journal /\ disk \in Journal /\ Len(mem.subs) \in Nat /\ Len(mem.events) \in Nat
  BY SettledIsSubmitted, JournalFacts
<1>3. Current \in Entries /\ launches[Current] # 0
  BY <1>1, <1>2, SettledIsSubmitted, PlanFacts DEF JournalInv, LaunchInv, Current
<1>4. TrialsGoOn /\ launches' = launches
  BY <1>1, <1>3, KilledGoesOn
<1>5. pc \in Trying
  BY <1>1 DEF Trying, PCs
<1>6. \A e \in mem.settled : launches[e] = 1
  BY DEF JournalInv, LaunchInv
<1>7. QED
  BY <1>1, <1>2, <1>4, <1>5, <1>6, RaiseKeeps

(* An exception, also one in persist() after the event was appended *)
LEMMA InterruptedKeeps ==
    ASSUME JournalInv, Interrupted
    PROVE  JournalInv'
<1>1. pc \in Trying /\ UNCHANGED <<disk, clock, trialVars, invocations>>
  BY DEF Interrupted
<1>2. CASE Raise(mem)
  BY <1>1, <1>2, RaisesKeep
<1>3. CASE pc \in Persisting /\ Raise(Written)
  <2>1. TrialsGoOn /\ launches' = launches
    BY <1>1, NoTrialSteps DEF trialVars
  <2>2. mem \in Journal /\ Len(mem.events) \in Nat
    BY SettledIsSubmitted, JournalFacts
  <2>3. /\ Written \in Journal /\ Written.subs = mem.subs /\ Written.sealed = mem.sealed
        /\ Written.settled = mem.settled /\ Len(mem.events) <= Len(Written.events)
        /\ \A i \in DOMAIN mem.events : Written.events[i] = mem.events[i]
    BY <1>3, <2>2, WrittenFacts
  <2>4. \A e \in mem.settled : launches[e] = 1
    BY DEF JournalInv, LaunchInv
  <2>5. QED
    BY <1>1, <1>3, <2>1, <2>3, <2>4, RaiseKeeps
<1>4. QED
  BY <1>2, <1>3 DEF Interrupted

-----------------------------------------------------------------------------
(* The file is replaced by what is in memory and the event, whatever       *)
(* becomes of the invocation.                                              *)
LEMMA WritingKeeps ==
    ASSUME JournalInv, pc \in Persisting, disk' = Written,
           UNCHANGED <<clock, trialVars, invocations>>,
           \/ Idle
           \/ pc' = Following[pc] /\ pc' # "idle"
              /\ mem' = IF pc' = "stop" THEN [Written EXCEPT !.status = "stopped"] ELSE Written
    PROVE  JournalInv'
<1>1. /\ clock' = clock /\ attempt' = attempt /\ usage' = usage /\ child' = child
      /\ launches' = launches /\ invocations' = invocations
  BY DEF trialVars
<1>2. pc # "idle" /\ mem \in Journal /\ disk \in Journal
  BY DEF JournalInv, TypeOK, Persisting, Event
<1>3. /\ disk' \in Journal /\ disk'.status = mem.status /\ disk'.subs = mem.subs
      /\ disk'.settled = mem.settled /\ disk'.sealed = mem.sealed
      /\ Retired(disk') = Retired(mem) /\ Submitted(disk') = Submitted(mem)
      /\ Len(disk'.events) \in Nat
  BY <1>2, WrittenFacts, JournalFacts
<1>4. AllSettled(mem) => AllSettled(disk)'
  BY <1>1, <1>3 DEF AllSettled, Quiet
<1>5. mem.sealed \/ mem.status = "completed" => AllSettled(mem)
  BY <1>2 DEF JournalInv, OrderInv, MemoryExtendsDisk, Persisting, Event
<1>6. \A e \in Entries : e < Len(disk'.subs) => Quiet(e)'
  BY <1>1, <1>2, <1>3 DEF JournalInv, OrderInv, Quiet
<1>7. \A e \in Entries :
         /\ launches'[e] \in {0, 1}
         /\ launches'[e] = 1 => e \in Submitted(disk')
         /\ launches'[e] = 0 => attempt'[e] = "missing" /\ child'[e] = "none"
  BY <1>1, <1>2, <1>3 DEF JournalInv, LaunchInv
<1>8. /\ disk'.status # "absent" /\ Len(disk'.subs) <= N
      /\ \A e \in disk'.settled : launches'[e] = 1
  BY <1>1, <1>2, <1>3 DEF JournalInv, MemoryExtendsDisk, LaunchInv
<1>9. CASE Idle
  <2>1. pc' = "idle" /\ mem' = NoJournal
    BY <1>9 DEF Idle
  <2>2. TypeOK'
    BY <1>1, <1>3, <2>1, NoJournalFacts DEF JournalInv, TypeOK, PCs
  <2>3. MemoryExtendsDisk'
    BY <1>8, <2>1, NoJournalFacts, PlanFacts DEF MemoryExtendsDisk
  <2>4. LaunchInv'
    BY <1>7, <1>8, <2>1, NoJournalFacts DEF LaunchInv
  <2>5. OrderInv'
    BY <1>3, <1>4, <1>5, <1>6, <2>1, NoJournalFacts DEF OrderInv
  <2>6. QED
    BY <2>2, <2>3, <2>4, <2>5 DEF JournalInv
<1>10. CASE /\ pc' = Following[pc] /\ pc' # "idle"
            /\ mem' = IF pc' = "stop" THEN [Written EXCEPT !.status = "stopped"] ELSE Written
  <2>1. \/ pc = "admitted" /\ pc' = "next"
        \/ pc = "intent" /\ pc' = "dispatch"
        \/ pc = "retire" /\ pc' = "stop"
        \/ pc = "returned" /\ pc' = "check"
        \/ pc = "settle" /\ pc' = "next"
    BY <1>10 DEF Persisting, Event, Following
  <2>2. /\ mem' \in Journal /\ mem'.subs = mem.subs /\ mem'.events = disk'.events
        /\ mem'.settled = mem.settled /\ mem'.sealed = mem.sealed
        /\ mem'.status = IF pc' = "stop" THEN "stopped" ELSE mem.status
    BY <1>3, <1>10 DEF Journal
  <2>3. Retired(mem') = Retired(mem) /\ Submitted(mem') = Submitted(mem)
    BY <2>2, SameSubmissions
  <2>4. ~mem.sealed /\ mem.status # "completed"
    BY <1>2, <2>1 DEF JournalInv, MemoryExtendsDisk, OrderInv
  <2>5. TypeOK'
    BY <1>1, <1>3, <2>1, <2>2 DEF JournalInv, TypeOK, PCs, Persisting, Event
  <2>6. MemoryExtendsDisk'
    BY <1>3, <1>8, <2>1, <2>2, <2>3, <2>4 DEF MemoryExtendsDisk
  <2>7. LaunchInv'
    <3>1. pc' = "dispatch" => Current' > 0 /\ launches'[Current'] = 0 /\ Current' \in Submitted(mem')
      <4>1. SUFFICES ASSUME pc = "intent"
                     PROVE  Current > 0 /\ launches[Current] = 0 /\ Current \in Submitted(mem)
        BY <1>1, <2>1, <2>2, <2>3 DEF Current
      <4>2. /\ Current \in Submitted(mem) /\ Len(mem.subs) = Len(disk.subs) + 1
            /\ Len(mem.subs) <= N /\ Current = Len(mem.subs)
        BY <4>1 DEF JournalInv, LaunchInv, MemoryExtendsDisk, Current
      <4>3. Len(disk.subs) \in Nat
        BY <1>2, JournalFacts
      <4>4. Current \in Entries /\ Current \notin Submitted(disk) /\ Current > 0
        BY <1>2, <4>2, <4>3, JournalFacts, PlanFacts
      <4>5. QED
        BY <4>2, <4>4 DEF JournalInv, LaunchInv
    <3>2. pc' = "check" => Current' > 0 /\ launches'[Current'] = 1
      BY <1>1, <2>1, <2>2 DEF JournalInv, LaunchInv, Current
    <3>3. \A e \in Entries : launches'[e] = 1 => e \in Submitted(disk') /\ e \in Submitted(mem')
      BY <1>3, <1>7, <2>3
    <3>4. \A e \in mem'.settled : launches'[e] = 1
      BY <1>3, <1>8, <2>2
    <3>5. QED
      BY <1>7, <1>8, <2>1, <3>1, <3>2, <3>3, <3>4 DEF LaunchInv
  <2>8. OrderInv'
    <3>1. pc' = "next" => AllSettled(mem)'
      BY <1>1, <2>1, <2>2, <2>3 DEF JournalInv, OrderInv, AllSettled, Quiet
    <3>2. QED
      BY <1>3, <1>6, <2>1, <2>2, <2>4, <3>1 DEF OrderInv
  <2>9. QED
    BY <2>5, <2>6, <2>7, <2>8 DEF JournalInv
<1>11. QED
  BY <1>9, <1>10

(* persist() returns, or raises once the file is replaced. *)
LEMMA PersistKeeps ==
    ASSUME JournalInv, Persist \/ LostReply
    PROVE  JournalInv'
<1>1. pc \in Persisting /\ disk' = Written /\ UNCHANGED <<clock, trialVars, invocations>>
  BY DEF Persist, LostReply
<1>2. CASE LostReply
  BY <1>1, <1>2, WritingKeeps DEF LostReply
<1>3. CASE Persist
  <2>1. CASE pc' = "idle"
    <3>1. mem' = NoJournal
      BY <1>3, <2>1 DEF Persist
    <3>2. QED
      BY <1>1, <2>1, <3>1, WritingKeeps DEF Idle
  <2>2. CASE pc' = "stop"
    <3>1. mem' = [Written EXCEPT !.status = "stopped"]
      BY <1>3, <2>2 DEF Persist
    <3>2. QED
      BY <1>1, <1>3, <2>2, <3>1, WritingKeeps DEF Persist
  <2>3. CASE pc' # "idle" /\ pc' # "stop"
    <3>1. mem' = Written
      BY <1>3, <2>3 DEF Persist
    <3>2. QED
      BY <1>1, <1>3, <2>3, <3>1, WritingKeeps DEF Persist
  <2>4. QED
    BY <2>1, <2>2, <2>3
<1>4. QED
  BY <1>2, <1>3

-----------------------------------------------------------------------------
(* The trials and the clock *)

(* A step of a trial needs a trial, which needs a launch. *)
LEMMA TrialStepsGoOn ==
    ASSUME JournalInv, NEW e \in Entries,
           ChildAdmitted(e) \/ TrialBegins(e) \/ TrialEnds(e) \/ TrialDies(e) \/ Recover(e)
    PROVE  TrialsGoOn /\ UNCHANGED <<disk, mem, pc, clock, launches, invocations>>
<1>1. /\ attempt \in [Entries -> Attempts] /\ usage \in [Entries -> Nat]
      /\ child \in [Entries -> Children]
      /\ \A d \in Entries : launches[d] = 0 => attempt[d] = "missing" /\ child[d] = "none"
  BY DEF JournalInv, TypeOK, LaunchInv
<1>2. CASE ChildAdmitted(e)
  BY <1>1, <1>2 DEF ChildAdmitted, TrialsGoOn, Children
<1>3. CASE TrialBegins(e)
  BY <1>1, <1>3 DEF TrialBegins, TrialsGoOn, Attempts, Terminal
<1>4. CASE TrialEnds(e)
  <2>1. PICK status \in {"completed", "failed"} : attempt' = [attempt EXCEPT ![e] = status]
    BY <1>4 DEF TrialEnds
  <2>2. PICK u \in Usages : usage' = [usage EXCEPT ![e] = u]
    BY <1>4 DEF TrialEnds
  <2>3. /\ child[e] = "admitted" /\ attempt[e] = "running"
        /\ child' = [child EXCEPT ![e] = "none"]
        /\ UNCHANGED <<disk, mem, pc, clock, launches, invocations>>
    BY <1>4 DEF TrialEnds
  <2>4. u \in Nat
    BY CoordinatorAssumption
  <2>5. usage' \in [Entries -> Nat]
    BY <1>1, <2>2, <2>4
  <2>6. attempt' \in [Entries -> Attempts] /\ child' \in [Entries -> Children]
    BY <1>1, <2>1, <2>3 DEF Attempts, Children, Terminal
  <2>7. \A d \in Entries :
           /\ launches[d] = 0 => attempt'[d] = "missing" /\ child'[d] = "none"
           /\ attempt[d] \in Terminal => attempt'[d] \in Terminal
    BY <1>1, <2>1, <2>3 DEF Terminal
  <2>8. QED
    BY <2>3, <2>5, <2>6, <2>7 DEF TrialsGoOn
<1>5. CASE TrialDies(e)
  <2>1. launches[e] # 0
    BY <1>1, <1>5 DEF TrialDies
  <2>2. TrialsGoOn /\ launches' = launches
    BY <1>5, <2>1, KilledGoesOn DEF TrialDies
  <2>3. QED
    BY <1>5, <2>2 DEF TrialDies
<1>6. CASE Recover(e)
  BY <1>1, <1>6 DEF Recover, TrialsGoOn, Attempts, Terminal
<1>7. QED
  BY <1>2, <1>3, <1>4, <1>5, <1>6

(* The clock ticks. *)
LEMMA TickKeeps ==
    ASSUME JournalInv, Tick
    PROVE  JournalInv'
<1>1. clock' \in Nat
  BY DEF Tick, JournalInv, TypeOK
<1>2. TrialsGoOn
  BY NoTrialSteps DEF Tick
<1>3. QED
  BY <1>1, <1>2, TrialsKeep DEF Tick, trialVars

-----------------------------------------------------------------------------
(* The invariant *)

(* No journal, no trial *)
LEMMA CoordinatorInit == Init => JournalInv
<1> SUFFICES ASSUME Init
             PROVE  JournalInv
  OBVIOUS
<1>1. TypeOK
  BY NoJournalFacts, CoordinatorAssumption DEF Init, TypeOK, PCs, Attempts, Children
<1>2. MemoryExtendsDisk
  BY NoJournalFacts, PlanFacts DEF Init, MemoryExtendsDisk
<1>3. LaunchInv
  BY NoJournalFacts DEF Init, LaunchInv
<1>4. OrderInv
  BY NoJournalFacts DEF Init, OrderInv, Quiet
<1>5. QED
  BY <1>1, <1>2, <1>3, <1>4 DEF JournalInv

(* Every step keeps it. *)
LEMMA CoordinatorNext == JournalInv /\ [Next]_vars => JournalInv'
<1> SUFFICES ASSUME JournalInv, [Next]_vars
             PROVE  JournalInv'
  OBVIOUS
<1>1. CASE Run
  BY <1>1, RunKeeps
<1>2. CASE Resume
  BY <1>2, ResumeKeeps
<1>3. CASE Seal
  BY <1>3, SealKeeps
<1>4. CASE Step
  <2>1. CASE Admit
    BY <2>1, AdmitKeeps
  <2>2. CASE Persist
    BY <2>2, PersistKeeps
  <2>3. CASE AllSubmitted
    BY <2>3, AllSubmittedKeeps
  <2>4. CASE Submit
    BY <2>4, SubmitKeeps
  <2>5. CASE RetireUnlaunched
    BY <2>5, RetireUnlaunchedKeeps
  <2>6. CASE Launch
    BY <2>6, LaunchKeeps
  <2>7. CASE ChildReturned
    BY <2>7, ChildReturnedKeeps
  <2>8. CASE CheckReturned
    BY <2>8, CheckReturnedKeeps
  <2>9. CASE LauncherRaises
    BY <2>9, LauncherRaisesKeeps
  <2>10. QED
    BY <1>4, <2>1, <2>2, <2>3, <2>4, <2>5, <2>6, <2>7, <2>8, <2>9 DEF Step
<1>5. CASE Faults
  <2>1. CASE Interrupted
    BY <2>1, InterruptedKeeps
  <2>2. CASE LostReply
    BY <2>2, PersistKeeps
  <2>3. CASE WriteFails
    BY <2>3, IdleKeeps DEF WriteFails
  <2>4. CASE Crash
    BY <2>4, IdleKeeps DEF Crash
  <2>5. QED
    BY <1>5, <2>1, <2>2, <2>3, <2>4 DEF Faults
<1>6. CASE Trials
  <2>1. PICK e \in Entries :
           ChildAdmitted(e) \/ TrialBegins(e) \/ TrialEnds(e) \/ TrialDies(e) \/ Recover(e)
    BY <1>6 DEF Trials
  <2>2. TrialsGoOn /\ UNCHANGED <<disk, mem, pc, clock, launches, invocations>>
    BY <2>1, TrialStepsGoOn
  <2>3. clock' \in Nat
    BY <2>2 DEF JournalInv, TypeOK
  <2>4. QED
    BY <2>2, <2>3, TrialsKeep
<1>7. CASE Tick
  BY <1>7, TickKeeps
<1>8. CASE UNCHANGED vars
  <2>1. TrialsGoOn
    BY <1>8, NoTrialSteps DEF vars, trialVars
  <2>2. clock' \in Nat /\ UNCHANGED <<disk, mem, pc, launches, invocations>>
    BY <1>8 DEF vars, JournalInv, TypeOK
  <2>3. QED
    BY <2>1, <2>2, TrialsKeep
<1>9. QED
  BY <1>1, <1>2, <1>3, <1>4, <1>5, <1>6, <1>7, <1>8 DEF Next

(* JournalInv always holds. *)
LEMMA JournalSafety == Spec => []JournalInv
BY CoordinatorInit, CoordinatorNext, PTL DEF Spec

-----------------------------------------------------------------------------
(* Sums over a finite set, as SumFunctionOnSet takes them: one element     *)
(* after the other, in the order CHOOSE has.  Every induction below is     *)
(* about a smallest subset for which the statement would fail.             *)

Chosen(s) == CHOOSE x \in s : TRUE

(* g is the running sum of f on the subsets of S, as SumFunctionOnSet has it. *)
Summing(f, S, g) ==
    g = [s \in SUBSET S |->
            IF s = {} THEN 0 ELSE f[Chosen(s)] + g[s \ {Chosen(s)}]]

(* What SumFunctionOnSet says *)
LEMMA SumIs ==
    ASSUME NEW f, NEW S
    PROVE  SumFunctionOnSet(f, S) = (CHOOSE g : Summing(f, S, g))[S]
BY DEF SumFunctionOnSet, FoldFunctionOnSet, MapThenFoldSet, Summing, Chosen

(* There is an element to begin with. *)
LEMMA ChosenIn == ASSUME NEW s, s # {} PROVE Chosen(s) \in s
BY DEF Chosen

(* Sets of subsets of a finite set have smallest members. *)
LEMMA SmallestSubset ==
    ASSUME NEW S, IsFiniteSet(S), NEW B, B \subseteq SUBSET S, B # {}
    PROVE  \E s \in B : \A t \in B : t \subseteq s => t = s
<1>1. IsWellFoundedOn(StrictSubsetOrdering(S), FiniteSubsetsOf(S))
  BY FS_StrictSubsetOrderingWellFounded
<1>2. IsWellFoundedOn(StrictSubsetOrdering(S), SUBSET S)
  BY <1>1, FS_FiniteSubsetsOfFinite
<1>3. \E s \in B : \A t \in B : ~(<<t, s>> \in StrictSubsetOrdering(S))
  BY <1>2, WFMin
<1>4. QED
  BY <1>3 DEF StrictSubsetOrdering

(* Running sums over a set and over a part of it agree on that part.      *)
LEMMA SummingAgrees ==
    ASSUME NEW S, IsFiniteSet(S), NEW T \in SUBSET S, NEW f, NEW g, NEW h,
           Summing(f, S, g), Summing(f, T, h), NEW u \in SUBSET T
    PROVE  g[u] = h[u]
<1> DEFINE B == {s \in SUBSET T : g[s] # h[s]}
<1>1. SUFFICES ASSUME B # {} PROVE FALSE
  OBVIOUS
<1>2. PICK s \in B : \A t \in B : t \subseteq s => t = s
  <2>1. B \subseteq SUBSET S
    OBVIOUS
  <2> HIDE DEF B
  <2>2. QED
    BY <1>1, <2>1, SmallestSubset
<1>3. g[s] = IF s = {} THEN 0 ELSE f[Chosen(s)] + g[s \ {Chosen(s)}]
  BY DEF Summing
<1>4. h[s] = IF s = {} THEN 0 ELSE f[Chosen(s)] + h[s \ {Chosen(s)}]
  BY DEF Summing
<1>5. s # {}
  BY <1>2, <1>3, <1>4
<1>6. s \ {Chosen(s)} \in SUBSET T /\ s \ {Chosen(s)} \notin B
  BY <1>2, <1>5, ChosenIn
<1>7. QED
  BY <1>2, <1>3, <1>4, <1>6

(* There is a running sum. *)
LEMMA SummingExists ==
    ASSUME NEW S, IsFiniteSet(S), NEW f
    PROVE  \E g : Summing(f, S, g)
<1> DEFINE B == {s \in SUBSET S : ~ \E g : Summing(f, s, g)}
<1>1. SUFFICES ASSUME B # {} PROVE FALSE
  OBVIOUS
<1>2. PICK T \in B : \A t \in B : t \subseteq T => t = T
  <2>1. B \subseteq SUBSET S
    OBVIOUS
  <2> HIDE DEF B
  <2>2. QED
    BY <1>1, <2>1, SmallestSubset
<1> DEFINE part(s) == CHOOSE g : Summing(f, s, g)
           value(s) == IF s = {} THEN 0 ELSE f[Chosen(s)] + part(s \ {Chosen(s)})[s \ {Chosen(s)}]
           whole == [s \in SUBSET T |-> value(s)]
<1>3. ASSUME NEW s \in SUBSET T, s # T
      PROVE  /\ Summing(f, s, part(s))
             /\ part(s)[s] = IF s = {} THEN 0 ELSE f[Chosen(s)] + part(s)[s \ {Chosen(s)}]
  <2>1. s \notin B /\ s \in SUBSET S
    BY <1>2, <1>3
  <2>2. \E g : Summing(f, s, g)
    BY <2>1
  <2>3. Summing(f, s, part(s))
    BY <2>2
  <2>4. QED
    BY <2>3 DEF Summing
<1>4. ASSUME NEW s \in SUBSET T, s # T, s # {}
      PROVE  part(s)[s] = value(s)
  <2>1. s \ {Chosen(s)} \in SUBSET s /\ s \ {Chosen(s)} # T /\ IsFiniteSet(s)
    BY <1>4, ChosenIn, FS_Subset
  <2>2. Summing(f, s, part(s)) /\ Summing(f, s \ {Chosen(s)}, part(s \ {Chosen(s)}))
    BY <1>3, <1>4, <2>1
  <2>3. part(s)[s \ {Chosen(s)}] = part(s \ {Chosen(s)})[s \ {Chosen(s)}]
    BY <2>1, <2>2, SummingAgrees
  <2>4. QED
    BY <1>3, <1>4, <2>3
<1>5. ASSUME NEW s \in SUBSET T
      PROVE  value(s) = IF s = {} THEN 0 ELSE f[Chosen(s)] + whole[s \ {Chosen(s)}]
  <2>1. CASE s = {}
    BY <2>1
  <2>2. CASE s # {}
    <3>1. s \ {Chosen(s)} \in SUBSET T /\ s \ {Chosen(s)} # T
      BY <2>2, ChosenIn
    <3>2. part(s \ {Chosen(s)})[s \ {Chosen(s)}] = value(s \ {Chosen(s)})
      <4>1. CASE s \ {Chosen(s)} = {}
        BY <1>3, <3>1, <4>1
      <4>2. CASE s \ {Chosen(s)} # {}
        BY <1>4, <3>1, <4>2
      <4>3. QED
        BY <4>1, <4>2
    <3>3. QED
      BY <2>2, <3>1, <3>2
  <2>3. QED
    BY <2>1, <2>2
<1>6. Summing(f, T, whole)
  <2> DEFINE sum(s) == IF s = {} THEN 0 ELSE f[Chosen(s)] + whole[s \ {Chosen(s)}]
  <2>1. whole = [s \in SUBSET T |-> value(s)]
    OBVIOUS
  <2>2. \A s \in SUBSET T : value(s) = sum(s)
    BY <1>5
  <2> HIDE DEF value
  <2>3. whole = [s \in SUBSET T |-> sum(s)]
    BY <2>1, <2>2
  <2> HIDE DEF whole
  <2>4. QED
    BY <2>3 DEF Summing
<1>7. QED
  BY <1>2, <1>6

(* What a sum is, its first element being the one CHOOSE picks *)
LEMMA SumUnfolds ==
    ASSUME NEW S, IsFiniteSet(S), NEW f
    PROVE  SumFunctionOnSet(f, S) =
               IF S = {} THEN 0
               ELSE f[Chosen(S)] + SumFunctionOnSet(f, S \ {Chosen(S)})
<1>1. PICK g : Summing(f, S, g) /\ SumFunctionOnSet(f, S) = g[S]
  <2>1. Summing(f, S, CHOOSE g : Summing(f, S, g))
    BY SummingExists
  <2>2. QED
    BY <2>1, SumIs
<1>2. g[S] = IF S = {} THEN 0 ELSE f[Chosen(S)] + g[S \ {Chosen(S)}]
  BY <1>1 DEF Summing
<1>3. ASSUME S # {}
      PROVE  SumFunctionOnSet(f, S \ {Chosen(S)}) = g[S \ {Chosen(S)}]
  <2> DEFINE T == S \ {Chosen(S)}
  <2>1. T \in SUBSET S /\ IsFiniteSet(T)
    BY FS_Subset
  <2> HIDE DEF T
  <2>2. Summing(f, T, CHOOSE h : Summing(f, T, h))
    BY <2>1, SummingExists
  <2>3. (CHOOSE h : Summing(f, T, h))[T] = g[T]
    BY <1>1, <2>1, <2>2, SummingAgrees
  <2>4. SumFunctionOnSet(f, T) = g[T]
    BY <2>3, SumIs
  <2>5. QED
    BY <2>4 DEF T
<1>4. QED
  BY <1>1, <1>2, <1>3

(* Sums of numbers are numbers. *)
LEMMA SumIsNat ==
    ASSUME NEW S, IsFiniteSet(S), NEW f, \A x \in S : f[x] \in Nat
    PROVE  SumFunctionOnSet(f, S) \in Nat
<1> DEFINE B == {s \in SUBSET S : SumFunctionOnSet(f, s) \notin Nat}
<1>1. SUFFICES ASSUME B # {} PROVE FALSE
  OBVIOUS
<1>2. PICK s \in B : \A t \in B : t \subseteq s => t = s
  <2>1. B \subseteq SUBSET S
    OBVIOUS
  <2> HIDE DEF B
  <2>2. QED
    BY <1>1, <2>1, SmallestSubset
<1>3. SumFunctionOnSet(f, s) =
          IF s = {} THEN 0 ELSE f[Chosen(s)] + SumFunctionOnSet(f, s \ {Chosen(s)})
  BY <1>2, SumUnfolds, FS_Subset
<1>4. s # {}
  BY <1>2, <1>3
<1>5. s \ {Chosen(s)} \in (SUBSET S) \ B /\ Chosen(s) \in S
  BY <1>2, <1>4, ChosenIn
<1>6. QED
  BY <1>2, <1>3, <1>4, <1>5

(* The order does not matter. *)
LEMMA SumSplits ==
    ASSUME NEW S, IsFiniteSet(S), NEW f, \A x \in S : f[x] \in Nat, NEW y \in S
    PROVE  SumFunctionOnSet(f, S) = f[y] + SumFunctionOnSet(f, S \ {y})
<1> DEFINE sum(s) == SumFunctionOnSet(f, s)
           B == {s \in SUBSET S : \E x \in s : sum(s) # f[x] + sum(s \ {x})}
<1>1. SUFFICES ASSUME B # {} PROVE FALSE
  OBVIOUS
<1>2. PICK s \in B : \A t \in B : t \subseteq s => t = s
  <2>1. B \subseteq SUBSET S
    OBVIOUS
  <2> HIDE DEF B
  <2>2. QED
    BY <1>1, <2>1, SmallestSubset
<1>3. PICK x \in s : sum(s) # f[x] + sum(s \ {x})
  BY <1>2
<1> DEFINE c == Chosen(s)
<1>4. IsFiniteSet(s) /\ c \in s /\ sum(s) = f[c] + sum(s \ {c})
  BY <1>2, <1>3, SumUnfolds, ChosenIn, FS_Subset
<1>5. c # x
  BY <1>3, <1>4
<1>6. sum(s \ {c}) = f[x] + sum((s \ {c}) \ {x})
  BY <1>2, <1>3, <1>4, <1>5
<1>7. sum(s \ {x}) = f[c] + sum((s \ {x}) \ {c})
  BY <1>2, <1>3, <1>4, <1>5
<1> DEFINE r == (s \ {c}) \ {x}
<1>8. (s \ {x}) \ {c} = r /\ IsFiniteSet(r) /\ \A z \in r : f[z] \in Nat
  BY <1>2, <1>4, FS_Subset
<1>9. sum(r) \in Nat /\ f[x] \in Nat /\ f[c] \in Nat
  <2> HIDE DEF r, c
  <2>1. QED
    BY <1>2, <1>3, <1>4, <1>8, SumIsNat
<1> HIDE DEF r, c, sum
<1>10. QED
  BY <1>3, <1>4, <1>6, <1>7, <1>8, <1>9 DEF r

(* Sums of equal functions, and of larger ones *)
LEMMA SumGrows ==
    ASSUME NEW S, IsFiniteSet(S), NEW f, NEW g,
           \A x \in S : f[x] \in Nat /\ g[x] \in Nat /\ f[x] <= g[x]
    PROVE  SumFunctionOnSet(f, S) <= SumFunctionOnSet(g, S)
<1> DEFINE B == {s \in SUBSET S : ~(SumFunctionOnSet(f, s) <= SumFunctionOnSet(g, s))}
<1>1. SUFFICES ASSUME B # {} PROVE FALSE
  OBVIOUS
<1>2. PICK s \in B : \A t \in B : t \subseteq s => t = s
  <2>1. B \subseteq SUBSET S
    OBVIOUS
  <2> HIDE DEF B
  <2>2. QED
    BY <1>1, <2>1, SmallestSubset
<1>3. /\ SumFunctionOnSet(f, s) =
             IF s = {} THEN 0 ELSE f[Chosen(s)] + SumFunctionOnSet(f, s \ {Chosen(s)})
      /\ SumFunctionOnSet(g, s) =
             IF s = {} THEN 0 ELSE g[Chosen(s)] + SumFunctionOnSet(g, s \ {Chosen(s)})
      /\ IsFiniteSet(s \ {Chosen(s)})
  BY <1>2, SumUnfolds, FS_Subset
<1>4. s # {}
  BY <1>2, <1>3
<1>5. s \ {Chosen(s)} \in (SUBSET S) \ B /\ Chosen(s) \in S
  BY <1>2, <1>4, ChosenIn
<1>6. /\ SumFunctionOnSet(f, s \ {Chosen(s)}) \in Nat
      /\ SumFunctionOnSet(g, s \ {Chosen(s)}) \in Nat
  BY <1>3, <1>5, SumIsNat
<1>7. QED
  BY <1>2, <1>3, <1>4, <1>5, <1>6

-----------------------------------------------------------------------------
(* What is charged *)

(* The entries of a journal are finitely many, and each has a charge. *)
LEMMA ChargeFacts ==
    ASSUME TypeOK, NEW j \in Journal, Len(j.subs) <= N
    PROVE  /\ IsFiniteSet(DOMAIN j.subs) /\ DOMAIN j.subs \subseteq Entries
           /\ \A e \in Entries : /\ Charge[e] \in Nat
                                 /\ Reservation[e] \in Nat
                                 /\ usage[e] = 0 => Charge[e] = Reservation[e]
<1>1. /\ Len(j.subs) \in Nat /\ DOMAIN j.subs = 1..Len(j.subs)
      /\ DOMAIN j.subs \subseteq Entries
  BY JournalFacts, PlanFacts
<1>2. IsFiniteSet(DOMAIN j.subs)
  BY <1>1, FS_Interval
<1>3. \A e \in Entries : Reservation[e] \in Nat /\ usage[e] \in Nat
  BY CoordinatorAssumption DEF TypeOK
<1>4. QED
  BY <1>1, <1>2, <1>3 DEF Charge, Larger

(* The charges of the same entries, of which none has used more, are the   *)
(* same.                                                                   *)
LEMMA SameCharges ==
    ASSUME TypeOK, TypeOK', NEW i \in Journal, NEW j \in Journal, i.subs = j.subs,
           Len(j.subs) <= N, \A e \in DOMAIN j.subs : usage'[e] = usage[e]
    PROVE  SumFunctionOnSet(Charge', DOMAIN i.subs) = Charged(j)
<1> DEFINE S == DOMAIN j.subs
<1>1. IsFiniteSet(S) /\ S \subseteq Entries /\ \A e \in S : Charge[e] \in Nat
  BY ChargeFacts
<1>2. \A e \in S : Charge'[e] = Charge[e]
  BY <1>1 DEF Charge
<1>3. \A e \in S : /\ Charge[e] \in Nat /\ Charge'[e] \in Nat
                   /\ Charge[e] <= Charge'[e] /\ Charge'[e] <= Charge[e]
  BY <1>1, <1>2
<1> HIDE DEF S
<1>4. /\ SumFunctionOnSet(Charge', S) <= SumFunctionOnSet(Charge, S)
      /\ SumFunctionOnSet(Charge, S) <= SumFunctionOnSet(Charge', S)
      /\ SumFunctionOnSet(Charge, S) \in Nat /\ SumFunctionOnSet(Charge', S) \in Nat
  BY <1>1, <1>3, SumGrows, SumIsNat
<1>5. QED
  BY <1>4 DEF Charged, S

(* Only a trial that was launched and has not ended uses more. *)
LEMMA UsageMoves ==
    ASSUME JournalInv, Next
    PROVE  /\ \A e \in Entries : usage'[e] # usage[e] => attempt[e] = "running" /\ launches[e] = 1
           /\ \A e \in Entries : launches'[e] = 0 => launches[e] = 0
<1>1. /\ usage \in [Entries -> Nat] /\ launches \in [Entries -> Nat]
      /\ \A e \in Entries : launches[e] \in {0, 1} /\ (launches[e] = 0 => child[e] = "none")
  BY DEF JournalInv, TypeOK, LaunchInv
<1>2. CASE \E e \in Entries : TrialEnds(e)
  <2>1. PICK e \in Entries : TrialEnds(e)
    BY <1>2
  <2>2. launches[e] = 1 /\ attempt[e] = "running" /\ launches' = launches
    BY <1>1, <2>1 DEF TrialEnds
  <2>3. \A d \in Entries \ {e} : usage'[d] = usage[d]
    BY <1>1, <2>1 DEF TrialEnds
  <2>4. QED
    BY <2>2, <2>3
<1>3. CASE Launch
  BY <1>1, <1>3 DEF Launch
<1>4. CASE UNCHANGED <<usage, launches>>
  BY <1>4
<1>5. CASE Run \/ Resume \/ Seal \/ Tick
  BY <1>4, <1>5 DEF Run, Resume, Seal, Tick, trialVars
<1>6. CASE Step \/ Faults
  BY <1>3, <1>4, <1>6 DEF Step, Faults, Admit, Persist, AllSubmitted, Submit,
     RetireUnlaunched, ChildReturned, CheckReturned, LauncherRaises, Killed, Interrupted,
     LostReply, WriteFails, Crash, trialVars
<1>7. CASE Trials
  BY <1>2, <1>4, <1>7 DEF Trials, ChildAdmitted, TrialBegins, TrialDies, Killed, Recover
<1>8. QED
  BY <1>5, <1>6, <1>7 DEF Next

(* An entry is submitted only if the limits cover it next to everything    *)
(* before it.                                                              *)
LEMMA SubmitCovers ==
    ASSUME JournalInv, ChargeInv, JournalInv', Submit, pc' = "intent"
    PROVE  Charged(mem)' <= Limit
<1> DEFINE new == [returncode |-> "none", retired |-> 0]
           n == Current + 1
<1>1. /\ TypeOK /\ mem \in Journal /\ mem' \in Journal /\ pc = "next" /\ n \in Entries
      /\ Len(mem.subs) \in Nat /\ Len(mem.subs) <= N
      /\ Len(mem'.subs) <= N
  <2>1. TypeOK /\ mem \in Journal /\ mem' \in Journal /\ pc = "next" /\ Current < N
        /\ Len(mem'.subs) <= N
    BY DEF JournalInv, TypeOK, Submit, MemoryExtendsDisk
  <2>2. QED
    BY <2>1, JournalFacts, PlanFacts DEF Current
<1>2. MaySubmit(n) /\ mem'.subs = Append(mem.subs, new)
  <2>1. MaySubmit(n) /\ mem' = [Reconciled(mem) EXCEPT !.subs = Append(@, new)]
    BY <1>1 DEF Submit, Raise
  <2>2. Reconciled(mem) \in Journal /\ Reconciled(mem).subs = mem.subs
    BY <1>1, ReconciledFacts
  <2>3. QED
    BY <2>1, <2>2 DEF Journal
<1>3. DOMAIN mem.subs = 1..Len(mem.subs) /\ DOMAIN mem'.subs = 1..n
  <2>1. mem.subs \in Seq(Submission)
    BY <1>1 DEF Journal
  <2>2. Len(Append(mem.subs, new)) = Len(mem.subs) + 1
    BY <2>1 DEF Submission
  <2>3. QED
    BY <1>1, <1>2, <2>2, JournalFacts DEF Current
<1>4. Charge' = Charge
  BY DEF Submit, trialVars, Charge
<1>5. usage[n] = 0
  <2>1. Len(mem.subs) = Len(disk.subs) /\ disk \in Journal
    BY <1>1 DEF JournalInv, MemoryExtendsDisk, TypeOK
  <2>2. n \notin Submitted(disk)
    BY <1>1, <2>1, JournalFacts DEF Current
  <2>3. launches[n] = 0
    BY <1>1, <2>2 DEF JournalInv, LaunchInv
  <2>4. QED
    BY <1>1, <2>3 DEF ChargeInv
<1> DEFINE S == 1..n
<1>6. /\ IsFiniteSet(S) /\ n \in S /\ S \ {n} = DOMAIN mem.subs
      /\ \A e \in S : Charge[e] \in Nat
      /\ Charge[n] = Reservation[n] /\ Reservation[n] \in Nat
  <2>1. S \subseteq Entries /\ IsFiniteSet(S)
    <3>1. n \in Int /\ n <= N
      BY <1>1, PlanFacts
    <3> HIDE DEF n
    <3>2. QED
      BY <3>1, FS_Interval, PlanFacts
  <2>2. S \ {n} = DOMAIN mem.subs /\ n \in S
    <3>1. n = Len(mem.subs) + 1
      BY DEF Current
    <3>2. \A e : e \in 1..(Len(mem.subs) + 1) /\ e # Len(mem.subs) + 1
                   <=> e \in 1..Len(mem.subs)
      BY <1>1
    <3>3. QED
      BY <1>1, <1>3, <3>1, <3>2
  <2>3. QED
    BY <1>1, <1>5, <2>1, <2>2, ChargeFacts
<1>7. Charged(mem) \in Nat
  BY <1>1, <1>6, ChargeFacts, SumIsNat DEF Charged
<1> HIDE DEF n, S
<1>8. SumFunctionOnSet(Charge, S) = Reservation[n] + Charged(mem)
  BY <1>6, SumSplits DEF Charged
<1>9. Charged(mem) + Reservation[n] <= Limit
  BY <1>2 DEF MaySubmit
<1>10. Charged(mem)' = SumFunctionOnSet(Charge, S)
  BY <1>3, <1>4 DEF Charged, S
<1>11. QED
  BY <1>6, <1>7, <1>8, <1>9, <1>10, CoordinatorAssumption

(* Between the submission and the launch nothing that was submitted uses   *)
(* more.                                                                   *)
LEMMA ChargeNext ==
    ASSUME JournalInv, ChargeInv, JournalInv', [Next]_vars
    PROVE  ChargeInv'
<1>1. /\ TypeOK /\ TypeOK' /\ mem \in Journal /\ disk \in Journal
      /\ Len(mem.subs) <= N /\ Len(mem.subs) \in Nat /\ DOMAIN mem.subs = 1..Len(mem.subs)
      /\ DOMAIN mem.subs \subseteq Entries
  <2>1. TypeOK /\ TypeOK' /\ mem \in Journal /\ disk \in Journal /\ Len(mem.subs) <= N
    BY DEF JournalInv, TypeOK, MemoryExtendsDisk
  <2>2. QED
    BY <2>1, JournalFacts, PlanFacts
<1>2. \A e \in Entries : usage'[e] # usage[e] => attempt[e] = "running" /\ launches[e] = 1
  BY UsageMoves DEF vars
<1>3. \A e \in Entries : launches'[e] = 0 => usage'[e] = 0
  <2>1. \A e \in Entries : launches'[e] = 0 => launches[e] = 0
    BY UsageMoves DEF vars
  <2>2. QED
    BY <1>2, <2>1 DEF ChargeInv
<1>4. ASSUME pc \in {"intent", "dispatch"}, NEW e \in DOMAIN mem.subs
      PROVE  usage'[e] = usage[e]
  <2>1. e \in Entries /\ e <= Len(mem.subs) /\ pc # "idle"
    BY <1>1, <1>4
  <2>2. CASE e < Len(mem.subs)
    BY <1>2, <2>1, <2>2 DEF JournalInv, OrderInv, Quiet, Terminal
  <2>3. CASE e = Len(mem.subs) /\ pc = "dispatch"
    BY <1>2, <2>1, <2>3 DEF JournalInv, LaunchInv, Current
  <2>4. CASE e = Len(mem.subs) /\ pc = "intent"
    <3>1. Len(mem.subs) = Len(disk.subs) + 1 /\ Len(disk.subs) \in Nat
      BY <1>1, <2>4, JournalFacts DEF JournalInv, MemoryExtendsDisk
    <3>2. e \notin Submitted(disk)
      BY <1>1, <2>4, <3>1, JournalFacts
    <3>3. QED
      BY <1>2, <2>1, <3>2 DEF JournalInv, LaunchInv
  <2>5. QED
    BY <1>1, <1>4, <2>1, <2>2, <2>3, <2>4
<1>5. ASSUME pc \in {"intent", "dispatch"}, mem' \in Journal, mem'.subs = mem.subs
      PROVE  Charged(mem)' <= Limit
  <2>1. Charged(mem) <= Limit
    BY <1>5 DEF ChargeInv
  <2>2. SumFunctionOnSet(Charge', DOMAIN mem'.subs) = Charged(mem)
    BY <1>1, <1>4, <1>5, SameCharges
  <2>3. QED
    BY <2>1, <2>2 DEF Charged
<1>6. ASSUME pc' \in {"intent", "dispatch"}
      PROVE  Charged(mem)' <= Limit
  <2>1. CASE Submit
    <3>1. pc' = "intent"
      BY <1>6, <2>1 DEF Submit, Raise
    <3>2. QED
      BY <2>1, <3>1, SubmitCovers
  <2>2. CASE Persist
    <3>1. pc = "intent" /\ pc' = "dispatch"
      BY <1>6, <2>2 DEF Persist, Persisting, Event, Following
    <3>2. mem' = Written
      BY <2>2, <3>1 DEF Persist
    <3>3. mem' \in Journal /\ mem'.subs = mem.subs
      BY <1>1, <2>2, <3>2, WrittenFacts DEF Persist
    <3>4. QED
      BY <1>5, <3>1, <3>3
  <2>3. CASE Trials \/ Tick \/ UNCHANGED vars
    <3>1. pc' = pc /\ mem' = mem
      BY <2>3, TrialStepsGoOn DEF Trials, Tick, vars
    <3>2. QED
      BY <1>1, <1>5, <1>6, <3>1
  <2>4. CASE Run \/ Resume \/ Seal \/ Faults \/ (Step /\ ~Submit /\ ~Persist)
    BY <1>6, <2>4 DEF Run, Resume, Seal, Faults, Interrupted, LostReply, WriteFails, Crash,
       Step, Admit, AllSubmitted, RetireUnlaunched, Launch, ChildReturned, CheckReturned,
       LauncherRaises, Raise, Idle
  <2>5. QED
    BY <2>1, <2>2, <2>3, <2>4 DEF Next
<1>7. QED
  BY <1>3, <1>6 DEF ChargeInv

(* What is charged is covered, always. *)
LEMMA ChargeSafety == Spec => []ChargeInv
<1>1. Init => ChargeInv
  BY DEF Init, ChargeInv
<1>2. QED
  BY <1>1, ChargeNext, JournalSafety, PTL DEF Spec

-----------------------------------------------------------------------------
(* The theorems *)

(* Memory and disk agree as far as they must, no trial is without a        *)
(* record, and at most one trial is unresolved: always, whatever was       *)
(* interrupted or killed.                                                  *)
THEOREM CoordinatorSafety == Spec => []CoordinatorInv
<1>1. JournalInv /\ ChargeInv => CoordinatorInv
  BY LastIsUnresolved DEF CoordinatorInv, JournalInv
<1>2. QED
  BY <1>1, JournalSafety, ChargeSafety, PTL

(* "Already submitted IDs are never invoked again": every entry is         *)
(* launched at most once over any sequence of runs, crashes and resumes,   *)
(* the journal on disk names every launch, and a retired entry never had   *)
(* one.                                                                    *)
THEOREM CoordinatorLaunchedOnce == Spec => []LaunchedOnce
<1>1. JournalInv => LaunchedOnce
  <2> SUFFICES ASSUME JournalInv
               PROVE  LaunchedOnce
    OBVIOUS
  <2>1. disk \in Journal /\ Len(disk.subs) <= N
    BY DEF JournalInv, TypeOK, MemoryExtendsDisk
  <2>2. \A e \in Entries : /\ launches[e] <= 1
                           /\ launches[e] > 0 => e \in Submitted(disk)
    BY DEF JournalInv, LaunchInv
  <2>3. \A e \in Retired(disk) : e \in Entries /\ e \notin Submitted(disk)
    BY <2>1, JournalFacts, PlanFacts
  <2>4. \A e \in Retired(disk) : attempt[e] = "missing" /\ child[e] = "none"
    BY <2>3 DEF JournalInv, LaunchInv
  <2>5. QED
    BY <2>2, <2>4 DEF LaunchedOnce
<1>2. QED
  BY <1>1, JournalSafety, PTL

(* A sealed or completed journal is final evidence: every entry it         *)
(* submitted is settled and nothing can still start or run.                *)
THEOREM CoordinatorFinalIsQuiet == Spec => []FinalIsQuiet
<1>1. JournalInv => FinalIsQuiet
  <2> SUFFICES ASSUME JournalInv, disk.sealed \/ disk.status = "completed"
               PROVE  /\ Unresolved = {}
                      /\ disk.settled = Submitted(disk)
                      /\ \A e \in Entries : child[e] = "none" \/ attempt[e] \in Terminal
    BY DEF FinalIsQuiet
  <2>1. disk \in Journal
    BY DEF JournalInv, TypeOK
  <2>2. AllSettled(disk)
    BY DEF JournalInv, OrderInv
  <2>3. \A e \in Entries : launches[e] = 1 => attempt[e] \in Terminal
    BY <2>1, <2>2, JournalFacts DEF AllSettled, Quiet, JournalInv, LaunchInv
  <2>4. \A e \in Entries : launches[e] \in {0, 1} /\ (launches[e] = 0 => child[e] = "none")
    BY DEF JournalInv, LaunchInv
  <2>5. Unresolved = {}
    BY <2>3, <2>4 DEF Unresolved
  <2>6. \A e \in Entries : child[e] = "none" \/ attempt[e] \in Terminal
    BY <2>3, <2>4
  <2>7. QED
    BY <2>2, <2>5, <2>6 DEF AllSettled
<1>2. QED
  BY <1>1, JournalSafety, PTL

(* What the file says only grows: entries stay in order, retired and       *)
(* settled ones as they are, and no event is rewritten.                    *)
THEOREM CoordinatorJournalGrows == Spec => JournalGrows
<1> DEFINE Grown == /\ Len(disk.subs) <= Len(disk'.subs)
                    /\ \A e \in DOMAIN disk.subs :
                           disk.subs[e].retired # 0 => disk'.subs[e] = disk.subs[e]
                    /\ disk.settled \subseteq disk'.settled
                    /\ Len(disk.events) <= Len(disk'.events)
                    /\ \A i \in DOMAIN disk.events : disk'.events[i] = disk.events[i]
<1>1. JournalInv /\ [Next]_vars => [Grown]_vars
  <2> SUFFICES ASSUME JournalInv, Next
               PROVE  Grown
    BY DEF vars
  <2>1. /\ disk \in Journal /\ mem \in Journal
        /\ Len(disk.subs) \in Nat /\ Len(disk.events) \in Nat
        /\ Len(mem.subs) \in Nat /\ Len(mem.events) \in Nat
        /\ DOMAIN disk.events = 1..Len(disk.events) /\ DOMAIN mem.events = 1..Len(mem.events)
    BY JournalFacts DEF JournalInv, TypeOK
  <2>2. CASE disk' = disk
    BY <2>1, <2>2
  <2>3. CASE Run
    <3>1. disk = NoJournal
      BY <2>3 DEF Run, JournalInv, MemoryExtendsDisk
    <3>2. JournalInv'
      BY <2>3, RunKeeps
    <3>3. disk' \in Journal
      BY <3>2 DEF JournalInv, TypeOK
    <3>4. Len(disk'.subs) \in Nat /\ Len(disk'.events) \in Nat
      BY <3>3, JournalFacts
    <3>5. DOMAIN disk.subs = {} /\ DOMAIN disk.events = {}
      BY <3>1, NoJournalFacts
    <3>6. QED
      BY <3>1, <3>4, <3>5, NoJournalFacts
  <2>4. CASE Persist \/ LostReply
    <3>1. pc \in Persisting /\ disk' = Written
      BY <2>4 DEF Persist, LostReply
    <3>2. pc # "idle"
      BY <3>1 DEF Persisting, Event
    <3>3. /\ disk'.subs = mem.subs /\ disk'.settled = mem.settled
          /\ Len(disk'.events) = Len(mem.events) + 1
          /\ \A i \in DOMAIN mem.events : disk'.events[i] = mem.events[i]
      BY <2>1, <3>1, WrittenFacts
    <3>4. /\ Len(mem.subs) = Len(disk.subs) \/ Len(mem.subs) = Len(disk.subs) + 1
          /\ \A e \in Retired(disk) : mem.subs[e] = disk.subs[e]
          /\ disk.settled \subseteq mem.settled
          /\ Len(disk.events) <= Len(mem.events)
          /\ \A i \in DOMAIN disk.events : mem.events[i] = disk.events[i]
      BY <3>2 DEF JournalInv, MemoryExtendsDisk
    <3>5. \A e \in DOMAIN disk.subs :
             disk.subs[e].retired # 0 => disk'.subs[e] = disk.subs[e]
      BY <3>3, <3>4 DEF Retired
    <3>6. \A i \in DOMAIN disk.events : disk'.events[i] = disk.events[i]
      BY <2>1, <3>3, <3>4
    <3>7. QED
      BY <2>1, <3>3, <3>4, <3>5, <3>6
  <2>5. QED
    <3>1. Resume \/ Seal \/ Tick => disk' = disk
      BY DEF Resume, Seal, Tick
    <3>2. Step => Persist \/ disk' = disk
      BY DEF Step, Admit, AllSubmitted, Submit, RetireUnlaunched, Launch, ChildReturned,
             CheckReturned, LauncherRaises
    <3>3. Faults => LostReply \/ disk' = disk
      BY DEF Faults, Interrupted, WriteFails, Crash
    <3>4. Trials => disk' = disk
      BY TrialStepsGoOn DEF Trials
    <3>5. QED
      BY <2>2, <2>3, <2>4, <3>1, <3>2, <3>3, <3>4 DEF Next
<1>2. QED
  BY <1>1, JournalSafety, PTL DEF Spec, JournalGrows

(* Sealing is the last write, and forbids every launch. *)
THEOREM CoordinatorSealIsLast ==
    Spec => [][disk.sealed => UNCHANGED <<disk, launches>>]_vars
<1>1. JournalInv /\ [Next]_vars => [disk.sealed => UNCHANGED <<disk, launches>>]_vars
  <2> SUFFICES ASSUME JournalInv, Next, disk.sealed
               PROVE  disk' = disk /\ launches' = launches
    BY DEF vars
  <2>1. pc = "idle" /\ disk.status # "absent"
    BY NoJournalFacts DEF JournalInv, MemoryExtendsDisk
  <2>2. ~Run /\ ~Resume /\ ~Seal /\ ~Step /\ ~Faults
    BY <2>1 DEF Run, Resume, Seal, Step, Faults, Admit, Persist, AllSubmitted, Submit,
                RetireUnlaunched, Launch, ChildReturned, CheckReturned, LauncherRaises,
                Interrupted, LostReply, WriteFails, Crash, Persisting, Event, Trying
  <2>3. CASE Trials
    BY <2>3, TrialStepsGoOn DEF Trials
  <2>4. CASE Tick
    BY <2>4 DEF Tick, trialVars
  <2>5. QED
    BY <2>2, <2>3, <2>4 DEF Next
<1>2. QED
  BY <1>1, JournalSafety, PTL DEF Spec

(* A trial is launched only if the limits cover its reservation next to    *)
(* what everything before it reserved or used, whichever is larger.        *)
LEMMA LaunchCovered == Spec => LaunchWithinLimit
<1>1. JournalInv /\ ChargeInv /\ [Next]_vars => [launches' # launches => Charged(disk) <= Limit]_vars
  <2> SUFFICES ASSUME JournalInv, ChargeInv, Next, launches' # launches
               PROVE  Charged(disk) <= Limit
    BY DEF vars
  <2>1. Launch
    <3>1. ~Run /\ ~Resume /\ ~Seal /\ ~Tick
      BY DEF Run, Resume, Seal, Tick, trialVars
    <3>2. ~Faults
      BY DEF Faults, Interrupted, LostReply, WriteFails, Crash, trialVars
    <3>3. ~Trials
      BY TrialStepsGoOn DEF Trials
    <3>4. Step
      BY <3>1, <3>2, <3>3 DEF Next
    <3>5. QED
      BY <3>4 DEF Step, Admit, Persist, AllSubmitted, Submit, RetireUnlaunched, ChildReturned,
         CheckReturned, LauncherRaises, Killed, trialVars
  <2>2. pc = "dispatch"
    BY <2>1 DEF Launch
  <2>3. DOMAIN disk.subs = DOMAIN mem.subs
    BY <2>2, JournalFacts DEF JournalInv, MemoryExtendsDisk, TypeOK
  <2>4. QED
    BY <2>2, <2>3 DEF ChargeInv, Charged
<1>2. QED
  BY <1>1, JournalSafety, ChargeSafety, PTL DEF Spec, LaunchWithinLimit

(* Nothing recorded is taken back, sealing is the last write and forbids   *)
(* every launch, and no launch exceeds the limits: for any plan, whatever  *)
(* its trials use and however often it is interrupted.                     *)
THEOREM CoordinatorHistoryKept == Spec => HistoryKept
BY CoordinatorJournalGrows, LaunchCovered, CoordinatorSealIsLast, PTL DEF HistoryKept

-----------------------------------------------------------------------------
(* What the events tell of the submissions.  A journal that an exception   *)
(* tore tells of a part of them.                                           *)

(* j's events tell of the first m submissions, the intent of the e-th being *)
(* event at[e], and of the retirement of those in R.                        *)
Tells(j, m, at, R) ==
    /\ m \in 0 .. Len(j.subs) /\ at \in [1 .. m -> DOMAIN j.events]
    /\ \A d, e \in 1 .. m : d < e => at[d] < at[e]
    /\ Positions(j, "submission_intent") = {at[e] : e \in 1 .. m}
    /\ R \subseteq Retired(j) \cap (1 .. m)
    /\ Positions(j, "submission_retired_unlaunched") = {at[e] + 1 : e \in R}
    /\ \A e \in R : j.subs[e].retired = at[e]
    /\ \A e \in R : \A i \in DOMAIN j.events :
           i > at[e] /\ (\A d \in 1 .. m : d > e => i < at[d])
           => j.events[i] \notin {"child_returned", "attempt_settled"}

Told(j)       == \E m, at, R : Tells(j, m, at, R)
WhollyTold(j) == \E at : Tells(j, Len(j.subs), at, Retired(j))

(* The last submission has no intent yet; or that is the last event, and R *)
(* tells who is retired.                                                   *)
LastUntold(j) == Len(j.subs) > 0 /\ \E at : Tells(j, Len(j.subs) - 1, at, Retired(j))
LastIntended(j, R) ==
    Len(j.subs) > 0 /\ \E at : Tells(j, Len(j.subs), at, R) /\ at[Len(j.subs)] = Len(j.events)

(* What holds of every journal, in memory and on disk *)
Readable(j) ==
    /\ Told(j) /\ Len(j.events) > 0
    /\ \A e \in Retired(j) : j.subs[e].returncode = "none"
    /\ j.status = "completed" => Len(j.subs) = N
    /\ j.sealed => j.status # "running"

(* What the events in memory tell at each step of an invocation *)
StepTold ==
    /\ pc = "intent" => LastUntold(mem)
    /\ pc \in {"intent", "dispatch"} => mem.subs[Current].returncode = "none"
    /\ pc = "dispatch" => LastIntended(mem, Retired(mem))
    /\ pc = "retire" => /\ LastIntended(mem, Retired(mem) \ {Current})
                        /\ mem.subs[Current].retired = Len(mem.events)
    /\ pc = "settle" => Current \in Submitted(mem)
    /\ pc \notin {"idle", "stop", "intent", "dispatch", "retire"} => WhollyTold(mem)

EventInv ==
    /\ disk.status # "absent" =>
           /\ Readable(disk)
           /\ Positions(disk, "experiment_sealed") = IF disk.sealed THEN {Len(disk.events)} ELSE {}
    /\ pc # "idle" => Readable(mem) /\ Positions(mem, "experiment_sealed") = {}
    /\ StepTold

(* As many values as arguments *)
LEMMA ImageCounts ==
    ASSUME NEW S, IsFiniteSet(S), NEW f, \A x, y \in S : f[x] = f[y] => x = y
    PROVE  IsFiniteSet({f[x] : x \in S}) /\ Cardinality({f[x] : x \in S}) = Cardinality(S)
<1> DEFINE T == {f[x] : x \in S}
           g == [x \in S |-> f[x]]
<1>1. g \in [S -> T] /\ \A x, y \in S : g[x] = g[y] => x = y
  OBVIOUS
<1>2. \A t \in T : \E x \in S : g[x] = t
  OBVIOUS
<1> HIDE DEF T, g
<1>3. g \in Bijection(S, T)
  BY <1>1, <1>2 DEF Bijection, Injection, Surjection, IsInjective
<1>4. ExistsBijection(S, T)
  BY <1>3 DEF ExistsBijection
<1>5. QED
  BY <1>4, FS_Bijection DEF T

(* Increasing positions count themselves. *)
LEMMA IncreasingCounts ==
    ASSUME NEW m \in Nat, NEW at \in [1 .. m -> Nat],
           \A d, e \in 1 .. m : d < e => at[d] < at[e],
           NEW R \in SUBSET (1 .. m)
    PROVE  /\ \A d, e \in 1 .. m : at[d] = at[e] => d = e
           /\ Cardinality({at[e] : e \in R}) = Cardinality(R)
           /\ Cardinality({at[e] + 1 : e \in R}) = Cardinality(R)
<1>1. IsFiniteSet(R)
  <2>1. IsFiniteSet(1 .. m)
    BY FS_Interval
  <2>2. QED
    BY <2>1, FS_Subset
<1>2. \A d, e \in 1 .. m : at[d] = at[e] => d = e
  <2>1. SUFFICES ASSUME NEW d \in 1 .. m, NEW e \in 1 .. m, d # e
                 PROVE  at[d] # at[e]
    OBVIOUS
  <2>2. at[d] \in Nat /\ at[e] \in Nat /\ (d < e \/ e < d)
    BY <2>1
  <2>3. QED
    BY <2>2
<1>3. \A e \in R : at[e] \in Nat
  OBVIOUS
<1>4. Cardinality({at[e] : e \in R}) = Cardinality(R)
  <2>1. \A d, e \in R : at[d] = at[e] => d = e
    BY <1>2
  <2>2. QED
    BY <1>1, <2>1, ImageCounts
<1>5. Cardinality({at[e] + 1 : e \in R}) = Cardinality(R)
  <2> DEFINE f == [e \in R |-> at[e] + 1]
  <2>1. \A d, e \in R : f[d] = f[e] => d = e
    BY <1>2, <1>3
  <2>2. {f[e] : e \in R} = {at[e] + 1 : e \in R}
    OBVIOUS
  <2> HIDE DEF f
  <2>3. Cardinality({f[e] : e \in R}) = Cardinality(R)
    BY <1>1, <2>1, ImageCounts
  <2>4. QED
    BY <2>2, <2>3
<1>6. QED
  BY <1>2, <1>4, <1>5

(* IntentAt finds the intent that the events tell of. *)
LEMMA IntentIsAt ==
    ASSUME NEW j \in Journal, NEW m, NEW at, NEW R, Tells(j, m, at, R), NEW e \in 1 .. m
    PROVE  IntentAt(j, e) = at[e]
<1> DEFINE P == Positions(j, "submission_intent")
           Upto(i) == {k \in P : k <= i}
<1>1. /\ m \in Nat /\ at \in [1 .. m -> Nat] /\ e \in Nat
      /\ \A c, d \in 1 .. m : c < d => at[c] < at[d]
      /\ P = {at[c] : c \in 1 .. m}
  BY JournalFacts DEF Tells
<1> HIDE DEF P
<1>2. \A d \in 1 .. m : Cardinality(Upto(at[d])) = d
  <2>1. TAKE d \in 1 .. m
  <2>2. 1 .. d \subseteq 1 .. m /\ d \in Nat
    BY <1>1
  <2>3. Upto(at[d]) = {at[c] : c \in 1 .. d}
    <3>1. \A c \in 1 .. m : at[c] <= at[d] <=> c <= d
      <4>1. TAKE c \in 1 .. m
      <4>2. c \in Nat /\ d \in Nat /\ (c < d \/ c = d \/ d < c)
        BY <1>1
      <4>3. at[c] \in Nat /\ at[d] \in Nat
        BY <1>1
      <4>4. QED
        BY <1>1, <4>2, <4>3
    <3>2. QED
      BY <1>1, <2>2, <3>1
  <2>4. Cardinality({at[c] : c \in 1 .. d}) = Cardinality(1 .. d)
    BY <1>1, <2>2, IncreasingCounts
  <2>5. Cardinality(1 .. d) = d
    BY <2>2, FS_Interval
  <2>6. QED
    BY <2>3, <2>4, <2>5
<1> HIDE DEF Upto
<1>3. at[e] \in P /\ Cardinality(Upto(at[e])) = e
  BY <1>1, <1>2
<1>4. \A i \in P : Cardinality(Upto(i)) = e => i = at[e]
  BY <1>1, <1>2
<1>5. IntentAt(j, e) = CHOOSE i \in P : Cardinality(Upto(i)) = e
  BY DEF IntentAt, P, Upto
<1>6. QED
  BY <1>3, <1>4, <1>5
(* If there are as many intents and retirements as submissions and retired *)
(* ones, the events tell of all of them.                                   *)
LEMMA CountedIsTold ==
    ASSUME NEW j \in Journal, Told(j),
           Cardinality(Positions(j, "submission_intent")) = Len(j.subs),
           Cardinality(Positions(j, "submission_retired_unlaunched")) = Cardinality(Retired(j))
    PROVE  WhollyTold(j)
<1>1. PICK m, at, R : Tells(j, m, at, R)
  BY DEF Told
<1>2. /\ m \in Nat /\ at \in [1 .. m -> Nat] /\ R \in SUBSET (1 .. m) /\ R \subseteq Retired(j)
      /\ \A c, d \in 1 .. m : c < d => at[c] < at[d]
      /\ Positions(j, "submission_intent") = {at[c] : c \in 1 .. m}
      /\ Positions(j, "submission_retired_unlaunched") = {at[c] + 1 : c \in R}
  BY <1>1, JournalFacts DEF Tells
<1>3. m = Len(j.subs)
  <2>1. Cardinality({at[c] : c \in 1 .. m}) = Cardinality(1 .. m)
    BY <1>2, IncreasingCounts
  <2>2. Cardinality(1 .. m) = m
    <3>1. m \in Nat
      BY <1>2
    <3>2. QED
      BY <3>1, FS_Interval
  <2>3. QED
    BY <1>2, <2>1, <2>2
<1>4. R = Retired(j)
  <2>1. Cardinality({at[c] + 1 : c \in R}) = Cardinality(R)
    BY <1>2, IncreasingCounts
  <2>2. Retired(j) \subseteq 1 .. Len(j.subs) /\ Len(j.subs) \in Nat
    BY JournalFacts
  <2>3. IsFiniteSet(1 .. Len(j.subs))
    BY <2>2, FS_Interval
  <2>4. IsFiniteSet(Retired(j))
    BY <2>2, <2>3, FS_Subset
  <2>5. QED
    BY <1>2, <2>1, <2>4, FS_Subset
<1>5. QED
  BY <1>1, <1>3, <1>4 DEF WhollyTold

(* What validate_state() asks of intents and retirements *)
EventsMatch(j) ==
    /\ Cardinality(Positions(j, "submission_intent")) = Len(j.subs)
    /\ \A e \in Retired(j) :
           LET i == IntentAt(j, e) IN
           /\ j.subs[e].retired = i
           /\ i < Len(j.events)
           /\ j.events[i + 1] = "submission_retired_unlaunched"
           /\ \A k \in EventsOf(j, e) :
                  j.events[k] \notin {"child_returned", "attempt_settled"}
    /\ Positions(j, "submission_retired_unlaunched") =
           {IntentAt(j, e) + 1 : e \in Retired(j)}

(* Of a journal that is told whole it holds. *)
LEMMA ToldMatches ==
    ASSUME NEW j \in Journal, WhollyTold(j)
    PROVE  EventsMatch(j)
<1>m. PICK m : m = Len(j.subs)
  OBVIOUS
<1>1. PICK at : Tells(j, m, at, Retired(j))
  BY <1>m DEF WhollyTold
<1>2. /\ m \in Nat /\ at \in [1 .. m -> Nat] /\ Retired(j) \subseteq 1 .. m
      /\ \A c, d \in 1 .. m : c < d => at[c] < at[d]
      /\ Positions(j, "submission_intent") = {at[c] : c \in 1 .. m}
      /\ Positions(j, "submission_retired_unlaunched") = {at[c] + 1 : c \in Retired(j)}
      /\ Len(j.events) \in Nat /\ DOMAIN j.events = 1 .. Len(j.events)
  BY <1>1, <1>m, JournalFacts DEF Tells
<1>3. \A e \in 1 .. m : IntentAt(j, e) = at[e]
  BY <1>1, IntentIsAt
<1>4. Cardinality(Positions(j, "submission_intent")) = m
  <2>1. /\ m \in Nat /\ at \in [1 .. m -> Nat] /\ 1 .. m \in SUBSET (1 .. m)
        /\ \A c, d \in 1 .. m : c < d => at[c] < at[d]
    BY <1>2
  <2>2. Cardinality({at[c] : c \in 1 .. m}) = Cardinality(1 .. m)
    BY <2>1, IncreasingCounts
  <2>3. Cardinality(1 .. m) = m
    BY <2>1, FS_Interval
  <2>4. QED
    BY <1>2, <2>2, <2>3
<1>5. Positions(j, "submission_retired_unlaunched") = {IntentAt(j, e) + 1 : e \in Retired(j)}
  BY <1>2, <1>3
<1>6. ASSUME NEW e \in Retired(j)
      PROVE  /\ j.subs[e].retired = at[e] /\ at[e] < Len(j.events)
             /\ j.events[at[e] + 1] = "submission_retired_unlaunched"
             /\ \A k \in EventsOf(j, e) :
                    j.events[k] \notin {"child_returned", "attempt_settled"}
  <2>1. e \in 1 .. m /\ at[e] \in Nat /\ j.subs[e].retired = at[e]
    BY <1>1, <1>2 DEF Tells
  <2>2. at[e] + 1 \in Positions(j, "submission_retired_unlaunched")
    BY <1>2
  <2>3. at[e] + 1 \in DOMAIN j.events /\ j.events[at[e] + 1] = "submission_retired_unlaunched"
    BY <2>2 DEF Positions
  <2>4. ASSUME NEW k \in EventsOf(j, e)
        PROVE  j.events[k] \notin {"child_returned", "attempt_settled"}
    <3>1. k \in DOMAIN j.events /\ k > at[e] /\ (e < m => k < IntentAt(j, e + 1))
      BY <1>3, <1>m, <2>1 DEF EventsOf
    <3>2. \A d \in 1 .. m : d > e => k < at[d]
      <4>1. SUFFICES ASSUME NEW d \in 1 .. m, d > e
                     PROVE  k < at[d]
        OBVIOUS
      <4>2. e + 1 \in 1 .. m /\ e < m /\ d \in Nat /\ k \in Nat
        BY <1>2, <2>1, <3>1, <4>1
      <4>3. k < at[e + 1]
        BY <1>3, <3>1, <4>2
      <4>4. d = e + 1 \/ e + 1 < d
        BY <2>1, <4>1, <4>2
      <4>5. at[d] \in Nat /\ at[e + 1] \in Nat /\ at[e + 1] <= at[d]
        BY <1>2, <4>2, <4>4
      <4>6. QED
        BY <4>2, <4>3, <4>5
    <3>3. QED
      BY <1>1, <3>1, <3>2 DEF Tells
  <2>5. at[e] < Len(j.events)
    <3>1. at[e] + 1 \in 1 .. Len(j.events)
      BY <1>2, <2>3
    <3>2. QED
      BY <1>2, <2>1, <3>1
  <2>6. QED
    BY <2>1, <2>3, <2>4, <2>5
<1>7. QED
  BY <1>3, <1>4, <1>5, <1>6, <1>m, <1>2 DEF EventsMatch

(* And of a journal that is told in part, it holds only if all is told. *)
LEMMA MatchesIsTold ==
    ASSUME NEW j \in Journal, Told(j), EventsMatch(j)
    PROVE  WhollyTold(j)
<1>1. PICK m, at, R : Tells(j, m, at, R)
  BY DEF Told
<1>2. /\ m \in Nat /\ at \in [1 .. m -> Nat] /\ R \in SUBSET (1 .. m)
      /\ \A c, d \in 1 .. m : c < d => at[c] < at[d]
      /\ Positions(j, "submission_intent") = {at[c] : c \in 1 .. m}
      /\ Positions(j, "submission_retired_unlaunched") = {at[c] + 1 : c \in R}
      /\ R \subseteq Retired(j)
  BY <1>1, JournalFacts DEF Tells
<1>3. m = Len(j.subs)
  <2>1. Cardinality({at[c] : c \in 1 .. m}) = Cardinality(1 .. m)
    BY <1>2, IncreasingCounts
  <2>2. Cardinality(1 .. m) = m
    <3>1. m \in Nat
      BY <1>2
    <3>2. QED
      BY <3>1, FS_Interval
  <2>3. QED
    BY <1>2, <2>1, <2>2 DEF EventsMatch
<1>4. \A e \in 1 .. m : IntentAt(j, e) = at[e]
  BY <1>1, IntentIsAt
<1>5. Retired(j) \subseteq 1 .. m
  BY <1>3, JournalFacts
<1>6. {at[c] + 1 : c \in R} = {at[c] + 1 : c \in Retired(j)}
  <2>1. {at[c] + 1 : c \in R} = {IntentAt(j, c) + 1 : c \in Retired(j)}
    BY <1>2 DEF EventsMatch
  <2>2. {IntentAt(j, c) + 1 : c \in Retired(j)} = {at[c] + 1 : c \in Retired(j)}
    BY <1>4, <1>5
  <2>3. QED
    BY <2>1, <2>2
<1>7. \A c, d \in 1 .. m : at[c] = at[d] => c = d
  BY <1>2, IncreasingCounts
<1>8. Retired(j) \subseteq R
  <2>1. SUFFICES ASSUME NEW e \in Retired(j)
                 PROVE  e \in R
    OBVIOUS
  <2>2. PICK c \in R : at[c] + 1 = at[e] + 1
    BY <1>6
  <2>3. at[c] \in Nat /\ at[e] \in Nat
    BY <1>2, <1>5
  <2>4. QED
    BY <1>2, <1>5, <1>7, <2>2, <2>3
<1>9. R = Retired(j)
  BY <1>2, <1>8
<1>10. QED
  BY <1>1, <1>3, <1>9 DEF WhollyTold

(* i has one more event than j. *)
Adds(i, j, kind) ==
    /\ i.subs = j.subs /\ Len(i.events) = Len(j.events) + 1
    /\ \A x \in DOMAIN j.events : i.events[x] = j.events[x]
    /\ i.events[Len(j.events) + 1] = kind

(* It stands last. *)
LEMMA AddedEvent ==
    ASSUME NEW i \in Journal, NEW j \in Journal, NEW k, Adds(i, j, k)
    PROVE  /\ Len(j.events) \in Nat /\ DOMAIN j.events = 1 .. Len(j.events)
           /\ DOMAIN i.events = DOMAIN j.events \cup {Len(j.events) + 1}
           /\ \A x \in DOMAIN i.events : x <= Len(j.events) + 1 /\ x \in Nat
           /\ Positions(i, k) = Positions(j, k) \cup {Len(j.events) + 1}
           /\ \A kind : kind # k => Positions(i, kind) = Positions(j, kind)
           /\ Retired(i) = Retired(j) /\ i.subs = j.subs /\ Len(i.subs) \in Nat
<1>1. /\ Len(j.events) \in Nat /\ DOMAIN j.events = 1 .. Len(j.events)
      /\ Len(i.events) \in Nat /\ DOMAIN i.events = 1 .. Len(i.events) /\ Len(i.subs) \in Nat
  BY JournalFacts
<1>2. DOMAIN i.events = DOMAIN j.events \cup {Len(j.events) + 1}
  BY <1>1 DEF Adds
<1>3. Positions(i, k) = Positions(j, k) \cup {Len(j.events) + 1}
  BY <1>2 DEF Adds, Positions
<1>4. \A kind : kind # k => Positions(i, kind) = Positions(j, kind)
  BY <1>2 DEF Adds, Positions
<1>5. QED
  BY <1>1, <1>2, <1>3, <1>4, SameSubmissions DEF Adds

(* An event that is neither an intent nor a retirement changes nothing of  *)
(* what is told; a result or a settlement is that of the last submission,  *)
(* which must not be retired.                                              *)
LEMMA OtherEventTells ==
    ASSUME NEW i \in Journal, NEW j \in Journal, NEW k, Adds(i, j, k),
           k \notin {"submission_intent", "submission_retired_unlaunched"},
           NEW m, NEW at, NEW R, Tells(j, m, at, R),
           k \in {"child_returned", "attempt_settled"} => m > 0 /\ m \notin R
    PROVE  Tells(i, m, at, R)
<1>1. /\ Retired(i) = Retired(j) /\ i.subs = j.subs
      /\ DOMAIN j.events \subseteq DOMAIN i.events
      /\ Positions(i, "submission_intent") = Positions(j, "submission_intent")
      /\ Positions(i, "submission_retired_unlaunched") = Positions(j, "submission_retired_unlaunched")
  BY AddedEvent
<1>2. m \in Nat /\ at \in [1 .. m -> DOMAIN j.events] /\ R \subseteq 1 .. m
  BY JournalFacts DEF Tells
<1>3. ASSUME NEW e \in R, NEW x \in DOMAIN i.events,
             x > at[e], \A d \in 1 .. m : d > e => x < at[d]
      PROVE  i.events[x] \notin {"child_returned", "attempt_settled"}
  <2>1. CASE x \in DOMAIN j.events
    BY <1>3, <2>1 DEF Tells, Adds
  <2>2. CASE x = Len(j.events) + 1
    <3>1. i.events[x] = k
      BY <2>2 DEF Adds
    <3>2. CASE k \in {"child_returned", "attempt_settled"}
      <4>1. m \in 1 .. m /\ e \in 1 .. m /\ m # e
        BY <1>2, <3>2
      <4>2. x < at[m]
        BY <1>2, <1>3, <4>1
      <4>3. at[m] \in DOMAIN j.events
        BY <1>2, <4>1
      <4>4. QED
        BY <2>2, <4>2, <4>3, AddedEvent
    <3>3. QED
      BY <3>1, <3>2
  <2>3. QED
    BY <2>1, <2>2, AddedEvent
<1>4. at \in [1 .. m -> DOMAIN i.events]
  BY <1>1, <1>2
<1>5. QED
  BY <1>1, <1>3, <1>4 DEF Tells

(* The intent tells of the last submission. *)
LEMMA IntentTells ==
    ASSUME NEW i \in Journal, NEW j \in Journal, Adds(i, j, "submission_intent"), LastUntold(j),
           Len(j.subs) \notin Retired(j)
    PROVE  LastIntended(i, Retired(i))
<1>1. PICK n : n = Len(j.subs) /\ n \in Nat /\ n > 0
  BY JournalFacts DEF LastUntold
<1>2. PICK at : Tells(j, n - 1, at, Retired(j))
  BY <1>1 DEF LastUntold
<1>3. PICK l : l = Len(j.events) + 1 /\ l \in Nat /\ Len(i.events) = l /\ l \in DOMAIN i.events
  BY AddedEvent DEF Adds
<1>4. /\ Retired(i) = Retired(j) /\ i.subs = j.subs
      /\ DOMAIN i.events = DOMAIN j.events \cup {l} /\ l \notin DOMAIN j.events
      /\ \A x \in DOMAIN i.events : x \in Nat /\ x <= l
      /\ Positions(i, "submission_intent") = Positions(j, "submission_intent") \cup {l}
      /\ Positions(i, "submission_retired_unlaunched") = Positions(j, "submission_retired_unlaunched")
  BY <1>3, AddedEvent
<1>5. /\ at \in [1 .. n - 1 -> DOMAIN j.events] /\ Retired(j) \subseteq 1 .. n - 1
      /\ \A d, e \in 1 .. n - 1 : d < e => at[d] < at[e]
      /\ Positions(j, "submission_intent") = {at[e] : e \in 1 .. n - 1}
      /\ Positions(j, "submission_retired_unlaunched") = {at[e] + 1 : e \in Retired(j)}
      /\ \A e \in Retired(j) : j.subs[e].retired = at[e]
  BY <1>2 DEF Tells
<1>6. PICK to : to = [e \in 1 .. n |-> IF e = n THEN l ELSE at[e]]
  OBVIOUS
<1>7. 1 .. n = (1 .. n - 1) \cup {n} /\ n \notin 1 .. n - 1
  BY <1>1
<1>8. /\ to[n] = l /\ \A e \in 1 .. n - 1 : to[e] = at[e] /\ at[e] \in DOMAIN j.events
      /\ to \in [1 .. n -> DOMAIN i.events]
  BY <1>4, <1>5, <1>6, <1>7
<1>9. \A d, e \in 1 .. n : d < e => to[d] < to[e]
  <2>1. SUFFICES ASSUME NEW d \in 1 .. n, NEW e \in 1 .. n, d < e
                 PROVE  to[d] < to[e]
    OBVIOUS
  <2>2. d \in 1 .. n - 1
    BY <1>1, <2>1
  <2>3. CASE e = n
    BY <1>4, <1>8, <2>2, <2>3
  <2>4. CASE e # n
    BY <1>5, <1>7, <1>8, <2>1, <2>2, <2>4
  <2>5. QED
    BY <2>3, <2>4
<1>10. Positions(i, "submission_intent") = {to[e] : e \in 1 .. n}
  <2>1. {to[e] : e \in 1 .. n} = {to[e] : e \in 1 .. n - 1} \cup {l}
    BY <1>7, <1>8
  <2>2. {to[e] : e \in 1 .. n - 1} = {at[e] : e \in 1 .. n - 1}
    BY <1>8
  <2>3. QED
    BY <1>4, <1>5, <2>1, <2>2
<1>11. Positions(i, "submission_retired_unlaunched") = {to[e] + 1 : e \in Retired(j)}
  <2>1. {to[e] + 1 : e \in Retired(j)} = {at[e] + 1 : e \in Retired(j)}
    BY <1>5, <1>8
  <2>2. QED
    BY <1>4, <1>5, <2>1
<1>12. ASSUME NEW e \in Retired(j), NEW x \in DOMAIN i.events,
              x > to[e], \A d \in 1 .. n : d > e => x < to[d]
       PROVE  i.events[x] \notin {"child_returned", "attempt_settled"}
  <2>1. e \in 1 .. n - 1 /\ to[e] = at[e] /\ n > e
    BY <1>1, <1>5, <1>8
  <2>2. x < l /\ x \in DOMAIN j.events
    BY <1>1, <1>4, <1>8, <1>12, <2>1
  <2>3. \A d \in 1 .. n - 1 : d > e => x < at[d]
    BY <1>7, <1>8, <1>12
  <2>4. j.events[x] \notin {"child_returned", "attempt_settled"}
    BY <1>2, <1>12, <2>1, <2>2, <2>3 DEF Tells
  <2>5. QED
    BY <2>2, <2>4 DEF Adds
<1>13. \A e \in Retired(j) : i.subs[e].retired = to[e]
  BY <1>4, <1>5, <1>8
<1>14. n \in 0 .. n /\ Retired(j) \subseteq Retired(i) \cap (1 .. n)
  BY <1>1, <1>4, <1>5, <1>7
<1>15. Tells(i, n, to, Retired(i))
  BY <1>1, <1>4, <1>8, <1>9, <1>10, <1>11, <1>12, <1>13, <1>14 DEF Tells
<1>16. QED
  BY <1>1, <1>3, <1>4, <1>8, <1>15 DEF LastIntended

(* The retirement that follows the intent tells of the last submission. *)
LEMMA RetirementTells ==
    ASSUME NEW i \in Journal, NEW j \in Journal, Adds(i, j, "submission_retired_unlaunched"),
           LastIntended(j, Retired(j) \ {Len(j.subs)}), Len(j.subs) \in Retired(j),
           j.subs[Len(j.subs)].retired = Len(j.events)
    PROVE  WhollyTold(i)
<1>1. PICK n : n = Len(j.subs) /\ n \in Nat /\ n > 0
  BY JournalFacts DEF LastIntended
<1>2. PICK R : R = Retired(j) \ {n} /\ Retired(j) = R \cup {n}
  BY <1>1
<1>3. PICK at : Tells(j, n, at, R) /\ at[n] = Len(j.events)
  BY <1>1, <1>2 DEF LastIntended
<1>4. PICK l : l = Len(j.events) + 1 /\ l \in Nat /\ Len(i.events) = l
  BY AddedEvent DEF Adds
<1>5. /\ Retired(i) = Retired(j) /\ i.subs = j.subs
      /\ DOMAIN i.events = DOMAIN j.events \cup {l}
      /\ Positions(i, "submission_intent") = Positions(j, "submission_intent")
      /\ Positions(i, "submission_retired_unlaunched") =
             Positions(j, "submission_retired_unlaunched") \cup {l}
      /\ i.events[l] = "submission_retired_unlaunched"
      /\ Len(j.events) \in Nat /\ DOMAIN j.events = 1 .. Len(j.events)
  <2>1. i.events[l] = "submission_retired_unlaunched"
    BY <1>4 DEF Adds
  <2>2. QED
    BY <1>4, <2>1, AddedEvent
<1>6. /\ at \in [1 .. n -> DOMAIN j.events] /\ R \subseteq 1 .. n
      /\ \A d, e \in 1 .. n : d < e => at[d] < at[e]
      /\ Positions(j, "submission_intent") = {at[e] : e \in 1 .. n}
      /\ Positions(j, "submission_retired_unlaunched") = {at[e] + 1 : e \in R}
      /\ \A e \in R : j.subs[e].retired = at[e]
  BY <1>3 DEF Tells
<1>7. at[n] + 1 = l
  BY <1>3, <1>4
<1>8. Positions(i, "submission_retired_unlaunched") = {at[e] + 1 : e \in Retired(j)}
  <2>1. {at[e] + 1 : e \in Retired(j)} = {at[e] + 1 : e \in R} \cup {l}
    BY <1>2, <1>7
  <2>2. QED
    BY <1>5, <1>6, <2>1
<1>9. \A e \in Retired(j) : i.subs[e].retired = at[e]
  BY <1>1, <1>2, <1>3, <1>5, <1>6
<1>10. ASSUME NEW e \in Retired(j), NEW x \in DOMAIN i.events,
              x > at[e], \A d \in 1 .. n : d > e => x < at[d]
       PROVE  i.events[x] \notin {"child_returned", "attempt_settled"}
  <2>1. CASE x = l
    BY <1>5, <2>1
  <2>2. CASE x # l
    <3>1. x \in DOMAIN j.events /\ i.events[x] = j.events[x]
      BY <1>5, <2>2 DEF Adds
    <3>2. e # n
      <4>1. at[n] = Len(j.events) /\ x <= Len(j.events) /\ x \in Nat
        BY <1>3, <1>5, <3>1
      <4>2. QED
        BY <1>5, <1>10, <4>1
    <3>3. QED
      BY <1>2, <1>3, <1>10, <3>1, <3>2 DEF Tells
  <2>3. QED
    BY <2>1, <2>2
<1>11. at \in [1 .. n -> DOMAIN i.events] /\ n \in 0 .. n /\ Retired(j) \subseteq 1 .. n
  BY <1>1, <1>2, <1>5, <1>6
<1>12. Tells(i, n, at, Retired(i))
  BY <1>1, <1>5, <1>6, <1>8, <1>9, <1>10, <1>11 DEF Tells
<1>13. QED
  BY <1>1, <1>5, <1>12 DEF WhollyTold

(* The same events tell the same of other submissions, if those they tell  *)
(* of are there and retired as before.                                     *)
LEMMA SameEventsTell ==
    ASSUME NEW i, NEW j \in Journal, NEW m, NEW at, NEW R, Tells(j, m, at, R),
           i \in Journal, i.events = j.events, m <= Len(i.subs), R \subseteq Retired(i),
           \A e \in R : i.subs[e].retired = j.subs[e].retired
    PROVE  Tells(i, m, at, R)
<1>1. \A kind : Positions(i, kind) = Positions(j, kind)
  BY DEF Positions
<1>2. m \in Nat /\ R \subseteq 1 .. m /\ Len(i.subs) \in Nat
  BY JournalFacts DEF Tells
<1>3. m \in 0 .. Len(i.subs)
  BY <1>2
<1>4. QED
  BY <1>1, <1>2, <1>3 DEF Tells

(* A journal tells the same whatever its status and what it has settled.   *)
LEMMA SameTold ==
    ASSUME NEW i, NEW j, i.subs = j.subs, i.events = j.events
    PROVE  /\ Told(j) => Told(i)
           /\ WhollyTold(j) => WhollyTold(i)
           /\ LastUntold(j) => LastUntold(i)
           /\ \A R : LastIntended(j, R) => LastIntended(i, R)
           /\ \A kind : Positions(i, kind) = Positions(j, kind)
           /\ Retired(i) = Retired(j)
<1>1. Retired(i) = Retired(j)
  BY SameSubmissions
<1>2. \A kind : Positions(i, kind) = Positions(j, kind)
  BY DEF Positions
<1>3. \A m, at, R : Tells(j, m, at, R) => Tells(i, m, at, R)
  BY <1>1, <1>2 DEF Tells
<1>4. QED
  BY <1>1, <1>2, <1>3 DEF Told, WhollyTold, LastUntold, LastIntended

(* A part of the submissions is told of in each case. *)
LEMMA ToldAnyway ==
    ASSUME NEW j, NEW R, WhollyTold(j) \/ LastUntold(j) \/ LastIntended(j, R)
    PROVE  Told(j)
BY DEF Told, WhollyTold, LastUntold, LastIntended

(* What persist() writes tells of the step it is for. *)
LEMMA WrittenTells ==
    ASSUME JournalInv, EventInv, pc \in Persisting
    PROVE  /\ Readable(Written)
           /\ Positions(Written, "experiment_sealed") =
                  IF mem.sealed THEN {Len(Written.events)} ELSE {}
           /\ pc = "intent" => LastIntended(Written, Retired(Written))
           /\ pc \in {"admitted", "returned", "settle"} => WhollyTold(Written)
<1>1. /\ pc # "idle" /\ mem \in Journal /\ Readable(mem)
      /\ Positions(mem, "experiment_sealed") = {} /\ (mem.sealed <=> pc = "seal")
  BY DEF JournalInv, TypeOK, MemoryExtendsDisk, EventInv, Persisting, Event
<1>2. /\ Written \in Journal /\ Written.status = mem.status /\ Written.subs = mem.subs
      /\ Written.sealed = mem.sealed /\ Retired(Written) = Retired(mem)
      /\ Len(Written.events) = Len(mem.events) + 1
  BY <1>1, WrittenFacts
<1>3. Adds(Written, mem, Event[pc])
  <2>1. \A x \in DOMAIN mem.events : Written.events[x] = mem.events[x]
    BY <1>1, WrittenFacts
  <2>2. Written.events = Append(mem.events, Event[pc]) /\ mem.events \in Seq(EventKinds)
    BY <1>1 DEF Written, Journal
  <2>3. Written.events[Len(mem.events) + 1] = Event[pc]
    BY <2>2
  <2>4. QED
    BY <1>2, <2>1, <2>3 DEF Adds
<1>4. /\ Len(mem.subs) \in Nat /\ Current = Len(mem.subs) /\ Len(mem.events) \in Nat
      /\ \A e : e \in Retired(mem) <=> e \in 1..Len(mem.subs) /\ mem.subs[e].retired # 0
      /\ \A e \in Submitted(mem) : e \notin Retired(mem) /\ e \in 1..Len(mem.subs)
  BY <1>1, JournalFacts DEF Current
<1>5. ASSUME pc = "intent" PROVE LastIntended(Written, Retired(Written))
  <2>1. Current \in Submitted(mem) /\ LastUntold(mem)
    BY <1>5 DEF JournalInv, LaunchInv, EventInv, StepTold
  <2>2. Len(mem.subs) \notin Retired(mem)
    BY <1>4, <2>1
  <2>3. Event[pc] = "submission_intent"
    BY <1>5 DEF Event
  <2>4. QED
    BY <1>1, <1>2, <1>3, <2>1, <2>2, <2>3, IntentTells
<1>6. ASSUME pc = "retire" PROVE WhollyTold(Written)
  <2>1. /\ Current > 0 /\ LastIntended(mem, Retired(mem) \ {Current})
        /\ mem.subs[Current].retired = Len(mem.events)
    BY <1>6 DEF JournalInv, LaunchInv, EventInv, StepTold
  <2>2. Current \in Retired(mem)
    BY <1>1, <1>4, <2>1 DEF Readable
  <2>3. Event[pc] = "submission_retired_unlaunched"
    BY <1>6 DEF Event
  <2>4. QED
    BY <1>1, <1>2, <1>3, <1>4, <2>1, <2>2, <2>3, RetirementTells
<1>7. ASSUME pc = "stop" PROVE Told(Written)
  <2>1. PICK m, at, R : Tells(mem, m, at, R)
    BY <1>1 DEF Readable, Told
  <2>2. Event[pc] = "operator_attention_required"
    BY <1>7 DEF Event
  <2>3. Tells(Written, m, at, R)
    BY <1>1, <1>2, <1>3, <2>1, <2>2, OtherEventTells
  <2>4. QED
    BY <2>3 DEF Told
<1>8. ASSUME pc \in {"admitted", "returned", "settle", "complete", "seal"}
      PROVE  WhollyTold(Written)
  <2>1. WhollyTold(mem)
    BY <1>8 DEF EventInv, StepTold
  <2>2. PICK at : Tells(mem, Len(mem.subs), at, Retired(mem))
    BY <2>1 DEF WhollyTold
  <2>3. Event[pc] \notin {"submission_intent", "submission_retired_unlaunched"}
    BY <1>8 DEF Event
  <2>4. Event[pc] \in {"child_returned", "attempt_settled"} => pc \in {"returned", "settle"}
    BY <1>8 DEF Event
  <2>5. pc \in {"returned", "settle"} => Current \in Submitted(mem)
    <3>1. CASE pc = "returned"
      <4>1. Current > 0 /\ launches[Current] = 1
        BY <3>1 DEF JournalInv, LaunchInv
      <4>2. Current \in Entries
        BY <1>4, <4>1, PlanFacts DEF JournalInv, MemoryExtendsDisk
      <4>3. QED
        BY <1>1, <4>1, <4>2, SettledIsSubmitted
    <3>2. CASE pc = "settle"
      BY <3>2 DEF EventInv, StepTold
    <3>3. QED
      BY <3>1, <3>2
  <2>6. Event[pc] \in {"child_returned", "attempt_settled"}
            => Len(mem.subs) > 0 /\ Len(mem.subs) \notin Retired(mem)
    BY <1>4, <2>4, <2>5
  <2>7. Tells(Written, Len(mem.subs), at, Retired(mem))
    BY <1>1, <1>2, <1>3, <2>2, <2>3, <2>6, OtherEventTells
  <2>8. QED
    BY <1>2, <2>7 DEF WhollyTold
<1>9. Told(Written) \/ WhollyTold(Written) \/ LastIntended(Written, Retired(Written))
  BY <1>5, <1>6, <1>7, <1>8 DEF Persisting, Event
<1>10. Told(Written)
  BY <1>9, ToldAnyway
<1>11. Readable(Written)
  BY <1>1, <1>2, <1>4, <1>10 DEF Readable
<1>12. Positions(Written, "experiment_sealed") =
           IF mem.sealed THEN {Len(Written.events)} ELSE {}
  <2>1. Event[pc] = "experiment_sealed" <=> pc = "seal"
    BY DEF Event, Persisting
  <2>2. QED
    BY <1>1, <1>2, <1>3, <2>1, AddedEvent
<1>13. QED
  BY <1>5, <1>8, <1>11, <1>12

(* The steps that leave the file or let persist() replace it *)
FileSteps == disk' = disk \/ (pc \in Persisting /\ disk' = Written)

(* The file keeps what it tells, or tells what persist() wrote. *)
LEMMA FileTells ==
    ASSUME JournalInv, EventInv, FileSteps
    PROVE  disk'.status # "absent" =>
               /\ Readable(disk')
               /\ Positions(disk', "experiment_sealed") =
                      IF disk'.sealed THEN {Len(disk'.events)} ELSE {}
<1>1. CASE disk' = disk
  BY <1>1 DEF EventInv
<1>2. CASE pc \in Persisting /\ disk' = Written
  <2>1. /\ Readable(Written) /\ Written.sealed = mem.sealed
        /\ Positions(Written, "experiment_sealed") =
               IF mem.sealed THEN {Len(Written.events)} ELSE {}
    BY <1>2, WrittenTells, WrittenFacts DEF JournalInv, TypeOK
  <2>2. QED
    BY <1>2, <2>1
<1>3. QED
  BY <1>1, <1>2 DEF FileSteps

(* The except clause leaves in memory what can be read. *)
LEMMA RaiseTells ==
    ASSUME JournalInv, EventInv, NEW j \in Journal, Readable(j),
           Positions(j, "experiment_sealed") = {}, Raise(j), FileSteps
    PROVE  EventInv'
<1>1. /\ pc' = "stop" /\ mem' \in Journal /\ mem'.status = "stopped"
      /\ mem'.subs = j.subs /\ mem'.events = j.events
  BY RaiseFacts
<1>2. Positions(mem', "experiment_sealed") = {} /\ Told(mem') /\ Retired(mem') = Retired(j)
  BY <1>1, SameTold DEF Readable
<1>3. Readable(mem')
  BY <1>1, <1>2 DEF Readable
<1>4. StepTold'
  BY <1>1 DEF StepTold
<1>5. QED
  BY <1>1, <1>2, <1>3, <1>4, FileTells DEF EventInv

(* The end of an invocation leaves nothing in memory. *)
LEMMA IdleTells ==
    ASSUME JournalInv, EventInv, Idle, FileSteps
    PROVE  EventInv'
<1>1. pc' = "idle"
  BY DEF Idle
<1>2. StepTold'
  BY <1>1 DEF StepTold
<1>3. QED
  BY <1>1, <1>2, FileTells DEF EventInv

(* Between two entries, and from the launch of a trial to its settlement,  *)
(* the events in memory tell of all submissions.                           *)
LEMMA WholeTells ==
    ASSUME JournalInv, EventInv, FileSteps,
           NEW j \in Journal, WhollyTold(j), Len(j.events) > 0,
           \A e \in Retired(j) : j.subs[e].returncode = "none",
           Positions(j, "experiment_sealed") = {},
           mem'.subs = j.subs, mem'.events = j.events,
           mem'.status = "completed" => Len(j.subs) = N,
           mem'.sealed => mem'.status # "running",
           pc' \notin {"idle", "stop", "intent", "dispatch", "retire"},
           pc' = "settle" => Len(j.subs) \in Submitted(j)
    PROVE  EventInv'
<1>1. /\ WhollyTold(mem') /\ Positions(mem', "experiment_sealed") = {}
      /\ Retired(mem') = Retired(j) /\ Submitted(mem') = Submitted(j)
  BY SameTold, SameSubmissions
<1>2. Readable(mem')
  BY <1>1, ToldAnyway DEF Readable
<1>3. StepTold'
  BY <1>1 DEF StepTold, Current
<1>4. QED
  BY <1>1, <1>2, <1>3, FileTells DEF EventInv

(* run() begins a journal with one event and no submission. *)
LEMMA RunTells ==
    ASSUME JournalInv, EventInv, Run
    PROVE  EventInv'
<1> DEFINE j == [NoJournal EXCEPT !.status = "running", !.events = <<"experiment_started">>]
<1>1. /\ mem' = j /\ disk' = j /\ pc' = "admit"
  BY DEF Run
<1>2. JournalInv'
  BY RunKeeps
<1>3. /\ j.subs = <<>> /\ j.events = <<"experiment_started">> /\ j.status = "running" /\ ~j.sealed
      /\ j \in Journal
  BY <1>1, <1>2, NoJournalFacts DEF NoJournal, JournalInv, TypeOK
<1> HIDE DEF j
<1>4. /\ Len(j.subs) = 0 /\ Len(j.events) = 1 /\ DOMAIN j.events = {1}
      /\ j.events[1] = "experiment_started" /\ Retired(j) = {}
  BY <1>3, JournalFacts DEF Retired
<1>5. \A kind : kind # "experiment_started" => Positions(j, kind) = {}
  BY <1>4 DEF Positions
<1>6. Tells(j, 0, [e \in 1 .. 0 |-> 1], {})
  BY <1>4, <1>5 DEF Tells
<1>7. WhollyTold(j)
  BY <1>4, <1>6 DEF WhollyTold
<1>8. Readable(j)
  BY <1>3, <1>4, <1>7, ToldAnyway DEF Readable
<1>9. StepTold'
  BY <1>1, <1>7 DEF StepTold
<1>10. QED
  BY <1>1, <1>3, <1>5, <1>8, <1>9 DEF EventInv

(* resume() goes on with a journal that it could read. *)
LEMMA ResumeTells ==
    ASSUME JournalInv, EventInv, Resume
    PROVE  EventInv'
<1>1. /\ mem' = disk /\ disk' = disk /\ pc' = "admit" /\ disk \in Journal
      /\ disk.status # "absent" /\ ValidState(disk) /\ ~disk.sealed
  BY DEF Resume, JournalInv, TypeOK
<1>2. Readable(disk) /\ Positions(disk, "experiment_sealed") = {}
  BY <1>1 DEF EventInv
<1>3. WhollyTold(disk)
  BY <1>1, <1>2, MatchesIsTold DEF ValidState, EventsMatch, Readable
<1>4. QED
  BY <1>1, <1>2, <1>3, WholeTells DEF Readable, FileSteps

(* So does seal(), which changes no submission and no event. *)
LEMMA SealTells ==
    ASSUME JournalInv, EventInv, Seal
    PROVE  EventInv'
<1>1. /\ disk' = disk /\ pc' = "seal" /\ disk \in Journal /\ Len(disk.subs) <= N
      /\ disk.status # "absent" /\ ValidState(disk) /\ ~disk.sealed
  BY DEF Seal, JournalInv, TypeOK, MemoryExtendsDisk
<1>2. Readable(disk) /\ Positions(disk, "experiment_sealed") = {}
  BY <1>1 DEF EventInv
<1>3. WhollyTold(disk)
  BY <1>1, <1>2, MatchesIsTold DEF ValidState, EventsMatch, Readable
<1>4. /\ mem'.subs = disk.subs /\ mem'.events = disk.events
      /\ mem'.status = IF disk.status = "completed" THEN disk.status ELSE "stopped"
  <2>1. /\ Reconciled(disk) \in Journal /\ Reconciled(disk).subs = disk.subs
        /\ Reconciled(disk).events = disk.events /\ Reconciled(disk).status = disk.status
    BY <1>1, ReconciledFacts
  <2>2. mem' = [Reconciled(disk) EXCEPT !.sealed = TRUE,
                   !.status = IF @ = "completed" THEN @ ELSE "stopped"]
    BY DEF Seal
  <2>3. QED
    BY <2>1, <2>2 DEF Journal
<1>5. QED
  BY <1>1, <1>2, <1>3, <1>4, WholeTells DEF Readable, FileSteps

(* What is in memory during an invocation *)
LEMMA MemoryFacts ==
    ASSUME JournalInv, EventInv, pc # "idle"
    PROVE  /\ mem \in Journal /\ Readable(mem) /\ Positions(mem, "experiment_sealed") = {}
           /\ Current = Len(mem.subs) /\ Current \in Nat /\ Len(mem.events) \in Nat
           /\ mem.sealed <=> pc = "seal"
           /\ Reconciled(mem) \in Journal /\ Readable(Reconciled(mem))
           /\ Positions(Reconciled(mem), "experiment_sealed") = {}
           /\ Retired(Reconciled(mem)) = Retired(mem)
<1>1. /\ mem \in Journal /\ Readable(mem) /\ Positions(mem, "experiment_sealed") = {}
      /\ (mem.sealed <=> pc = "seal")
  BY DEF JournalInv, TypeOK, MemoryExtendsDisk, EventInv
<1>2. Current = Len(mem.subs) /\ Current \in Nat /\ Len(mem.events) \in Nat
  BY <1>1, JournalFacts DEF Current
<1>3. /\ Reconciled(mem) \in Journal /\ Reconciled(mem).subs = mem.subs
      /\ Reconciled(mem).events = mem.events /\ Reconciled(mem).status = mem.status
      /\ Reconciled(mem).sealed = mem.sealed
  BY SettledIsLaunched
<1>4. /\ Told(Reconciled(mem)) /\ Positions(Reconciled(mem), "experiment_sealed") = {}
      /\ Retired(Reconciled(mem)) = Retired(mem)
  BY <1>1, <1>3, SameTold DEF Readable
<1>5. Readable(Reconciled(mem))
  BY <1>1, <1>3, <1>4 DEF Readable
<1>6. QED
  BY <1>1, <1>2, <1>3, <1>4, <1>5

(* reconcile() before the first entry *)
LEMMA AdmitTells ==
    ASSUME JournalInv, EventInv, Admit
    PROVE  EventInv'
<1>1. pc = "admit" /\ disk' = disk
  BY DEF Admit
<1>2. WhollyTold(mem)
  BY <1>1 DEF EventInv, StepTold
<1>3. CASE Reconciles(mem)
  <2>1. pc' = "admitted" /\ mem' = [Reconciled(mem) EXCEPT !.status = "running"]
    BY <1>3 DEF Admit
  <2>2. /\ Reconciled(mem) \in Journal /\ Reconciled(mem).subs = mem.subs
        /\ Reconciled(mem).events = mem.events /\ Reconciled(mem).sealed = mem.sealed
    BY <1>1, SettledIsLaunched
  <2>3. /\ mem'.subs = mem.subs /\ mem'.events = mem.events /\ mem'.status = "running"
        /\ ~mem'.sealed
    BY <1>1, <2>1, <2>2, MemoryFacts DEF Journal
  <2>4. QED
    BY <1>1, <1>2, <2>1, <2>3, MemoryFacts, WholeTells DEF Readable, FileSteps
<1>4. CASE ~Reconciles(mem)
  <2>1. Raise(Reconciled(mem))
    BY <1>4 DEF Admit
  <2>2. QED
    BY <1>1, <2>1, MemoryFacts, RaiseTells DEF FileSteps
<1>5. QED
  BY <1>3, <1>4

(* The last entry is done. *)
LEMMA AllSubmittedTells ==
    ASSUME JournalInv, EventInv, AllSubmitted
    PROVE  EventInv'
<1>1. /\ pc = "next" /\ disk' = disk /\ pc' = "complete" /\ Current = N
      /\ mem' = [mem EXCEPT !.status = "completed"]
  BY DEF AllSubmitted
<1>2. WhollyTold(mem) /\ mem \in Journal
  BY <1>1, MemoryFacts DEF EventInv, StepTold
<1>3. /\ mem'.subs = mem.subs /\ mem'.events = mem.events /\ mem'.status = "completed"
  BY <1>1, <1>2 DEF Journal
<1>4. QED
  BY <1>1, <1>2, <1>3, MemoryFacts, WholeTells DEF Readable, FileSteps

(* The next entry is in memory, its intent is not. *)
LEMMA SubmitTells ==
    ASSUME JournalInv, EventInv, Submit
    PROVE  EventInv'
<1>1. pc = "next" /\ disk' = disk /\ Current < N
  BY DEF Submit
<1>2. WhollyTold(mem) /\ mem \in Journal /\ Readable(mem)
  BY <1>1, MemoryFacts DEF EventInv, StepTold
<1>3. CASE MaySubmit(Current + 1)
  <2> DEFINE new == [returncode |-> "none", retired |-> 0]
             r == Reconciled(mem)
  <2>1. pc' = "intent" /\ mem' = [r EXCEPT !.subs = Append(@, new)]
    BY <1>3 DEF Submit
  <2>2. /\ r \in Journal /\ r.subs = mem.subs /\ r.events = mem.events /\ r.sealed = mem.sealed
        /\ r.status = mem.status
    BY <1>1, SettledIsLaunched
  <2> HIDE DEF r
  <2>3. PICK n : n = Len(mem.subs) /\ n \in Nat
    BY <1>2, JournalFacts
  <2>4. mem.subs \in Seq(Submission) /\ new \in Submission
    BY <1>2 DEF Journal, Submission
  <2>5. /\ Append(mem.subs, new) \in Seq(Submission)
        /\ Len(Append(mem.subs, new)) = n + 1
        /\ \A e \in 1 .. n : Append(mem.subs, new)[e] = mem.subs[e]
        /\ Append(mem.subs, new)[n + 1] = new
    BY <2>3, <2>4
  <2>6. /\ mem' \in Journal /\ mem'.subs = Append(mem.subs, new)
        /\ mem'.events = mem.events /\ mem'.sealed = mem.sealed /\ mem'.status = mem.status
    BY <2>1, <2>2, <2>5 DEF Journal
  <2>7. Retired(mem') = Retired(mem) /\ Retired(mem) \subseteq 1 .. n
    <3>1. \A e : e \in Retired(mem) <=> e \in 1 .. n /\ mem.subs[e].retired # 0
      BY <1>2, <2>3, JournalFacts
    <3>2. \A e : e \in Retired(mem') <=> e \in 1 .. n + 1 /\ mem'.subs[e].retired # 0
      BY <2>5, <2>6, JournalFacts
    <3>3. \A e : e \in 1 .. n + 1 <=> e \in 1 .. n \/ e = n + 1
      BY <2>3
    <3>4. /\ mem'.subs[n + 1].retired = 0
          /\ \A e \in 1 .. n : mem'.subs[e] = mem.subs[e]
      <4>1. new.retired = 0
        OBVIOUS
      <4> HIDE DEF new
      <4>2. QED
        BY <2>5, <2>6, <4>1, Zenon
    <3>5. \A e : e \in Retired(mem') <=> e \in Retired(mem)
      BY <3>1, <3>2, <3>3, <3>4
    <3>6. QED
      BY <3>1, <3>5
  <2>8. PICK at : Tells(mem, n, at, Retired(mem))
    BY <1>2, <2>3 DEF WhollyTold
  <2>9. Tells(mem', n, at, Retired(mem))
    <3>1. n <= Len(mem'.subs)
      BY <2>3, <2>5, <2>6
    <3>2. \A e \in Retired(mem) : mem'.subs[e].retired = mem.subs[e].retired
      BY <2>5, <2>6, <2>7
    <3>3. QED
      BY <1>2, <2>6, <2>7, <2>8, <3>1, <3>2, SameEventsTell
  <2>10. LastUntold(mem')
    <3>1. Len(mem'.subs) > 0 /\ Len(mem'.subs) - 1 = n
      BY <2>3, <2>5, <2>6
    <3>2. QED
      BY <2>7, <2>9, <3>1 DEF LastUntold
  <2>11. Positions(mem', "experiment_sealed") = {}
    BY <1>1, <2>6, MemoryFacts DEF Positions
  <2>12. mem.status # "completed"
    BY <1>1 DEF JournalInv, OrderInv
  <2>13. Readable(mem')
    <3>1. Told(mem') /\ Len(mem'.events) > 0 /\ (mem'.sealed => mem'.status # "running")
      BY <1>2, <2>6, <2>10, ToldAnyway DEF Readable
    <3>2. \A e \in Retired(mem') : mem'.subs[e].returncode = "none"
      BY <1>2, <2>5, <2>6, <2>7 DEF Readable
    <3>3. QED
      BY <2>6, <2>12, <3>1, <3>2 DEF Readable
  <2>14. mem'.subs[Len(mem'.subs)].returncode = "none"
    BY <2>5, <2>6
  <2>15. StepTold'
    BY <2>1, <2>10, <2>14 DEF StepTold, Current
  <2>16. QED
    BY <1>1, <2>11, <2>13, <2>15, FileTells DEF EventInv, FileSteps
<1>4. CASE ~MaySubmit(Current + 1)
  <2>1. Raise(Reconciled(mem))
    BY <1>4 DEF Submit
  <2>2. QED
    BY <1>1, <2>1, MemoryFacts, RaiseTells DEF FileSteps
<1>5. QED
  BY <1>3, <1>4

(* The entry is retired at its intent; the event that tells so follows.    *)
LEMMA RetireUnlaunchedTells ==
    ASSUME JournalInv, EventInv, RetireUnlaunched
    PROVE  EventInv'
<1>1. /\ pc = "dispatch" /\ disk' = disk /\ pc' = "retire"
      /\ mem' = [mem EXCEPT !.subs[Current].retired = Len(mem.events)]
  BY DEF RetireUnlaunched
<1>2. PICK n : n = Len(mem.subs) /\ n \in Nat /\ n > 0 /\ Current = n /\ n \in Submitted(mem)
  BY <1>1, DispatchFacts
<1>3. /\ mem \in Journal /\ Readable(mem) /\ Len(mem.events) \in Nat
      /\ Positions(mem, "experiment_sealed") = {} /\ n \in 1 .. n
  BY <1>1, <1>2, MemoryFacts
<1>4. LastIntended(mem, Retired(mem)) /\ mem.subs[n].returncode = "none"
  BY <1>1, <1>2 DEF EventInv, StepTold
<1>5. PICK s : s = [mem.subs[n] EXCEPT !.retired = Len(mem.events)]
  OBVIOUS
<1>6. mem.subs[n] \in Submission
  BY <1>2, <1>3, JournalFacts
<1>7. s \in Submission /\ s.returncode = "none" /\ s.retired = Len(mem.events)
  BY <1>3, <1>4, <1>5, <1>6 DEF Submission
<1>8. mem' = [mem EXCEPT !.subs[n] = s]
  BY <1>1, <1>2, <1>5
<1>9. /\ mem' \in Journal /\ mem'.status = mem.status /\ mem'.events = mem.events
      /\ mem'.sealed = mem.sealed /\ Len(mem'.subs) = n /\ mem'.subs[n] = s
      /\ \A e \in 1 .. n : e # n => mem'.subs[e] = mem.subs[e]
  BY <1>2, <1>3, <1>7, <1>8, ResubmittedFacts
<1>10. Retired(mem') = Retired(mem) \cup {n} /\ n \notin Retired(mem) /\ Retired(mem) \subseteq 1 .. n
  <2>1. \A e : e \in Retired(mem) <=> e \in 1 .. n /\ mem.subs[e].retired # 0
    BY <1>2, <1>3, JournalFacts
  <2>2. \A e : e \in Retired(mem') <=> e \in 1 .. n /\ mem'.subs[e].retired # 0
    BY <1>9, JournalFacts
  <2>3. n \notin Retired(mem)
    BY <1>2 DEF Submitted
  <2>4. s.retired # 0
    BY <1>3, <1>7 DEF Readable
  <2>5. QED
    BY <1>3, <1>9, <2>1, <2>2, <2>3, <2>4
<1>11. PICK at : Tells(mem, n, at, Retired(mem)) /\ at[n] = Len(mem.events)
  BY <1>2, <1>4 DEF LastIntended
<1>12. Tells(mem', n, at, Retired(mem))
  <2>1. n <= Len(mem'.subs) /\ Retired(mem) \subseteq Retired(mem')
    BY <1>2, <1>9, <1>10
  <2>2. \A e \in Retired(mem) : mem'.subs[e].retired = mem.subs[e].retired
    BY <1>9, <1>10
  <2>3. QED
    BY <1>3, <1>9, <1>11, <2>1, <2>2, SameEventsTell
<1>13. LastIntended(mem', Retired(mem') \ {n})
  <2>1. Retired(mem') \ {n} = Retired(mem)
    BY <1>10
  <2>2. QED
    BY <1>2, <1>9, <1>11, <1>12, <2>1 DEF LastIntended
<1>14. Positions(mem', "experiment_sealed") = {}
  BY <1>3, <1>9 DEF Positions
<1>15. Readable(mem')
  <2>1. Told(mem')
    BY <1>13, ToldAnyway
  <2>2. \A e \in Retired(mem') : mem'.subs[e].returncode = "none"
    BY <1>3, <1>7, <1>9, <1>10 DEF Readable
  <2>3. QED
    BY <1>2, <1>3, <1>9, <2>1, <2>2 DEF Readable
<1>16. StepTold'
  <2>1. Current' = n
    BY <1>9 DEF Current
  <2>2. QED
    BY <1>1, <1>7, <1>9, <1>13, <2>1 DEF StepTold
<1>17. QED
  BY <1>1, <1>14, <1>15, <1>16, FileTells DEF EventInv, FileSteps

(* The trial is launched; what is told stays. *)
LEMMA LaunchTells ==
    ASSUME JournalInv, EventInv, Launch
    PROVE  EventInv'
<1>1. pc = "dispatch" /\ mem' = mem /\ disk' = disk /\ pc' = "waiting"
  BY DEF Launch
<1>2. LastIntended(mem, Retired(mem))
  BY <1>1 DEF EventInv, StepTold
<1>3. WhollyTold(mem)
  BY <1>2 DEF LastIntended, WhollyTold
<1>4. QED
  BY <1>1, <1>3, MemoryFacts, WholeTells DEF Readable, FileSteps

(* The result of the launched trial is noted; it is not retired. *)
LEMMA ChildReturnedTells ==
    ASSUME JournalInv, EventInv, ChildReturned
    PROVE  EventInv'
<1>1. PICK code \in {"zero", "error"} : mem' = [mem EXCEPT !.subs[Current].returncode = code]
  BY DEF ChildReturned
<1>2. pc = "waiting" /\ disk' = disk /\ pc' = "returned"
  BY DEF ChildReturned
<1>3. PICK n : n = Len(mem.subs) /\ n \in Nat /\ Current = n
  BY <1>2, MemoryFacts
<1>4. /\ mem \in Journal /\ Readable(mem) /\ Positions(mem, "experiment_sealed") = {}
      /\ WhollyTold(mem)
  BY <1>2, MemoryFacts DEF EventInv, StepTold
<1>5. n > 0 /\ n \in Submitted(mem)
  <2>1. n > 0 /\ launches[n] = 1
    BY <1>2, <1>3 DEF JournalInv, LaunchInv
  <2>2. n \in Entries
    BY <1>3, <2>1, PlanFacts DEF JournalInv, MemoryExtendsDisk
  <2>3. QED
    BY <1>2, <2>1, <2>2, SettledIsSubmitted
<1>6. PICK s : s = [mem.subs[n] EXCEPT !.returncode = code]
  OBVIOUS
<1>7. n \in 1 .. n /\ mem.subs[n] \in Submission /\ mem.subs[n].retired = 0
  BY <1>3, <1>4, <1>5, JournalFacts
<1>8. s \in Submission /\ s.retired = 0
  BY <1>6, <1>7 DEF Submission
<1>9. mem' = [mem EXCEPT !.subs[n] = s]
  BY <1>1, <1>3, <1>6
<1>10. /\ mem' \in Journal /\ mem'.status = mem.status /\ mem'.events = mem.events
       /\ mem'.sealed = mem.sealed /\ Len(mem'.subs) = n /\ mem'.subs[n] = s
       /\ \A e \in 1 .. n : e # n => mem'.subs[e] = mem.subs[e]
  BY <1>3, <1>4, <1>7, <1>8, <1>9, ResubmittedFacts
<1>11. Retired(mem') = Retired(mem) /\ n \notin Retired(mem) /\ Retired(mem) \subseteq 1 .. n
  <2>1. \A e : e \in Retired(mem) <=> e \in 1 .. n /\ mem.subs[e].retired # 0
    BY <1>3, <1>4, JournalFacts
  <2>2. \A e : e \in Retired(mem') <=> e \in 1 .. n /\ mem'.subs[e].retired # 0
    BY <1>10, JournalFacts
  <2>3. QED
    BY <1>7, <1>8, <1>10, <2>1, <2>2
<1>12. PICK at : Tells(mem, n, at, Retired(mem))
  BY <1>3, <1>4 DEF WhollyTold
<1>13. WhollyTold(mem')
  <2>1. n <= Len(mem'.subs) /\ Retired(mem) \subseteq Retired(mem')
    BY <1>3, <1>10, <1>11
  <2>2. \A e \in Retired(mem) : mem'.subs[e].retired = mem.subs[e].retired
    BY <1>10, <1>11
  <2>3. Tells(mem', n, at, Retired(mem))
    BY <1>4, <1>10, <1>12, <2>1, <2>2, SameEventsTell
  <2>4. QED
    BY <1>10, <1>11, <2>3 DEF WhollyTold
<1>14. \A e \in Retired(mem') : mem'.subs[e].returncode = "none"
  BY <1>4, <1>10, <1>11 DEF Readable
<1>15. Positions(mem', "experiment_sealed") = {}
  BY <1>4, <1>10 DEF Positions
<1>16. QED
  BY <1>2, <1>3, <1>4, <1>10, <1>13, <1>14, <1>15, WholeTells DEF Readable, FileSteps

(* The launched entry is settled, or the invocation ends. *)
LEMMA CheckReturnedTells ==
    ASSUME JournalInv, EventInv, CheckReturned
    PROVE  EventInv'
<1>1. pc = "check" /\ disk' = disk
  BY DEF CheckReturned
<1>2. WhollyTold(mem) /\ Submitted(Reconciled(mem)) = Submitted(mem)
  <2>1. Reconciled(mem).subs = mem.subs
    BY <1>1, SettledIsLaunched
  <2>2. QED
    BY <1>1, <2>1, SameSubmissions DEF EventInv, StepTold
<1>3. CASE pc' = "settle" /\ mem' = Reconciled(mem)
  <2>1. Current \in Submitted(mem)
    <3>1. Current > 0 /\ launches[Current] = 1
      BY <1>1 DEF JournalInv, LaunchInv
    <3>2. Current \in Entries
      BY <1>1, <3>1, MemoryFacts, PlanFacts DEF JournalInv, MemoryExtendsDisk
    <3>3. QED
      BY <1>1, <3>1, <3>2, SettledIsSubmitted
  <2>2. /\ mem'.subs = mem.subs /\ mem'.events = mem.events /\ mem'.status = mem.status
        /\ mem'.sealed = mem.sealed
    BY <1>1, <1>3, SettledIsLaunched
  <2>3. QED
    BY <1>1, <1>2, <1>3, <2>1, <2>2, MemoryFacts, WholeTells DEF Readable, FileSteps
<1>4. CASE Raise(Reconciled(mem)) \/ Raise(mem)
  BY <1>1, <1>4, MemoryFacts, RaiseTells DEF FileSteps
<1>5. QED
  BY <1>3, <1>4 DEF CheckReturned

(* persist() tells of the step, and the next one goes on from there.       *)
LEMMA PersistTells ==
    ASSUME JournalInv, EventInv, Persist
    PROVE  EventInv'
<1>1. /\ pc \in Persisting /\ pc # "idle" /\ disk' = Written /\ pc' = Following[pc]
      /\ mem' = CASE pc' = "idle" -> NoJournal
                  [] pc' = "stop" -> [Written EXCEPT !.status = "stopped"]
                  [] OTHER        -> Written
  BY DEF Persist, Persisting, Event
<1>2. FileSteps
  BY <1>1 DEF FileSteps
<1>3. /\ Written \in Journal /\ Readable(Written) /\ Written.subs = mem.subs
      /\ Written.sealed = mem.sealed /\ (mem.sealed <=> pc = "seal")
      /\ pc # "seal" => Positions(Written, "experiment_sealed") = {}
  BY <1>1, WrittenTells, WrittenFacts, MemoryFacts
<1>4. CASE pc' = "idle"
  BY <1>1, <1>2, <1>4, IdleTells DEF Idle
<1>5. CASE pc' = "stop"
  <2>1. Raise(Written)
    BY <1>1, <1>5 DEF Raise
  <2>2. pc # "seal"
    BY <1>1, <1>5 DEF Following
  <2>3. QED
    BY <1>2, <1>3, <2>1, <2>2, RaiseTells
<1>6. CASE pc = "intent"
  <2>1. pc' = "dispatch" /\ mem' = Written
    BY <1>1, <1>6 DEF Following
  <2>2. LastIntended(Written, Retired(Written))
    BY <1>1, <1>6, WrittenTells
  <2>3. mem.subs[Current].returncode = "none"
    BY <1>6 DEF EventInv, StepTold
  <2>4. mem'.subs[Len(mem'.subs)].returncode = "none"
    BY <1>3, <2>1, <2>3 DEF Current
  <2>5. StepTold'
    BY <2>1, <2>2, <2>4 DEF StepTold, Current
  <2>6. QED
    BY <1>2, <1>3, <1>6, <2>1, <2>5, FileTells DEF EventInv
<1>7. CASE pc \in {"admitted", "returned", "settle"}
  <2>1. pc' \in {"next", "check"} /\ mem' = Written
    BY <1>1, <1>7 DEF Following
  <2>2. WhollyTold(Written)
    BY <1>1, <1>7, WrittenTells
  <2>3. QED
    BY <1>2, <1>3, <1>7, <2>1, <2>2, WholeTells DEF Readable
<1>8. QED
  BY <1>1, <1>4, <1>5, <1>6, <1>7 DEF Following, Persisting, Event

(* An exception leaves in memory what was there, or what was to be written. *)
LEMMA InterruptedTells ==
    ASSUME JournalInv, EventInv, Interrupted
    PROVE  EventInv'
<1>1. pc # "idle" /\ pc # "seal" /\ disk' = disk
  BY DEF Interrupted, Trying
<1>2. CASE Raise(mem)
  BY <1>1, <1>2, MemoryFacts, RaiseTells DEF FileSteps
<1>3. CASE pc \in Persisting /\ Raise(Written)
  BY <1>1, <1>3, MemoryFacts, WrittenTells, WrittenFacts, RaiseTells DEF FileSteps
<1>4. QED
  BY <1>2, <1>3 DEF Interrupted

(* What is not the coordinator's changes nothing of it. *)
LEMMA OthersTell ==
    ASSUME EventInv, UNCHANGED <<disk, mem, pc>>
    PROVE  EventInv'
<1>1. StepTold'
  BY DEF EventInv, StepTold, Current
<1>2. QED
  BY <1>1 DEF EventInv

(* Every step keeps it. *)
LEMMA EventNext == JournalInv /\ EventInv /\ [Next]_vars => EventInv'
<1> SUFFICES ASSUME JournalInv, EventInv, [Next]_vars
             PROVE  EventInv'
  OBVIOUS
<1>1. CASE Run \/ Resume \/ Seal
  BY <1>1, RunTells, ResumeTells, SealTells
<1>2. CASE Step
  <2>1. CASE LauncherRaises
    <3>1. pc = "waiting" /\ disk' = disk /\ Raise(mem)
      BY <2>1 DEF LauncherRaises
    <3>2. QED
      BY <3>1, MemoryFacts, RaiseTells DEF FileSteps
  <2>2. QED
    BY <1>2, <2>1, AdmitTells, PersistTells, AllSubmittedTells, SubmitTells,
       RetireUnlaunchedTells, LaunchTells, ChildReturnedTells, CheckReturnedTells DEF Step
<1>3. CASE Faults
  <2>1. CASE Interrupted
    BY <2>1, InterruptedTells
  <2>2. CASE LostReply
    BY <2>2, IdleTells DEF LostReply, FileSteps
  <2>3. CASE WriteFails \/ Crash
    BY <2>3, IdleTells DEF WriteFails, Crash, FileSteps
  <2>4. QED
    BY <1>3, <2>1, <2>2, <2>3 DEF Faults
<1>4. CASE Trials
  <2>1. UNCHANGED <<disk, mem, pc>>
    BY <1>4, TrialStepsGoOn DEF Trials
  <2>2. QED
    BY <2>1, OthersTell
<1>5. CASE Tick
  BY <1>5, OthersTell DEF Tick
<1>6. CASE UNCHANGED vars
  BY <1>6, OthersTell DEF vars
<1>7. QED
  BY <1>1, <1>2, <1>3, <1>4, <1>5, <1>6 DEF Next

(* EventInv always holds. *)
LEMMA EventSafety == Spec => []EventInv
<1>1. Init => EventInv
  BY NoJournalFacts DEF Init, EventInv, StepTold
<1>2. QED
  BY <1>1, EventNext, JournalSafety, PTL DEF Spec

(* Whatever happened, what resume() and seal() would refuse to read is a   *)
(* journal that an exception tore, or one that grew too long: no sequence  *)
(* of crashes, interrupts, lost replies and resumes makes another.         *)
THEOREM CoordinatorLoadable == Spec => []LoadableUnlessTorn
<1>1. JournalInv /\ EventInv => LoadableUnlessTorn
  <2> SUFFICES ASSUME JournalInv, EventInv, disk.status # "absent",
                      Len(disk.events) <= MaxEvents,
                      Cardinality(Positions(disk, "submission_intent")) = Len(disk.subs),
                      Cardinality(Positions(disk, "submission_retired_unlaunched")) =
                          Cardinality(Retired(disk))
               PROVE  ValidState(disk)
    BY DEF LoadableUnlessTorn
  <2>1. /\ disk \in Journal /\ Readable(disk) /\ Len(disk.subs) <= N
        /\ Positions(disk, "experiment_sealed") = IF disk.sealed THEN {Len(disk.events)} ELSE {}
        /\ disk.settled \subseteq Submitted(disk)
    BY SettledIsSubmitted DEF EventInv
  <2>2. EventsMatch(disk)
    BY <2>1, CountedIsTold, ToldMatches DEF Readable
  <2>3. /\ Len(disk.events) \in Nat /\ Len(disk.subs) \in Nat
        /\ Retired(disk) \subseteq 1 .. Len(disk.subs) /\ Submitted(disk) \subseteq 1 .. Len(disk.subs)
        /\ Retired(disk) \cup Submitted(disk) = 1 .. Len(disk.subs)
        /\ Retired(disk) \cap Submitted(disk) = {}
    BY <2>1, JournalFacts DEF Submitted
  <2>4. disk.status = "completed" =>
            Cardinality(disk.settled) + Cardinality(Retired(disk)) = N
    <3>1. SUFFICES ASSUME disk.status = "completed"
                   PROVE  Cardinality(disk.settled) + Cardinality(Retired(disk)) = N
      OBVIOUS
    <3>2. Len(disk.subs) = N /\ disk.settled = Submitted(disk)
      BY <2>1, <3>1 DEF Readable, JournalInv, OrderInv, AllSettled
    <3>3. IsFiniteSet(1 .. N) /\ Cardinality(1 .. N) = N
      BY PlanFacts, FS_Interval
    <3>4. IsFiniteSet(Retired(disk)) /\ IsFiniteSet(Submitted(disk))
      BY <2>3, <3>2, <3>3, FS_Subset
    <3>5. Cardinality(Retired(disk)) \in Nat /\ Cardinality(Submitted(disk)) \in Nat
      BY <3>4, FS_CardinalityType
    <3>6. /\ Cardinality(Retired(disk) \cup Submitted(disk)) =
                 Cardinality(Retired(disk)) + Cardinality(Submitted(disk))
                     - Cardinality(Retired(disk) \cap Submitted(disk))
      BY <3>4, FS_Union
    <3>7. Cardinality(Retired(disk) \cap Submitted(disk)) = 0
      BY <2>3, FS_EmptySet
    <3>8. Cardinality(Retired(disk) \cup Submitted(disk)) = N
      BY <2>3, <3>2, <3>3
    <3>9. N = Cardinality(Retired(disk)) + Cardinality(Submitted(disk))
      BY <3>5, <3>6, <3>7, <3>8
    <3>10. QED
      BY <3>2, <3>5, <3>9
  <2>5. disk.sealed => disk.settled = Submitted(disk) /\ disk.status # "running"
    BY <2>1 DEF Readable, JournalInv, OrderInv, AllSettled
  <2>6. Len(disk.events) \in 1 .. MaxEvents
    BY <2>1, <2>3, CoordinatorAssumption DEF Readable
  <2>7. QED
    BY <2>1, <2>2, <2>4, <2>5, <2>6 DEF ValidState, EventsMatch, Readable
<1>2. QED
  BY <1>1, JournalSafety, EventSafety, PTL

(***************************************************************************)
(* The follower and its publications                                       *)
(***************************************************************************)

(* What an attempt's status may become *)
Later(x, y) == \/ x = y
               \/ x = "pending"
               \/ x = "failed" /\ y \in {"recovering", "recovered"}
               \/ x = "recovering" /\ y = "recovered"

(* One account of the cohort is not newer than another.                    *)
Below(o, c) == \A a \in Members : Later(o[a], c[a])

Operating == {"operate", "export", "reply", "exported", "check", "publish",
              "result", "done"}
Places == {"none", "state", "seed", "seeded", "loop", "decide", "begin"}
              \cup Operating
Accounts == Contents \cup {None}

FollowerStates ==
    [made : {"no", "intent", "yes"},
     status : {"watching", "working", "blocked", "uncertain", "unfinished",
               "complete"},
     observed : Accounts, term : BOOLEAN, exports : SUBSET Members, sig : Accounts,
     ops : 0 .. MaxOps, cur : BOOLEAN, polls : 0 .. MaxPolls, seeded : BOOLEAN]
OperationFiles ==
    [anchor : Members \cup {None}, snapshot : BOOLEAN, obs : Accounts, started : BOOLEAN,
     export : Accounts, marker : BOOLEAN, done : BOOLEAN]
Exporters ==
    [st : {"idle", "running", "done"}, rows : [Members -> Statuses \cup {"unread"}],
     reply : Accounts]
Drivers ==
    [pc : {"idle", "check", "claim", "marker", "deploy", "find", "prove", "record",
           "complete", "end"},
     pkg : Accounts, res : {"none", "published", "uncertain"}]

ProcessTypes ==
    /\ me \in Places /\ st \in FollowerStates /\ op \in OperationFiles
    /\ exporter \in Exporters /\ driver \in Drivers
    /\ seed \in Accounts /\ late \in BOOLEAN /\ kills \in 0 .. MaxKills

(* What is true of the cohort, and when the coordinator has closed it      *)
CohortInv ==
    /\ cohort \in Contents /\ closed \in BOOLEAN
    /\ closed => \A a \in Members : cohort[a] \in TERMINAL
    /\ seed # None => Below(seed, cohort)
    /\ st.observed # None => Below(st.observed, cohort)
    /\ st.term => closed /\ st.observed = cohort

(* Where the follower is, and what its state says there                    *)
PlaceInv ==
    /\ folders \in st.ops .. st.ops + 1
    /\ st.made # "yes" \/ me \notin {"none", "begin"} => folders = st.ops
    /\ me = "begin" => folders = st.ops + 1 /\ st.ops < MaxOps /\ ~st.cur
                     /\ op.obs # None
    /\ me \in Operating => st.cur
    /\ me \in {"loop", "decide", "begin"} => st.seeded
    /\ me \in {"decide", "state", "seed", "seeded"} => ~st.cur
    /\ me = "decide" => st.observed # None
    /\ me \notin {"none", "state"} => st.made = "yes"
    /\ me \in {"state", "seed", "seeded"} \/ st.made # "yes" => ~st.seeded
    /\ ~st.seeded => ~st.cur /\ ~st.term
    /\ st.cur => op.obs # None
    /\ st.status = "complete" =>
           /\ me \in {"none", "loop"} /\ ~st.cur /\ st.term
           /\ st.sig = Signature(st.observed)

(* The exporter runs once for an operation, and what it finds is not older *)
(* than what the operation was begun for.                                  *)
Found(c) == Below(op.obs, c) /\ Below(c, cohort)

ExporterInv ==
    /\ op.obs # None => /\ op.anchor \in Members /\ op.obs[op.anchor] = "completed"
                        /\ Below(op.obs, cohort)
    /\ op.export # None => op.obs # None /\ op.started /\ Found(op.export)
    /\ runs \in 0 .. 1 /\ (~op.started => runs = 0)
    /\ me = "begin" => ~op.started
    /\ me \in {"operate", "export", "reply"} => op.export = None
    /\ me = "export" => op.started /\ runs = 0
    /\ me = "reply" => op.started
    /\ exporter.st = "running" =>
           /\ st.cur /\ op.started /\ op.export = None /\ runs = 1
           /\ \A a \in Members : \/ exporter.rows[a] = "unread"
                                 \/ /\ Later(op.obs[a], exporter.rows[a])
                                    /\ Later(exporter.rows[a], cohort[a])
    /\ exporter.st = "done" =>
           me = "reply" /\ (exporter.reply # None => Found(exporter.reply))

(* A completion receipt belongs to an attempt that is exported, or to the  *)
(* operation that exports it.                                              *)
ReceiptInv ==
    /\ receipts \in [Members -> Accounts]
    /\ \A a \in Members : receipts[a] # None /\ a \notin st.exports =>
           /\ st.cur /\ ~op.snapshot /\ a = op.anchor /\ runs = 1
           /\ exporter.st # "running" /\ Found(receipts[a])
    /\ (st.cur \/ me = "begin") /\ op.export = None /\ ~op.snapshot =>
           op.anchor \notin st.exports

(* The operation's own files *)
OperationInv ==
    /\ op.marker => op.export # None /\ Completed(op.export) \subseteq st.exports
    /\ op.done => op.marker /\ pkg[op.export].complete
    /\ me \in {"exported", "check", "publish", "result", "done"} => op.export # None
    /\ me \in {"check", "publish", "result", "done"} /\ ~op.snapshot =>
           op.anchor \in st.exports
    /\ me \in {"publish", "result", "done"} => op.marker
    /\ me = "done" => op.done

(* The driver works for the current operation, and goes through the files  *)
(* in their order.                                                         *)
DriverInv ==
    /\ driver.pc # "idle" => st.cur /\ op.marker /\ driver.pkg = op.export
    /\ driver.pc \in {"claim", "marker"} => ~pkg[driver.pkg].marker
    /\ driver.pc = "marker" => pkg[driver.pkg].claim
    /\ driver.pc = "deploy" => /\ pkg[driver.pkg].marker /\ calls[driver.pkg] = 0
                               /\ Catalog(driver.pkg) \notin deployed \cup {flight}
    /\ driver.pc = "prove" => /\ Catalog(driver.pkg) \in deployed /\ public # None
                              /\ Below(driver.pkg, public.rows)
    /\ driver.pc \in {"record", "complete"} => pkg[driver.pkg].proof
    /\ driver.pc = "end" => me = "result"
    /\ me = "done" => driver.pc = "idle"
    /\ driver.pc = "end" /\ driver.res = "published" => pkg[driver.pkg].complete

(* What was sent, what the provider lists and what the files say           *)
ProviderInv ==
    /\ pkg \in [Contents -> [DOMAIN NoFiles -> BOOLEAN]] /\ calls \in [Contents -> 0 .. 1]
    /\ deployed \subseteq Catalogs /\ flight \in Catalogs \cup {None}
    /\ \A c \in Contents :
           /\ calls[c] = 1 => pkg[c].marker
           /\ pkg[c].marker => pkg[c].claim
           /\ pkg[c].complete => pkg[c].proof
           /\ pkg[c].proof => /\ Catalog(c) \in deployed /\ public # None
                             /\ Below(c, public.rows)
           /\ calls[c] = 1 /\ ~pkg[c].complete => st.cur /\ op.marker /\ op.export = c
    /\ \A d \in deployed : pkg[d.rows].marker
    /\ flight # None => /\ flight \notin deployed /\ calls[flight.rows] = 1
                        /\ st.cur /\ op.marker /\ flight.rows = op.export

(* What the public sees is not newer than the cohort and not older than    *)
(* what was published before it.                                           *)
PublicInv ==
    /\ public \in Catalogs \cup {None}
    /\ public # None => /\ Below(public.rows, cohort)
                        /\ public.rows = seed \/ Completed(public.rows) \subseteq st.exports
    /\ public # None /\ (st.cur \/ me = "begin") =>
           Below(public.rows, op.obs) \/ public.rows = op.export
    /\ public # None /\ me = "decide" => Below(public.rows, st.observed)
    /\ st.sig # None => public # None /\ Below(st.sig, public.rows)
    /\ ~st.seeded => public = IF seed = None THEN None ELSE Catalog(seed)

FollowSafe ==
    /\ ProcessTypes /\ CohortInv /\ PlaceInv /\ ExporterInv /\ ReceiptInv
    /\ OperationInv /\ DriverInv /\ ProviderInv /\ PublicInv

(* The accounts of the cohort are ordered by what may come of them.        *)
LEMMA BelowSelf == ASSUME NEW c \in Contents PROVE Below(c, c)
BY DEF Below, Later

(* The same                                                                *)
LEMMA BelowTwice ==
    ASSUME NEW b \in Contents, NEW c \in Contents, NEW d \in Contents,
           Below(b, c), Below(c, d)
    PROVE  Below(b, d)
<1> SUFFICES ASSUME NEW a \in Members PROVE Later(b[a], d[a])
    BY DEF Below
<1>1. Later(b[a], c[a]) /\ Later(c[a], d[a])
      BY DEF Below
<1> QED BY <1>1 DEF Later

(* The same: no two accounts are older than each other.                    *)
LEMMA BelowBoth ==
    ASSUME NEW b \in Contents, NEW c \in Contents, Below(b, c), Below(c, b)
    PROVE  b = c
<1>1. ASSUME NEW a \in Members PROVE b[a] = c[a]
  <2>1. Later(b[a], c[a]) /\ Later(c[a], b[a])
        BY DEF Below
  <2> QED BY <2>1 DEF Later
<1> QED BY <1>1 DEF Contents

(* A newer account shows what an older one does.                           *)
LEMMA BelowShows ==
    ASSUME NEW b \in Contents, NEW c \in Contents, Below(b, c)
    PROVE  Shows(c, b) /\ Completed(b) \subseteq Completed(c)
<1>1. ASSUME NEW a \in Members
      PROVE  /\ b[a] = "completed" => c[a] = "completed"
             /\ b[a] = "failed" => c[a] \in {"failed", "recovering", "recovered"}
             /\ b[a] = "recovered" => c[a] = "recovered"
  <2>1. Later(b[a], c[a])
        BY DEF Below
  <2> QED BY <2>1 DEF Later
<1> QED BY <1>1 DEF Shows, Completed

(* A signature leaves out what is not final.                               *)
LEMMA SignatureBelow ==
    ASSUME NEW c \in Contents
    PROVE  Signature(c) \in Contents /\ Below(Signature(c), c)
<1>1. Signature(c) \in Contents
      BY DEF Signature, Contents, Statuses, TERMINAL
<1>2. ASSUME NEW a \in Members PROVE Later(Signature(c)[a], c[a])
      BY DEF Signature, Later
<1> QED BY <1>1, <1>2 DEF Below

(* The signature of a cohort that is over is all of it.                    *)
LEMMA SignatureWhole ==
    ASSUME NEW c \in Contents, \A a \in Members : c[a] \in TERMINAL
    PROVE  Signature(c) = c
BY DEF Signature, Contents

(* A catalog tells the package it is composed around.                      *)
LEMMA CatalogRows ==
    /\ \A c \in Contents : /\ Catalog(c) \in Catalogs /\ Catalog(c).rows = c
                           /\ Catalog(c) # None /\ c # None
    /\ \A d \in Catalogs : d.rows \in Contents /\ d = Catalog(d.rows) /\ d # None
BY NoneAssumption DEF Catalogs, Catalog

(* What playing on makes of the cohort's account                           *)
LEMMA PlaysOn ==
    ASSUME cohort \in Contents, Plays
    PROVE  cohort' \in Contents /\ Below(cohort, cohort')
<1>1. PICK a \in Members :
          \/ /\ cohort[a] = "pending"
             /\ \E s \in {"completed", "failed"} : cohort' = [cohort EXCEPT ![a] = s]
          \/ cohort[a] = "failed" /\ cohort' = [cohort EXCEPT ![a] = "recovering"]
          \/ cohort[a] = "recovering" /\ cohort' = [cohort EXCEPT ![a] = "recovered"]
      BY DEF Plays
<1>2. PICK s \in Statuses : Later(cohort[a], s) /\ cohort' = [cohort EXCEPT ![a] = s]
      BY <1>1 DEF Later, Statuses, TERMINAL
<1>3. cohort' \in Contents
      BY <1>2 DEF Contents
<1>4. ASSUME NEW b \in Members PROVE Later(cohort[b], cohort'[b])
      BY <1>2 DEF Contents, Later
<1> QED BY <1>3, <1>4 DEF Below

(* A file is written for good, and no other with it.                       *)
LEMMA WritesOne ==
    ASSUME NEW file \in DOMAIN NoFiles \ {"torn"}, Writes(file),
           pkg \in [Contents -> [DOMAIN NoFiles -> BOOLEAN]], D \in Contents
    PROVE  /\ pkg' \in [Contents -> [DOMAIN NoFiles -> BOOLEAN]]
           /\ \A c \in Contents, f \in DOMAIN NoFiles \ {"torn"} :
                  pkg'[c][f] = (pkg[c][f] \/ (c = D /\ f = file))
<1>1. "torn" \in DOMAIN NoFiles
      BY DEF NoFiles
<1> QED BY <1>1 DEF Writes

(* A file that is only created is none of those that can be read.          *)
LEMMA CreatesNone ==
    ASSUME Creates,
           pkg \in [Contents -> [DOMAIN NoFiles -> BOOLEAN]], D \in Contents
    PROVE  /\ pkg' \in [Contents -> [DOMAIN NoFiles -> BOOLEAN]]
           /\ \A c \in Contents, f \in DOMAIN NoFiles \ {"torn"} :
                  pkg'[c][f] = pkg[c][f]
<1>1. "torn" \in DOMAIN NoFiles
      BY DEF NoFiles
<1> QED BY <1>1 DEF Creates

(* The driver's fields                                                     *)
LEMMA DriverFields ==
    ASSUME driver \in Drivers
    PROVE  /\ \A p \in {"check", "claim", "marker", "deploy", "find", "prove",
                    "record", "complete", "end"} :
                  /\ [driver EXCEPT !.pc = p] \in Drivers
                  /\ [driver EXCEPT !.pc = p].pc = p
                  /\ [driver EXCEPT !.pc = p].pkg = driver.pkg
           /\ \A r \in {"published", "uncertain"} :
                  /\ [driver EXCEPT !.pc = "end", !.res = r] \in Drivers
                  /\ [driver EXCEPT !.pc = "end", !.res = r].pc = "end"
                  /\ [driver EXCEPT !.pc = "end", !.res = r].pkg = driver.pkg
                  /\ [driver EXCEPT !.pc = "end", !.res = r].res = r
           /\ NoDriver \in Drivers /\ NoDriver.pc = "idle"
<1>1. NoDriver \in Drivers /\ NoDriver.pc = "idle"
      BY DEF Drivers, NoDriver, Accounts
<1>2. ASSUME NEW p \in {"check", "claim", "marker", "deploy", "find", "prove",
                           "record", "complete", "end"}
      PROVE  /\ [driver EXCEPT !.pc = p] \in Drivers
             /\ [driver EXCEPT !.pc = p].pc = p
             /\ [driver EXCEPT !.pc = p].pkg = driver.pkg
      BY DEF Drivers
<1>3. ASSUME NEW r \in {"published", "uncertain"}
      PROVE  /\ [driver EXCEPT !.pc = "end", !.res = r] \in Drivers
             /\ [driver EXCEPT !.pc = "end", !.res = r].pc = "end"
             /\ [driver EXCEPT !.pc = "end", !.res = r].pkg = driver.pkg
             /\ [driver EXCEPT !.pc = "end", !.res = r].res = r
      BY DEF Drivers
<1> QED BY <1>1, <1>2, <1>3

-----------------------------------------------------------------------------
(* The follower's first state                                              *)
LEMMA MakeIntentKeeps ==
    ASSUME FollowSafe, MakeIntent
    PROVE  FollowSafe'
<1>1. /\ me = "none" /\ st.made = "no" /\ me' = "state"
      /\ st' = [st EXCEPT !.made = "intent"]
      /\ UNCHANGED <<cohort, closed, seed, late, folders, op, exporter,
                     receipts, runs, pkg, driver, flight, deployed, public,
                     calls, kills>>
      BY DEF MakeIntent, world, export, provider, delivery, At, Goto, Stop
<1>2. /\ st' \in FollowerStates
      /\ st'.made = "intent"
      /\ st'.status = st.status /\ st'.observed = st.observed /\ st'.term = st.term
      /\ st'.exports = st.exports /\ st'.sig = st.sig /\ st'.ops = st.ops
      /\ st'.cur = st.cur /\ st'.polls = st.polls /\ st'.seeded = st.seeded
      BY <1>1 DEF FollowSafe, ProcessTypes, FollowerStates
<1>3. ~st.seeded /\ ~st.cur /\ ~st.term /\ st.status # "complete" /\ folders = st.ops
      BY <1>1 DEF FollowSafe, PlaceInv
<1>4. ProcessTypes'
      BY <1>1, <1>2 DEF FollowSafe, ProcessTypes, Places, Operating
<1>5. CohortInv'
      BY <1>1, <1>2 DEF FollowSafe, CohortInv
<1>6. PlaceInv'
      BY <1>1, <1>2, <1>3 DEF FollowSafe, PlaceInv, Operating
<1>7. ExporterInv'
      BY <1>1, <1>2 DEF FollowSafe, ExporterInv, Found
<1>8. ReceiptInv'
      BY <1>1, <1>2 DEF FollowSafe, ReceiptInv, Found
<1>9. OperationInv'
      BY <1>1, <1>2 DEF FollowSafe, OperationInv
<1>10. DriverInv'
      BY <1>1, <1>2 DEF FollowSafe, DriverInv
<1>11. ProviderInv'
      BY <1>1, <1>2 DEF FollowSafe, ProviderInv
<1>12. PublicInv'
      BY <1>1, <1>2 DEF FollowSafe, PublicInv
<1> QED BY <1>4, <1>5, <1>6, <1>7, <1>8, <1>9, <1>10, <1>11, <1>12 DEF
           FollowSafe

(* The same, after its intent                                              *)
LEMMA MakeStateKeeps ==
    ASSUME FollowSafe, MakeState
    PROVE  FollowSafe'
<1>1. /\ me = "state" /\ me' = "seed"
      /\ st' = [st EXCEPT !.made = "yes"]
      /\ UNCHANGED <<cohort, closed, seed, late, folders, op, exporter,
                     receipts, runs, pkg, driver, flight, deployed, public,
                     calls, kills>>
      BY DEF MakeState, world, export, provider, delivery, At, Goto, Stop
<1>2. /\ st' \in FollowerStates
      /\ st'.made = "yes"
      /\ st'.status = st.status /\ st'.observed = st.observed /\ st'.term = st.term
      /\ st'.exports = st.exports /\ st'.sig = st.sig /\ st'.ops = st.ops
      /\ st'.cur = st.cur /\ st'.polls = st.polls /\ st'.seeded = st.seeded
      BY <1>1 DEF FollowSafe, ProcessTypes, FollowerStates
<1>3. ProcessTypes'
      BY <1>1, <1>2 DEF FollowSafe, ProcessTypes, Places, Operating
<1>4. CohortInv'
      BY <1>1, <1>2 DEF FollowSafe, CohortInv
<1>5. PlaceInv'
      BY <1>1, <1>2 DEF FollowSafe, PlaceInv, Operating
<1>6. ExporterInv'
      BY <1>1, <1>2 DEF FollowSafe, ExporterInv, Found
<1>7. ReceiptInv'
      BY <1>1, <1>2 DEF FollowSafe, ReceiptInv, Found
<1>8. OperationInv'
      BY <1>1, <1>2 DEF FollowSafe, OperationInv
<1>9. DriverInv'
      BY <1>1, <1>2 DEF FollowSafe, DriverInv
<1>10. ProviderInv'
      BY <1>1, <1>2 DEF FollowSafe, ProviderInv
<1>11. PublicInv'
      BY <1>1, <1>2 DEF FollowSafe, PublicInv
<1> QED BY <1>3, <1>4, <1>5, <1>6, <1>7, <1>8, <1>9, <1>10, <1>11 DEF
           FollowSafe

(* An invocation that reads its state                                      *)
LEMMA LoadKeeps ==
    ASSUME FollowSafe, Load
    PROVE  FollowSafe'
<1>1. /\ me = "none" /\ folders = st.ops /\ st.made = "yes"
      /\ me' = IF st.seeded THEN "loop" ELSE "seed"
      /\ UNCHANGED <<cohort, closed, seed, late, st, folders, op, exporter,
                     receipts, runs, pkg, driver, flight, deployed, public,
                     calls, kills>>
      BY DEF Load, world, export, provider, delivery, At, Goto, Stop
<1>2. \/ st.seeded /\ me' = "loop"
      \/ ~st.seeded /\ me' = "seed" /\ ~st.cur /\ st.status # "complete"
      BY <1>1 DEF FollowSafe, ProcessTypes, FollowerStates, PlaceInv
<1>3. ProcessTypes'
      BY <1>1, <1>2 DEF FollowSafe, ProcessTypes, Places, Operating
<1>4. CohortInv'
      BY <1>1, <1>2 DEF FollowSafe, CohortInv
<1>5. PlaceInv'
      BY <1>1, <1>2 DEF FollowSafe, PlaceInv, Operating
<1>6. ExporterInv'
      BY <1>1, <1>2 DEF FollowSafe, ExporterInv, Found
<1>7. ReceiptInv'
      BY <1>1, <1>2 DEF FollowSafe, ReceiptInv, Found
<1>8. OperationInv'
      BY <1>1, <1>2 DEF FollowSafe, OperationInv
<1>9. DriverInv'
      BY <1>1, <1>2 DEF FollowSafe, DriverInv
<1>10. ProviderInv'
      BY <1>1, <1>2 DEF FollowSafe, ProviderInv
<1>11. PublicInv'
      BY <1>1, <1>2 DEF FollowSafe, PublicInv
<1> QED BY <1>3, <1>4, <1>5, <1>6, <1>7, <1>8, <1>9, <1>10, <1>11 DEF
           FollowSafe

(* The import of an earlier publication                                    *)
LEMMA ImportSeedKeeps ==
    ASSUME FollowSafe, ImportSeed
    PROVE  FollowSafe'
<1>1. /\ me = "seed" /\ seed # None
      /\ \/ /\ st.exports = {} /\ me' = "seeded"
            /\ st' = [st EXCEPT !.exports = Completed(seed), !.observed = seed,
                                !.sig = Signature(seed)]
         \/ st' = st /\ me' = "none"
      /\ UNCHANGED <<cohort, closed, seed, late, folders, op, exporter,
                     receipts, runs, pkg, driver, flight, deployed, public,
                     calls, kills>>
      BY DEF ImportSeed, world, export, provider, delivery, At, Goto, Stop
<1>2. seed \in Contents
      BY <1>1 DEF FollowSafe, ProcessTypes, Accounts
<1>3. Signature(seed) \in Contents /\ Below(Signature(seed), seed)
      BY <1>2, SignatureBelow
<1>4. Completed(seed) \in SUBSET Members /\ Signature(seed) \in Accounts
      /\ seed \in Accounts
      BY <1>2, <1>3 DEF Completed, Accounts
<1>5. /\ st' \in FollowerStates /\ st'.made = st.made /\ st'.status = st.status
      /\ st'.term = st.term /\ st'.ops = st.ops /\ st'.cur = st.cur
      /\ st'.polls = st.polls /\ st'.seeded = st.seeded
      /\ st.exports \subseteq st'.exports
      /\ \/ st'.observed = seed /\ st'.sig = Signature(seed)
         \/ st'.observed = st.observed /\ st'.sig = st.sig
      BY <1>1, <1>4 DEF FollowSafe, ProcessTypes, FollowerStates
<1>6. ~st.seeded /\ ~st.cur /\ ~st.term /\ st.status # "complete"
      BY <1>1 DEF FollowSafe, PlaceInv
<1>7. ProcessTypes'
      BY <1>1, <1>5 DEF FollowSafe, ProcessTypes, Places, Operating
<1>8. CohortInv'
      BY <1>1, <1>5, <1>6 DEF FollowSafe, CohortInv
<1>9. PlaceInv'
      BY <1>1, <1>5, <1>6 DEF FollowSafe, PlaceInv, Operating
<1>10. ExporterInv'
      BY <1>1, <1>5 DEF FollowSafe, ExporterInv, Found
<1>11. ReceiptInv'
      BY <1>1, <1>5, <1>6 DEF FollowSafe, ReceiptInv, Found
<1>12. OperationInv'
      BY <1>1, <1>5 DEF FollowSafe, OperationInv
<1>13. DriverInv'
      BY <1>1, <1>5 DEF FollowSafe, DriverInv
<1>14. ProviderInv'
      BY <1>1, <1>5, <1>6 DEF FollowSafe, ProviderInv
<1>15. PublicInv'
      BY <1>1, <1>5, <1>6, <1>2, <1>3, CatalogRows DEF FollowSafe, PublicInv
<1> QED BY <1>7, <1>8, <1>9, <1>10, <1>11, <1>12, <1>13, <1>14, <1>15 DEF
           FollowSafe

(* The state marked imported                                               *)
LEMMA SeededKeeps ==
    ASSUME FollowSafe, Seeded
    PROVE  FollowSafe'
<1>1. /\ me \in {"seed", "seeded"} /\ me' = "loop"
      /\ st' = [st EXCEPT !.seeded = TRUE]
      /\ UNCHANGED <<cohort, closed, seed, late, folders, op, exporter,
                     receipts, runs, pkg, driver, flight, deployed, public,
                     calls, kills>>
      BY DEF Seeded, world, export, provider, delivery, At, Goto, Stop
<1>2. /\ st' \in FollowerStates
      /\ st'.seeded = TRUE
      /\ st'.made = st.made /\ st'.status = st.status /\ st'.observed = st.observed
      /\ st'.term = st.term /\ st'.exports = st.exports /\ st'.sig = st.sig
      /\ st'.ops = st.ops /\ st'.cur = st.cur /\ st'.polls = st.polls
      BY <1>1 DEF FollowSafe, ProcessTypes, FollowerStates
<1>3. ProcessTypes'
      BY <1>1, <1>2 DEF FollowSafe, ProcessTypes, Places, Operating
<1>4. CohortInv'
      BY <1>1, <1>2 DEF FollowSafe, CohortInv
<1>5. PlaceInv'
      BY <1>1, <1>2 DEF FollowSafe, PlaceInv, Operating
<1>6. ExporterInv'
      BY <1>1, <1>2 DEF FollowSafe, ExporterInv, Found
<1>7. ReceiptInv'
      BY <1>1, <1>2 DEF FollowSafe, ReceiptInv, Found
<1>8. OperationInv'
      BY <1>1, <1>2 DEF FollowSafe, OperationInv
<1>9. DriverInv'
      BY <1>1, <1>2 DEF FollowSafe, DriverInv
<1>10. ProviderInv'
      BY <1>1, <1>2 DEF FollowSafe, ProviderInv
<1>11. PublicInv'
      BY <1>1, <1>2 DEF FollowSafe, PublicInv
<1> QED BY <1>3, <1>4, <1>5, <1>6, <1>7, <1>8, <1>9, <1>10, <1>11 DEF
           FollowSafe

(* A completed invocation                                                  *)
LEMMA RecheckKeeps ==
    ASSUME FollowSafe, Recheck
    PROVE  FollowSafe'
<1>1. /\ me = "loop" /\ me' = "none"
      /\ UNCHANGED <<cohort, closed, seed, late, st, folders, op, exporter,
                     receipts, runs, pkg, driver, flight, deployed, public,
                     calls, kills>>
      BY DEF Recheck, world, export, provider, delivery, At, Goto, Stop
<1>2. ProcessTypes'
      BY <1>1 DEF FollowSafe, ProcessTypes, Places, Operating
<1>3. CohortInv'
      BY <1>1 DEF FollowSafe, CohortInv
<1>4. PlaceInv'
      BY <1>1 DEF FollowSafe, PlaceInv, Operating
<1>5. ExporterInv'
      BY <1>1 DEF FollowSafe, ExporterInv, Found
<1>6. ReceiptInv'
      BY <1>1 DEF FollowSafe, ReceiptInv, Found
<1>7. OperationInv'
      BY <1>1 DEF FollowSafe, OperationInv
<1>8. DriverInv'
      BY <1>1 DEF FollowSafe, DriverInv
<1>9. ProviderInv'
      BY <1>1 DEF FollowSafe, ProviderInv
<1>10. PublicInv'
      BY <1>1 DEF FollowSafe, PublicInv
<1> QED BY <1>2, <1>3, <1>4, <1>5, <1>6, <1>7, <1>8, <1>9, <1>10 DEF
           FollowSafe

(* An invocation after its deadline                                        *)
LEMMA DeadlineKeeps ==
    ASSUME FollowSafe, DeadlinePassed
    PROVE  FollowSafe'
<1>1. /\ me = "loop" /\ me' = "none"
      /\ st' = [st EXCEPT !.status = "unfinished"]
      /\ UNCHANGED <<cohort, closed, seed, late, folders, op, exporter,
                     receipts, runs, pkg, driver, flight, deployed, public,
                     calls, kills>>
      BY DEF DeadlinePassed, world, export, provider, delivery, At, Goto, Stop
<1>2. /\ st' \in FollowerStates
      /\ st'.status = "unfinished"
      /\ st'.made = st.made /\ st'.observed = st.observed /\ st'.term = st.term
      /\ st'.exports = st.exports /\ st'.sig = st.sig /\ st'.ops = st.ops
      /\ st'.cur = st.cur /\ st'.polls = st.polls /\ st'.seeded = st.seeded
      BY <1>1 DEF FollowSafe, ProcessTypes, FollowerStates
<1>3. ProcessTypes'
      BY <1>1, <1>2 DEF FollowSafe, ProcessTypes, Places, Operating
<1>4. CohortInv'
      BY <1>1, <1>2 DEF FollowSafe, CohortInv
<1>5. PlaceInv'
      BY <1>1, <1>2 DEF FollowSafe, PlaceInv, Operating
<1>6. ExporterInv'
      BY <1>1, <1>2 DEF FollowSafe, ExporterInv, Found
<1>7. ReceiptInv'
      BY <1>1, <1>2 DEF FollowSafe, ReceiptInv, Found
<1>8. OperationInv'
      BY <1>1, <1>2 DEF FollowSafe, OperationInv
<1>9. DriverInv'
      BY <1>1, <1>2 DEF FollowSafe, DriverInv
<1>10. ProviderInv'
      BY <1>1, <1>2 DEF FollowSafe, ProviderInv
<1>11. PublicInv'
      BY <1>1, <1>2 DEF FollowSafe, PublicInv
<1> QED BY <1>3, <1>4, <1>5, <1>6, <1>7, <1>8, <1>9, <1>10, <1>11 DEF
           FollowSafe

(* An operation found under way                                            *)
LEMMA ResumeOperationKeeps ==
    ASSUME FollowSafe, ResumeOperation
    PROVE  FollowSafe'
<1>1. /\ me = "loop" /\ st.cur
      /\ me' = IF op.export = None THEN "operate" ELSE "exported"
      /\ st' = [st EXCEPT !.status = "working"]
      /\ UNCHANGED <<cohort, closed, seed, late, folders, op, exporter,
                     receipts, runs, pkg, driver, flight, deployed, public,
                     calls, kills>>
      BY DEF ResumeOperation, world, export, provider, delivery, At, Goto,
             Stop
<1>2. /\ st' \in FollowerStates
      /\ st'.status = "working"
      /\ st'.made = st.made /\ st'.observed = st.observed /\ st'.term = st.term
      /\ st'.exports = st.exports /\ st'.sig = st.sig /\ st'.ops = st.ops
      /\ st'.cur = st.cur /\ st'.polls = st.polls /\ st'.seeded = st.seeded
      BY <1>1 DEF FollowSafe, ProcessTypes, FollowerStates
<1>3. ProcessTypes'
      BY <1>1, <1>2 DEF FollowSafe, ProcessTypes, Places, Operating
<1>4. CohortInv'
      BY <1>1, <1>2 DEF FollowSafe, CohortInv
<1>5. PlaceInv'
      BY <1>1, <1>2 DEF FollowSafe, PlaceInv, Operating
<1>6. ExporterInv'
      BY <1>1, <1>2 DEF FollowSafe, ExporterInv, Found
<1>7. ReceiptInv'
      BY <1>1, <1>2 DEF FollowSafe, ReceiptInv, Found
<1>8. OperationInv'
      BY <1>1, <1>2 DEF FollowSafe, OperationInv
<1>9. DriverInv'
      BY <1>1, <1>2 DEF FollowSafe, DriverInv
<1>10. ProviderInv'
      BY <1>1, <1>2 DEF FollowSafe, ProviderInv
<1>11. PublicInv'
      BY <1>1, <1>2 DEF FollowSafe, PublicInv
<1> QED BY <1>3, <1>4, <1>5, <1>6, <1>7, <1>8, <1>9, <1>10, <1>11 DEF
           FollowSafe

(* An observation of the cohort                                            *)
LEMMA ObserveKeeps ==
    ASSUME FollowSafe, Observe
    PROVE  FollowSafe'
<1>1. /\ me = "loop" /\ ~st.cur /\ st.polls < MaxPolls /\ me' = "decide"
      /\ st' = [st EXCEPT !.status = "watching", !.observed = cohort,
                          !.term = closed, !.polls = @ + 1]
      /\ UNCHANGED <<cohort, closed, seed, late, folders, op, exporter,
                     receipts, runs, pkg, driver, flight, deployed, public,
                     calls, kills>>
      BY DEF Observe, Observing, world, export, provider, delivery, At, Goto,
             Stop
<1>2. /\ cohort \in Contents /\ closed \in BOOLEAN /\ cohort # None
      /\ Below(cohort, cohort)
      BY CatalogRows, BelowSelf DEF FollowSafe, CohortInv
<1>3. st.polls + 1 \in 0 .. MaxPolls
      BY <1>1, FollowAssumption DEF FollowSafe, ProcessTypes, FollowerStates
<1>4. /\ st' \in FollowerStates
      /\ st'.status = "watching"
      /\ st'.observed = cohort
      /\ st'.term = closed
      /\ st'.polls = st.polls + 1
      /\ st'.made = st.made /\ st'.exports = st.exports /\ st'.sig = st.sig
      /\ st'.ops = st.ops /\ st'.cur = st.cur /\ st'.seeded = st.seeded
      BY <1>1, <1>2, <1>3 DEF FollowSafe, ProcessTypes, FollowerStates,
             Accounts
<1>5. ProcessTypes'
      BY <1>1, <1>4 DEF FollowSafe, ProcessTypes, Places, Operating
<1>6. CohortInv'
      BY <1>1, <1>4, <1>2 DEF FollowSafe, CohortInv
<1>7. PlaceInv'
      BY <1>1, <1>4, <1>2 DEF FollowSafe, PlaceInv, Operating
<1>8. ExporterInv'
      BY <1>1, <1>4 DEF FollowSafe, ExporterInv, Found
<1>9. ReceiptInv'
      BY <1>1, <1>4 DEF FollowSafe, ReceiptInv, Found
<1>10. OperationInv'
      BY <1>1, <1>4 DEF FollowSafe, OperationInv
<1>11. DriverInv'
      BY <1>1, <1>4 DEF FollowSafe, DriverInv
<1>12. ProviderInv'
      BY <1>1, <1>4 DEF FollowSafe, ProviderInv
<1>13. PublicInv'
      BY <1>1, <1>4, <1>2 DEF FollowSafe, PublicInv
<1> QED BY <1>5, <1>6, <1>7, <1>8, <1>9, <1>10, <1>11, <1>12, <1>13 DEF
           FollowSafe

(* An observation that fails                                               *)
LEMMA ObserveFailsKeeps ==
    ASSUME FollowSafe, ObserveFails
    PROVE  FollowSafe'
<1>1. /\ me = "loop" /\ me' = "none"
      /\ st' = [st EXCEPT !.status = "blocked"]
      /\ UNCHANGED <<cohort, closed, seed, late, folders, op, exporter,
                     receipts, runs, pkg, driver, flight, deployed, public,
                     calls, kills>>
      BY DEF ObserveFails, Observing, world, export, provider, delivery, At,
             Goto, Stop
<1>2. /\ st' \in FollowerStates
      /\ st'.status = "blocked"
      /\ st'.made = st.made /\ st'.observed = st.observed /\ st'.term = st.term
      /\ st'.exports = st.exports /\ st'.sig = st.sig /\ st'.ops = st.ops
      /\ st'.cur = st.cur /\ st'.polls = st.polls /\ st'.seeded = st.seeded
      BY <1>1 DEF FollowSafe, ProcessTypes, FollowerStates
<1>3. ProcessTypes'
      BY <1>1, <1>2 DEF FollowSafe, ProcessTypes, Places, Operating
<1>4. CohortInv'
      BY <1>1, <1>2 DEF FollowSafe, CohortInv
<1>5. PlaceInv'
      BY <1>1, <1>2 DEF FollowSafe, PlaceInv, Operating
<1>6. ExporterInv'
      BY <1>1, <1>2 DEF FollowSafe, ExporterInv, Found
<1>7. ReceiptInv'
      BY <1>1, <1>2 DEF FollowSafe, ReceiptInv, Found
<1>8. OperationInv'
      BY <1>1, <1>2 DEF FollowSafe, OperationInv
<1>9. DriverInv'
      BY <1>1, <1>2 DEF FollowSafe, DriverInv
<1>10. ProviderInv'
      BY <1>1, <1>2 DEF FollowSafe, ProviderInv
<1>11. PublicInv'
      BY <1>1, <1>2 DEF FollowSafe, PublicInv
<1> QED BY <1>3, <1>4, <1>5, <1>6, <1>7, <1>8, <1>9, <1>10, <1>11 DEF
           FollowSafe

(* The folder of a new operation                                           *)
LEMMA BeginsKeeps ==
    ASSUME FollowSafe, NEW a \in Members, NEW snapshot \in BOOLEAN,
           At("decide"), Begins(a, snapshot), st.observed[a] = "completed",
           a \in st.exports => snapshot
    PROVE  FollowSafe'
<1>1. /\ me = "decide" /\ st.ops < MaxOps /\ folders' = folders + 1
      /\ op' = [NoOp EXCEPT !.anchor = a, !.snapshot = snapshot, !.obs = st.observed]
      /\ runs' = 0 /\ me' = "begin"
      /\ UNCHANGED <<cohort, closed, seed, late, st, exporter, receipts, pkg,
                     driver, flight, deployed, public, calls, kills>>
      BY DEF Begins, world, export, provider, delivery, At, Goto, Stop
<1>2. ~st.cur /\ st.observed # None /\ folders = st.ops /\ st.ops \in Nat
      BY <1>1 DEF FollowSafe, ProcessTypes, PlaceInv, FollowerStates
<1>3. st.observed \in Accounts
      BY DEF FollowSafe, ProcessTypes, FollowerStates
<1>4. /\ op' \in OperationFiles /\ op'.anchor = a /\ op'.snapshot = snapshot
      /\ op'.obs = st.observed /\ op'.started = FALSE /\ op'.export = None
      /\ op'.marker = FALSE /\ op'.done = FALSE
      BY <1>1, <1>3 DEF OperationFiles, Accounts, NoOp
<1>5. /\ exporter.st = "idle" /\ driver.pc = "idle" /\ flight = None
      BY <1>1, <1>2
      DEF FollowSafe, ProcessTypes, Exporters, ExporterInv, DriverInv,
          ProviderInv
<1>6. ProcessTypes'
      BY <1>1, <1>4 DEF FollowSafe, ProcessTypes, Places, Operating
<1>7. CohortInv'
      BY <1>1, <1>4 DEF FollowSafe, CohortInv
<1>8. PlaceInv'
      BY <1>1, <1>4, <1>2, <1>5 DEF FollowSafe, PlaceInv, Operating
<1>9. ExporterInv'
      BY <1>1, <1>4, <1>2, <1>5 DEF FollowSafe, ExporterInv, Found, CohortInv
<1>10. ReceiptInv'
      BY <1>1, <1>4, <1>2, <1>5 DEF FollowSafe, ReceiptInv, Found
<1>11. OperationInv'
      BY <1>1, <1>4, <1>2, <1>5 DEF FollowSafe, OperationInv
<1>12. DriverInv'
      BY <1>1, <1>4, <1>2, <1>5 DEF FollowSafe, DriverInv
<1>13. ProviderInv'
      BY <1>1, <1>4, <1>2, <1>5 DEF FollowSafe, ProviderInv
<1>14. PublicInv'
      BY <1>1, <1>4, <1>2, <1>5 DEF FollowSafe, PublicInv
<1> QED BY <1>6, <1>7, <1>8, <1>9, <1>10, <1>11, <1>12, <1>13, <1>14 DEF
           FollowSafe

(* The operation recorded as the current one                               *)
LEMMA BegunKeeps ==
    ASSUME FollowSafe, Begun
    PROVE  FollowSafe'
<1>1. /\ me = "begin" /\ me' = "loop"
      /\ st' = [st EXCEPT !.ops = folders, !.cur = TRUE]
      /\ UNCHANGED <<cohort, closed, seed, late, folders, op, exporter,
                     receipts, runs, pkg, driver, flight, deployed, public,
                     calls, kills>>
      BY DEF Begun, world, export, provider, delivery, At, Goto, Stop
<1>2. /\ ~st.cur /\ folders = st.ops + 1 /\ st.ops < MaxOps /\ st.ops \in Nat
      /\ op.obs # None /\ st.made = "yes" /\ st.status # "complete"
      BY <1>1 DEF FollowSafe, ProcessTypes, PlaceInv, FollowerStates
<1>3. folders \in 0 .. MaxOps
      BY <1>2, FollowAssumption
<1>4. /\ st' \in FollowerStates
      /\ st'.ops = folders
      /\ st'.cur = TRUE
      /\ st'.made = st.made /\ st'.status = st.status /\ st'.observed = st.observed
      /\ st'.term = st.term /\ st'.exports = st.exports /\ st'.sig = st.sig
      /\ st'.polls = st.polls /\ st'.seeded = st.seeded
      BY <1>1, <1>3 DEF FollowSafe, ProcessTypes, FollowerStates
<1>5. /\ exporter.st = "idle" /\ driver.pc = "idle" /\ flight = None
      BY <1>1, <1>2
      DEF FollowSafe, ProcessTypes, Exporters, ExporterInv, DriverInv,
          ProviderInv
<1>6. ProcessTypes'
      BY <1>1, <1>4 DEF FollowSafe, ProcessTypes, Places, Operating
<1>7. CohortInv'
      BY <1>1, <1>4 DEF FollowSafe, CohortInv
<1>8. PlaceInv'
      BY <1>1, <1>4, <1>2, <1>5 DEF FollowSafe, PlaceInv, Operating
<1>9. ExporterInv'
      BY <1>1, <1>4, <1>2, <1>5 DEF FollowSafe, ExporterInv, Found
<1>10. ReceiptInv'
      BY <1>1, <1>4, <1>2, <1>5 DEF FollowSafe, ReceiptInv, Found
<1>11. OperationInv'
      BY <1>1, <1>4, <1>2, <1>5 DEF FollowSafe, OperationInv
<1>12. DriverInv'
      BY <1>1, <1>4, <1>2, <1>5 DEF FollowSafe, DriverInv
<1>13. ProviderInv'
      BY <1>1, <1>4, <1>2, <1>5 DEF FollowSafe, ProviderInv
<1>14. PublicInv'
      BY <1>1, <1>4, <1>2, <1>5 DEF FollowSafe, PublicInv
<1> QED BY <1>6, <1>7, <1>8, <1>9, <1>10, <1>11, <1>12, <1>13, <1>14 DEF
           FollowSafe

(* An operation that cannot begin                                          *)
LEMMA BlocksKeeps ==
    ASSUME FollowSafe, Blocks
    PROVE  FollowSafe'
<1>1. /\ me = "decide" /\ me' = "none"
      /\ st' = [st EXCEPT !.status = "blocked"]
      /\ UNCHANGED <<cohort, closed, seed, late, folders, op, exporter,
                     receipts, runs, pkg, driver, flight, deployed, public,
                     calls, kills>>
      BY DEF Blocks, world, export, provider, delivery, At, Goto, Stop
<1>2. /\ st' \in FollowerStates
      /\ st'.status = "blocked"
      /\ st'.made = st.made /\ st'.observed = st.observed /\ st'.term = st.term
      /\ st'.exports = st.exports /\ st'.sig = st.sig /\ st'.ops = st.ops
      /\ st'.cur = st.cur /\ st'.polls = st.polls /\ st'.seeded = st.seeded
      BY <1>1 DEF FollowSafe, ProcessTypes, FollowerStates
<1>3. ProcessTypes'
      BY <1>1, <1>2 DEF FollowSafe, ProcessTypes, Places, Operating
<1>4. CohortInv'
      BY <1>1, <1>2 DEF FollowSafe, CohortInv
<1>5. PlaceInv'
      BY <1>1, <1>2 DEF FollowSafe, PlaceInv, Operating
<1>6. ExporterInv'
      BY <1>1, <1>2 DEF FollowSafe, ExporterInv, Found
<1>7. ReceiptInv'
      BY <1>1, <1>2 DEF FollowSafe, ReceiptInv, Found
<1>8. OperationInv'
      BY <1>1, <1>2 DEF FollowSafe, OperationInv
<1>9. DriverInv'
      BY <1>1, <1>2 DEF FollowSafe, DriverInv
<1>10. ProviderInv'
      BY <1>1, <1>2 DEF FollowSafe, ProviderInv
<1>11. PublicInv'
      BY <1>1, <1>2 DEF FollowSafe, PublicInv
<1> QED BY <1>3, <1>4, <1>5, <1>6, <1>7, <1>8, <1>9, <1>10, <1>11 DEF
           FollowSafe

(* The end of the work                                                     *)
LEMMA FinishKeeps ==
    ASSUME FollowSafe, Finish
    PROVE  FollowSafe'
<1>1. /\ me = "decide" /\ me' = "none" /\ st.term /\ ~Changed
      /\ st' = [st EXCEPT !.status = "complete"]
      /\ UNCHANGED <<cohort, closed, seed, late, folders, op, exporter,
                     receipts, runs, pkg, driver, flight, deployed, public,
                     calls, kills>>
      BY DEF Finish, world, export, provider, delivery, At, Goto, Stop
<1>2. /\ st' \in FollowerStates
      /\ st'.status = "complete"
      /\ st'.made = st.made /\ st'.observed = st.observed /\ st'.term = st.term
      /\ st'.exports = st.exports /\ st'.sig = st.sig /\ st'.ops = st.ops
      /\ st'.cur = st.cur /\ st'.polls = st.polls /\ st'.seeded = st.seeded
      BY <1>1 DEF FollowSafe, ProcessTypes, FollowerStates
<1>3. ProcessTypes'
      BY <1>1, <1>2 DEF FollowSafe, ProcessTypes, Places, Operating
<1>4. CohortInv'
      BY <1>1, <1>2 DEF FollowSafe, CohortInv
<1>5. PlaceInv'
      BY <1>1, <1>2, <1>2 DEF FollowSafe, PlaceInv, Operating, Changed
<1>6. ExporterInv'
      BY <1>1, <1>2 DEF FollowSafe, ExporterInv, Found
<1>7. ReceiptInv'
      BY <1>1, <1>2 DEF FollowSafe, ReceiptInv, Found
<1>8. OperationInv'
      BY <1>1, <1>2 DEF FollowSafe, OperationInv
<1>9. DriverInv'
      BY <1>1, <1>2 DEF FollowSafe, DriverInv
<1>10. ProviderInv'
      BY <1>1, <1>2 DEF FollowSafe, ProviderInv
<1>11. PublicInv'
      BY <1>1, <1>2 DEF FollowSafe, PublicInv
<1> QED BY <1>3, <1>4, <1>5, <1>6, <1>7, <1>8, <1>9, <1>10, <1>11 DEF
           FollowSafe

(* Nothing to do yet                                                       *)
LEMMA WaitKeeps ==
    ASSUME FollowSafe, Wait
    PROVE  FollowSafe'
<1>1. /\ me = "decide" /\ me' = "loop"
      /\ UNCHANGED <<cohort, closed, seed, late, st, folders, op, exporter,
                     receipts, runs, pkg, driver, flight, deployed, public,
                     calls, kills>>
      BY DEF Wait, world, export, provider, delivery, At, Goto, Stop
<1>2. ProcessTypes'
      BY <1>1 DEF FollowSafe, ProcessTypes, Places, Operating
<1>3. CohortInv'
      BY <1>1 DEF FollowSafe, CohortInv
<1>4. PlaceInv'
      BY <1>1 DEF FollowSafe, PlaceInv, Operating
<1>5. ExporterInv'
      BY <1>1 DEF FollowSafe, ExporterInv, Found
<1>6. ReceiptInv'
      BY <1>1 DEF FollowSafe, ReceiptInv, Found
<1>7. OperationInv'
      BY <1>1 DEF FollowSafe, OperationInv
<1>8. DriverInv'
      BY <1>1 DEF FollowSafe, DriverInv
<1>9. ProviderInv'
      BY <1>1 DEF FollowSafe, ProviderInv
<1>10. PublicInv'
      BY <1>1 DEF FollowSafe, PublicInv
<1> QED BY <1>2, <1>3, <1>4, <1>5, <1>6, <1>7, <1>8, <1>9, <1>10 DEF
           FollowSafe

(* An export about to be started                                           *)
LEMMA StartExportKeeps ==
    ASSUME FollowSafe, StartExport
    PROVE  FollowSafe'
<1>1. /\ me = "operate" /\ me' = "export" /\ ~op.started
      /\ op' = [op EXCEPT !.started = TRUE]
      /\ UNCHANGED <<cohort, closed, seed, late, st, folders, exporter,
                     receipts, runs, pkg, driver, flight, deployed, public,
                     calls, kills>>
      BY DEF StartExport, world, export, provider, delivery, At, Goto, Stop
<1>2. /\ op' \in OperationFiles
      /\ op'.started = TRUE
      /\ op'.anchor = op.anchor /\ op'.snapshot = op.snapshot /\ op'.obs = op.obs
      /\ op'.export = op.export /\ op'.marker = op.marker /\ op'.done = op.done
      BY <1>1 DEF FollowSafe, ProcessTypes, OperationFiles
<1>3. ProcessTypes'
      BY <1>1, <1>2 DEF FollowSafe, ProcessTypes, Places, Operating
<1>4. CohortInv'
      BY <1>1, <1>2 DEF FollowSafe, CohortInv
<1>5. PlaceInv'
      BY <1>1, <1>2 DEF FollowSafe, PlaceInv, Operating
<1>6. ExporterInv'
      BY <1>1, <1>2 DEF FollowSafe, ExporterInv, Found
<1>7. ReceiptInv'
      BY <1>1, <1>2 DEF FollowSafe, ReceiptInv, Found
<1>8. OperationInv'
      BY <1>1, <1>2 DEF FollowSafe, OperationInv
<1>9. DriverInv'
      BY <1>1, <1>2 DEF FollowSafe, DriverInv
<1>10. ProviderInv'
      BY <1>1, <1>2 DEF FollowSafe, ProviderInv
<1>11. PublicInv'
      BY <1>1, <1>2 DEF FollowSafe, PublicInv
<1> QED BY <1>3, <1>4, <1>5, <1>6, <1>7, <1>8, <1>9, <1>10, <1>11 DEF
           FollowSafe

(* The call of the exporter                                                *)
LEMMA CallExporterKeeps ==
    ASSUME FollowSafe, CallExporter
    PROVE  FollowSafe'
<1>1. /\ me = "export" /\ me' = "reply"
      /\ exporter' = [NoExport EXCEPT !.st = "running"]
      /\ runs' = IF runs = 0 THEN 1 ELSE 2
      /\ UNCHANGED <<cohort, closed, seed, late, st, folders, op, receipts,
                     pkg, driver, flight, deployed, public, calls, kills>>
      BY DEF CallExporter, world, export, provider, delivery, At, Goto, Stop
<1>2. runs' = 1 /\ runs = 0 /\ st.cur /\ op.started /\ op.export = None
      BY <1>1 DEF FollowSafe, ExporterInv, PlaceInv, Operating
<1>3. /\ exporter' \in Exporters /\ exporter'.st = "running"
      /\ \A a \in Members : exporter'.rows[a] = "unread"
      BY <1>1 DEF Exporters, NoExport, Unread, Accounts
<1>4. ProcessTypes'
      BY <1>1, <1>2, <1>3 DEF FollowSafe, ProcessTypes, Places, Operating
<1>5. CohortInv'
      BY <1>1 DEF FollowSafe, CohortInv
<1>6. PlaceInv'
      BY <1>1 DEF FollowSafe, PlaceInv, Operating
<1>7. ExporterInv'
      BY <1>1, <1>2, <1>3 DEF FollowSafe, ExporterInv, Found
<1>8. ReceiptInv'
      BY <1>1, <1>2, <1>3 DEF FollowSafe, ReceiptInv, Found
<1>9. OperationInv'
      BY <1>1 DEF FollowSafe, OperationInv
<1>10. DriverInv'
      BY <1>1 DEF FollowSafe, DriverInv
<1>11. ProviderInv'
      BY <1>1 DEF FollowSafe, ProviderInv
<1>12. PublicInv'
      BY <1>1 DEF FollowSafe, PublicInv
<1> QED BY <1>4, <1>5, <1>6, <1>7, <1>8, <1>9, <1>10, <1>11, <1>12 DEF
           FollowSafe

(* The exporter's reply                                                    *)
LEMMA ExportedKeeps ==
    ASSUME FollowSafe, Exported
    PROVE  FollowSafe'
<1>1. /\ me = "reply" /\ me' = "exported"
      /\ exporter.st = "done" /\ exporter.reply # None
      /\ op' = [op EXCEPT !.export = exporter.reply]
      /\ exporter' = NoExport
      /\ UNCHANGED <<cohort, closed, seed, late, st, folders, receipts, runs,
                     pkg, driver, flight, deployed, public, calls, kills>>
      BY DEF Exported, world, export, provider, delivery, At, Goto, Stop
<1>2. exporter' \in Exporters /\ exporter'.st = "idle"
      BY <1>1 DEF Exporters, NoExport, Unread, Accounts
<1>3. exporter.reply \in Accounts /\ Found(exporter.reply)
      BY <1>1 DEF FollowSafe, ProcessTypes, Exporters, ExporterInv
<1>4. /\ op' \in OperationFiles
      /\ op'.export = exporter.reply
      /\ op'.anchor = op.anchor /\ op'.snapshot = op.snapshot /\ op'.obs = op.obs
      /\ op'.started = op.started /\ op'.marker = op.marker /\ op'.done = op.done
      BY <1>1, <1>3 DEF FollowSafe, ProcessTypes, OperationFiles
<1>5. /\ op.export = None /\ ~op.marker /\ ~op.done /\ st.cur /\ op.obs # None
      /\ driver.pc = "idle" /\ op.started
      BY <1>1
      DEF FollowSafe, ExporterInv, OperationInv, DriverInv, PlaceInv,
          Operating
<1>6. public # None => public.rows # None
      BY CatalogRows DEF FollowSafe, PublicInv
<1>7. ProcessTypes'
      BY <1>1, <1>4, <1>2, <1>3, <1>5, <1>6 DEF FollowSafe, ProcessTypes,
         Places, Operating
<1>8. CohortInv'
      BY <1>1, <1>4, <1>2, <1>3, <1>5, <1>6 DEF FollowSafe, CohortInv
<1>9. PlaceInv'
      BY <1>1, <1>4, <1>2, <1>3, <1>5, <1>6 DEF FollowSafe, PlaceInv,
         Operating
<1>10. ExporterInv'
      BY <1>1, <1>4, <1>2, <1>3, <1>5, <1>6 DEF FollowSafe, ExporterInv, Found
<1>11. ReceiptInv'
      BY <1>1, <1>4, <1>2, <1>3, <1>5, <1>6 DEF FollowSafe, ReceiptInv, Found
<1>12. OperationInv'
      BY <1>1, <1>4, <1>2, <1>3, <1>5, <1>6 DEF FollowSafe, OperationInv
<1>13. DriverInv'
      BY <1>1, <1>4, <1>2, <1>3, <1>5, <1>6 DEF FollowSafe, DriverInv
<1>14. ProviderInv'
      BY <1>1, <1>4, <1>2, <1>3, <1>5, <1>6 DEF FollowSafe, ProviderInv
<1>15. PublicInv'
      BY <1>1, <1>4, <1>2, <1>3, <1>5, <1>6 DEF FollowSafe, PublicInv
<1> QED BY <1>7, <1>8, <1>9, <1>10, <1>11, <1>12, <1>13, <1>14, <1>15 DEF
           FollowSafe

(* A reply that is lost                                                    *)
LEMMA ExportLostKeeps ==
    ASSUME FollowSafe, ExportLost
    PROVE  FollowSafe'
<1>1. /\ me = "reply" /\ op.started
      /\ exporter' = NoExport
      /\ \/ /\ Receipted /\ op' = [op EXCEPT !.export = receipts[op.anchor]]
            /\ st' = st /\ me' = "exported"
         \/ /\ st' = [st EXCEPT !.status = "uncertain"] /\ op' = op
            /\ me' = "none"
      /\ UNCHANGED <<cohort, closed, seed, late, folders, receipts, runs, pkg,
                     driver, flight, deployed, public, calls, kills>>
      BY DEF ExportLost, Adopts, Uncertain, FollowSafe, ExporterInv, world,
             export, provider, delivery, At, Goto, Stop
<1>2. exporter' \in Exporters /\ exporter'.st = "idle"
      BY <1>1 DEF Exporters, NoExport, Unread, Accounts
<1>3. /\ op.export = None /\ ~op.marker /\ ~op.done /\ st.cur /\ op.obs # None
      /\ driver.pc = "idle" /\ op.anchor \in Members
      BY <1>1
      DEF FollowSafe, ExporterInv, OperationInv, DriverInv, PlaceInv,
          Operating
<1>4. public # None => public.rows # None
      BY CatalogRows DEF FollowSafe, PublicInv
<1>5. Receipted => /\ ~op.snapshot /\ receipts[op.anchor] \in Accounts
                   /\ receipts[op.anchor] # None /\ Found(receipts[op.anchor])
                   /\ exporter.st # "running"
      BY <1>3 DEF FollowSafe, ReceiptInv, Receipted
<1>6. /\ st' \in FollowerStates /\ st'.made = st.made /\ st'.observed = st.observed
      /\ st'.term = st.term /\ st'.exports = st.exports /\ st'.sig = st.sig
      /\ st'.ops = st.ops /\ st'.cur = st.cur /\ st'.polls = st.polls
      /\ st'.seeded = st.seeded /\ st'.status \in {st.status, "uncertain"}
      BY <1>1 DEF FollowSafe, ProcessTypes, FollowerStates
<1>7. /\ op' \in OperationFiles /\ op'.anchor = op.anchor /\ op'.obs = op.obs
      /\ op'.snapshot = op.snapshot /\ op'.started = op.started
      /\ op'.marker = op.marker /\ op'.done = op.done
      /\ \/ /\ me' = "exported" /\ op'.export # None /\ Found(op'.export)
            /\ exporter.st # "running"
         \/ me' = "none" /\ op'.export = None
      BY <1>1, <1>3, <1>5 DEF FollowSafe, ProcessTypes, OperationFiles, Found
<1>8. me' \in {"exported", "none"}
      BY <1>1
<1>9. ProcessTypes'
      BY <1>1, <1>2, <1>3, <1>4, <1>6, <1>7 DEF FollowSafe, ProcessTypes,
         Places, Operating
<1>10. CohortInv'
      BY <1>1, <1>2, <1>3, <1>4, <1>6, <1>7 DEF FollowSafe, CohortInv
<1>11. PlaceInv'
      BY <1>1, <1>2, <1>3, <1>4, <1>6, <1>7 DEF FollowSafe, PlaceInv,
         Operating
<1>12. ExporterInv'
      BY <1>1, <1>2, <1>3, <1>4, <1>6, <1>7 DEF FollowSafe, ExporterInv, Found
<1>13. ReceiptInv'
      BY <1>1, <1>2, <1>3, <1>4, <1>6, <1>7 DEF FollowSafe, ReceiptInv, Found
<1>14. OperationInv'
      BY <1>1, <1>2, <1>3, <1>4, <1>6, <1>7 DEF FollowSafe, OperationInv
<1>15. DriverInv'
      BY <1>1, <1>2, <1>3, <1>4, <1>6, <1>7 DEF FollowSafe, DriverInv
<1>16. ProviderInv'
      BY <1>1, <1>2, <1>3, <1>4, <1>6, <1>7 DEF FollowSafe, ProviderInv
<1>17. PublicInv'
      BY <1>1, <1>2, <1>3, <1>4, <1>6, <1>7 DEF FollowSafe, PublicInv
<1> QED BY <1>9, <1>10, <1>11, <1>12, <1>13, <1>14, <1>15, <1>16, <1>17 DEF
           FollowSafe

(* An export found started                                                 *)
LEMMA ResumeExportKeeps ==
    ASSUME FollowSafe, ResumeExport
    PROVE  FollowSafe'
<1>1. /\ me = "operate" /\ op.started
      /\ \/ /\ Receipted /\ op' = [op EXCEPT !.export = receipts[op.anchor]]
            /\ st' = st /\ me' = "exported"
         \/ /\ st' = [st EXCEPT !.status = "uncertain"] /\ op' = op
            /\ me' = "none"
      /\ UNCHANGED <<cohort, closed, seed, late, folders, exporter, receipts,
                     runs, pkg, driver, flight, deployed, public, calls,
                     kills>>
      BY DEF ResumeExport, Adopts, Uncertain, world, export, provider,
             delivery, At, Goto, Stop
<1>2. /\ op.export = None /\ ~op.marker /\ ~op.done /\ st.cur /\ op.obs # None
      /\ driver.pc = "idle" /\ op.anchor \in Members
      BY <1>1
      DEF FollowSafe, ExporterInv, OperationInv, DriverInv, PlaceInv,
          Operating
<1>3. public # None => public.rows # None
      BY CatalogRows DEF FollowSafe, PublicInv
<1>4. Receipted => /\ ~op.snapshot /\ receipts[op.anchor] \in Accounts
                   /\ receipts[op.anchor] # None /\ Found(receipts[op.anchor])
                   /\ exporter.st # "running"
      BY <1>2 DEF FollowSafe, ReceiptInv, Receipted
<1>5. /\ st' \in FollowerStates /\ st'.made = st.made /\ st'.observed = st.observed
      /\ st'.term = st.term /\ st'.exports = st.exports /\ st'.sig = st.sig
      /\ st'.ops = st.ops /\ st'.cur = st.cur /\ st'.polls = st.polls
      /\ st'.seeded = st.seeded /\ st'.status \in {st.status, "uncertain"}
      BY <1>1 DEF FollowSafe, ProcessTypes, FollowerStates
<1>6. /\ op' \in OperationFiles /\ op'.anchor = op.anchor /\ op'.obs = op.obs
      /\ op'.snapshot = op.snapshot /\ op'.started = op.started
      /\ op'.marker = op.marker /\ op'.done = op.done
      /\ \/ /\ me' = "exported" /\ op'.export # None /\ Found(op'.export)
            /\ exporter.st # "running"
         \/ me' = "none" /\ op'.export = None
      BY <1>1, <1>2, <1>4 DEF FollowSafe, ProcessTypes, OperationFiles, Found
<1>7. me' \in {"exported", "none"}
      BY <1>1
<1>8. ProcessTypes'
      BY <1>1, <1>2, <1>3, <1>5, <1>6 DEF FollowSafe, ProcessTypes, Places,
         Operating
<1>9. CohortInv'
      BY <1>1, <1>2, <1>3, <1>5, <1>6 DEF FollowSafe, CohortInv
<1>10. PlaceInv'
      BY <1>1, <1>2, <1>3, <1>5, <1>6 DEF FollowSafe, PlaceInv, Operating
<1>11. ExporterInv'
      BY <1>1, <1>2, <1>3, <1>5, <1>6 DEF FollowSafe, ExporterInv, Found
<1>12. ReceiptInv'
      BY <1>1, <1>2, <1>3, <1>5, <1>6 DEF FollowSafe, ReceiptInv, Found
<1>13. OperationInv'
      BY <1>1, <1>2, <1>3, <1>5, <1>6 DEF FollowSafe, OperationInv
<1>14. DriverInv'
      BY <1>1, <1>2, <1>3, <1>5, <1>6 DEF FollowSafe, DriverInv
<1>15. ProviderInv'
      BY <1>1, <1>2, <1>3, <1>5, <1>6 DEF FollowSafe, ProviderInv
<1>16. PublicInv'
      BY <1>1, <1>2, <1>3, <1>5, <1>6 DEF FollowSafe, PublicInv
<1> QED BY <1>8, <1>9, <1>10, <1>11, <1>12, <1>13, <1>14, <1>15, <1>16 DEF
           FollowSafe

(* A completion exported                                                   *)
LEMMA KeepKeeps ==
    ASSUME FollowSafe, Keep
    PROVE  FollowSafe'
<1>1. /\ me = "exported" /\ me' = "check"
      /\ st' = [st EXCEPT !.exports = IF op.snapshot THEN @ ELSE @ \cup {op.anchor}]
      /\ UNCHANGED <<cohort, closed, seed, late, folders, op, exporter,
                     receipts, runs, pkg, driver, flight, deployed, public,
                     calls, kills>>
      BY DEF Keep, world, export, provider, delivery, At, Goto, Stop
<1>2. st.cur /\ op.obs # None /\ op.anchor \in Members /\ op.export # None
      BY <1>1 DEF FollowSafe, PlaceInv, ExporterInv, OperationInv, Operating
<1>3. /\ (IF op.snapshot THEN st.exports ELSE st.exports \cup {op.anchor}) \subseteq Members
      BY <1>2 DEF FollowSafe, ProcessTypes, FollowerStates
<1>4. /\ st' \in FollowerStates /\ st'.made = st.made /\ st'.status = st.status
      /\ st'.observed = st.observed /\ st'.term = st.term /\ st'.sig = st.sig
      /\ st'.ops = st.ops /\ st'.cur = st.cur /\ st'.polls = st.polls
      /\ st'.seeded = st.seeded /\ st.exports \subseteq st'.exports
      /\ ~op.snapshot => op.anchor \in st'.exports
      BY <1>1, <1>3 DEF FollowSafe, ProcessTypes, FollowerStates
<1>5. ProcessTypes'
      BY <1>1, <1>4 DEF FollowSafe, ProcessTypes, Places, Operating
<1>6. CohortInv'
      BY <1>1, <1>4 DEF FollowSafe, CohortInv
<1>7. PlaceInv'
      BY <1>1, <1>4 DEF FollowSafe, PlaceInv, Operating
<1>8. ExporterInv'
      BY <1>1, <1>4 DEF FollowSafe, ExporterInv, Found
<1>9. ReceiptInv'
      BY <1>1, <1>4, <1>2 DEF FollowSafe, ReceiptInv, Found
<1>10. OperationInv'
      BY <1>1, <1>4 DEF FollowSafe, OperationInv
<1>11. DriverInv'
      BY <1>1, <1>4 DEF FollowSafe, DriverInv
<1>12. ProviderInv'
      BY <1>1, <1>4 DEF FollowSafe, ProviderInv
<1>13. PublicInv'
      BY <1>1, <1>4 DEF FollowSafe, PublicInv
<1> QED BY <1>5, <1>6, <1>7, <1>8, <1>9, <1>10, <1>11, <1>12, <1>13 DEF
           FollowSafe

(* An operation put off                                                    *)
LEMMA DeferKeeps ==
    ASSUME FollowSafe, Defer
    PROVE  FollowSafe'
<1>1. /\ me = "check" /\ me' = "loop" /\ ~(Completed(op.export) \subseteq st.exports)
      /\ st' = [st EXCEPT !.cur = FALSE]
      /\ UNCHANGED <<cohort, closed, seed, late, folders, op, exporter,
                     receipts, runs, pkg, driver, flight, deployed, public,
                     calls, kills>>
      BY DEF Defer, world, export, provider, delivery, At, Goto, Stop
<1>2. /\ ~op.marker /\ ~op.done /\ st.cur /\ st.seeded
      /\ driver.pc = "idle" /\ flight = None /\ exporter.st # "running"
      /\ st.status # "complete" /\ st.made = "yes" /\ folders = st.ops
      BY <1>1
      DEF FollowSafe, ExporterInv, OperationInv, DriverInv, PlaceInv,
          ProviderInv, Operating
<1>3. \A a \in Members : receipts[a] # None => a \in st.exports
      BY <1>1 DEF FollowSafe, ReceiptInv, OperationInv
<1>4. /\ st' \in FollowerStates
      /\ st'.cur = FALSE
      /\ st'.made = st.made /\ st'.status = st.status /\ st'.observed = st.observed
      /\ st'.term = st.term /\ st'.exports = st.exports /\ st'.sig = st.sig
      /\ st'.ops = st.ops /\ st'.polls = st.polls /\ st'.seeded = st.seeded
      BY <1>1 DEF FollowSafe, ProcessTypes, FollowerStates
<1>5. ProcessTypes'
      BY <1>1, <1>4 DEF FollowSafe, ProcessTypes, Places, Operating
<1>6. CohortInv'
      BY <1>1, <1>4 DEF FollowSafe, CohortInv
<1>7. PlaceInv'
      BY <1>1, <1>4, <1>2, <1>3 DEF FollowSafe, PlaceInv, Operating
<1>8. ExporterInv'
      BY <1>1, <1>4, <1>2, <1>3 DEF FollowSafe, ExporterInv, Found
<1>9. ReceiptInv'
      BY <1>1, <1>4, <1>2, <1>3 DEF FollowSafe, ReceiptInv, Found
<1>10. OperationInv'
      BY <1>1, <1>4, <1>2, <1>3 DEF FollowSafe, OperationInv
<1>11. DriverInv'
      BY <1>1, <1>4, <1>2, <1>3 DEF FollowSafe, DriverInv
<1>12. ProviderInv'
      BY <1>1, <1>4, <1>2, <1>3 DEF FollowSafe, ProviderInv
<1>13. PublicInv'
      BY <1>1, <1>4, <1>2, <1>3 DEF FollowSafe, PublicInv
<1> QED BY <1>5, <1>6, <1>7, <1>8, <1>9, <1>10, <1>11, <1>12, <1>13 DEF
           FollowSafe

(* The catalog and the operation's marker                                  *)
LEMMA ComposeKeeps ==
    ASSUME FollowSafe, Compose
    PROVE  FollowSafe'
<1>1. /\ me = "check" /\ me' = "publish" /\ Completed(op.export) \subseteq st.exports
      /\ op' = [op EXCEPT !.marker = TRUE]
      /\ UNCHANGED <<cohort, closed, seed, late, st, folders, exporter,
                     receipts, runs, pkg, driver, flight, deployed, public,
                     calls, kills>>
      BY DEF Compose, world, export, provider, delivery, At, Goto, Stop
<1>2. /\ op' \in OperationFiles
      /\ op'.marker = TRUE
      /\ op'.anchor = op.anchor /\ op'.snapshot = op.snapshot /\ op'.obs = op.obs
      /\ op'.started = op.started /\ op'.export = op.export /\ op'.done = op.done
      BY <1>1 DEF FollowSafe, ProcessTypes, OperationFiles
<1>3. ProcessTypes'
      BY <1>1, <1>2 DEF FollowSafe, ProcessTypes, Places, Operating
<1>4. CohortInv'
      BY <1>1, <1>2 DEF FollowSafe, CohortInv
<1>5. PlaceInv'
      BY <1>1, <1>2 DEF FollowSafe, PlaceInv, Operating
<1>6. ExporterInv'
      BY <1>1, <1>2 DEF FollowSafe, ExporterInv, Found
<1>7. ReceiptInv'
      BY <1>1, <1>2 DEF FollowSafe, ReceiptInv, Found
<1>8. OperationInv'
      BY <1>1, <1>2 DEF FollowSafe, OperationInv
<1>9. DriverInv'
      BY <1>1, <1>2 DEF FollowSafe, DriverInv
<1>10. ProviderInv'
      BY <1>1, <1>2 DEF FollowSafe, ProviderInv
<1>11. PublicInv'
      BY <1>1, <1>2 DEF FollowSafe, PublicInv
<1> QED BY <1>3, <1>4, <1>5, <1>6, <1>7, <1>8, <1>9, <1>10, <1>11 DEF
           FollowSafe

(* The call of the driver                                                  *)
LEMMA CallDriverKeeps ==
    ASSUME FollowSafe, CallDriver
    PROVE  FollowSafe'
<1>1. /\ me = "publish" /\ me' = "result" /\ driver.pc = "idle"
      /\ driver' = [pc |-> "check", pkg |-> op.export, res |-> "none"]
      /\ UNCHANGED <<cohort, closed, seed, late, st, folders, op, exporter,
                     receipts, runs, pkg, flight, deployed, public, calls,
                     kills>>
      BY DEF CallDriver, world, export, provider, delivery, At, Goto, Stop
<1>2. /\ driver' \in Drivers /\ driver'.pc = "check"
      /\ driver'.pkg = op.export /\ driver'.res = "none"
      BY <1>1 DEF FollowSafe, ProcessTypes, OperationFiles, Drivers
<1>3. st.cur /\ op.marker
      BY <1>1 DEF FollowSafe, PlaceInv, OperationInv, Operating
<1>4. ProcessTypes'
      BY <1>1, <1>2 DEF FollowSafe, ProcessTypes, Places, Operating
<1>5. CohortInv'
      BY <1>1, <1>2 DEF FollowSafe, CohortInv
<1>6. PlaceInv'
      BY <1>1, <1>2, <1>3 DEF FollowSafe, PlaceInv, Operating
<1>7. ExporterInv'
      BY <1>1, <1>2, <1>3 DEF FollowSafe, ExporterInv, Found
<1>8. ReceiptInv'
      BY <1>1, <1>2, <1>3 DEF FollowSafe, ReceiptInv, Found
<1>9. OperationInv'
      BY <1>1, <1>2, <1>3 DEF FollowSafe, OperationInv
<1>10. DriverInv'
      BY <1>1, <1>2, <1>3 DEF FollowSafe, DriverInv
<1>11. ProviderInv'
      BY <1>1, <1>2, <1>3 DEF FollowSafe, ProviderInv
<1>12. PublicInv'
      BY <1>1, <1>2, <1>3 DEF FollowSafe, PublicInv
<1> QED BY <1>4, <1>5, <1>6, <1>7, <1>8, <1>9, <1>10, <1>11, <1>12 DEF
           FollowSafe

(* The driver's proof                                                      *)
LEMMA PublishedKeeps ==
    ASSUME FollowSafe, Published
    PROVE  FollowSafe'
<1>1. /\ me = "result" /\ me' = "done" /\ driver.pc = "end" /\ driver.res = "published"
      /\ driver' = NoDriver
      /\ op' = [op EXCEPT !.done = TRUE]
      /\ UNCHANGED <<cohort, closed, seed, late, st, folders, exporter,
                     receipts, runs, pkg, flight, deployed, public, calls,
                     kills>>
      BY DEF Published, world, export, provider, delivery, At, Goto, Stop
<1>2. driver' \in Drivers /\ driver'.pc = "idle"
      BY <1>1 DEF Drivers, NoDriver, Accounts
<1>3. /\ op' \in OperationFiles
      /\ op'.done = TRUE
      /\ op'.anchor = op.anchor /\ op'.snapshot = op.snapshot /\ op'.obs = op.obs
      /\ op'.started = op.started /\ op'.export = op.export /\ op'.marker = op.marker
      BY <1>1 DEF FollowSafe, ProcessTypes, OperationFiles
<1>4. op.marker /\ pkg[op.export].complete
      BY <1>1 DEF FollowSafe, DriverInv
<1>5. ProcessTypes'
      BY <1>1, <1>3, <1>2, <1>4 DEF FollowSafe, ProcessTypes, Places,
         Operating
<1>6. CohortInv'
      BY <1>1, <1>3, <1>2, <1>4 DEF FollowSafe, CohortInv
<1>7. PlaceInv'
      BY <1>1, <1>3, <1>2, <1>4 DEF FollowSafe, PlaceInv, Operating
<1>8. ExporterInv'
      BY <1>1, <1>3, <1>2, <1>4 DEF FollowSafe, ExporterInv, Found
<1>9. ReceiptInv'
      BY <1>1, <1>3, <1>2, <1>4 DEF FollowSafe, ReceiptInv, Found
<1>10. OperationInv'
      BY <1>1, <1>3, <1>2, <1>4 DEF FollowSafe, OperationInv
<1>11. DriverInv'
      BY <1>1, <1>3, <1>2, <1>4 DEF FollowSafe, DriverInv
<1>12. ProviderInv'
      BY <1>1, <1>3, <1>2, <1>4 DEF FollowSafe, ProviderInv
<1>13. PublicInv'
      BY <1>1, <1>3, <1>2, <1>4 DEF FollowSafe, PublicInv
<1> QED BY <1>5, <1>6, <1>7, <1>8, <1>9, <1>10, <1>11, <1>12, <1>13 DEF
           FollowSafe

(* The end of an operation                                                 *)
LEMMA DoneKeeps ==
    ASSUME FollowSafe, Done
    PROVE  FollowSafe'
<1>1. /\ me = "done" /\ me' = "loop"
      /\ st' = [st EXCEPT !.cur = FALSE, !.sig = Signature(op.obs)]
      /\ UNCHANGED <<cohort, closed, seed, late, folders, op, exporter,
                     receipts, runs, pkg, driver, flight, deployed, public,
                     calls, kills>>
      BY DEF Done, world, export, provider, delivery, At, Goto, Stop
<1>2. /\ st.cur /\ op.done /\ op.marker /\ op.obs \in Contents /\ op.export \in Contents
      /\ op.obs # None /\ Below(op.obs, op.export)
      BY <1>1
      DEF FollowSafe, ProcessTypes, OperationFiles, Accounts, PlaceInv,
          ExporterInv, OperationInv, Operating, Found
<1>3. /\ pkg[op.export].complete /\ Catalog(op.export) \in deployed
      /\ public # None /\ public \in Catalogs /\ Below(op.export, public.rows)
      BY <1>2 DEF FollowSafe, OperationInv, ProviderInv, PublicInv
<1>4. flight = None
      BY <1>2, <1>3, CatalogRows DEF FollowSafe, ProviderInv
<1>5. /\ st.seeded /\ driver.pc = "idle" /\ exporter.st # "running"
      /\ st.status # "complete" /\ st.made = "yes" /\ folders = st.ops
      BY <1>1, <1>2
      DEF FollowSafe, ExporterInv, OperationInv, DriverInv, PlaceInv,
          Operating
<1>6. \A a \in Members : receipts[a] # None => a \in st.exports
      BY <1>1 DEF FollowSafe, ReceiptInv, OperationInv
<1>7. /\ Signature(op.obs) \in Contents /\ public.rows \in Contents
      /\ Below(Signature(op.obs), op.obs)
      BY <1>2, <1>3, SignatureBelow, CatalogRows
<1>8. Below(Signature(op.obs), public.rows)
      BY <1>2, <1>3, <1>7, BelowTwice
<1>9. Signature(op.obs) \in Accounts
      BY <1>7 DEF Accounts
<1>10. /\ st' \in FollowerStates
      /\ st'.cur = FALSE
      /\ st'.sig = Signature(op.obs)
      /\ st'.made = st.made /\ st'.status = st.status /\ st'.observed = st.observed
      /\ st'.term = st.term /\ st'.exports = st.exports /\ st'.ops = st.ops
      /\ st'.polls = st.polls /\ st'.seeded = st.seeded
      BY <1>1, <1>9 DEF FollowSafe, ProcessTypes, FollowerStates
<1>11. ProcessTypes'
      BY <1>1, <1>10 DEF FollowSafe, ProcessTypes, Places, Operating
<1>12. CohortInv'
      BY <1>1, <1>10 DEF FollowSafe, CohortInv
<1>13. PlaceInv'
      BY <1>1, <1>10, <1>2, <1>3, <1>4, <1>5, <1>6, <1>8 DEF FollowSafe,
         PlaceInv, Operating
<1>14. ExporterInv'
      BY <1>1, <1>10, <1>2, <1>3, <1>4, <1>5, <1>6, <1>8 DEF FollowSafe,
         ExporterInv, Found
<1>15. ReceiptInv'
      BY <1>1, <1>10, <1>2, <1>3, <1>4, <1>5, <1>6, <1>8 DEF FollowSafe,
         ReceiptInv, Found
<1>16. OperationInv'
      BY <1>1, <1>10, <1>2, <1>3, <1>4, <1>5, <1>6, <1>8 DEF FollowSafe,
         OperationInv
<1>17. DriverInv'
      BY <1>1, <1>10, <1>2, <1>3, <1>4, <1>5, <1>6, <1>8 DEF FollowSafe,
         DriverInv
<1>18. ProviderInv'
      BY <1>1, <1>10, <1>2, <1>3, <1>4, <1>5, <1>6, <1>8 DEF FollowSafe,
         ProviderInv
<1>19. PublicInv'
      BY <1>1, <1>10, <1>2, <1>3, <1>4, <1>5, <1>6, <1>8 DEF FollowSafe,
         PublicInv
<1> QED BY <1>11, <1>12, <1>13, <1>14, <1>15, <1>16, <1>17, <1>18, <1>19 DEF
           FollowSafe

(* Another answer than the proof                                           *)
LEMMA PublishUncertainKeeps ==
    ASSUME FollowSafe, PublishUncertain
    PROVE  FollowSafe'
<1>1. /\ me \in {"publish", "result"} /\ me' = "none" /\ driver' \in {driver, NoDriver}
      /\ me = "publish" \/ driver' = NoDriver
      /\ st' = [st EXCEPT !.status = "uncertain"]
      /\ UNCHANGED <<cohort, closed, seed, late, folders, op, exporter,
                     receipts, runs, pkg, flight, deployed, public, calls,
                     kills>>
      BY DEF PublishUncertain, Uncertain, world, export, provider, delivery,
             At, Goto, Stop
<1>2. /\ driver' \in Drivers /\ driver'.pc # "end"
      /\ driver'.pc = "idle" \/ driver' = driver
      BY <1>1
      DEF FollowSafe, ProcessTypes, DriverInv, Drivers, NoDriver, Accounts
<1>3. /\ st' \in FollowerStates
      /\ st'.status = "uncertain"
      /\ st'.made = st.made /\ st'.observed = st.observed /\ st'.term = st.term
      /\ st'.exports = st.exports /\ st'.sig = st.sig /\ st'.ops = st.ops
      /\ st'.cur = st.cur /\ st'.polls = st.polls /\ st'.seeded = st.seeded
      BY <1>1 DEF FollowSafe, ProcessTypes, FollowerStates
<1>4. ProcessTypes'
      BY <1>1, <1>3, <1>2 DEF FollowSafe, ProcessTypes, Places, Operating
<1>5. CohortInv'
      BY <1>1, <1>3, <1>2 DEF FollowSafe, CohortInv
<1>6. PlaceInv'
      BY <1>1, <1>3, <1>2 DEF FollowSafe, PlaceInv, Operating
<1>7. ExporterInv'
      BY <1>1, <1>3, <1>2 DEF FollowSafe, ExporterInv, Found
<1>8. ReceiptInv'
      BY <1>1, <1>3, <1>2 DEF FollowSafe, ReceiptInv, Found
<1>9. OperationInv'
      BY <1>1, <1>3, <1>2 DEF FollowSafe, OperationInv
<1>10. DriverInv'
      BY <1>1, <1>3, <1>2 DEF FollowSafe, DriverInv
<1>11. ProviderInv'
      BY <1>1, <1>3, <1>2 DEF FollowSafe, ProviderInv
<1>12. PublicInv'
      BY <1>1, <1>3, <1>2 DEF FollowSafe, PublicInv
<1> QED BY <1>4, <1>5, <1>6, <1>7, <1>8, <1>9, <1>10, <1>11, <1>12 DEF
           FollowSafe

(* The follower is killed.                                                 *)
LEMMA KillKeeps ==
    ASSUME FollowSafe, Kill
    PROVE  FollowSafe'
<1>1. /\ me # "none" /\ me' = "none" /\ kills < MaxKills /\ kills' = kills + 1
      /\ exporter' = IF exporter.st = "done" THEN NoExport ELSE exporter
      /\ driver' = IF driver.pc = "end" THEN NoDriver ELSE driver
      /\ UNCHANGED <<cohort, closed, seed, late, st, folders, op, receipts,
                     runs, pkg, flight, deployed, public, calls>>
      BY DEF Kill, world, export, provider, delivery, At, Goto, Stop
<1>2. /\ driver' \in Drivers /\ driver'.pc # "end"
      /\ driver'.pc = "idle" \/ driver' = driver
      BY <1>1 DEF FollowSafe, ProcessTypes, Drivers, NoDriver, Accounts
<1>3. /\ exporter' \in Exporters /\ exporter'.st # "done"
      /\ exporter'.st = "idle" \/ exporter' = exporter
      BY <1>1
      DEF FollowSafe, ProcessTypes, Exporters, NoExport, Unread, Accounts
<1>4. kills' \in 0 .. MaxKills
      BY <1>1, FollowAssumption DEF FollowSafe, ProcessTypes
<1>5. ProcessTypes'
      BY <1>1, <1>2, <1>3, <1>4 DEF FollowSafe, ProcessTypes, Places,
         Operating
<1>6. CohortInv'
      BY <1>1, <1>2, <1>3, <1>4 DEF FollowSafe, CohortInv
<1>7. PlaceInv'
      BY <1>1, <1>2, <1>3, <1>4 DEF FollowSafe, PlaceInv, Operating
<1>8. ExporterInv'
      BY <1>1, <1>2, <1>3, <1>4 DEF FollowSafe, ExporterInv, Found
<1>9. ReceiptInv'
      BY <1>1, <1>2, <1>3, <1>4 DEF FollowSafe, ReceiptInv, Found
<1>10. OperationInv'
      BY <1>1, <1>2, <1>3, <1>4 DEF FollowSafe, OperationInv
<1>11. DriverInv'
      BY <1>1, <1>2, <1>3, <1>4 DEF FollowSafe, DriverInv
<1>12. ProviderInv'
      BY <1>1, <1>2, <1>3, <1>4 DEF FollowSafe, ProviderInv
<1>13. PublicInv'
      BY <1>1, <1>2, <1>3, <1>4 DEF FollowSafe, PublicInv
<1> QED BY <1>5, <1>6, <1>7, <1>8, <1>9, <1>10, <1>11, <1>12, <1>13 DEF
           FollowSafe

(* The exporter reads an attempt's journal.                                *)
LEMMA ProjectKeeps ==
    ASSUME FollowSafe, Project
    PROVE  FollowSafe'
<1>1. /\ exporter.st = "running"
      /\ \E a \in Members : exporter' = [exporter EXCEPT !.rows[a] = cohort[a]]
      /\ UNCHANGED <<cohort, closed, seed, late, me, st, folders, op,
                     receipts, runs, pkg, driver, flight, deployed, public,
                     calls, kills>>
      BY DEF Project, world, export, provider, delivery, At, Goto, Stop
<1>2. /\ cohort \in Contents /\ st.cur /\ op.obs # None /\ Below(op.obs, cohort)
      /\ \A a \in Members : /\ cohort[a] \in Statuses /\ Later(op.obs[a], cohort[a])
                              /\ Later(cohort[a], cohort[a])
      BY <1>1
      DEF FollowSafe, CohortInv, ExporterInv, PlaceInv, Below, Later, Contents
<1>3. /\ exporter' \in Exporters /\ exporter'.st = "running"
      /\ \A a \in Members : exporter'.rows[a] \in {exporter.rows[a], cohort[a]}
      BY <1>1, <1>2 DEF FollowSafe, ProcessTypes, Exporters
<1>4. ProcessTypes'
      BY <1>1, <1>3 DEF FollowSafe, ProcessTypes, Places, Operating
<1>5. CohortInv'
      BY <1>1 DEF FollowSafe, CohortInv
<1>6. PlaceInv'
      BY <1>1 DEF FollowSafe, PlaceInv, Operating
<1>7. ExporterInv'
      BY <1>1, <1>2, <1>3 DEF FollowSafe, ExporterInv, Found
<1>8. ReceiptInv'
      BY <1>1, <1>3 DEF FollowSafe, ReceiptInv, Found
<1>9. OperationInv'
      BY <1>1 DEF FollowSafe, OperationInv
<1>10. DriverInv'
      BY <1>1 DEF FollowSafe, DriverInv
<1>11. ProviderInv'
      BY <1>1 DEF FollowSafe, ProviderInv
<1>12. PublicInv'
      BY <1>1 DEF FollowSafe, PublicInv
<1> QED BY <1>4, <1>5, <1>6, <1>7, <1>8, <1>9, <1>10, <1>11, <1>12 DEF
           FollowSafe

(* The exporter packs what it read.                                        *)
LEMMA ExportsKeeps ==
    ASSUME FollowSafe, Exports
    PROVE  FollowSafe'
<1>1. /\ exporter.st = "running" /\ exporter.rows \in Contents
      /\ exporter' = IF me = "reply" THEN Answer(exporter.rows) ELSE NoExport
      /\ receipts' = IF op.snapshot THEN receipts
                    ELSE [receipts EXCEPT ![op.anchor] = exporter.rows]
      /\ UNCHANGED <<cohort, closed, seed, late, me, st, folders, op, runs,
                     pkg, driver, flight, deployed, public, calls, kills>>
      BY DEF Exports, world, export, provider, delivery, At, Goto, Stop
<1>2. /\ st.cur /\ op.started /\ op.export = None /\ runs = 1
      /\ op.obs # None /\ op.anchor \in Members
      /\ \A a \in Members : receipts[a] # None => a \in st.exports
      BY <1>1 DEF FollowSafe, ExporterInv, ReceiptInv, PlaceInv
<1>3. Found(exporter.rows)
      BY <1>1
      DEF FollowSafe, ExporterInv, Found, Below, Contents, Statuses, TERMINAL
<1>4. /\ exporter' \in Exporters
      /\ \/ /\ me = "reply" /\ exporter'.st = "done"
            /\ exporter'.reply = exporter.rows
         \/ exporter'.st = "idle"
      BY <1>1 DEF Exporters, Answer, NoExport, Unread, Accounts
<1>5. /\ receipts' \in [Members -> Accounts]
      /\ \A a \in Members : \/ receipts'[a] = receipts[a]
                              \/ /\ ~op.snapshot /\ a = op.anchor
                                 /\ receipts'[a] = exporter.rows
      BY <1>1, <1>2 DEF FollowSafe, ReceiptInv, Accounts
<1>6. ProcessTypes'
      BY <1>1, <1>2, <1>3, <1>4, <1>5 DEF FollowSafe, ProcessTypes, Places,
         Operating
<1>7. CohortInv'
      BY <1>1 DEF FollowSafe, CohortInv
<1>8. PlaceInv'
      BY <1>1 DEF FollowSafe, PlaceInv, Operating
<1>9. ExporterInv'
      BY <1>1, <1>2, <1>3, <1>4, <1>5 DEF FollowSafe, ExporterInv, Found
<1>10. ReceiptInv'
      BY <1>1, <1>2, <1>3, <1>4, <1>5 DEF FollowSafe, ReceiptInv, Found
<1>11. OperationInv'
      BY <1>1 DEF FollowSafe, OperationInv
<1>12. DriverInv'
      BY <1>1 DEF FollowSafe, DriverInv
<1>13. ProviderInv'
      BY <1>1 DEF FollowSafe, ProviderInv
<1>14. PublicInv'
      BY <1>1 DEF FollowSafe, PublicInv
<1> QED BY <1>6, <1>7, <1>8, <1>9, <1>10, <1>11, <1>12, <1>13, <1>14 DEF
           FollowSafe

(* An export that fails                                                    *)
LEMMA ExportFailsKeeps ==
    ASSUME FollowSafe, ExportFails
    PROVE  FollowSafe'
<1>1. /\ exporter.st = "running"
      /\ exporter' = IF me = "reply" THEN Answer(None) ELSE NoExport
      /\ UNCHANGED <<cohort, closed, seed, late, me, st, folders, op,
                     receipts, runs, pkg, driver, flight, deployed, public,
                     calls, kills>>
      BY DEF ExportFails, world, export, provider, delivery, At, Goto, Stop
<1>2. /\ exporter' \in Exporters
      /\ \/ /\ me = "reply" /\ exporter'.st = "done"
            /\ exporter'.reply = None
         \/ exporter'.st = "idle"
      BY <1>1 DEF Exporters, Answer, NoExport, Unread, Accounts
<1>3. ProcessTypes'
      BY <1>1, <1>2 DEF FollowSafe, ProcessTypes, Places, Operating
<1>4. CohortInv'
      BY <1>1 DEF FollowSafe, CohortInv
<1>5. PlaceInv'
      BY <1>1 DEF FollowSafe, PlaceInv, Operating
<1>6. ExporterInv'
      BY <1>1, <1>2 DEF FollowSafe, ExporterInv, Found
<1>7. ReceiptInv'
      BY <1>1, <1>2 DEF FollowSafe, ReceiptInv, Found
<1>8. OperationInv'
      BY <1>1 DEF FollowSafe, OperationInv
<1>9. DriverInv'
      BY <1>1 DEF FollowSafe, DriverInv
<1>10. ProviderInv'
      BY <1>1 DEF FollowSafe, ProviderInv
<1>11. PublicInv'
      BY <1>1 DEF FollowSafe, PublicInv
<1> QED BY <1>3, <1>4, <1>5, <1>6, <1>7, <1>8, <1>9, <1>10, <1>11 DEF
           FollowSafe

(* The driver reads the package's files.                                   *)
LEMMA CheckKeeps ==
    ASSUME FollowSafe, Check
    PROVE  FollowSafe'
<1>1. /\ driver.pc = "check"
      /\ \/ driver' = [driver EXCEPT !.pc = "find"]
         \/ /\ ~pkg[driver.pkg].marker
            /\ driver' = [driver EXCEPT !.pc = "claim"]
         \/ /\ me = "result"
            /\ driver' = [driver EXCEPT !.pc = "end", !.res = "uncertain"]
         \/ /\ me = "result" /\ pkg[driver.pkg].complete
            /\ driver' = [driver EXCEPT !.pc = "end", !.res = "published"]
         \/ driver' = NoDriver
      /\ UNCHANGED <<cohort, closed, seed, late, me, st, folders, op,
                     exporter, receipts, runs, pkg, flight, deployed, public,
                     calls, kills>>
      BY DEF Check, world, export, provider, delivery, At, Goto, Stop, On,
             Then, Returns, Rest, D, Files
<1>2. /\ st.cur /\ op.marker /\ driver.pkg = op.export /\ op.export # None
      /\ op.export \in Contents /\ driver \in Drivers /\ D = op.export
      /\ me # "done"
      BY <1>1
      DEF FollowSafe, ProcessTypes, OperationFiles, Accounts, OperationInv,
          DriverInv, D
<1>3. /\ driver' \in Drivers
      /\ \/ driver'.pc = "find" /\ driver'.pkg = driver.pkg
         \/ /\ ~pkg[driver.pkg].marker
            /\ driver'.pc = "claim" /\ driver'.pkg = driver.pkg
         \/ /\ me = "result" /\ driver'.pc = "end" /\ driver'.pkg = driver.pkg
            /\ driver'.res = "uncertain" \/ pkg[driver.pkg].complete
         \/ driver'.pc = "idle"
  <2>1. CASE driver' = [driver EXCEPT !.pc = "find"]
        BY <2>1, <1>2, DriverFields
  <2>2. CASE /\ ~pkg[driver.pkg].marker
             /\ driver' = [driver EXCEPT !.pc = "claim"]
        BY <2>2, <1>2, DriverFields
  <2>3. CASE /\ me = "result"
             /\ driver' = [driver EXCEPT !.pc = "end", !.res = "uncertain"]
        BY <2>3, <1>2, DriverFields
  <2>4. CASE /\ me = "result" /\ pkg[driver.pkg].complete
             /\ driver' = [driver EXCEPT !.pc = "end", !.res = "published"]
        BY <2>4, <1>2, DriverFields
  <2>5. CASE driver' = NoDriver
        BY <2>5, <1>2, DriverFields
  <2> QED BY <2>1, <2>2, <2>3, <2>4, <2>5, <1>1
<1>4. ProcessTypes'
      BY <1>1, <1>2, <1>3 DEF FollowSafe, ProcessTypes, Places, Operating
<1>5. CohortInv'
      BY <1>1 DEF FollowSafe, CohortInv
<1>6. PlaceInv'
      BY <1>1 DEF FollowSafe, PlaceInv, Operating
<1>7. ExporterInv'
      BY <1>1 DEF FollowSafe, ExporterInv, Found
<1>8. ReceiptInv'
      BY <1>1 DEF FollowSafe, ReceiptInv, Found
<1>9. OperationInv'
      BY <1>1 DEF FollowSafe, OperationInv
<1>10. DriverInv'
      BY <1>1, <1>2, <1>3 DEF FollowSafe, DriverInv
<1>11. ProviderInv'
      BY <1>1 DEF FollowSafe, ProviderInv
<1>12. PublicInv'
      BY <1>1 DEF FollowSafe, PublicInv
<1> QED BY <1>4, <1>5, <1>6, <1>7, <1>8, <1>9, <1>10, <1>11, <1>12 DEF
           FollowSafe

(* The claim of a package                                                  *)
LEMMA ClaimKeeps ==
    ASSUME FollowSafe, Claim
    PROVE  FollowSafe'
<1>1. /\ driver.pc = "claim"
      /\ driver' = [driver EXCEPT !.pc = "marker"]
      /\ Writes("claim")
      /\ UNCHANGED <<cohort, closed, seed, late, me, st, folders, op,
                     exporter, receipts, runs, flight, deployed, public,
                     calls, kills>>
      BY DEF Claim, world, export, provider, delivery, At, Goto, Stop, On,
             Then, Returns, Rest, D, Files
<1>2. /\ st.cur /\ op.marker /\ driver.pkg = op.export /\ op.export # None
      /\ op.export \in Contents /\ driver \in Drivers /\ D = op.export
      /\ me # "done"
      BY <1>1
      DEF FollowSafe, ProcessTypes, OperationFiles, Accounts, OperationInv,
          DriverInv, D
<1>3. /\ driver' \in Drivers
      /\ driver'.pc = "marker" /\ driver'.pkg = driver.pkg
      BY <1>1, <1>2, DriverFields
<1>4. /\ pkg' \in [Contents -> [DOMAIN NoFiles -> BOOLEAN]]
      /\ \A c \in Contents, f \in DOMAIN NoFiles \ {"torn"} :
             pkg'[c][f] = (pkg[c][f] \/ (c = D /\ f = "claim"))
      BY <1>1, <1>2, WritesOne DEF FollowSafe, ProviderInv, NoFiles
<1>5. \A c \in Contents :
          /\ pkg'[c].claim = (pkg[c].claim \/ c = op.export)
          /\ pkg'[c].marker = pkg[c].marker
          /\ pkg'[c].proof = pkg[c].proof
          /\ pkg'[c].complete = pkg[c].complete
          /\ \A f \in {"claim", "marker", "proof", "complete"} : pkg[c][f] \in BOOLEAN
      BY <1>4, <1>2 DEF FollowSafe, ProviderInv, NoFiles
<1>6. \A d \in Catalogs : d.rows \in Contents
      BY CatalogRows
<1>7. ProcessTypes'
      BY <1>1, <1>2, <1>3, <1>4, <1>5, <1>6 DEF FollowSafe, ProcessTypes,
         Places, Operating
<1>8. CohortInv'
      BY <1>1 DEF FollowSafe, CohortInv
<1>9. PlaceInv'
      BY <1>1 DEF FollowSafe, PlaceInv, Operating
<1>10. ExporterInv'
      BY <1>1 DEF FollowSafe, ExporterInv, Found
<1>11. ReceiptInv'
      BY <1>1 DEF FollowSafe, ReceiptInv, Found
<1>12. OperationInv'
      BY <1>1, <1>2, <1>3, <1>4, <1>5, <1>6 DEF FollowSafe, OperationInv
<1>13. DriverInv'
      BY <1>1, <1>2, <1>3, <1>5 DEF FollowSafe, DriverInv
<1>14. ProviderInv'
  <2>1. ASSUME NEW c \in Contents
        PROVE  /\ calls[c] = 1 => pkg'[c].marker
               /\ pkg'[c].marker => pkg'[c].claim
               /\ pkg'[c].complete => pkg'[c].proof
               /\ pkg'[c].proof => /\ Catalog(c) \in deployed /\ public # None
                                  /\ Below(c, public.rows)
               /\ calls[c] = 1 /\ ~pkg'[c].complete =>
                      st.cur /\ op.marker /\ op.export = c
        BY <1>2, <1>5 DEF FollowSafe, ProviderInv, DriverInv
  <2>2. \A d \in deployed : pkg'[d.rows].marker
        BY <1>5, <1>6 DEF FollowSafe, ProviderInv
  <2> QED BY <1>1, <1>4, <2>1, <2>2 DEF FollowSafe, ProviderInv
<1>15. PublicInv'
      BY <1>1, <1>2, <1>3, <1>4, <1>5, <1>6 DEF FollowSafe, PublicInv
<1> QED BY <1>7, <1>8, <1>9, <1>10, <1>11, <1>12, <1>13, <1>14, <1>15 DEF
           FollowSafe

(* The marker before the only deploy command                               *)
LEMMA SubmitMarkerKeeps ==
    ASSUME FollowSafe, SubmitMarker
    PROVE  FollowSafe'
<1>1. /\ driver.pc = "marker"
      /\ driver' = [driver EXCEPT !.pc = "deploy"]
      /\ Writes("marker")
      /\ UNCHANGED <<cohort, closed, seed, late, me, st, folders, op,
                     exporter, receipts, runs, flight, deployed, public,
                     calls, kills>>
      BY DEF SubmitMarker, world, export, provider, delivery, At, Goto, Stop,
             On, Then, Returns, Rest, D, Files
<1>2. /\ st.cur /\ op.marker /\ driver.pkg = op.export /\ op.export # None
      /\ op.export \in Contents /\ driver \in Drivers /\ D = op.export
      /\ me # "done"
      BY <1>1
      DEF FollowSafe, ProcessTypes, OperationFiles, Accounts, OperationInv,
          DriverInv, D
<1>3. /\ driver' \in Drivers
      /\ driver'.pc = "deploy" /\ driver'.pkg = driver.pkg
      BY <1>1, <1>2, DriverFields
<1>4. /\ ~pkg[op.export].marker /\ pkg[op.export].claim /\ calls[op.export] = 0
      /\ Catalog(op.export) \notin deployed \cup {flight}
      BY <1>1, <1>2, CatalogRows DEF FollowSafe, DriverInv, ProviderInv
<1>5. /\ pkg' \in [Contents -> [DOMAIN NoFiles -> BOOLEAN]]
      /\ \A c \in Contents, f \in DOMAIN NoFiles \ {"torn"} :
             pkg'[c][f] = (pkg[c][f] \/ (c = D /\ f = "marker"))
      BY <1>1, <1>2, WritesOne DEF FollowSafe, ProviderInv, NoFiles
<1>6. \A c \in Contents :
          /\ pkg'[c].claim = pkg[c].claim
          /\ pkg'[c].marker = (pkg[c].marker \/ c = op.export)
          /\ pkg'[c].proof = pkg[c].proof
          /\ pkg'[c].complete = pkg[c].complete
          /\ \A f \in {"claim", "marker", "proof", "complete"} : pkg[c][f] \in BOOLEAN
      BY <1>5, <1>2 DEF FollowSafe, ProviderInv, NoFiles
<1>7. \A d \in Catalogs : d.rows \in Contents
      BY CatalogRows
<1>8. ProcessTypes'
      BY <1>1, <1>2, <1>3, <1>5, <1>6, <1>7, <1>4 DEF FollowSafe,
         ProcessTypes, Places, Operating
<1>9. CohortInv'
      BY <1>1 DEF FollowSafe, CohortInv
<1>10. PlaceInv'
      BY <1>1 DEF FollowSafe, PlaceInv, Operating
<1>11. ExporterInv'
      BY <1>1 DEF FollowSafe, ExporterInv, Found
<1>12. ReceiptInv'
      BY <1>1 DEF FollowSafe, ReceiptInv, Found
<1>13. OperationInv'
      BY <1>1, <1>2, <1>3, <1>5, <1>6, <1>7, <1>4 DEF FollowSafe, OperationInv
<1>14. DriverInv'
      BY <1>1, <1>2, <1>3, <1>5, <1>6, <1>7, <1>4 DEF FollowSafe, DriverInv
<1>15. ProviderInv'
  <2>1. ASSUME NEW c \in Contents
        PROVE  /\ calls[c] = 1 => pkg'[c].marker
               /\ pkg'[c].marker => pkg'[c].claim
               /\ pkg'[c].complete => pkg'[c].proof
               /\ pkg'[c].proof => /\ Catalog(c) \in deployed /\ public # None
                                  /\ Below(c, public.rows)
               /\ calls[c] = 1 /\ ~pkg'[c].complete =>
                      st.cur /\ op.marker /\ op.export = c
        BY <1>2, <1>6, <1>4 DEF FollowSafe, ProviderInv
  <2>2. \A d \in deployed : pkg'[d.rows].marker
        BY <1>6, <1>7 DEF FollowSafe, ProviderInv
  <2> QED BY <1>1, <1>5, <2>1, <2>2 DEF FollowSafe, ProviderInv
<1>16. PublicInv'
      BY <1>1, <1>2, <1>3, <1>5, <1>6, <1>7, <1>4 DEF FollowSafe, PublicInv
<1> QED BY <1>8, <1>9, <1>10, <1>11, <1>12, <1>13, <1>14, <1>15, <1>16 DEF
           FollowSafe

(* The deployment is found, and its proof begun or read.                   *)
LEMMA FindKeeps ==
    ASSUME FollowSafe, Find
    PROVE  FollowSafe'
<1>1. /\ driver.pc = "find"
      /\ \/ /\ pkg[D].proof /\ UNCHANGED pkg
            /\ driver' = [driver EXCEPT !.pc = "record"]
         \/ Creates /\ driver' = [driver EXCEPT !.pc = "prove"]
      /\ Catalog(D) \in deployed /\ public = Catalog(D)
      /\ UNCHANGED <<cohort, closed, seed, late, me, st, folders, op,
                     exporter, receipts, runs, flight, deployed, public,
                     calls, kills>>
      BY DEF Find, Listed, Served, world, export, provider, delivery, At, Goto,
             Stop, On, Then, Returns, Rest, D, Files
<1>2. /\ st.cur /\ op.marker /\ driver.pkg = op.export /\ op.export # None
      /\ op.export \in Contents /\ driver \in Drivers /\ D = op.export
      /\ me # "done"
      BY <1>1
      DEF FollowSafe, ProcessTypes, OperationFiles, Accounts, OperationInv,
          DriverInv, D
<1>3. /\ driver' \in Drivers /\ driver'.pkg = driver.pkg
      /\ \/ driver'.pc = "record" /\ pkg[op.export].proof
         \/ driver'.pc = "prove" /\ Below(op.export, public.rows) /\ public # None
                                 /\ Catalog(op.export) \in deployed
  <2>1. CASE pkg[D].proof /\ driver' = [driver EXCEPT !.pc = "record"]
        BY <2>1, <1>2, DriverFields
  <2>2. CASE driver' = [driver EXCEPT !.pc = "prove"]
    <3>1. Below(op.export, public.rows) /\ public # None
          /\ Catalog(op.export) \in deployed
          BY <1>1, <1>2, CatalogRows, BelowSelf
    <3> QED BY <2>2, <3>1, <1>2, DriverFields
  <2> QED BY <1>1, <2>1, <2>2
<1>4. /\ pkg' \in [Contents -> [DOMAIN NoFiles -> BOOLEAN]]
      /\ \A c \in Contents, f \in DOMAIN NoFiles \ {"torn"} :
             pkg'[c][f] = pkg[c][f]
      BY <1>1, <1>2, CreatesNone DEF FollowSafe, ProviderInv
<1>5. \A c \in Contents :
          /\ pkg'[c].claim = pkg[c].claim /\ pkg'[c].marker = pkg[c].marker
          /\ pkg'[c].proof = pkg[c].proof /\ pkg'[c].complete = pkg[c].complete
      BY <1>4 DEF NoFiles
<1>6. \A d \in Catalogs : d.rows \in Contents
      BY CatalogRows
<1>7. ProcessTypes'
      BY <1>1, <1>2, <1>3 DEF FollowSafe, ProcessTypes, Places, Operating
<1>8. CohortInv'
      BY <1>1 DEF FollowSafe, CohortInv
<1>9. PlaceInv'
      BY <1>1 DEF FollowSafe, PlaceInv, Operating
<1>10. ExporterInv'
      BY <1>1 DEF FollowSafe, ExporterInv, Found
<1>11. ReceiptInv'
      BY <1>1 DEF FollowSafe, ReceiptInv, Found
<1>12. OperationInv'
      BY <1>1, <1>2, <1>5 DEF FollowSafe, OperationInv
<1>13. DriverInv'
      BY <1>1, <1>2, <1>3, <1>5 DEF FollowSafe, DriverInv
<1>14. ProviderInv'
  <2>1. \A d \in deployed : pkg'[d.rows].marker
        BY <1>5, <1>6 DEF FollowSafe, ProviderInv
  <2> QED BY <1>1, <1>4, <1>5, <2>1 DEF FollowSafe, ProviderInv
<1>15. PublicInv'
      BY <1>1 DEF FollowSafe, PublicInv
<1> QED BY <1>7, <1>8, <1>9, <1>10, <1>11, <1>12, <1>13, <1>14, <1>15 DEF
           FollowSafe

(* The receipt of a publication is begun.                                  *)
LEMMA RecordKeeps ==
    ASSUME FollowSafe, Record
    PROVE  FollowSafe'
<1>1. /\ driver.pc = "record"
      /\ driver' = [driver EXCEPT !.pc = "complete"]
      /\ Creates
      /\ UNCHANGED <<cohort, closed, seed, late, me, st, folders, op,
                     exporter, receipts, runs, flight, deployed, public,
                     calls, kills>>
      BY DEF Record, world, export, provider, delivery, At, Goto,
             Stop, On, Then, Returns, Rest, D, Files
<1>2. /\ st.cur /\ op.marker /\ driver.pkg = op.export /\ op.export # None
      /\ op.export \in Contents /\ driver \in Drivers /\ D = op.export
      /\ me # "done"
      BY <1>1
      DEF FollowSafe, ProcessTypes, OperationFiles, Accounts, OperationInv,
          DriverInv, D
<1>3. /\ driver' \in Drivers /\ driver'.pkg = driver.pkg
      /\ driver'.pc = "complete" /\ pkg[op.export].proof
      BY <1>1, <1>2, DriverFields DEF FollowSafe, DriverInv
<1>4. /\ pkg' \in [Contents -> [DOMAIN NoFiles -> BOOLEAN]]
      /\ \A c \in Contents, f \in DOMAIN NoFiles \ {"torn"} :
             pkg'[c][f] = pkg[c][f]
      BY <1>1, <1>2, CreatesNone DEF FollowSafe, ProviderInv
<1>5. \A c \in Contents :
          /\ pkg'[c].claim = pkg[c].claim /\ pkg'[c].marker = pkg[c].marker
          /\ pkg'[c].proof = pkg[c].proof /\ pkg'[c].complete = pkg[c].complete
      BY <1>4 DEF NoFiles
<1>6. \A d \in Catalogs : d.rows \in Contents
      BY CatalogRows
<1>7. ProcessTypes'
      BY <1>1, <1>2, <1>3 DEF FollowSafe, ProcessTypes, Places, Operating
<1>8. CohortInv'
      BY <1>1 DEF FollowSafe, CohortInv
<1>9. PlaceInv'
      BY <1>1 DEF FollowSafe, PlaceInv, Operating
<1>10. ExporterInv'
      BY <1>1 DEF FollowSafe, ExporterInv, Found
<1>11. ReceiptInv'
      BY <1>1 DEF FollowSafe, ReceiptInv, Found
<1>12. OperationInv'
      BY <1>1, <1>2, <1>5 DEF FollowSafe, OperationInv
<1>13. DriverInv'
      BY <1>1, <1>2, <1>3, <1>5 DEF FollowSafe, DriverInv
<1>14. ProviderInv'
  <2>1. \A d \in deployed : pkg'[d.rows].marker
        BY <1>5, <1>6 DEF FollowSafe, ProviderInv
  <2> QED BY <1>1, <1>4, <1>5, <2>1 DEF FollowSafe, ProviderInv
<1>15. PublicInv'
      BY <1>1 DEF FollowSafe, PublicInv
<1> QED BY <1>7, <1>8, <1>9, <1>10, <1>11, <1>12, <1>13, <1>14, <1>15 DEF
           FollowSafe

(* The proof of what is public                                             *)
LEMMA ProveKeeps ==
    ASSUME FollowSafe, Prove
    PROVE  FollowSafe'
<1>1. /\ driver.pc = "prove"
      /\ driver' = [driver EXCEPT !.pc = "record"]
      /\ Writes("proof")
      /\ UNCHANGED <<cohort, closed, seed, late, me, st, folders, op,
                     exporter, receipts, runs, flight, deployed, public,
                     calls, kills>>
      BY DEF Prove, world, export, provider, delivery, At, Goto, Stop, On,
             Then, Returns, Rest, D, Files
<1>2. /\ st.cur /\ op.marker /\ driver.pkg = op.export /\ op.export # None
      /\ op.export \in Contents /\ driver \in Drivers /\ D = op.export
      /\ me # "done"
      BY <1>1
      DEF FollowSafe, ProcessTypes, OperationFiles, Accounts, OperationInv,
          DriverInv, D
<1>3. /\ driver' \in Drivers
      /\ driver'.pc = "record" /\ driver'.pkg = driver.pkg
      BY <1>1, <1>2, DriverFields
<1>4. /\ Below(op.export, public.rows) /\ public # None
      /\ Catalog(op.export) \in deployed
      BY <1>1, <1>2 DEF FollowSafe, DriverInv
<1>5. /\ pkg' \in [Contents -> [DOMAIN NoFiles -> BOOLEAN]]
      /\ \A c \in Contents, f \in DOMAIN NoFiles \ {"torn"} :
             pkg'[c][f] = (pkg[c][f] \/ (c = D /\ f = "proof"))
      BY <1>1, <1>2, WritesOne DEF FollowSafe, ProviderInv, NoFiles
<1>6. \A c \in Contents :
          /\ pkg'[c].claim = pkg[c].claim
          /\ pkg'[c].marker = pkg[c].marker
          /\ pkg'[c].proof = (pkg[c].proof \/ c = op.export)
          /\ pkg'[c].complete = pkg[c].complete
          /\ \A f \in {"claim", "marker", "proof", "complete"} : pkg[c][f] \in BOOLEAN
      BY <1>5, <1>2 DEF FollowSafe, ProviderInv, NoFiles
<1>7. \A d \in Catalogs : d.rows \in Contents
      BY CatalogRows
<1>8. ProcessTypes'
      BY <1>1, <1>2, <1>3, <1>5, <1>6, <1>7, <1>4 DEF FollowSafe,
         ProcessTypes, Places, Operating
<1>9. CohortInv'
      BY <1>1 DEF FollowSafe, CohortInv
<1>10. PlaceInv'
      BY <1>1 DEF FollowSafe, PlaceInv, Operating
<1>11. ExporterInv'
      BY <1>1 DEF FollowSafe, ExporterInv, Found
<1>12. ReceiptInv'
      BY <1>1 DEF FollowSafe, ReceiptInv, Found
<1>13. OperationInv'
      BY <1>1, <1>2, <1>3, <1>5, <1>6, <1>7, <1>4 DEF FollowSafe, OperationInv
<1>14. DriverInv'
      BY <1>1, <1>2, <1>3, <1>5, <1>6, <1>7, <1>4 DEF FollowSafe, DriverInv
<1>15. ProviderInv'
  <2>1. ASSUME NEW c \in Contents
        PROVE  /\ calls[c] = 1 => pkg'[c].marker
               /\ pkg'[c].marker => pkg'[c].claim
               /\ pkg'[c].complete => pkg'[c].proof
               /\ pkg'[c].proof => /\ Catalog(c) \in deployed /\ public # None
                                  /\ Below(c, public.rows)
               /\ calls[c] = 1 /\ ~pkg'[c].complete =>
                      st.cur /\ op.marker /\ op.export = c
        BY <1>2, <1>6, <1>4 DEF FollowSafe, ProviderInv
  <2>2. \A d \in deployed : pkg'[d.rows].marker
        BY <1>6, <1>7 DEF FollowSafe, ProviderInv
  <2> QED BY <1>1, <1>5, <2>1, <2>2 DEF FollowSafe, ProviderInv
<1>16. PublicInv'
      BY <1>1, <1>2, <1>3, <1>5, <1>6, <1>7, <1>4 DEF FollowSafe, PublicInv
<1> QED BY <1>8, <1>9, <1>10, <1>11, <1>12, <1>13, <1>14, <1>15, <1>16 DEF
           FollowSafe

(* The end of a publication                                                *)
LEMMA CompleteKeeps ==
    ASSUME FollowSafe, Complete
    PROVE  FollowSafe'
<1>1. /\ driver.pc = "complete"
      /\ \/ /\ me = "result"
            /\ driver' = [driver EXCEPT !.pc = "end", !.res = "published"]
         \/ driver' = NoDriver
      /\ Writes("complete")
      /\ UNCHANGED <<cohort, closed, seed, late, me, st, folders, op,
                     exporter, receipts, runs, flight, deployed, public,
                     calls, kills>>
      BY DEF Complete, world, export, provider, delivery, At, Goto, Stop, On,
             Then, Returns, Rest, D, Files
<1>2. /\ st.cur /\ op.marker /\ driver.pkg = op.export /\ op.export # None
      /\ op.export \in Contents /\ driver \in Drivers /\ D = op.export
      /\ me # "done"
      BY <1>1
      DEF FollowSafe, ProcessTypes, OperationFiles, Accounts, OperationInv,
          DriverInv, D
<1>3. /\ driver' \in Drivers
      /\ \/ me = "result" /\ driver'.pc = "end" /\ driver'.pkg = driver.pkg
         \/ driver'.pc = "idle"
      BY <1>1, <1>2, DriverFields
<1>4. pkg[op.export].proof
      BY <1>1, <1>2 DEF FollowSafe, DriverInv
<1>5. /\ pkg' \in [Contents -> [DOMAIN NoFiles -> BOOLEAN]]
      /\ \A c \in Contents, f \in DOMAIN NoFiles \ {"torn"} :
             pkg'[c][f] = (pkg[c][f] \/ (c = D /\ f = "complete"))
      BY <1>1, <1>2, WritesOne DEF FollowSafe, ProviderInv, NoFiles
<1>6. \A c \in Contents :
          /\ pkg'[c].claim = pkg[c].claim
          /\ pkg'[c].marker = pkg[c].marker
          /\ pkg'[c].proof = pkg[c].proof
          /\ pkg'[c].complete = (pkg[c].complete \/ c = op.export)
          /\ \A f \in {"claim", "marker", "proof", "complete"} : pkg[c][f] \in BOOLEAN
      BY <1>5, <1>2 DEF FollowSafe, ProviderInv, NoFiles
<1>7. \A d \in Catalogs : d.rows \in Contents
      BY CatalogRows
<1>8. ProcessTypes'
      BY <1>1, <1>2, <1>3, <1>5, <1>6, <1>7, <1>4 DEF FollowSafe,
         ProcessTypes, Places, Operating
<1>9. CohortInv'
      BY <1>1 DEF FollowSafe, CohortInv
<1>10. PlaceInv'
      BY <1>1 DEF FollowSafe, PlaceInv, Operating
<1>11. ExporterInv'
      BY <1>1 DEF FollowSafe, ExporterInv, Found
<1>12. ReceiptInv'
      BY <1>1 DEF FollowSafe, ReceiptInv, Found
<1>13. OperationInv'
      BY <1>1, <1>2, <1>3, <1>5, <1>6, <1>7, <1>4 DEF FollowSafe, OperationInv
<1>14. DriverInv'
      BY <1>1, <1>2, <1>3, <1>5, <1>6, <1>7, <1>4 DEF FollowSafe, DriverInv
<1>15. ProviderInv'
  <2>1. ASSUME NEW c \in Contents
        PROVE  /\ calls[c] = 1 => pkg'[c].marker
               /\ pkg'[c].marker => pkg'[c].claim
               /\ pkg'[c].complete => pkg'[c].proof
               /\ pkg'[c].proof => /\ Catalog(c) \in deployed /\ public # None
                                  /\ Below(c, public.rows)
               /\ calls[c] = 1 /\ ~pkg'[c].complete =>
                      st.cur /\ op.marker /\ op.export = c
        BY <1>2, <1>6, <1>4 DEF FollowSafe, ProviderInv
  <2>2. \A d \in deployed : pkg'[d.rows].marker
        BY <1>6, <1>7 DEF FollowSafe, ProviderInv
  <2> QED BY <1>1, <1>5, <2>1, <2>2 DEF FollowSafe, ProviderInv
<1>16. PublicInv'
      BY <1>1, <1>2, <1>3, <1>5, <1>6, <1>7, <1>4 DEF FollowSafe, PublicInv
<1> QED BY <1>8, <1>9, <1>10, <1>11, <1>12, <1>13, <1>14, <1>15, <1>16 DEF
           FollowSafe

(* The deploy command                                                      *)
LEMMA DeployKeeps ==
    ASSUME FollowSafe, Deploy
    PROVE  FollowSafe'
<1>1. /\ driver.pc = "deploy" /\ driver' = [driver EXCEPT !.pc = "find"]
      /\ flight' = Catalog(D)
      /\ calls' = [calls EXCEPT ![D] = IF @ = 0 THEN 1 ELSE 2]
      /\ UNCHANGED <<cohort, closed, seed, late, me, st, folders, op,
                     exporter, receipts, runs, pkg, deployed, public, kills>>
      BY DEF Deploy, world, export, provider, delivery, At, Goto, Stop, On,
             Then, Returns, Rest, D, Files
<1>2. /\ st.cur /\ op.marker /\ driver.pkg = op.export /\ op.export # None
      /\ op.export \in Contents /\ driver \in Drivers /\ D = op.export
      /\ me # "done"
      BY <1>1
      DEF FollowSafe, ProcessTypes, OperationFiles, Accounts, OperationInv,
          DriverInv, D
<1>3. /\ driver' \in Drivers
      /\ driver'.pc = "find" /\ driver'.pkg = driver.pkg
      BY <1>1, <1>2, DriverFields
<1>4. /\ flight' = Catalog(op.export) /\ flight' \notin deployed
      /\ pkg[op.export].marker /\ calls[op.export] = 0
      BY <1>1, <1>2 DEF FollowSafe, DriverInv
<1>5. /\ calls' \in [Contents -> 0 .. 1]
      /\ \A c \in Contents : calls'[c] = IF c = op.export THEN 1 ELSE calls[c]
      BY <1>1, <1>2, <1>4 DEF FollowSafe, ProviderInv
<1>6. /\ Catalog(op.export) \in Catalogs /\ Catalog(op.export).rows = op.export
      BY <1>2, CatalogRows
<1>7. ProcessTypes'
      BY <1>1, <1>2, <1>3, <1>4, <1>5, <1>6 DEF FollowSafe, ProcessTypes
<1>8. CohortInv'
      BY <1>1 DEF FollowSafe, CohortInv
<1>9. PlaceInv'
      BY <1>1 DEF FollowSafe, PlaceInv, Operating
<1>10. ExporterInv'
      BY <1>1 DEF FollowSafe, ExporterInv, Found
<1>11. ReceiptInv'
      BY <1>1 DEF FollowSafe, ReceiptInv, Found
<1>12. OperationInv'
      BY <1>1 DEF FollowSafe, OperationInv
<1>13. DriverInv'
      BY <1>1, <1>2, <1>3, <1>4, <1>5, <1>6 DEF FollowSafe, DriverInv
<1>14. ProviderInv'
      BY <1>1, <1>2, <1>3, <1>4, <1>5, <1>6 DEF FollowSafe, ProviderInv
<1>15. PublicInv'
      BY <1>1 DEF FollowSafe, PublicInv
<1> QED BY <1>7, <1>8, <1>9, <1>10, <1>11, <1>12, <1>13, <1>14, <1>15 DEF
           FollowSafe

(* A driver that fails                                                     *)
LEMMA NotFoundKeeps ==
    ASSUME FollowSafe, NotFound
    PROVE  FollowSafe'
<1>1. /\ driver.pc \notin {"idle", "end"}
      /\ \/ /\ me = "result"
            /\ driver' = [driver EXCEPT !.pc = "end", !.res = "uncertain"]
         \/ driver' = NoDriver
      /\ UNCHANGED <<cohort, closed, seed, late, me, st, folders, op,
                     exporter, receipts, runs, pkg, flight, deployed, public,
                     calls, kills>>
      BY DEF NotFound, world, export, provider, delivery, At, Goto, Stop, On,
             Then, Returns, Rest, D, Files
<1>2. /\ st.cur /\ op.marker /\ driver.pkg = op.export /\ op.export # None
      /\ op.export \in Contents /\ driver \in Drivers /\ D = op.export
      /\ me # "done"
      BY <1>1
      DEF FollowSafe, ProcessTypes, OperationFiles, Accounts, OperationInv,
          DriverInv, D
<1>3. /\ driver' \in Drivers
      /\ \/ /\ me = "result" /\ driver'.pc = "end" /\ driver'.pkg = driver.pkg
            /\ driver'.res = "uncertain"
         \/ driver'.pc = "idle"
      BY <1>1, <1>2, DriverFields
<1>4. ProcessTypes'
      BY <1>1, <1>2, <1>3 DEF FollowSafe, ProcessTypes, Places, Operating
<1>5. CohortInv'
      BY <1>1 DEF FollowSafe, CohortInv
<1>6. PlaceInv'
      BY <1>1 DEF FollowSafe, PlaceInv, Operating
<1>7. ExporterInv'
      BY <1>1 DEF FollowSafe, ExporterInv, Found
<1>8. ReceiptInv'
      BY <1>1 DEF FollowSafe, ReceiptInv, Found
<1>9. OperationInv'
      BY <1>1 DEF FollowSafe, OperationInv
<1>10. DriverInv'
      BY <1>1, <1>2, <1>3 DEF FollowSafe, DriverInv
<1>11. ProviderInv'
      BY <1>1 DEF FollowSafe, ProviderInv
<1>12. PublicInv'
      BY <1>1 DEF FollowSafe, PublicInv
<1> QED BY <1>4, <1>5, <1>6, <1>7, <1>8, <1>9, <1>10, <1>11, <1>12 DEF
           FollowSafe

(* The provider accepts a deployment.                                      *)
LEMMA AcceptsKeeps ==
    ASSUME FollowSafe, Accepts
    PROVE  FollowSafe'
<1>1. /\ flight # None /\ flight' = None
      /\ deployed' = deployed \cup {flight} /\ public' = flight
      /\ UNCHANGED <<cohort, closed, seed, late, me, st, folders, op,
                     exporter, receipts, runs, pkg, driver, calls, kills>>
      BY DEF Accepts, world, export, provider, delivery, At, Goto, Stop
<1>2. /\ flight \in Catalogs /\ flight = Catalog(op.export) /\ flight.rows = op.export
      /\ op.export \in Contents /\ op.marker /\ st.cur /\ calls[op.export] = 1
      /\ op.export # None
      BY <1>1, CatalogRows DEF FollowSafe, ProviderInv
<1>3. /\ op.obs \in Contents /\ cohort \in Contents
      /\ Below(op.obs, op.export) /\ Below(op.export, cohort)
      /\ Completed(op.export) \subseteq st.exports
      BY <1>2
      DEF FollowSafe, ProcessTypes, OperationFiles, Accounts, PlaceInv,
          CohortInv, ExporterInv, OperationInv, Found
<1>4. public # None => /\ public \in Catalogs /\ public.rows \in Contents
                       /\ Below(public.rows, op.obs) \/ public.rows = op.export
      BY <1>2, CatalogRows DEF FollowSafe, PublicInv
<1>5. public # None => Below(public.rows, op.export)
      BY <1>2, <1>3, <1>4, BelowTwice, BelowSelf
<1>6. \A c \in Contents : public # None /\ Below(c, public.rows) => Below(c, op.export)
      BY <1>2, <1>4, <1>5, BelowTwice
<1>7. me # "decide" /\ st.seeded /\ st.sig \in Accounts
      BY <1>2 DEF FollowSafe, ProcessTypes, FollowerStates, PlaceInv
<1>8. driver.pc = "deploy" => Catalog(driver.pkg) # None
      BY CatalogRows
      DEF FollowSafe, ProcessTypes, OperationFiles, Accounts, OperationInv,
          DriverInv
<1>9. pkg[op.export].marker
      BY <1>2 DEF FollowSafe, ProviderInv
<1>10. ProcessTypes'
      BY <1>1 DEF FollowSafe, ProcessTypes, Places, Operating
<1>11. CohortInv'
      BY <1>1 DEF FollowSafe, CohortInv
<1>12. PlaceInv'
      BY <1>1 DEF FollowSafe, PlaceInv, Operating
<1>13. ExporterInv'
      BY <1>1 DEF FollowSafe, ExporterInv, Found
<1>14. ReceiptInv'
      BY <1>1 DEF FollowSafe, ReceiptInv, Found
<1>15. OperationInv'
      BY <1>1 DEF FollowSafe, OperationInv
<1>16. DriverInv'
  <2>1. driver.pc # "prove"
        BY <1>1, <1>2 DEF FollowSafe, DriverInv, ProviderInv
  <2> QED BY <1>1, <1>8, <2>1 DEF FollowSafe, DriverInv
<1>17. ProviderInv'
      BY <1>1, <1>2, <1>3, <1>6, <1>9 DEF FollowSafe, ProviderInv
<1>18. PublicInv'
      BY <1>1, <1>2, <1>3, <1>4, <1>6, <1>7 DEF FollowSafe, PublicInv,
         Accounts
<1> QED BY <1>10, <1>11, <1>12, <1>13, <1>14, <1>15, <1>16, <1>17, <1>18 DEF
           FollowSafe

(* The provider drops a deployment.                                        *)
LEMMA DropsKeeps ==
    ASSUME FollowSafe, Drops
    PROVE  FollowSafe'
<1>1. /\ flight # None /\ flight' = None
      /\ UNCHANGED <<cohort, closed, seed, late, me, st, folders, op,
                     exporter, receipts, runs, pkg, driver, deployed, public,
                     calls, kills>>
      BY DEF Drops, world, export, provider, delivery, At, Goto, Stop
<1>2. driver.pc = "deploy" => Catalog(driver.pkg) # None
      BY CatalogRows
      DEF FollowSafe, ProcessTypes, OperationFiles, Accounts, OperationInv,
          DriverInv
<1>3. ProcessTypes'
      BY <1>1 DEF FollowSafe, ProcessTypes, Places, Operating
<1>4. CohortInv'
      BY <1>1 DEF FollowSafe, CohortInv
<1>5. PlaceInv'
      BY <1>1 DEF FollowSafe, PlaceInv, Operating
<1>6. ExporterInv'
      BY <1>1 DEF FollowSafe, ExporterInv, Found
<1>7. ReceiptInv'
      BY <1>1 DEF FollowSafe, ReceiptInv, Found
<1>8. OperationInv'
      BY <1>1 DEF FollowSafe, OperationInv
<1>9. DriverInv'
      BY <1>1, <1>2 DEF FollowSafe, DriverInv
<1>10. ProviderInv'
      BY <1>1 DEF FollowSafe, ProviderInv
<1>11. PublicInv'
      BY <1>1 DEF FollowSafe, PublicInv
<1> QED BY <1>3, <1>4, <1>5, <1>6, <1>7, <1>8, <1>9, <1>10, <1>11 DEF
           FollowSafe

(* The cohort goes on.                                                     *)
LEMMA PlaysKeeps ==
    ASSUME FollowSafe, Plays
    PROVE  FollowSafe'
<1>1. /\ ~closed
      /\ UNCHANGED <<closed, seed, late, me, st, folders, op, exporter,
                     receipts, runs, pkg, driver, flight, deployed, public,
                     calls, kills>>
      BY DEF Plays, world, export, provider, delivery, At, Goto, Stop
<1>2. cohort' \in Contents /\ cohort \in Contents /\ Below(cohort, cohort')
      BY PlaysOn DEF FollowSafe, CohortInv
<1>3. \A c \in Contents : Below(c, cohort) => Below(c, cohort')
      BY <1>2, BelowTwice
<1>4. /\ {seed, st.observed, op.obs, op.export, exporter.reply} \subseteq Accounts
      /\ \A a \in Members : receipts[a] \in Accounts
      /\ public # None => public.rows \in Contents
      BY CatalogRows
      DEF FollowSafe, ProcessTypes, FollowerStates, OperationFiles, Exporters,
          ReceiptInv, PublicInv
<1>5. \A a \in Members, s \in Statuses \cup {"unread"} :
          Later(s, cohort[a]) => Later(s, cohort'[a])
      BY <1>2 DEF Below, Later, Contents, Statuses, TERMINAL
<1>6. \A a \in Members : exporter.rows[a] \in Statuses \cup {"unread"}
      BY DEF FollowSafe, ProcessTypes, Exporters
<1>7. ProcessTypes'
      BY <1>1 DEF FollowSafe, ProcessTypes, Places, Operating
<1>8. CohortInv'
      BY <1>1, <1>2, <1>3, <1>4 DEF FollowSafe, CohortInv, Accounts
<1>9. PlaceInv'
      BY <1>1 DEF FollowSafe, PlaceInv, Operating
<1>10. ExporterInv'
      BY <1>1, <1>2, <1>3, <1>4, <1>5, <1>6 DEF FollowSafe, ExporterInv,
         Found, Accounts
<1>11. ReceiptInv'
      BY <1>1, <1>3, <1>4 DEF FollowSafe, ReceiptInv, Found, Accounts
<1>12. OperationInv'
      BY <1>1 DEF FollowSafe, OperationInv
<1>13. DriverInv'
      BY <1>1 DEF FollowSafe, DriverInv
<1>14. ProviderInv'
      BY <1>1 DEF FollowSafe, ProviderInv
<1>15. PublicInv'
      BY <1>1, <1>3, <1>4 DEF FollowSafe, PublicInv
<1> QED BY <1>7, <1>8, <1>9, <1>10, <1>11, <1>12, <1>13, <1>14, <1>15 DEF
           FollowSafe

(* The coordinator closes the cohort.                                      *)
LEMMA ClosesKeeps ==
    ASSUME FollowSafe, Closes
    PROVE  FollowSafe'
<1>1. /\ closed' = TRUE /\ \A a \in Members : cohort[a] \in TERMINAL
      /\ UNCHANGED <<cohort, seed, late, me, st, folders, op, exporter,
                     receipts, runs, pkg, driver, flight, deployed, public,
                     calls, kills>>
      BY DEF Closes, world, export, provider, delivery, At, Goto, Stop
<1>2. ProcessTypes'
      BY <1>1 DEF FollowSafe, ProcessTypes, Places, Operating
<1>3. CohortInv'
      BY <1>1 DEF FollowSafe, CohortInv
<1>4. PlaceInv'
      BY <1>1 DEF FollowSafe, PlaceInv, Operating
<1>5. ExporterInv'
      BY <1>1 DEF FollowSafe, ExporterInv, Found
<1>6. ReceiptInv'
      BY <1>1 DEF FollowSafe, ReceiptInv, Found
<1>7. OperationInv'
      BY <1>1 DEF FollowSafe, OperationInv
<1>8. DriverInv'
      BY <1>1 DEF FollowSafe, DriverInv
<1>9. ProviderInv'
      BY <1>1 DEF FollowSafe, ProviderInv
<1>10. PublicInv'
      BY <1>1 DEF FollowSafe, PublicInv
<1> QED BY <1>2, <1>3, <1>4, <1>5, <1>6, <1>7, <1>8, <1>9, <1>10 DEF
           FollowSafe

(* The deadline passes.                                                    *)
LEMMA TimePassesKeeps ==
    ASSUME FollowSafe, TimePasses
    PROVE  FollowSafe'
<1>1. /\ late' = TRUE
      /\ UNCHANGED <<cohort, closed, seed, me, st, folders, op, exporter,
                     receipts, runs, pkg, driver, flight, deployed, public,
                     calls, kills>>
      BY DEF TimePasses, world, export, provider, delivery, At, Goto, Stop
<1>2. ProcessTypes'
      BY <1>1 DEF FollowSafe, ProcessTypes, Places, Operating
<1>3. CohortInv'
      BY <1>1 DEF FollowSafe, CohortInv
<1>4. PlaceInv'
      BY <1>1 DEF FollowSafe, PlaceInv, Operating
<1>5. ExporterInv'
      BY <1>1 DEF FollowSafe, ExporterInv, Found
<1>6. ReceiptInv'
      BY <1>1 DEF FollowSafe, ReceiptInv, Found
<1>7. OperationInv'
      BY <1>1 DEF FollowSafe, OperationInv
<1>8. DriverInv'
      BY <1>1 DEF FollowSafe, DriverInv
<1>9. ProviderInv'
      BY <1>1 DEF FollowSafe, ProviderInv
<1>10. PublicInv'
      BY <1>1 DEF FollowSafe, PublicInv
<1> QED BY <1>2, <1>3, <1>4, <1>5, <1>6, <1>7, <1>8, <1>9, <1>10 DEF
           FollowSafe

-----------------------------------------------------------------------------
(* The account a follower starts with is one of the cohort.                *)
LEMMA SeedsAreAccounts ==
    ASSUME NEW s \in {[a \in Members |-> "pending"]} \cup Seeds
    PROVE  s \in Contents
BY FollowAssumption DEF Contents, Statuses, TERMINAL

(* The invariant holds at first, ...                                       *)
LEMMA FollowStarts == ASSUME FollowInit PROVE FollowSafe
<1>1. PICK s \in {[a \in Members |-> "pending"]} \cup Seeds :
          /\ cohort = s
          /\ seed = IF Completed(s) = {} THEN None ELSE s
          /\ pkg = [c \in Contents |-> IF c = seed
                       THEN [f \in DOMAIN NoFiles |-> f # "torn"] ELSE NoFiles]
          /\ public = IF seed = None THEN None ELSE Catalog(seed)
          /\ deployed = {public} \ {None}
      BY DEF FollowInit
<1>2. /\ cohort \in Contents /\ seed \in {None, cohort} /\ Below(cohort, cohort)
      /\ cohort # None
      BY <1>1, SeedsAreAccounts, BelowSelf, CatalogRows
<1>3. /\ closed = FALSE /\ late = FALSE /\ me = "none" /\ st = NoState
      /\ folders = 0 /\ op = NoOp /\ exporter = NoExport /\ runs = 0
      /\ receipts = [a \in Members |-> None] /\ driver = NoDriver
      /\ flight = None /\ calls = [c \in Contents |-> 0] /\ kills = 0
      BY DEF FollowInit
<1>4. /\ st \in FollowerStates /\ st.made = "no" /\ st.status = "watching"
      /\ st.observed = None /\ st.term = FALSE /\ st.exports = {}
      /\ st.sig = None /\ st.ops = 0 /\ st.cur = FALSE /\ st.seeded = FALSE
      BY <1>3, FollowAssumption DEF FollowerStates, NoState, Accounts
<1>5. /\ op \in OperationFiles /\ op.obs = None /\ op.started = FALSE
      /\ op.export = None /\ op.marker = FALSE /\ op.done = FALSE
      BY <1>3 DEF OperationFiles, NoOp, Accounts
<1>6. /\ exporter \in Exporters /\ exporter.st = "idle"
      /\ driver \in Drivers /\ driver.pc = "idle"
      BY <1>3 DEF Exporters, NoExport, Unread, Drivers, NoDriver, Accounts
<1>7. public # None => public = Catalog(seed) /\ seed \in Contents
      BY <1>1, <1>2
<1>8. /\ pkg \in [Contents -> [DOMAIN NoFiles -> BOOLEAN]]
      /\ \A c \in Contents : /\ c = seed => /\ pkg[c].claim /\ pkg[c].marker
                                            /\ pkg[c].proof /\ pkg[c].complete
                             /\ c # seed => /\ ~pkg[c].marker /\ ~pkg[c].proof
                                            /\ ~pkg[c].complete
  <2>1. /\ NoFiles \in [DOMAIN NoFiles -> BOOLEAN]
        /\ [f \in DOMAIN NoFiles |-> f # "torn"] \in [DOMAIN NoFiles -> BOOLEAN]
    <3>1. NoFiles = [f \in DOMAIN NoFiles |-> NoFiles[f]]
          BY DEF NoFiles
    <3>2. DOMAIN NoFiles = {"claim", "marker", "proof", "complete", "torn"}
          BY DEF NoFiles
    <3>3. /\ ~NoFiles.claim /\ ~NoFiles.marker /\ ~NoFiles.proof /\ ~NoFiles.complete
          /\ ~NoFiles.torn
          BY DEF NoFiles
    <3>4. ASSUME NEW f \in DOMAIN NoFiles PROVE NoFiles[f] = FALSE
          BY <3>2, <3>3 DEF NoFiles
    <3> QED BY <3>1, <3>4
  <2>a. /\ "claim" \in DOMAIN NoFiles /\ "marker" \in DOMAIN NoFiles
        /\ "proof" \in DOMAIN NoFiles /\ "complete" \in DOMAIN NoFiles
        BY DEF NoFiles
  <2>2. \A c \in Contents : pkg[c] = IF c = seed
                            THEN [f \in DOMAIN NoFiles |-> f # "torn"] ELSE NoFiles
        BY <1>1
  <2>3. pkg \in [Contents -> [DOMAIN NoFiles -> BOOLEAN]]
        BY <1>1, <2>1
  <2>4. ~NoFiles.marker /\ ~NoFiles.proof /\ ~NoFiles.complete
        BY DEF NoFiles
  <2> QED BY <2>a, <2>2, <2>3, <2>4
<1>9. ProcessTypes
  <2>1. kills \in 0 .. MaxKills
        BY <1>3, FollowAssumption
  <2>2. seed \in Accounts /\ late \in BOOLEAN /\ me \in Places
        BY <1>2, <1>3 DEF Places, Operating, Accounts
  <2> QED BY <1>4, <1>5, <1>6, <2>1, <2>2 DEF ProcessTypes
<1>10. CohortInv
      BY <1>2, <1>3, <1>4 DEF CohortInv
<1>11. PlaceInv
      BY <1>3, <1>4, <1>5 DEF PlaceInv, Operating
<1>12. ExporterInv
      BY <1>3, <1>5, <1>6 DEF ExporterInv
<1>13. ReceiptInv
      BY <1>3, <1>4 DEF ReceiptInv, Accounts
<1>14. OperationInv
      BY <1>3, <1>5 DEF OperationInv
<1>15. DriverInv
      BY <1>3, <1>6 DEF DriverInv
<1>16. deployed = IF seed = None THEN {} ELSE {Catalog(seed)}
      BY <1>1, <1>2, CatalogRows
<1>17. ProviderInv
  <2>1. deployed \subseteq Catalogs /\ \A d \in deployed : pkg[d.rows].marker
        BY <1>2, <1>8, <1>16, CatalogRows
  <2>2. calls \in [Contents -> 0 .. 1] /\ \A c \in Contents : calls[c] = 0
        BY <1>3
  <2>3. ASSUME NEW c \in Contents
        PROVE  /\ pkg[c].marker => pkg[c].claim
               /\ pkg[c].complete => pkg[c].proof
               /\ pkg[c].proof => /\ Catalog(c) \in deployed /\ public # None
                                 /\ Below(c, public.rows)
        BY <1>1, <1>2, <1>8, <1>16, CatalogRows
  <2> QED BY <1>3, <1>8, <2>1, <2>2, <2>3 DEF ProviderInv
<1>18. PublicInv
      BY <1>1, <1>2, <1>3, <1>4, <1>7, CatalogRows DEF PublicInv
<1> QED BY <1>9, <1>10, <1>11, <1>12, <1>13, <1>14, <1>15, <1>17, <1>18 DEF FollowSafe

(* ... every step of the follower keeps it, ...                            *)
LEMMA FollowerKeeps == ASSUME FollowSafe, Follower PROVE FollowSafe'
<1>1. CASE BeginExport
  <2>1. At("decide") /\ \E a \in Unexported : Begins(a, FALSE)
        BY <1>1 DEF BeginExport
  <2>2. PICK a \in Unexported : Begins(a, FALSE)
        BY <2>1
  <2>3. a \in Members /\ st.observed[a] = "completed" /\ a \notin st.exports
        BY DEF Unexported, Completed
  <2> QED BY <2>1, <2>2, <2>3, BeginsKeeps
<1>2. CASE BeginSnapshot
  <2>1. At("decide") /\ \E a \in Completed(st.observed) : Begins(a, TRUE)
        BY <1>2 DEF BeginSnapshot
  <2>2. PICK a \in Completed(st.observed) : Begins(a, TRUE)
        BY <2>1
  <2>3. a \in Members /\ st.observed[a] = "completed"
        BY DEF Completed
  <2> QED BY <2>1, <2>2, <2>3, BeginsKeeps
<1>3. CASE MakeIntent \/ MakeState \/ Load \/ ImportSeed \/ Seeded
      BY <1>3, MakeIntentKeeps, MakeStateKeeps, LoadKeeps, ImportSeedKeeps, SeededKeeps
<1>4. CASE Recheck \/ DeadlinePassed \/ ResumeOperation \/ Observe
      BY <1>4, RecheckKeeps, DeadlineKeeps, ResumeOperationKeeps, ObserveKeeps
<1>5. CASE Begun \/ Blocks \/ Finish \/ Wait
      BY <1>5, BegunKeeps, BlocksKeeps, FinishKeeps, WaitKeeps
<1>6. CASE StartExport \/ CallExporter \/ Exported \/ ResumeExport
      BY <1>6, StartExportKeeps, CallExporterKeeps, ExportedKeeps, ResumeExportKeeps
<1>7. CASE Keep \/ Defer \/ Compose \/ CallDriver \/ Published \/ Done
      BY <1>7, KeepKeeps, DeferKeeps, ComposeKeeps, CallDriverKeeps, PublishedKeeps,
         DoneKeeps
<1> QED BY <1>1, <1>2, <1>3, <1>4, <1>5, <1>6, <1>7 DEF Follower

(* ... and so does every other.                                            *)
LEMMA FollowKeeps == ASSUME FollowSafe, [FollowNext]_followVars PROVE FollowSafe'
<1>1. CASE Follower
      BY <1>1, FollowerKeeps
<1>2. CASE ObserveFails \/ ExportLost \/ PublishUncertain \/ Kill
      BY <1>2, ObserveFailsKeeps, ExportLostKeeps, PublishUncertainKeeps, KillKeeps
<1>3. CASE Project \/ Exports \/ ExportFails
      BY <1>3, ProjectKeeps, ExportsKeeps, ExportFailsKeeps
<1>4. CASE Driver
      BY <1>4, CheckKeeps, ClaimKeeps, SubmitMarkerKeeps, DeployKeeps, FindKeeps,
         ProveKeeps, RecordKeeps, CompleteKeeps DEF Driver
<1>5. CASE NotFound
      BY <1>5, NotFoundKeeps
<1>6. CASE Environment
      BY <1>6, AcceptsKeeps, DropsKeeps, PlaysKeeps, ClosesKeeps, TimePassesKeeps
      DEF Environment
<1>7. CASE UNCHANGED followVars
  <2>1. UNCHANGED <<cohort, closed, seed, late, me, st, folders, op, exporter,
                    receipts, runs, pkg, driver, flight, deployed, public,
                    calls, kills>>
        BY <1>7 DEF followVars, world, export, provider, delivery
  <2> QED BY <2>1 DEF FollowSafe, ProcessTypes, CohortInv, PlaceInv, ExporterInv,
                      ReceiptInv, Found, OperationInv, DriverInv, ProviderInv, PublicInv
<1> QED BY <1>1, <1>2, <1>3, <1>4, <1>5, <1>6, <1>7 DEF FollowNext

(* What the files and the status of a follower say is so.                  *)
LEMMA SafeFollows == ASSUME FollowSafe PROVE FollowInv
<1>1. FollowTypes
  <2>1. /\ seed \in Accounts /\ op.export \in Accounts /\ op.obs \in Accounts
        /\ exporter.reply \in Accounts /\ st.observed \in Accounts
        /\ st.sig \in Accounts /\ driver.pkg \in Accounts
        BY DEF FollowSafe, ProcessTypes, OperationFiles, Exporters, FollowerStates, Drivers
  <2>2. /\ st.made \in {"no", "intent", "yes"} /\ st.exports \subseteq Members
        /\ st.status \in {"watching", "working", "blocked", "uncertain", "unfinished",
                          "complete"}
        /\ st.ops \in 0 .. MaxOps /\ st.polls \in 0 .. MaxPolls
        BY DEF FollowSafe, ProcessTypes, FollowerStates
  <2>3. cohort \in Contents /\ closed \in BOOLEAN /\ late \in BOOLEAN
        BY DEF FollowSafe, ProcessTypes, CohortInv
  <2>4. /\ public \in Catalogs \cup {None} /\ flight \in Catalogs \cup {None}
        /\ pkg \in [Contents -> [DOMAIN NoFiles -> BOOLEAN]]
        /\ deployed \subseteq Catalogs /\ calls \in [Contents -> 0 .. 1]
        BY DEF FollowSafe, ProviderInv, PublicInv
  <2>5. calls \in [Contents -> 0 .. 2]
        BY <2>4
  <2>6. /\ folders \in st.ops .. st.ops + 1 /\ runs \in 0 .. 2
        /\ receipts \in [Members -> Contents \cup {None}] /\ kills \in 0 .. MaxKills
        BY DEF FollowSafe, ProcessTypes, PlaceInv, ExporterInv, ReceiptInv, Accounts
  <2> QED BY <2>1, <2>2, <2>3, <2>4, <2>5, <2>6 DEF FollowTypes, Accounts
<1>2. InOrder
  <2>1. ASSUME NEW c \in Contents
        PROVE  /\ calls[c] > 0 => pkg[c].marker
               /\ pkg[c].marker => pkg[c].claim
               /\ pkg[c].complete => pkg[c].proof
               /\ pkg[c].proof => Catalog(c) \in deployed
        BY DEF FollowSafe, ProviderInv
  <2>2. ASSUME NEW d \in (deployed \cup {flight}) \ {None}
        PROVE  pkg[d.rows].marker
        BY CatalogRows DEF FollowSafe, ProviderInv
  <2>3. /\ op.done => op.marker /\ pkg[op.export].complete
        /\ op.marker => op.export # None
        /\ op.export # None => op.started
        BY DEF FollowSafe, OperationInv, ExporterInv
  <2> QED BY <2>1, <2>2, <2>3 DEF InOrder
<1>3. BackedUpFirst
      BY DEF FollowSafe, PublicInv, BackedUpFirst
<1>4. CompleteIsPublic
  <2> SUFFICES ASSUME st.status = "complete"
               PROVE  closed /\ cohort = st.observed /\ public # None /\ public.rows = cohort
      BY DEF CompleteIsPublic
  <2>1. /\ st.term /\ st.sig = Signature(st.observed) /\ closed /\ st.observed = cohort
        /\ cohort \in Contents /\ \A a \in Members : cohort[a] \in TERMINAL
        BY DEF FollowSafe, PlaceInv, CohortInv
  <2>2. st.sig = cohort /\ cohort # None
        BY <2>1, SignatureWhole, CatalogRows
  <2>3. /\ public # None /\ public.rows \in Contents
        /\ Below(cohort, public.rows) /\ Below(public.rows, cohort)
        BY <2>2, CatalogRows DEF FollowSafe, PublicInv
  <2> QED BY <2>1, <2>3, BelowBoth
<1> QED BY <1>1, <1>2, <1>3, <1>4 DEF FollowInv

(* A publication costs one export and one deployment.                      *)
LEMMA SafeOnce == ASSUME FollowSafe PROVE PublishedOnce
<1>1. DeployedOnce
      BY DEF FollowSafe, ProviderInv, DeployedOnce
<1>2. runs <= 1
      BY DEF FollowSafe, ExporterInv
<1>3. ASSUME op.export # None
      PROVE  op.export[op.anchor] = "completed" /\ Shows(op.export, op.obs)
  <2>1. /\ op.export \in Contents /\ op.obs \in Contents /\ op.anchor \in Members
        /\ Below(op.obs, op.export) /\ op.obs[op.anchor] = "completed"
        BY <1>3 DEF FollowSafe, ProcessTypes, OperationFiles, Accounts, ExporterInv, Found
  <2>2. Shows(op.export, op.obs) /\ Completed(op.obs) \subseteq Completed(op.export)
        BY <2>1, BelowShows
  <2> QED BY <2>1, <2>2 DEF Completed
<1> QED BY <1>1, <1>2, <1>3 DEF PublishedOnce, ExportedOnce

(* The invariant of the follower, its exporter and its driver              *)
LEMMA FollowAlways == FollowSpec => []FollowSafe
<1>1. FollowInit => FollowSafe
      BY FollowStarts
<1>2. FollowSafe /\ [FollowNext]_followVars => FollowSafe'
      BY FollowKeeps
<1> QED BY <1>1, <1>2, PTL DEF FollowSpec

(* What is said of a publication, by its files, its receipts and the       *)
(* follower's status, is so: nothing is sent before its marker, nothing    *)
(* public that is not backed up, and complete means that the last outcome  *)
(* of every attempt is what the public sees.                               *)
THEOREM FollowerHonest == FollowSpec => []FollowInv
<1>1. FollowSafe => FollowInv
      BY SafeFollows
<1> QED BY <1>1, FollowAlways, PTL

(* However often the follower is killed, times out or is invoked again, a  *)
(* package is sent once, and an operation runs the exporter once.          *)
THEOREM FollowerOnce == FollowSpec => []PublishedOnce
<1>1. FollowSafe => PublishedOnce
      BY SafeOnce
<1> QED BY <1>1, FollowAlways, PTL

=============================================================================
