------------------------- MODULE OperationGateProofs -------------------------
(***************************************************************************)
(* The operations gate, for any number of commands and operations and any  *)
(* registry size: GateInv is inductive, the safety properties follow from  *)
(* it, and the gate implements OperationRegistry.                          *)
(***************************************************************************)
EXTENDS OperationGate, FiniteSetTheorems, TLAPS

(* A step that leaves the registry alone leaves what is read from it.      *)
LEMMA SameClaims ==
    ASSUME folder' = folder
    PROVE  /\ Claims' = Claims
           /\ (SizeInv /\ OneUnfinished) => (SizeInv' /\ OneUnfinished')
BY DEF Claims, Completed, SizeInv, OneUnfinished

(* The initial registry is empty. *)
LEMMA GateInit == Init => GateInv
<1> SUFFICES ASSUME Init PROVE GateInv
    OBVIOUS
<1> USE DEF Init
<1>1. TypeOK
    BY DEF TypeOK, Shapes, Names, Works, Receipts, PCs, Files, Modes
<1>2. LeaseInv /\ HolderInv
    BY DEF LeaseInv, HolderInv, Inside
<1>3. Claims = {}
    BY DEF Claims
<1>4. OneUnfinished /\ CompletedSettled
    BY <1>3 DEF OneUnfinished, CompletedSettled
<1>5. SizeInv
    BY <1>3, FS_EmptySet, GateAssumption DEF SizeInv
<1>6. QED
    BY <1>1, <1>2, <1>4, <1>5 DEF GateInv

(* Starting, taking the lock, giving up and reading the registry change    *)
(* nothing on disk.                                                        *)
LEMMA QuietStep ==
    ASSUME NEW p \in Procs, GateInv,
           Start(p) \/ TakeLease(p) \/ Busy(p) \/ Check(p) \/ Begin(p)
             \/ Reconcile(p) \/ Refuse(p) \/ Exit(p) \/ Crash(p)
    PROVE  GateInv'
<1> USE DEF GateInv, TypeOK, Goto
<1> DEFINE o == req[p].op
<1>1. folder' = folder /\ receipts' = receipts /\ work' = work /\ file' = file
    BY DEF Start, TakeLease, Busy, Check, Begin, Reconcile, Refuse, Exit, Crash
<1>2. TypeOK'
    BY <1>1 DEF Start, TakeLease, Busy, Check, Begin, Reconcile, Refuse, Exit,
                Crash, Leave, PCs, Modes
<1>3. SizeInv' /\ OneUnfinished' /\ CompletedSettled'
    BY <1>1, SameClaims DEF CompletedSettled
<1>4. LeaseInv'
  <2>1. CASE Start(p) \/ Busy(p)
    BY <2>1 DEF Start, Busy, LeaseInv, Inside, PCs
  <2>2. CASE TakeLease(p)
    BY <2>2 DEF TakeLease, LeaseInv, Inside, PCs
  <2>3. CASE Check(p) \/ Begin(p) \/ Reconcile(p)
    BY <2>3 DEF Check, Begin, Reconcile, LeaseInv, Inside, PCs
  <2>4. CASE Refuse(p) \/ Exit(p) \/ Crash(p)
    BY <2>4 DEF Refuse, Exit, Crash, Leave, LeaseInv, Inside, PCs
  <2>5. QED
    BY <2>1, <2>2, <2>3, <2>4
<1>5. HolderInv'
  <2> USE <1>1, SameClaims
      DEF HolderInv, LeaseInv, Inside, Completed, Pending, OthersCompleted
  <2>1. CASE Start(p) \/ Busy(p)
    BY <2>1 DEF Start, Busy, Creating, WorkingPCs
  <2>2. CASE TakeLease(p)
    BY <2>2 DEF TakeLease, Creating, WorkingPCs
  <2>3. CASE Check(p)
    BY <2>3 DEF Check, Creating, WorkingPCs
  <2>4. CASE Begin(p)
    BY <2>4 DEF Begin, MayBegin, Creating, WorkingPCs
  <2>5. CASE Reconcile(p)
    BY <2>5 DEF Reconcile, MayReconcile, Creating, WorkingPCs
  <2>6. CASE Refuse(p) \/ Exit(p) \/ Crash(p)
    BY <2>6 DEF Refuse, Exit, Crash, Leave
  <2>7. QED
    BY <2>1, <2>2, <2>3, <2>4, <2>5, <2>6
<1>6. QED
    BY <1>2, <1>3, <1>4, <1>5

(* Publishing: one folder changes, every other one is completed.           *)
LEMMA FolderStep ==
    ASSUME NEW o \in Ops, NEW names, folder \in [Ops -> Shapes],
           folder' = [folder EXCEPT ![o] = names],
           names # {}, OthersCompleted(o)
    PROVE  /\ Claims' = Claims \cup {o}
           /\ OneUnfinished'
           /\ (SizeInv /\ o \in Claims) => SizeInv'
<1>1. Claims' = Claims \cup {o}
    BY DEF Claims
<1>2. OneUnfinished'
    BY <1>1 DEF OneUnfinished, OthersCompleted, Completed, Claims
<1>3. ASSUME SizeInv, o \in Claims PROVE SizeInv'
  <2>1. Claims' = Claims
    BY <1>1, <1>3
  <2>2. QED
    BY <2>1, <1>3 DEF SizeInv
<1>4. QED
    BY <1>1, <1>2, <1>3

LEMMA MakeFolderStep ==
    ASSUME NEW p \in Procs, GateInv, MakeFolder(p)
    PROVE  GateInv'
<1> USE DEF GateInv, TypeOK, Goto
<1> DEFINE o == req[p].op
<1>1. p \in gateFds /\ o \in Ops
    BY DEF MakeFolder, LeaseInv, Inside
<1>2. /\ \A other \in Claims : Completed(other)
      /\ o \notin Claims
      /\ Cardinality(Claims) < MaxClaims
    BY <1>1 DEF MakeFolder, HolderInv
<1>3. OthersCompleted(o)
    BY <1>2 DEF OthersCompleted
<1>4. Claims' = Claims \cup {o} /\ OneUnfinished'
    BY <1>1, <1>3, FolderStep DEF MakeFolder
<1>5. SizeInv'
  <2>1. IsFiniteSet(Claims) /\ Cardinality(Claims) \in Nat
    BY FS_CardinalityType DEF SizeInv
  <2>2. IsFiniteSet(Claims \cup {o})
        /\ Cardinality(Claims \cup {o}) = Cardinality(Claims) + 1
    BY <1>2, <2>1, FS_AddElement
  <2>3. QED
    BY <1>2, <1>4, <2>1, <2>2, GateAssumption DEF SizeInv
<1>6. TypeOK'
    BY <1>1 DEF MakeFolder, Shapes, Names, PCs, Creating, Files
<1>7. LeaseInv' /\ CompletedSettled'
    BY <1>1 DEF MakeFolder, LeaseInv, Inside, CompletedSettled, PCs
<1>8. HolderInv'
  <2>1. \A other \in Claims' \ {o} : folder'[other] = {"dir", "claim", "terminal"}
    BY <1>1, <1>2, <1>4 DEF MakeFolder, Completed, Claims
  <2>2. folder'[o] = {"dir"} /\ gateFds' = {p} /\ pc'[p] = "temp" /\ file'[p] = "claim"
        /\ req' = req
    BY <1>1 DEF MakeFolder, LeaseInv
  <2>3. QED
    BY <2>1, <2>2 DEF HolderInv, OthersCompleted, Completed, Creating, WorkingPCs, FolderAt
<1>9. QED
    BY <1>4, <1>5, <1>6, <1>7, <1>8

(* The four steps of create_json, for either file.                         *)
LEMMA CreateStep ==
    ASSUME NEW p \in Procs, GateInv,
           CreateTemp(p) \/ CreateLink(p) \/ CreateUnlink(p) \/ CreateSync(p)
    PROVE  GateInv'
<1> USE DEF GateInv, TypeOK, Goto
<1> DEFINE o == req[p].op
<1>1. /\ p \in gateFds /\ o \in Ops /\ pc[p] \in Creating
      /\ gateFds' = gateFds /\ receipts' = receipts /\ work' = work
      /\ file' = file /\ req' = req
    BY DEF CreateTemp, CreateLink, CreateUnlink, CreateSync, LeaseInv, Inside, Creating
<1>2. gateFds = {p}
    BY <1>1 DEF LeaseInv
<1>3. /\ folder[o] = FolderAt(pc[p], file[p])
      /\ OthersCompleted(o)
      /\ file[p] = "terminal" => work[o] = "settled" /\ receipts[o] = "whole"
    BY <1>1 DEF HolderInv
<1>4. /\ CreateTemp(p) => pc'[p] = "link"
      /\ CreateLink(p) => pc'[p] = "unlink"
      /\ CreateUnlink(p) => pc'[p] = "sync"
      /\ CreateSync(p) => pc'[p] = IF file[p] = "claim" THEN "active" ELSE "done"
    BY DEF CreateTemp, CreateLink, CreateUnlink, CreateSync
<1>5. PICK names \in Shapes :
          /\ names # {}
          /\ folder' = [folder EXCEPT ![o] = names]
          /\ pc'[p] \in Creating => names = FolderAt(pc'[p], file[p])
          /\ pc'[p] = "active" => names = {"dir", "claim"}
          /\ "terminal" \in names => file[p] = "terminal"
  <2>1. CASE CreateTemp(p)
    <3>1. folder[o] \cup {"writing"} = FolderAt("link", file[p])
      BY <1>1, <1>3, <2>1 DEF CreateTemp, FolderAt, Files
    <3>2. QED
      BY <1>1, <1>3, <1>4, <2>1, <3>1 DEF CreateTemp, FolderAt, Shapes, Names, Files, Creating
  <2>2. CASE CreateLink(p)
    <3>1. folder[o] \cup {file[p]} = FolderAt("unlink", file[p])
      BY <1>1, <1>3, <2>2 DEF CreateLink, FolderAt, Files
    <3>2. QED
      BY <1>1, <1>3, <1>4, <2>2, <3>1, ZenonT(40) DEF CreateLink, FolderAt, Shapes, Names, Files, Creating
  <2>3. CASE CreateUnlink(p)
    <3>1. folder[o] \ {"writing"} = FolderAt("sync", file[p])
      BY <1>1, <1>3, <2>3 DEF CreateUnlink, FolderAt, Files
    <3>2. QED
      BY <1>1, <1>3, <1>4, <2>3, <3>1 DEF CreateUnlink, FolderAt, Shapes, Names, Files, Creating
  <2>4. CASE CreateSync(p)
    <3>1. folder' = [folder EXCEPT ![o] = folder[o]]
      BY <1>1, <2>4 DEF CreateSync
    <3>2. folder[o] \in Shapes /\ folder[o] = FolderAt("sync", file[p])
      BY <1>1, <1>3, <2>4 DEF CreateSync
    <3>3. QED
      BY <1>1, <1>4, <2>4, <3>1, <3>2 DEF FolderAt, Files, Creating
  <2>5. QED
    BY <2>1, <2>2, <2>3, <2>4
<1>6. o \in Claims
  <2>1. "dir" \in folder[o]
    BY <1>1, <1>3 DEF FolderAt, Creating, Files
  <2>2. QED
    BY <1>1, <2>1 DEF Claims
<1>7. Claims' = Claims /\ OneUnfinished' /\ SizeInv'
  <2>1. o \in Ops /\ folder \in [Ops -> Shapes] /\ OthersCompleted(o) /\ SizeInv
    BY <1>1, <1>3
  <2>2. folder' = [folder EXCEPT ![o] = names] /\ names # {}
    BY <1>5
  <2> HIDE DEF o, GateInv, TypeOK
  <2>3. Claims' = Claims \cup {o} /\ OneUnfinished' /\ SizeInv'
    BY <2>1, <2>2, <1>6, FolderStep
  <2>4. QED
    BY <2>3, <1>6
<1>8. TypeOK'
    BY <1>1, <1>5 DEF CreateTemp, CreateLink, CreateUnlink, CreateSync, PCs, Creating
<1>9. LeaseInv'
    BY <1>1 DEF CreateTemp, CreateLink, CreateUnlink, CreateSync, LeaseInv, Inside, Creating
<1>10. CompletedSettled'
    BY <1>1, <1>3, <1>5 DEF CompletedSettled
<1>11. HolderInv'
  <2>1. folder'[o] = names /\ OthersCompleted(o)'
    BY <1>1, <1>3, <1>5, <1>7 DEF OthersCompleted, Completed, Claims
  <2>2. pc'[p] \in Creating \cup {"active", "done"}
    BY <1>4 DEF Creating
  <2>3. pc'[p] \in Creating => folder'[o] = FolderAt(pc'[p], file'[p])
    BY <1>1, <1>5, <2>1
  <2>4. pc'[p] \in WorkingPCs => Pending(o)'
    BY <1>1, <1>5, <2>1, <2>2 DEF Pending, Creating, WorkingPCs
  <2>5. pc'[p] \notin {"mkdir", "receipt", "complete"}
    BY <2>2 DEF Creating
  <2>6. QED
    BY <1>1, <1>2, <1>3, <2>1, <2>3, <2>4, <2>5 DEF HolderInv
<1>12. QED
    BY <1>7, <1>8, <1>9, <1>10, <1>11

(* The claimed work, its receipt and the decision to complete it.          *)
LEMMA WorkStep ==
    ASSUME NEW p \in Procs, GateInv,
           Work(p) \/ Finish(p) \/ FinishReceipt(p) \/ Complete(p)
    PROVE  GateInv'
<1> USE DEF GateInv, TypeOK, Goto
<1> DEFINE o == req[p].op
<1>1. /\ p \in gateFds /\ o \in Ops /\ pc[p] \in WorkingPCs
      /\ gateFds' = gateFds /\ folder' = folder /\ req' = req
    BY DEF Work, Finish, FinishReceipt, Complete, LeaseInv, Inside, WorkingPCs
<1>2. gateFds = {p} /\ Pending(o) /\ OthersCompleted(o)
    BY <1>1 DEF LeaseInv, HolderInv
<1>3. SizeInv' /\ OneUnfinished'
    BY <1>1, SameClaims
<1>4. TypeOK' /\ LeaseInv'
    BY <1>1 DEF Work, Finish, FinishReceipt, Complete, LeaseInv, Inside, PCs,
                Creating, Works, Receipts, Files
<1>5. CompletedSettled'
  <2>1. "terminal" \notin folder[o]
    BY <1>2 DEF Pending
  <2>2. \A other \in Ops : other # o =>
            work'[other] = work[other] /\ receipts'[other] = receipts[other]
    BY <1>1 DEF Work, Finish, FinishReceipt, Complete
  <2>3. QED
    BY <1>1, <2>1, <2>2 DEF CompletedSettled
<1>6. HolderInv'
  <2> USE <1>1, <1>2
      DEF HolderInv, Pending, OthersCompleted, Completed, Claims, Creating, WorkingPCs
  <2>1. CASE Work(p)
    BY <2>1 DEF Work
  <2>2. CASE Finish(p)
    BY <2>2 DEF Finish
  <2>3. CASE FinishReceipt(p)
    BY <2>3, ZenonT(40) DEF FinishReceipt
  <2>4. CASE Complete(p)
    BY <2>4 DEF Complete, FolderAt
  <2>5. QED
    BY <2>1, <2>2, <2>3, <2>4
<1>7. QED
    BY <1>3, <1>4, <1>5, <1>6

(* An exception: at most the temporary name of the failing command goes.   *)
LEMMA FailStep ==
    ASSUME NEW p \in Procs, GateInv, Fail(p)
    PROVE  GateInv'
<1> USE DEF GateInv, TypeOK, Leave
<1> DEFINE o == req[p].op
           names == IF pc[p] \in Creating THEN folder[o] \ {"writing"} ELSE folder[o]
<1>1. p \in gateFds /\ o \in Ops
    BY DEF Fail, LeaseInv
<1>2. gateFds = {p} /\ gateFds' = {}
    BY <1>1 DEF LeaseInv, Fail
<1>3. folder' = [folder EXCEPT ![o] = names]
    BY <1>1 DEF Fail
<1>4. names \in Shapes /\ ("terminal" \in names <=> "terminal" \in folder[o])
    BY <1>1 DEF Shapes, Names
<1>5. SizeInv' /\ OneUnfinished'
  <2>1. CASE pc[p] \in Creating
    <3>1. folder[o] = FolderAt(pc[p], file[p]) /\ OthersCompleted(o)
      BY <1>1, <2>1 DEF HolderInv
    <3>2. "dir" \in names
      BY <1>1, <2>1, <3>1 DEF FolderAt, Creating, Files
    <3>3. o \in Claims
      BY <1>1, <2>1, <3>2 DEF Claims
    <3>4. folder \in [Ops -> Shapes] /\ SizeInv /\ names # {}
      BY <3>2
    <3> HIDE DEF o, names, GateInv, TypeOK
    <3>5. QED
      BY <1>1, <1>3, <3>1, <3>3, <3>4, FolderStep
  <2>2. CASE pc[p] \notin Creating
    <3>1. folder' = folder
      BY <1>1, <1>3, <2>2
    <3>2. QED
      BY <3>1, SameClaims
  <2>3. QED
    BY <2>1, <2>2
<1>6. TypeOK'
    BY <1>1, <1>2, <1>3, <1>4 DEF Fail, PCs, Receipts
<1>7. LeaseInv' /\ HolderInv'
    BY <1>1, <1>2 DEF Fail, LeaseInv, HolderInv, Inside
<1>8. CompletedSettled'
  <2>1. pc[p] = "receipt" => "terminal" \notin folder[o]
    BY <1>1 DEF HolderInv, WorkingPCs, Pending
  <2>2. \A other \in Ops : "terminal" \in folder'[other] => "terminal" \in folder[other]
    BY <1>1, <1>3, <1>4
  <2>3. QED
    BY <1>1, <2>1, <2>2 DEF CompletedSettled, Fail
<1>9. QED
    BY <1>5, <1>6, <1>7, <1>8

(* GateInv is inductive: it holds of every state of every run of the gate. *)
THEOREM GateSafety == Spec => []GateInv
<1>1. ASSUME GateInv, [Next]_vars PROVE GateInv'
  <2>1. CASE UNCHANGED vars
    <3>1. folder' = folder
      BY <2>1 DEF vars
    <3>2. SizeInv' /\ OneUnfinished'
      BY <1>1, <3>1, SameClaims DEF GateInv
    <3>3. TypeOK' /\ LeaseInv' /\ CompletedSettled'
      BY <1>1, <2>1 DEF GateInv, vars, TypeOK, LeaseInv, CompletedSettled, Inside
    <3>4. HolderInv'
      <4>1. Claims' = Claims
        BY <3>1, SameClaims
      <4>2. HolderInv
        BY <1>1 DEF GateInv
      <4>3. QED
        BY <2>1, <4>1, <4>2, ZenonT(40)
           DEF vars, HolderInv, Pending, OthersCompleted, Completed, FolderAt
    <3>5. QED
      BY <3>2, <3>3, <3>4 DEF GateInv
  <2>2. CASE Next
    <3>1. PICK p \in Procs : Start(p) \/ Step(p) \/ Fail(p) \/ Crash(p)
      BY <2>2 DEF Next
    <3>2. QED
      BY <1>1, <3>1, QuietStep, MakeFolderStep, CreateStep, WorkStep, FailStep DEF Step
  <2>3. QED
    BY <1>1, <2>1, <2>2
<1>2. QED
    BY <1>1, GateInit, PTL DEF Spec

(* What the runs check, for every instance: the state invariants.          *)
THEOREM GateInvariants ==
    Spec => [](TypeOK /\ OneUnfinished /\ ActiveClaim /\ CompletedSettled /\ InventoryBound)
<1>1. GateInv => TypeOK /\ OneUnfinished /\ ActiveClaim /\ CompletedSettled /\ InventoryBound
  <2> SUFFICES ASSUME GateInv
               PROVE  TypeOK /\ OneUnfinished /\ ActiveClaim /\ CompletedSettled /\ InventoryBound
    OBVIOUS
  <2>1. ActiveClaim
    BY DEF GateInv, LeaseInv, HolderInv, ActiveClaim, WorkingPCs, Inside
  <2>2. QED
    BY <2>1 DEF GateInv, SizeInv, InventoryBound
<1>2. QED
    BY <1>1, GateSafety, PTL

(* Damage is fail-closed: while a folder is damaged the command inside is  *)
(* neither publishing nor working, for each of those needs every other     *)
(* folder completed and its own in the shape that its step promises.       *)
THEOREM GateFailsClosed == Spec => DamageFreezes
<1>1. ASSUME GateInv, [Next]_vars
      PROVE  [(\E o \in Ops : Damaged(o)) => UNCHANGED <<folder, receipts, work>>]_vars
  <2> SUFFICES ASSUME NEW d \in Ops, Damaged(d), Next
               PROVE  UNCHANGED <<folder, receipts, work>>
    BY <1>1
  <2> USE <1>1 DEF GateInv, TypeOK, Goto, Damaged
  <2> PICK p \in Procs : Start(p) \/ Step(p) \/ Fail(p) \/ Crash(p)
    BY DEF Next
  <2>1. d \in Claims /\ ~Completed(d) /\ ~Pending(d)
    BY DEF Claims, Completed, Pending
  <2>2. ASSUME p \in gateFds, OthersCompleted(req[p].op) PROVE req[p].op = d
    BY <2>1, <2>2 DEF OthersCompleted
  <2>3. ~(p \in gateFds /\ pc[p] \in Creating)
    BY <2>2 DEF HolderInv
  <2>4. ~(p \in gateFds /\ pc[p] \in WorkingPCs)
    BY <2>1, <2>2 DEF HolderInv
  <2>5. ~(p \in gateFds /\ pc[p] = "mkdir")
    BY <2>1 DEF HolderInv
  <2>6. CASE Fail(p)
    BY <2>3, <2>4, <2>6 DEF Fail, LeaseInv, WorkingPCs
  <2>7. CASE Step(p)
    <3> USE <2>3, <2>4, <2>5 DEF LeaseInv, Inside, WorkingPCs, Creating
    <3>1. ~MakeFolder(p) /\ ~CreateTemp(p) /\ ~CreateLink(p) /\ ~CreateUnlink(p)
      BY DEF MakeFolder, CreateTemp, CreateLink, CreateUnlink
    <3>2. ~Work(p) /\ ~Finish(p) /\ ~FinishReceipt(p)
      BY DEF Work, Finish, FinishReceipt
    <3>3. QED
      BY <2>7, <3>1, <3>2 DEF Step, TakeLease, Busy, Check, Begin, Reconcile, Refuse,
                              CreateSync, Complete, Exit
  <2>8. CASE Start(p) \/ Crash(p)
    BY <2>8 DEF Start, Crash
  <2>9. QED
    BY <2>6, <2>7, <2>8
<1>2. QED
  BY <1>1, GateSafety, PTL DEF Spec, DamageFreezes

(* Published claims and markers stay: only MakeFolder replaces a folder,   *)
(* and it needs an empty one.                                              *)
THEOREM GateKeepsPublished == Spec => PublishedStays
<1>1. ASSUME GateInv, [Next]_vars
      PROVE  [\A o \in Ops : folder[o] \cap Files \subseteq folder'[o]]_vars
  <2> SUFFICES ASSUME NEW o \in Ops, Next
               PROVE  folder[o] \cap Files \subseteq folder'[o]
    BY <1>1
  <2> USE <1>1 DEF GateInv, TypeOK, Files
  <2> PICK p \in Procs : Start(p) \/ Step(p) \/ Fail(p) \/ Crash(p)
    BY DEF Next
  <2>1. CASE Fail(p)
    BY <2>1 DEF Fail
  <2>2. CASE Step(p)
    BY <2>2, SMTT(60) DEF Step, TakeLease, Busy, Check, Begin, MakeFolder, Reconcile, Refuse,
                CreateTemp, CreateLink, CreateUnlink, CreateSync, Work, Finish,
                FinishReceipt, Complete, Exit
  <2>3. CASE Start(p) \/ Crash(p)
    BY <2>3 DEF Start, Crash
  <2>4. QED
    BY <2>1, <2>2, <2>3
<1>2. QED
  BY <1>1, GateSafety, PTL DEF Spec, PublishedStays

(* The refinement: linking claim.json claims the operation, linking        *)
(* terminal.json settles it, every other step is invisible.                *)
LEMMA SameFiles ==
    ASSUME \A o \in Ops : folder'[o] \cap Files = folder[o] \cap Files
    PROVE  registryStatus' = registryStatus
<1>1. \A o \in Ops : /\ "terminal" \in folder'[o] <=> "terminal" \in folder[o]
                     /\ "claim" \in folder'[o] <=> "claim" \in folder[o]
    BY DEF Files
<1>2. QED
    BY <1>1 DEF registryStatus

LEMMA LinkClaims ==
    ASSUME NEW p \in Procs, GateInv, CreateLink(p), file[p] = "claim"
    PROVE  Registry!Claim(req[p].op)
<1> USE DEF GateInv, TypeOK
<1> DEFINE o == req[p].op
<1>1. p \in gateFds /\ o \in Ops
    BY DEF CreateLink, LeaseInv, Inside
<1>2. folder[o] = {"dir", "writing"} /\ OthersCompleted(o)
    BY <1>1 DEF CreateLink, HolderInv, Creating, FolderAt
<1>3. folder' = [folder EXCEPT ![o] = {"dir", "writing", "claim"}]
    BY <1>1, <1>2 DEF CreateLink
<1>4. \A other \in Ops : registryStatus[other] # "pending"
    BY <1>2 DEF registryStatus, OthersCompleted, Completed, Claims
<1>5. registryStatus[o] = "none"
    BY <1>1, <1>2 DEF registryStatus
<1>6. Cardinality(Registry!Claimed) < MaxClaims
  <2>1. Registry!Claimed \subseteq Claims \ {o}
    BY <1>1, <1>2 DEF Registry!Claimed, registryStatus, Claims
  <2>2. o \in Claims
    BY <1>1, <1>2 DEF Claims
  <2>3. /\ IsFiniteSet(Claims \ {o})
        /\ Cardinality(Claims \ {o}) = Cardinality(Claims) - 1
    <3>1. IsFiniteSet(Claims)
      BY DEF SizeInv
    <3> HIDE DEF GateInv, TypeOK, o
    <3>2. QED
      BY <2>2, <3>1, FS_RemoveElement
  <2>4. Cardinality(Claims) \in Nat
    BY FS_CardinalityType DEF SizeInv
  <2>5. /\ IsFiniteSet(Registry!Claimed)
        /\ Cardinality(Registry!Claimed) <= Cardinality(Claims \ {o})
    BY <2>1, <2>3, FS_Subset
  <2>6. Cardinality(Registry!Claimed) \in Nat
    BY <2>5, FS_CardinalityType
  <2>7. QED
    BY <2>3, <2>4, <2>5, <2>6, GateAssumption DEF SizeInv
<1>7. registryStatus' = [registryStatus EXCEPT ![o] = "pending"]
    BY <1>1, <1>2, <1>3 DEF registryStatus
<1>8. Registry!Cardinality(Registry!Claimed) = Cardinality(Registry!Claimed)
    BY Zenon DEF Registry!Cardinality, Cardinality
<1>9. QED
    BY <1>4, <1>5, <1>6, <1>7, <1>8 DEF Registry!Claim

LEMMA LinkSettles ==
    ASSUME NEW p \in Procs, GateInv, CreateLink(p), file[p] = "terminal"
    PROVE  Registry!Settle(req[p].op)
<1> USE DEF GateInv, TypeOK
<1> DEFINE o == req[p].op
<1>1. p \in gateFds /\ o \in Ops
    BY DEF CreateLink, LeaseInv, Inside
<1>2. folder[o] = {"dir", "claim", "writing"}
    BY <1>1 DEF CreateLink, HolderInv, Creating, FolderAt
<1>3. folder' = [folder EXCEPT ![o] = {"dir", "claim", "writing", "terminal"}]
    BY <1>1, <1>2 DEF CreateLink
<1>4. registryStatus[o] = "pending"
    BY <1>1, <1>2 DEF registryStatus
<1>5. registryStatus' = [registryStatus EXCEPT ![o] = "completed"]
    BY <1>1, <1>3 DEF registryStatus
<1>6. QED
    BY <1>4, <1>5 DEF Registry!Settle

THEOREM GateImplementsRegistry == Spec => ImplementsRegistry
<1>1. Init => Registry!RegistryInit
    BY DEF Init, Registry!RegistryInit, registryStatus
<1>2. ASSUME GateInv, [Next]_vars
      PROVE  [Registry!RegistryNext]_registryStatus
  <2>1. CASE UNCHANGED vars
    BY <2>1 DEF vars, registryStatus
  <2>2. CASE Next
    <3> USE <1>2 DEF GateInv, TypeOK
    <3> PICK p \in Procs : Start(p) \/ Step(p) \/ Fail(p) \/ Crash(p)
      BY <2>2 DEF Next
    <3>1. req[p].op \in Ops
      OBVIOUS
    <3>2. CASE CreateLink(p)
      <4>1. Registry!Claim(req[p].op) \/ Registry!Settle(req[p].op)
        BY <3>2, LinkClaims, LinkSettles DEF Files
      <4>2. QED
        BY <3>1, <4>1 DEF Registry!RegistryNext
    <3>3. CASE Fail(p)
      <4>1. \A o \in Ops : folder'[o] \cap Files = folder[o] \cap Files
        BY <3>3 DEF Fail, Files
      <4>2. QED
        BY <4>1, SameFiles
    <3>4. CASE Step(p) /\ ~CreateLink(p)
      <4>1. \A o \in Ops : folder'[o] \cap Files = folder[o] \cap Files
        BY <3>4, SMTT(60) DEF Step, TakeLease, Busy, Check, Begin, MakeFolder, Reconcile, Refuse,
                    CreateTemp, CreateUnlink, CreateSync, Work, Finish, FinishReceipt,
                    Complete, Exit, Files
      <4>2. QED
        BY <4>1, SameFiles
    <3>5. CASE Start(p) \/ Crash(p)
      BY <3>5, SameFiles DEF Start, Crash
    <3>6. QED
      BY <3>2, <3>3, <3>4, <3>5
  <2>3. QED
    BY <1>2, <2>1, <2>2
<1>3. QED
    BY <1>1, <1>2, GateSafety, PTL DEF Spec, ImplementsRegistry, Registry!RegistrySpec
=============================================================================
