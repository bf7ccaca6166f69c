---------------------------- MODULE OperationGate ----------------------------
(***************************************************************************)
(* The operations gate: scripts/full_client_operation_gate.py, entered by  *)
(* the commands through admitted() and Admission.finish() of               *)
(* scripts/full_client_operation_admission.py.                             *)
(*                                                                         *)
(* A command holds an exclusive flock on .operations/.gate.lock from       *)
(* admission to exit.  Under it the command reads the registry, publishes  *)
(* claim.json, does its work, writes a terminal receipt and publishes      *)
(* terminal.json.  Every publication is create_json: a temporary name,     *)
(* link, unlink, fsync.  A command may raise or be killed at any step.     *)
(*                                                                         *)
(* The flock belongs to the open file description, not to the process: it  *)
(* is free exactly when no process has a copy of the descriptor            *)
(* (close() only, never LOCK_UN), hence gateFds, the set of holders.       *)
(***************************************************************************)
EXTENDS Naturals, FiniteSets

CONSTANTS Procs,       \* command processes that can run side by side
          Ops,         \* operation IDs
          MaxClaims    \* MAX_CLAIMS

ASSUME GateAssumption == MaxClaims \in Nat \ {0}

VARIABLES
    gateFds,   \* processes with a copy of the locked description; {} = unlocked
    folder,    \* folder[o]: names in .operations/<o>, "dir" for the directory
    receipts,  \* receipts[o]: how far terminal-receipt.json is published
    work,      \* work[o]: what the claimed operation has done to the world
    pc,        \* pc[p]: next step of command p
    file,      \* file[p]: which of the two files p's create_json publishes
    req        \* req[p]: the operation and entry mode p was started with

vars == <<gateFds, folder, receipts, work, pc, file, req>>

Names == {"dir", "claim", "terminal", "writing"}
Modes == {"begin", "reconcile", "check"}
Works == {"none", "running", "settled"}

(* "linked": the name exists and so does the temporary one, so that the    *)
(* file has two links and read_json refuses it.                            *)
Receipts == {"none", "linked", "whole"}

(* create_json publishes either file through the same four steps. *)
Files    == {"claim", "terminal"}
Creating == {"temp", "link", "unlink", "sync"}
PCs == {"idle", "open", "leased", "mkdir", "checked", "active", "receipt",
        "complete", "done"} \cup Creating

(* A folder has a directory before it has files, a claim before a marker.  *)
Shapes == {names \in SUBSET Names : /\ names # {} => "dir" \in names
                                    /\ "terminal" \in names => "claim" \in names}

TypeOK ==
    /\ gateFds \subseteq Procs
    /\ folder \in [Ops -> Shapes]
    /\ receipts \in [Ops -> Receipts]
    /\ work \in [Ops -> Works]
    /\ pc \in [Procs -> PCs]
    /\ file \in [Procs -> Files]
    /\ req \in [Procs -> [op : Ops, mode : Modes]]

Init ==
    /\ gateFds = {}
    /\ folder = [o \in Ops |-> {}]
    /\ receipts = [o \in Ops |-> "none"]
    /\ work = [o \in Ops |-> "none"]
    /\ pc = [p \in Procs |-> "idle"]
    /\ file = [p \in Procs |-> "claim"]
    /\ req \in [Procs -> [op : Ops, mode : {"check"}]]

-----------------------------------------------------------------------------
(* What _scan() makes of the registry. *)
Claims       == {o \in Ops : folder[o] # {}}
PendingDespiteStrays(o) == "claim" \in folder[o] /\ "terminal" \notin folder[o]  \* variant
Pending(o)   == folder[o] = {"dir", "claim"}
Completed(o) == folder[o] = {"dir", "claim", "terminal"}

(* Every folder holds claim.json, or claim.json and terminal.json, and     *)
(* there are no more than MAX_CLAIMS of them.                              *)
ScanAccepts ==
    /\ \A o \in Claims : Pending(o) \/ Completed(o)
    /\ Cardinality(Claims) <= MaxClaims

OthersCompleted(o) == \A other \in Claims \ {o} : Completed(other)

Goto(p, step) == pc' = [pc EXCEPT ![p] = step]

(* Leaving locked(): close the descriptor, keep everything on disk. *)
Leave(p) ==
    /\ gateFds' = gateFds \ {p}
    /\ pc' = [pc EXCEPT ![p] = "idle"]

-----------------------------------------------------------------------------
(* A command line starts: it names its authority's operation, and a claim  *)
(* exactly when it reconciles.                                             *)
Start(p) ==
    /\ pc[p] = "idle"
    /\ \E o \in Ops, m \in Modes : req' = [req EXCEPT ![p] = [op |-> o, mode |-> m]]
    /\ Goto(p, "open")
    /\ UNCHANGED <<gateFds, folder, receipts, work, file>>

TakeLeaseUnlocked(p) ==                                                  \* variant
    /\ pc[p] = "open"
    /\ gateFds' = gateFds \cup {p}
    /\ Goto(p, "leased")
    /\ UNCHANGED <<folder, receipts, work, file, req>>

(* locked(): flock(LOCK_EX | LOCK_NB) on a fresh description. *)
TakeLease(p) ==
    /\ pc[p] = "open"
    /\ gateFds = {}
    /\ gateFds' = {p}
    /\ Goto(p, "leased")
    /\ UNCHANGED <<folder, receipts, work, file, req>>

(* operation_busy. *)
Busy(p) ==
    /\ pc[p] = "open"
    /\ gateFds # {}
    /\ Goto(p, "idle")
    /\ UNCHANGED <<gateFds, folder, receipts, work, file, req>>

(* ensure_available(): a read-only check that claims nothing. *)
MayCheck == ScanAccepts /\ \A o \in Claims : Completed(o)

Check(p) ==
    /\ pc[p] = "leased" /\ req[p].mode = "check"
    /\ MayCheck
    /\ Goto(p, "checked")
    /\ UNCHANGED <<gateFds, folder, receipts, work, file, req>>

(* begin(), up to the claim it is about to publish. *)
MayBegin(o) ==
    /\ ScanAccepts
    /\ \A other \in Claims : Completed(other)
    /\ o \notin Claims
    /\ Cardinality(Claims) < MaxClaims

Begin(p) ==
    /\ pc[p] = "leased" /\ req[p].mode = "begin"
    /\ MayBegin(req[p].op)
    /\ Goto(p, "mkdir")
    /\ UNCHANGED <<gateFds, folder, receipts, work, file, req>>

(* begin(): mkdir and fsync of the registry. *)
MakeFolder(p) ==
    /\ pc[p] = "mkdir"
    /\ folder[req[p].op] = {}
    /\ folder' = [folder EXCEPT ![req[p].op] = {"dir"}]
    /\ file' = [file EXCEPT ![p] = "claim"]
    /\ Goto(p, "temp")
    /\ UNCHANGED <<gateFds, receipts, work, req>>

(* reconcile(): the exact claim, alone.  A completed one is only reported. *)
MayReconcile(o) == ScanAccepts /\ o \in Claims /\ OthersCompleted(o)

Reconcile(p) ==
    /\ pc[p] = "leased" /\ req[p].mode = "reconcile"
    /\ MayReconcile(req[p].op)
    /\ Goto(p, IF Pending(req[p].op) THEN "active" ELSE "done")
    /\ UNCHANGED <<gateFds, folder, receipts, work, file, req>>

(* Any refused admission, and a receipt that finish() cannot read: the     *)
(* error leaves locked().                                                  *)
Refused(p) ==
    LET o == req[p].op IN
    \/ /\ pc[p] = "leased"
       /\ \/ req[p].mode = "check" /\ ~MayCheck
          \/ req[p].mode = "begin" /\ ~MayBegin(o)
          \/ req[p].mode = "reconcile" /\ ~MayReconcile(o)
    \/ pc[p] = "active" /\ work[o] = "settled" /\ receipts[o] = "linked"

RefuseKeepsLease(p) ==                                                   \* variant
    /\ Refused(p)
    /\ Goto(p, "idle")
    /\ UNCHANGED <<gateFds, folder, receipts, work, file, req>>

Refuse(p) ==
    /\ Refused(p)
    /\ Leave(p)
    /\ UNCHANGED <<folder, receipts, work, file, req>>

-----------------------------------------------------------------------------
(* create_json(folder, name): the complete bytes under a temporary name,   *)
(* link without replacing, unlink the temporary, fsync.                    *)
CreateTemp(p) ==
    /\ pc[p] = "temp"
    /\ folder' = [folder EXCEPT ![req[p].op] = @ \cup {"writing"}]
    /\ Goto(p, "link")
    /\ UNCHANGED <<gateFds, receipts, work, file, req>>

CreateLink(p) ==
    /\ pc[p] = "link"
    /\ file[p] \notin folder[req[p].op]
    /\ folder' = [folder EXCEPT ![req[p].op] = @ \cup {file[p]}]
    /\ Goto(p, "unlink")
    /\ UNCHANGED <<gateFds, receipts, work, file, req>>

CreateUnlink(p) ==
    /\ pc[p] = "unlink"
    /\ folder' = [folder EXCEPT ![req[p].op] = @ \ {"writing"}]
    /\ Goto(p, "sync")
    /\ UNCHANGED <<gateFds, receipts, work, file, req>>

(* fsync and the re-read of what was published: only now is the claim      *)
(* active, or the marker returned.                                         *)
CreateSync(p) ==
    /\ pc[p] = "sync"
    /\ Goto(p, IF file[p] = "claim" THEN "active" ELSE "done")
    /\ UNCHANGED <<gateFds, folder, receipts, work, file, req>>

-----------------------------------------------------------------------------
(* The admitted command's own work, under its active claim: it mutates the *)
(* world, and at some point has verified that it is quiescent.             *)
Work(p) ==
    /\ pc[p] = "active"
    /\ LET o == req[p].op IN
           /\ work[o] # "settled"
           /\ work' = [work EXCEPT ![o] = IF @ = "none" THEN "running" ELSE "settled"]
    /\ UNCHANGED <<gateFds, folder, receipts, pc, file, req>>

(* Admission.finish(): the receipt is created (link, then unlink of the    *)
(* temporary name), or the one a lost reply left behind is found equal.    *)
Finish(p) ==
    /\ pc[p] = "active"
    /\ work[req[p].op] = "settled"
    /\ \/ /\ receipts[req[p].op] = "none"
          /\ receipts' = [receipts EXCEPT ![req[p].op] = "linked"]
          /\ Goto(p, "receipt")
       \/ /\ receipts[req[p].op] = "whole"
          /\ Goto(p, "complete")
          /\ UNCHANGED receipts
    /\ UNCHANGED <<gateFds, folder, work, file, req>>

FinishReceipt(p) ==
    /\ pc[p] = "receipt"
    /\ receipts' = [receipts EXCEPT ![req[p].op] = "whole"]
    /\ Goto(p, "complete")
    /\ UNCHANGED <<gateFds, folder, work, file, req>>

(* complete(), up to the marker it is about to publish. *)
MayComplete(o) ==
    /\ ScanAccepts /\ Pending(o) /\ OthersCompleted(o)
    /\ receipts[o] = "whole"

Complete(p) ==
    /\ pc[p] = "complete"
    /\ MayComplete(req[p].op)
    /\ file' = [file EXCEPT ![p] = "terminal"]
    /\ Goto(p, "temp")
    /\ UNCHANGED <<gateFds, folder, receipts, work, req>>

(* The command ends and its descriptor is closed. *)
Exit(p) ==
    /\ pc[p] \in {"checked", "done"}
    /\ Leave(p)
    /\ UNCHANGED <<folder, receipts, work, file, req>>

-----------------------------------------------------------------------------
Inside(p) == pc[p] \notin {"idle", "open"}

FailRollsBack(p) ==                                                      \* variant
    /\ Inside(p)
    /\ folder' = [folder EXCEPT ![req[p].op] = IF pc[p] \in Creating THEN {} ELSE @]
    /\ Leave(p)
    /\ UNCHANGED <<receipts, work, file, req>>

(* An exception anywhere under the lease (a work deadline, a read budget,  *)
(* an OSError, KeyboardInterrupt): create_json removes its temporary name, *)
(* nothing else is undone.                                                 *)
Fail(p) ==
    /\ Inside(p)
    /\ folder' = [folder EXCEPT ![req[p].op] =
                     IF pc[p] \in Creating THEN @ \ {"writing"} ELSE @]
    /\ receipts' = [receipts EXCEPT ![req[p].op] =
                       IF pc[p] = "receipt" THEN "whole" ELSE @]
    /\ Leave(p)
    /\ UNCHANGED <<work, file, req>>

(* SIGKILL: the kernel closes the descriptor, the disk stays as it is. *)
Crash(p) ==
    /\ Inside(p)
    /\ Leave(p)
    /\ UNCHANGED <<folder, receipts, work, file, req>>

Step(p) ==
    \/ TakeLease(p) \/ Busy(p) \/ Check(p) \/ Begin(p) \/ MakeFolder(p)
    \/ Reconcile(p) \/ Refuse(p)
    \/ CreateTemp(p) \/ CreateLink(p) \/ CreateUnlink(p) \/ CreateSync(p)
    \/ Work(p) \/ Finish(p) \/ FinishReceipt(p) \/ Complete(p) \/ Exit(p)

Next == \E p \in Procs : Start(p) \/ Step(p) \/ Fail(p) \/ Crash(p)

Spec == Init /\ [][Next]_vars

(* A running command keeps executing: its API calls are bounded by         *)
(* WORK_SECONDS and its work by its own deadlines.                         *)
FairSpec == Spec /\ \A p \in Procs : WF_vars(Step(p))

-----------------------------------------------------------------------------
(* Properties.                                                             *)

(* At most one operation is unfinished, damaged folders included, whatever *)
(* the commands that ran were and wherever they died.                      *)
OneUnfinished ==
    \A a, b \in Claims : Completed(a) \/ Completed(b) \/ a = b

(* A command that works, or reports its work, is the only holder of the    *)
(* gate, its claim is published and pending, and everything else is done.  *)
WorkingPCs == {"active", "receipt", "complete"}

ActiveClaim ==
    \A p \in Procs : pc[p] \in WorkingPCs =>
        gateFds = {p} /\ Pending(req[p].op) /\ OthersCompleted(req[p].op)

(* A terminal marker is evidence: the world was quiescent and the receipt  *)
(* it names can be read, even if the command that settled the work died    *)
(* and another one published the marker.                                   *)
CompletedSettled ==
    \A o \in Ops : "terminal" \in folder[o] =>
        work[o] = "settled" /\ receipts[o] = "whole"

(* begin() never makes a registry that the next scan refuses as too large. *)
InventoryBound == Cardinality(Claims) <= MaxClaims

(* A folder left behind by a command that died while publishing: no        *)
(* command is in the middle of it and no scan accepts it.                  *)
Damaged(o) ==
    /\ folder[o] \notin {{}, {"dir", "claim"}, {"dir", "claim", "terminal"}}
    /\ \A p \in Procs : req[p].op = o => pc[p] \notin Creating

(* Damage is fail-closed: from then on no command claims, works, writes a  *)
(* receipt or completes, on any operation.                                 *)
DamageFreezes ==
    [][(\E o \in Ops : Damaged(o)) => UNCHANGED <<folder, receipts, work>>]_vars

(* Claims and markers are for ever: no error path and no later command     *)
(* removes or replaces what was published.                                 *)
PublishedStays ==
    [][\A o \in Ops : folder[o] \cap Files \subseteq folder'[o]]_vars

(* The gate never stays taken: commands that keep running, whatever they   *)
(* find and however they fail, close the description in the end.           *)
LeaseReleased == \A p \in Procs : p \in gateFds ~> p \notin gateFds

(* The inductive invariant behind the safety properties: what the disk     *)
(* looks like at each step of the command inside the gate.                 *)
FolderAt(step, name) ==
    LET before == IF name = "claim" THEN {"dir"} ELSE {"dir", "claim"}
    IN  CASE step = "temp"   -> before
          [] step = "link"   -> before \cup {"writing"}
          [] step = "unlink" -> before \cup {"writing", name}
          [] step = "sync"   -> before \cup {name}

(* The flock: the commands inside are the holders, and there is one.       *)
LeaseInv ==
    /\ \A p \in Procs : p \in gateFds <=> Inside(p)
    /\ \A p, q \in gateFds : p = q

HolderInv ==
    \A p \in gateFds :
        LET o == req[p].op IN
        /\ pc[p] = "mkdir" => /\ \A other \in Claims : Completed(other)
                              /\ o \notin Claims
                              /\ Cardinality(Claims) < MaxClaims
        /\ pc[p] \in Creating => /\ folder[o] = FolderAt(pc[p], file[p])
                                 /\ OthersCompleted(o)
        /\ pc[p] \in WorkingPCs => Pending(o) /\ OthersCompleted(o)
        /\ pc[p] = "receipt" => work[o] = "settled" /\ receipts[o] = "linked"
        /\ pc[p] = "complete" \/ (pc[p] \in Creating /\ file[p] = "terminal")
               => work[o] = "settled" /\ receipts[o] = "whole"

SizeInv == IsFiniteSet(Claims) /\ Cardinality(Claims) <= MaxClaims

GateInv ==
    /\ TypeOK
    /\ LeaseInv
    /\ HolderInv
    /\ OneUnfinished
    /\ CompletedSettled
    /\ SizeInv

(* The gate implements the registry: an operation is claimed when the link *)
(* of claim.json exists and settled when that of terminal.json does.       *)
registryStatus ==
    [o \in Ops |-> IF "terminal" \in folder[o] THEN "completed"
                   ELSE IF "claim" \in folder[o] THEN "pending" ELSE "none"]

Registry == INSTANCE OperationRegistry WITH status <- registryStatus

ImplementsRegistry == Registry!RegistrySpec
=============================================================================
