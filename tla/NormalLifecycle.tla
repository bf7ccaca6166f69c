--------------------------- MODULE NormalLifecycle ---------------------------
(***************************************************************************)
(* scripts/full_client_lifecycle.py: the operator's commands check, start  *)
(* and reconcile, which bring the normal Cosmic server and then the queue  *)
(* worker back after trials, and the guards (command_guard) that keep the  *)
(* locks of a command until what it ran is gone.  The worker's own locks   *)
(* and its first-idle receipt (scripts/maplebench.py) are the other side.  *)
(*                                                                         *)
(* A command may raise at every step (its alarm, a refused check, an I/O   *)
(* error) and be killed at every step; services come and go by themselves. *)
(* What a command only reads and compares (pinned files, settings, the     *)
(* snapshot, the queue, web and browser, native log, capacity) is a step   *)
(* that may raise; what decides is kept: which instance of a service is    *)
(* meant and running, whose the locks are, what is on disk.  The three     *)
(* world locks are taken and closed together and are one lock.             *)
(***************************************************************************)
EXTENDS Naturals, FiniteSets

CONSTANTS
    Commands,    \* operator processes
    Ops,         \* operation IDs
    None,
    MaxMade,     \* bound: instances of each service there can be
    MaxBoots     \* bound: boots of the host

Roles == {"cosmic", "worker"}

ASSUME LifecycleAssumption ==
    /\ MaxMade \in Nat \ {0} /\ MaxBoots \in Nat \ {0}
    /\ None \notin Ops \cup Roles

VARIABLES
    boot,        \* which boot this is
    unit,        \* unit[r]: what systemd says of the service of r
    made,        \* made[r]: the last instance of r (InvocationID) there was
    workerLock,  \* the running worker holds the world's locks
    receipts,    \* receipts[w]: the Cosmic instance in w's first-idle receipt
    handoff,     \* handoff[o]: the private handoff document of o
    journal,     \* journal[o]: o's journal.json
    cmd,         \* cmd[p]: the locals of command p
    guards,      \* the guards of host commands
    asks         \* history: how often systemctl start was run for o and r

host == <<boot, unit, made, workerLock, receipts, handoff>>
vars == <<boot, unit, made, workerLock, receipts, handoff, journal, cmd,
          guards, asks>>

-----------------------------------------------------------------------------
Instances == 0..MaxMade      \* 0: none

(* starts is service_starts, intent the roles r with an r_start entry, seen *)
(* the observed or adopted instances.                                      *)
Journals == [status : {"absent", "pending", "failed", "completed"},
             starts : [Roles -> 0..1],
             intent : SUBSET Roles,
             seen   : [Roles -> Instances]]

NoJournal == [status |-> "absent", starts |-> [r \in Roles |-> 0],
              intent |-> {}, seen |-> [r \in Roles |-> 0]]

Handoffs == [boot : 0..MaxBoots, stopped : [Roles -> Instances]]

NoHandoff == [boot |-> 0, stopped |-> [r \in Roles |-> 0]]

OutsideTry == {"admit", "preflight", "publish", "load"}
InsideTry  == {"continue", "intent", "handoff", "launch", "wait", "observe",
               "native", "finish", "complete", "resume", "adopt"}

(* mem is self.state, known that journal_sha is the hash of the journal on *)
(* disk, world that the command's descriptors of the world locks are open, *)
(* doc that reconcile was given an observation.                            *)
CommandRecords == [pc : OutsideTry \cup InsideTry \cup {"idle", "fail"},
                   op : Ops \cup {None}, role : Roles, mem : Journals,
                   known : BOOLEAN, world : BOOLEAN, doc : BOOLEAN]

Idle == [pc |-> "idle", op |-> None, role |-> "cosmic", mem |-> NoJournal,
         known |-> FALSE, world |-> FALSE, doc |-> FALSE]

(* A guard of start r (role r) or of a command that only reads (None), and *)
(* the locks whose descriptors it inherited.                               *)
Guards == [owner : Commands, op : Ops, role : Roles \cup {None},
           serial : BOOLEAN, world : BOOLEAN, sent : BOOLEAN]

Active == {p \in Commands : cmd[p].pc # "idle"}

(* .lifecycle.lock is held from the start of a command to its end, and by  *)
(* every guard that inherited it.                                          *)
SerialFree == Active = {} /\ \A g \in guards : ~g.serial

WorldFree == /\ ~workerLock
             /\ \A p \in Commands : ~cmd[p].world
             /\ \A g \in guards : ~g.world

(* require_no_pending *)
NonePending == \A o \in Ops : journal[o].status \in {"absent", "completed"}

(* The guard inherits the world locks only. *)
InheritedWorldOnly(p, role) ==                                           \* variant
    [owner |-> p, op |-> cmd[p].op, role |-> role, serial |-> FALSE,
     world |-> cmd[p].world, sent |-> FALSE]

(* guard_fds: the lifecycle lock and whatever world descriptors are open. *)
Inherited(p, role) ==
    [owner |-> p, op |-> cmd[p].op, role |-> role, serial |-> TRUE,
     world |-> cmd[p].world, sent |-> FALSE]

(* The service is stopped, and by the instance the handoff speaks of. *)
StoppedAsHandedOff(o, r) == ~unit[r].up /\ unit[r].inv = handoff[o].stopped[r]

Fresh(o, r) == unit[r].up /\ unit[r].inv # handoff[o].stopped[r]

Same(p, r) == unit[r].up /\ unit[r].inv = cmd[p].mem.seen[r]

To(p, c) == cmd' = [cmd EXCEPT ![p] = c]

Leave(p) == To(p, Idle)

(* persist(): the journal is replaced if it is still the one last read or  *)
(* written.  It may raise before self.state is updated, before the file is *)
(* replaced, or before the new hash is known.                              *)
Persist(p, before, after, then) ==
    LET c == cmd[p]
        raised == [c EXCEPT !.pc = "fail"]
    IN /\ c.known
       /\ \/ /\ To(p, [then EXCEPT !.mem = after])
             /\ journal' = [journal EXCEPT ![c.op] = after]
          \/ /\ \E m \in {before, after} : To(p, [raised EXCEPT !.mem = m])
             /\ UNCHANGED journal
          \/ /\ To(p, [raised EXCEPT !.mem = after, !.known = FALSE])
             /\ journal' = [journal EXCEPT ![c.op] = after]
       /\ UNCHANGED <<host, guards, asks>>

-----------------------------------------------------------------------------
(* The host: services start (because they were asked to, restarted by      *)
(* systemd or by hand) and stop; a start request may take effect after the *)
(* systemctl that made it is gone.                                         *)
ServiceUp(r) ==
    /\ ~unit[r].up /\ made[r] < MaxMade
    /\ made' = [made EXCEPT ![r] = @ + 1]
    /\ unit' = [unit EXCEPT ![r] = [up |-> TRUE, inv |-> made[r] + 1]]
    /\ UNCHANGED <<boot, workerLock, receipts, handoff, journal, cmd, guards, asks>>

ServiceDown(r) ==
    /\ unit[r].up
    /\ unit' = [unit EXCEPT ![r].up = FALSE]
    /\ workerLock' = (workerLock /\ r # "worker")
    /\ UNCHANGED <<boot, made, receipts, handoff, journal, cmd, guards, asks>>

(* worker(): it takes the locks or dies (ServiceDown). *)
WorkerLocks ==
    /\ unit["worker"].up /\ WorldFree
    /\ workerLock' = TRUE
    /\ UNCHANGED <<boot, unit, made, receipts, handoff, journal, cmd, guards, asks>>

(* worker_first_idle_receipt: create-only, before any trial is claimed, for *)
(* a Cosmic that did not change while the worker looked.                   *)
WorkerIdles ==
    /\ workerLock /\ unit["cosmic"].up
    /\ receipts[unit["worker"].inv] = 0
    /\ receipts' = [receipts EXCEPT ![unit["worker"].inv] = unit["cosmic"].inv]
    /\ UNCHANGED <<boot, unit, made, workerLock, handoff, journal, cmd, guards, asks>>

(* prepare_handoff, under the locks, when both services are stopped and no *)
(* restoration is open.  The document may be used much later.              *)
MakeHandoff(o) ==
    /\ handoff[o] = NoHandoff
    /\ SerialFree /\ WorldFree /\ NonePending
    /\ \A r \in Roles : ~unit[r].up /\ unit[r].inv # 0
    /\ handoff' = [handoff EXCEPT ![o] =
                       [boot |-> boot, stopped |-> [r \in Roles |-> unit[r].inv]]]
    /\ UNCHANGED <<boot, unit, made, workerLock, receipts, journal, cmd, guards, asks>>

(* A stopped service has no InvocationID before its first start of a boot. *)
Reboot ==
    /\ boot < MaxBoots
    /\ boot' = boot + 1
    /\ unit' = [r \in Roles |-> [up |-> FALSE, inv |-> 0]]
    /\ workerLock' = FALSE
    /\ cmd' = [p \in Commands |-> Idle]
    /\ guards' = {}
    /\ UNCHANGED <<made, receipts, handoff, journal, asks>>

-----------------------------------------------------------------------------
(* A command of the operator: check or start for a handoff, reconcile for  *)
(* the journal of an unfinished operation.                                 *)
Begin(p, o) ==
    /\ SerialFree
    /\ handoff[o] # NoHandoff
    /\ \E doc \in BOOLEAN, pc \in {"admit", "load"} :
           /\ pc = "load" => journal[o].status \in {"pending", "failed"}
           /\ pc = "admit" => ~doc
           /\ To(p, [Idle EXCEPT !.pc = pc, !.op = o, !.doc = doc])
    /\ UNCHANGED <<host, journal, guards, asks>>

(* An unfinished operation does not stop a new one. *)
AdmitDespitePending(p) ==                                                \* variant
    /\ cmd[p].pc = "admit"
    /\ WorldFree
    /\ To(p, [cmd[p] EXCEPT !.pc = "preflight", !.world = TRUE])
    /\ UNCHANGED <<host, journal, guards, asks>>

(* start: nothing is pending, and the world's locks are free *)
Admit(p) ==
    /\ cmd[p].pc = "admit"
    /\ NonePending /\ WorldFree
    /\ To(p, [cmd[p] EXCEPT !.pc = "preflight", !.world = TRUE])
    /\ UNCHANGED <<host, journal, guards, asks>>

Preflight(p) ==
    LET o == cmd[p].op IN
    /\ cmd[p].pc = "preflight"
    /\ handoff[o].boot = boot
    /\ \A r \in Roles : StoppedAsHandedOff(o, r)
    /\ To(p, [cmd[p] EXCEPT !.pc = "publish"])
    /\ UNCHANGED <<host, journal, guards, asks>>

(* The first journal is complete before its directory has its name. *)
Publish(p) ==
    LET o == cmd[p].op
        first == [NoJournal EXCEPT !.status = "pending"]
    IN /\ cmd[p].pc = "publish"
       /\ journal[o] = NoJournal
       /\ journal' = [journal EXCEPT ![o] = first]
       /\ To(p, [cmd[p] EXCEPT !.pc = "continue", !.mem = first, !.known = TRUE])
       /\ UNCHANGED <<host, guards, asks>>

(* continue_under_locks, up to the decision about Cosmic *)
Continue(p) ==
    LET c == cmd[p] IN
    /\ c.pc = "continue"
    /\ c.world /\ StoppedAsHandedOff(c.op, "worker")
    /\ IF "cosmic" \in c.mem.intent
       THEN Same(p, "cosmic") /\ To(p, [c EXCEPT !.pc = "native"])
       ELSE /\ StoppedAsHandedOff(c.op, "cosmic")
            /\ To(p, [c EXCEPT !.pc = "intent", !.role = "cosmic"])
    /\ UNCHANGED <<host, journal, guards, asks>>

(* start_service: the intent is on disk before anything is run.  The       *)
(* counter is set in memory before persist() does anything.                *)
Intent(p) ==
    LET c == cmd[p]
        counted == [c.mem EXCEPT !.starts[c.role] = 1]
    IN /\ c.pc = "intent"
       /\ c.mem.starts[c.role] = 0
       /\ StoppedAsHandedOff(c.op, c.role) /\ c.world
       /\ c.role = "worker" => Same(p, "cosmic")
       /\ Persist(p, counted, [counted EXCEPT !.intent = @ \cup {c.role}],
                  [c EXCEPT !.pc = IF c.role = "worker" THEN "handoff" ELSE "launch"])

(* close_world_locks, and the worker and Cosmic are looked at once more *)
Handoff(p) ==
    LET c == cmd[p] IN
    /\ c.pc = "handoff"
    /\ StoppedAsHandedOff(c.op, "worker") /\ Same(p, "cosmic")
    /\ To(p, [c EXCEPT !.pc = "launch", !.world = FALSE])
    /\ UNCHANGED <<host, journal, guards, asks>>

(* Host.command: a guard that runs systemctl start *)
Launch(p) ==
    LET c == cmd[p] IN
    /\ c.pc = "launch"
    /\ guards' = guards \cup {Inherited(p, c.role)}
    /\ To(p, [c EXCEPT !.pc = "wait"])
    /\ UNCHANGED <<host, journal, asks>>

Systemctl(g) ==
    /\ g.role # None /\ ~g.sent
    /\ guards' = (guards \ {g}) \cup {[g EXCEPT !.sent = TRUE]}
    /\ asks' = [asks EXCEPT ![g.op][g.role] = @ + 1]
    /\ UNCHANGED <<host, journal, cmd>>

GuardReturns(g) ==
    /\ g.sent /\ cmd[g.owner].pc = "wait"
    /\ guards' = guards \ {g}
    /\ To(g.owner, [cmd[g.owner] EXCEPT !.pc = "observe"])
    /\ UNCHANGED <<host, journal, asks>>

(* The deadline, a failed command, or the operator's death: the guard ends *)
(* the group first, then itself.                                           *)
GuardStops(g) ==
    /\ guards' = guards \ {g}
    /\ IF cmd[g.owner].pc = "wait"
       THEN To(g.owner, [cmd[g.owner] EXCEPT !.pc = "fail"])
       ELSE UNCHANGED cmd
    /\ UNCHANGED <<host, journal, asks>>

(* process_identity, and it is not the instance that was stopped *)
Observe(p) ==
    LET c == cmd[p] IN
    /\ c.pc = "observe"
    /\ Fresh(c.op, c.role)
    /\ Persist(p, c.mem, [c.mem EXCEPT !.seen[c.role] = unit[c.role].inv],
               [c EXCEPT !.pc = IF c.role = "worker" THEN "finish" ELSE "native"])

(* await_native, cosmic_ready, and quiet() before the worker's turn *)
Native(p) ==
    LET c == cmd[p] IN
    /\ c.pc = "native"
    /\ c.world /\ Same(p, "cosmic")
    /\ Persist(p, c.mem, c.mem, [c EXCEPT !.pc = "intent", !.role = "worker"])

(* An idle-looking worker needs no receipt. *)
WorkerIdleUnreceipted(p) ==                                              \* variant
    Same(p, "cosmic") /\ Same(p, "worker") /\ workerLock

(* worker_idle: the worker that was seen holds its locks and was idle      *)
(* under the Cosmic that was seen.                                         *)
WorkerIdle(p) ==
    /\ Same(p, "cosmic") /\ Same(p, "worker")
    /\ workerLock
    /\ receipts[cmd[p].mem.seen["worker"]] = cmd[p].mem.seen["cosmic"]

FirstIdle(p) ==
    /\ cmd[p].pc = "finish"
    /\ WorkerIdle(p)
    /\ handoff[cmd[p].op].boot = boot
    /\ To(p, [cmd[p] EXCEPT !.pc = "complete"])
    /\ UNCHANGED <<host, journal, guards, asks>>

Complete(p) ==
    /\ cmd[p].pc = "complete"
    /\ WorkerIdle(p)
    /\ Persist(p, cmd[p].mem, [cmd[p].mem EXCEPT !.status = "completed"], Idle)

-----------------------------------------------------------------------------
(* reconcile(): what a journal must be to be taken up at all *)
WellCounted(j) ==
    \A r \in Roles : /\ (r \in j.intent) <=> (j.starts[r] = 1)
                     /\ j.seen[r] # 0 => r \in j.intent

Load(p) ==
    LET o == cmd[p].op IN
    /\ cmd[p].pc = "load"
    /\ handoff[o].boot = boot
    /\ WellCounted(journal[o])
    /\ To(p, [cmd[p] EXCEPT !.pc = "resume", !.mem = journal[o], !.known = TRUE])
    /\ UNCHANGED <<host, journal, guards, asks>>

(* After the worker's intent the world's locks are never taken again. *)
ResumeWorker(p) ==
    LET c == cmd[p] IN
    /\ c.pc = "resume" /\ "worker" \in c.mem.intent
    /\ Same(p, "cosmic")
    /\ To(p, [c EXCEPT !.pc = IF c.mem.seen["worker"] = 0 THEN "adopt" ELSE "finish",
                       !.role = "worker"])
    /\ UNCHANGED <<host, journal, guards, asks>>

ResumeCosmic(p) ==
    LET c == cmd[p] IN
    /\ c.pc = "resume" /\ "worker" \notin c.mem.intent
    /\ WorldFree /\ StoppedAsHandedOff(c.op, "worker")
    /\ To(p, [c EXCEPT !.pc = IF "cosmic" \in c.mem.intent /\ c.mem.seen["cosmic"] = 0
                              THEN "adopt" ELSE "continue",
                       !.role = "cosmic", !.world = TRUE])
    /\ UNCHANGED <<host, journal, guards, asks>>

(* adopt_observation: an uncertain start needs a document that names the   *)
(* instance that is running.                                               *)
Adopt(p) ==
    LET c == cmd[p] IN
    /\ c.pc = "adopt" /\ c.doc
    /\ Fresh(c.op, c.role)
    /\ Persist(p, c.mem, [c.mem EXCEPT !.seen[c.role] = unit[c.role].inv],
               [c EXCEPT !.pc = IF c.role = "worker" THEN "finish" ELSE "continue"])

-----------------------------------------------------------------------------
(* Raised before there is a journal of this command, or the end of check *)
Refuse(p) ==
    /\ cmd[p].pc \in OutsideTry
    /\ Leave(p)
    /\ UNCHANGED <<host, journal, guards, asks>>

(* A guard that does not end within ten seconds is left behind. *)
Raise(p) ==
    /\ cmd[p].pc \in InsideTry
    /\ To(p, [cmd[p] EXCEPT !.pc = "fail"])
    /\ UNCHANGED <<host, journal, guards, asks>>

(* failed(): the journal says so, if it is still ours and can be written *)
Failed(p) ==
    LET c == cmd[p] IN
    /\ c.pc = "fail"
    /\ \/ UNCHANGED journal
       \/ /\ c.known
          /\ journal' = [journal EXCEPT ![c.op] = [c.mem EXCEPT !.status = "failed"]]
    /\ Leave(p)
    /\ UNCHANGED <<host, guards, asks>>

(* Killed: the guard of what it was running, if any, is still there. *)
Kill(p) ==
    /\ cmd[p].pc # "idle"
    /\ guards' \in {guards} \cup
           (IF cmd[p].pc \in {"wait", "fail"} THEN {}
            ELSE {guards \cup {Inherited(p, None)}})
    /\ Leave(p)
    /\ UNCHANGED <<host, journal, asks>>

Step(p) ==
    \/ Admit(p) \/ Preflight(p) \/ Publish(p) \/ Continue(p) \/ Intent(p)
    \/ Handoff(p) \/ Launch(p) \/ Observe(p) \/ Native(p) \/ FirstIdle(p)
    \/ Complete(p) \/ Load(p) \/ ResumeWorker(p) \/ ResumeCosmic(p) \/ Adopt(p)
    \/ Refuse(p) \/ Raise(p) \/ Failed(p)

Init ==
    /\ boot = 1
    /\ unit = [r \in Roles |-> [up |-> FALSE, inv |-> 1]]
    /\ made = [r \in Roles |-> 1]
    /\ workerLock = FALSE
    /\ receipts = [w \in Instances |-> 0]
    /\ handoff = [o \in Ops |-> NoHandoff]
    /\ journal = [o \in Ops |-> NoJournal]
    /\ cmd = [p \in Commands |-> Idle]
    /\ guards = {}
    /\ asks = [o \in Ops |-> [r \in Roles |-> 0]]

Next ==
    \/ \E r \in Roles : ServiceUp(r) \/ ServiceDown(r)
    \/ WorkerLocks \/ WorkerIdles \/ Reboot
    \/ \E o \in Ops : MakeHandoff(o)
    \/ \E p \in Commands : (\E o \in Ops : Begin(p, o)) \/ Step(p) \/ Kill(p)
    \/ \E g \in guards : Systemctl(g) \/ GuardReturns(g) \/ GuardStops(g)

Spec == Init /\ [][Next]_vars

-----------------------------------------------------------------------------
TypeOK ==
    /\ boot \in 1..MaxBoots
    /\ unit \in [Roles -> [up : BOOLEAN, inv : Instances]]
    /\ made \in [Roles -> Instances]
    /\ workerLock \in BOOLEAN
    /\ receipts \in [Instances -> Instances]
    /\ handoff \in [Ops -> Handoffs]
    /\ journal \in [Ops -> Journals]
    /\ cmd \in [Commands -> CommandRecords]
    /\ guards \in SUBSET Guards
    /\ asks \in [Ops -> [Roles -> Nat]]

(* Every journal on disk can be taken up by reconcile() as far as its      *)
(* counters go, except one whose start was counted when persist() raised   *)
(* before the intent was put beside the count; that one was never started. *)
WellCountedUnlessTorn ==
    \A o \in Ops, r \in Roles :
        /\ r \in journal[o].intent => journal[o].starts[r] = 1
        /\ journal[o].seen[r] # 0 => r \in journal[o].intent
        /\ journal[o].starts[r] = 1 /\ r \notin journal[o].intent => asks[o][r] = 0

(* The lifecycle lock is one command's, or that of what a command left     *)
(* running: a killed operator's start can not meet another command.  And   *)
(* while the worker is being started, no command and no guard is in its    *)
(* way at the world's locks.                                               *)
OneOperator ==
    /\ \A p, q \in Active : p = q
    /\ \A g, h \in guards : g = h
    /\ \A g \in guards : Active \subseteq {g.owner}
    /\ (\E g \in guards : g.role = "worker") =>
           /\ \A p \in Commands : ~cmd[p].world
           /\ \A g \in guards : ~g.world

(* A service is only ever asked to start when the journal on disk says     *)
(* that it may have been, whatever was lost in between; and the worker     *)
(* only after the journal has named the Cosmic it is to work with.         *)
IntentFirst ==
    \A o \in Ops, r \in Roles :
        asks[o][r] > 0 => /\ r \in journal[o].intent
                          /\ r = "worker" => journal[o].seen["cosmic"] # 0

(* A completed restoration was witnessed: its worker, started since the    *)
(* handoff, was idle under its Cosmic, started since the handoff, and that *)
(* Cosmic was not exchanged on the way.                                    *)
CompletedWitnessed ==
    \A o \in Ops : journal[o].status = "completed" =>
        /\ journal[o].intent = Roles
        /\ \A r \in Roles : journal[o].seen[r] > handoff[o].stopped[r]
        /\ receipts[journal[o].seen["worker"]] = journal[o].seen["cosmic"]

-----------------------------------------------------------------------------
(* What makes these facts inductive.                                       *)
Open(o) == journal[o].status \in {"pending", "failed"}

(* Instances are numbered as they come, and a handoff speaks of past ones. *)
HostInv ==
    /\ \A r \in Roles : /\ made[r] # 0 /\ unit[r].inv \in {0, made[r]}
                        /\ unit[r].up => unit[r].inv = made[r]
    /\ \A o \in Ops : handoff[o] # NoHandoff =>
           \A r \in Roles : handoff[o].stopped[r] \in 1..made[r]

(* j may be o's journal: it knows of every start there was, and of those   *)
(* still to be made, and names none but new instances.                     *)
Sound(o, j) ==
    /\ IF j.status = "absent" THEN j = NoJournal ELSE handoff[o] # NoHandoff
    /\ \A r \in Roles :
           /\ r \in j.intent => j.starts[r] = 1
           /\ r \notin j.intent => asks[o][r] = 0 /\ j.seen[r] = 0
           /\ j.seen[r] # 0 => /\ handoff[o].stopped[r] < j.seen[r]
                              /\ j.seen[r] <= made[r]
           /\ \A g \in guards : g.op = o /\ g.role = r => r \in j.intent
    /\ "worker" \in j.intent => j.seen["cosmic"] # 0

(* One restoration is open, and those before it are older than what it was *)
(* handed.                                                                 *)
Latest(o) ==
    \A other \in Ops \ {o} :
        /\ ~Open(other)
        /\ \A r \in Roles : journal[other].seen[r] <= handoff[o].stopped[r]

JournalInv ==
    \A o \in Ops : /\ Sound(o, journal[o])
                   /\ Open(o) => Latest(o)
                   /\ \A r \in Roles : asks[o][r] <= 1

(* k differs from j in at most one instance, which j had not named. *)
Grows(j, k) ==
    \E r \in Roles : /\ j.seen[r] \in {0, k.seen[r]}
                     /\ \A s \in Roles \ {r} : k.seen[s] = j.seen[s]

(* What a command at a step knows of its operation *)
Knows(c) ==
    /\ c.op \in Ops /\ handoff[c.op] # NoHandoff
    /\ c.pc \in {"preflight", "publish"} => NonePending
    /\ c.pc = "publish" => Latest(c.op)
    /\ c.pc = "load" => Open(c.op)
    /\ c.pc \in InsideTry => c.known /\ c.mem = journal[c.op]
    /\ c.pc \in InsideTry \cup {"fail"} /\ c.known => Open(c.op)
    /\ c.pc = "fail" /\ c.known => Sound(c.op, c.mem) /\ Grows(journal[c.op], c.mem)
    /\ c.pc \in {"handoff", "launch", "wait", "observe", "adopt"} =>
           c.role \in c.mem.intent /\ c.mem.seen[c.role] = 0
    /\ c.pc \in {"handoff", "launch"} => asks[c.op][c.role] = 0
    /\ c.pc = "handoff" => c.role = "worker"
    /\ c.pc = "launch" /\ c.role = "worker" => ~c.world

CommandInv == \A p \in Commands : IF p \in Active THEN Knows(cmd[p]) ELSE ~cmd[p].world

(* A guard has the lifecycle lock, and a command beside it waits for it or *)
(* has given up.                                                           *)
GuardInv ==
    \A g \in guards :
        /\ g.serial /\ (g.role = "worker" => ~g.world)
        /\ g.role # None => Open(g.op)
        /\ g.role # None /\ ~g.sent => asks[g.op][g.role] = 0
        /\ \A p \in Active :
               /\ cmd[p].pc \in {"wait", "fail"} /\ cmd[p].op = g.op
               /\ g.role = "worker" => ~cmd[p].world

(* The journals on disk say enough for whoever takes them up: counters,    *)
(* intents before starts, and a completion only of what was witnessed.     *)
LifecycleInv ==
    /\ TypeOK /\ WellCountedUnlessTorn /\ IntentFirst /\ CompletedWitnessed
    /\ HostInv /\ JournalInv /\ CommandInv /\ GuardInv

(* The promise, in the terms of RestoreOnce. *)
restoreStage ==
    [o \in Ops |-> CASE journal[o].status = "absent" -> "none"
                     [] journal[o].status = "completed" -> "done"
                     [] OTHER -> "open"]
restoreNamed == [o \in Ops |-> journal[o].seen]

Promise == INSTANCE RestoreOnce WITH stage <- restoreStage, named <- restoreNamed

ImplementsRestoreOnce == Promise!Spec
=============================================================================
