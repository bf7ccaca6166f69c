-------------------------- MODULE ControllerBridge --------------------------
(***************************************************************************)
(* scripts/full_client_bridge.py: the relay between the program of a run   *)
(* and the browser that plays it; scripts/full_client_session.py, through  *)
(* which the trial backend pins and moves that browser; the HTTP server    *)
(* around both (scripts/serve-full-client.py); and the page in the browser *)
(* (ui/full-client/controller.js).                                         *)
(*                                                                         *)
(* Everything the server does under its lock is one action; the worker     *)
(* thread of a run gives the lock up between its steps, and the process    *)
(* may die between any two writes.  Frames and replies may be lost, and a  *)
(* frame the page gave up may still be handled later.  Time is left out:   *)
(* whatever is decided by an age or a deadline may go either way.          *)
(***************************************************************************)
EXTENDS Naturals

CONSTANTS
    Runs,         \* run IDs; the request ID is the same
    None,
    Modes,        \* programs asked for: "script", "api", "adaptive"
    MaxProviderCalls, \* bound: provider calls of an adaptive run
    MaxInputs,    \* bound: key commands of a run
    MaxIds,       \* bound: quarantines of a run
    MaxLate,      \* bound: given-up frames that are served later, 0 or 1 at a time
    MaxFaults,    \* bound: deaths, damage, exceptions, lost frames and reloads
    MaxTurns      \* bound: navigations asked for

ASSUME BridgeAssumption ==
    /\ None \notin Runs
    /\ Modes \subseteq {"script", "api", "adaptive"}
    /\ {MaxProviderCalls, MaxInputs, MaxLate, MaxFaults, MaxTurns} \subseteq Nat
    /\ MaxIds \in Nat \ {0}

VARIABLES
    disk,      \* disk[r]: the claim, the folder and the cancellation of r
    youngest,  \* the run whose controller.json is the youngest
    mem,       \* the memory of the server
    worker,    \* worker[r]: the thread of r
    sess,      \* SessionCoordinator
    page,      \* the browser's page
    wire,      \* the reply to the page's poll, and a poll it has given up
    calls,     \* history: calls[r] provider calls made
    launches,  \* history: launches[r] worker threads started
    faults,    \* history: how often something has gone wrong
    closed     \* history: runs whose descriptors the server itself closed

server  == <<disk, youngest, mem, worker, sess>>
browser == <<page, wire>>
history == <<calls, launches, faults, closed>>
vars == <<server, browser, history>>

-----------------------------------------------------------------------------
Terminal == {"completed", "failed"}

(* ctl is controller.json ("none" without a folder), quar the quarantine's *)
(* ID, rel what release.json acknowledges (0: there is none, 1: the        *)
(* failure, 1 + q: quarantine q), api the top-level api-request.json and   *)
(* api-response.json, rec recording.json; said: a document says that the   *)
(* provider was not called.                                                *)
Folders == [claim : BOOLEAN, cancel : BOOLEAN, said : BOOLEAN, rec : BOOLEAN,
            ctl : {"none", "missing", "corrupt", "requesting", "running"} \cup Terminal,
            quar : 0..MaxIds, rel : 0..(MaxIds + 1),
            api : {"none", "preparing", "requesting", "response"}]

NoFolder == [claim |-> FALSE, cancel |-> FALSE, said |-> FALSE, rec |-> FALSE,
             ctl |-> "none", quar |-> 0, rel |-> 0, api |-> "none"]

Commands == [run : Runs, n : 1..MaxInputs]

(* self.pending: ack is the outcome the page has reported. *)
NoInput == [run |-> None, n |-> 0, sent |-> FALSE, ack |-> "none"]

Inputs == [run : Runs, n : 1..MaxInputs, sent : BOOLEAN, ack : {"none", "ok", "bad"}]

(* release_acks, quarantines, leases; cancel_events are the live workers. *)
ColdStart == [up |-> TRUE, run |-> None, status |-> "idle", acked |-> FALSE,
              pending |-> NoInput, leases |-> {}, acks |-> {}, quars |-> {}]

Down == [ColdStart EXCEPT !.up = FALSE]

WorkerSteps == {"none", "prepare", "ask", "api", "answer", "ready", "play", "input",
                "save", "fail", "end"}

NoWorker == [pc |-> "none", mode |-> "script", inputs |-> 0, bad |-> FALSE]

(* turn is the transition, turns how many there have been (a fresh uuid). *)
NoSession(turns) == [owner |-> FALSE, want |-> "none", turn |-> 0, acked |-> FALSE,
                     at |-> "none", turns |-> turns]

(* key is activeCommand, broken that its keys were let go early, rel is    *)
(* releaseAck and the youngest of cancelledRuns, the only one a command    *)
(* can still come for, ack the acknowledgement to be sent.                 *)
NewPage(at, turn) == [at |-> at, turn |-> turn, key |-> None, broken |-> FALSE,
                      rel |-> None, ack |-> None]

NoFrame == [ack |-> None, rel |-> None, at |-> "none", turn |-> 0]

(* told is the acknowledgement that the answered frame carried. *)
NoReply == [cmd |-> None, release |-> None, nav |-> 0, want |-> "none", told |-> None]

Quiet == [replied |-> FALSE, reply |-> NoReply, late |-> NoFrame]

-----------------------------------------------------------------------------
Live == {r \in Runs : worker[r].pc # "none"}

Cancelled(r) == r # None /\ disk[r].cancel

(* Released before the worker has ended *)
Busy == \/ mem.status \in {"requesting", "running"}
        \/ Live # {} \/ mem.leases # {} \/ mem.pending # NoInput

(* previous_run_not_finalized *)
Finalized(r) == mem.status = "completed" /\ disk[r].rec

Settled == mem.run # None => mem.acked \/ Finalized(mem.run)

(* What the files tell of r's call: cancel() and _recover_incomplete().    *)
SaysNotStarted(r) == disk[r].api \in {"none", "preparing"}

Fault == faults < MaxFaults /\ faults' = faults + 1

Step(r, pc) == worker' = [worker EXCEPT ![r].pc = pc]

-----------------------------------------------------------------------------
(* Nothing is claimed, and a request is known by its settled run only. *)
MayStartUnclaimed(r) ==                                                  \* variant
    /\ mem.up
    /\ mem.quars = {} /\ ~Busy /\ ~Cancelled(r)
    /\ Cancelled(mem.run) => mem.run \in mem.acks
    /\ mem.run # None => Finalized(mem.run) \/ disk[mem.run].rel # 0

(* start(): the guards of a new controller *)
MayStart(r) ==
    /\ mem.up
    /\ ~disk[r].claim /\ disk[r].ctl = "none" /\ ~Cancelled(r)
    /\ mem.quars = {}
    /\ ~Busy
    /\ Cancelled(mem.run) => mem.run \in mem.acks
    /\ mem.run # None => Finalized(mem.run) \/ disk[mem.run].rel # 0

(* Any game page will do. *)
ConnectedUnacked == sess.owner /\ sess.at = "game" /\ sess.want = "game"   \* variant

(* A pinned browser must be in the game the last navigation asked for. *)
Connected == sess.owner /\ sess.at = "game" /\ sess.want = "game" /\ sess.acked

(* dispatch(start), dispatch(start_native) and /control/start: the claim,  *)
(* the folder, its two documents and the thread, which may not start, and  *)
(* whose failure may not be written either.  A claim or a document that    *)
(* cannot be written is StartFails.                                        *)
Start(r, leased, mode) ==
    /\ MayStart(r)
    /\ leased => Connected
    /\ youngest' = r
    /\ \/ /\ disk' = [disk EXCEPT ![r].claim = TRUE, ![r].ctl = "requesting"]
          /\ mem' = [mem EXCEPT !.run = r, !.status = "requesting", !.acked = FALSE,
                                !.leases = IF leased THEN @ \cup {r} ELSE @]
          /\ worker' = [worker EXCEPT ![r] = [NoWorker EXCEPT !.pc = "prepare", !.mode = mode]]
          /\ launches' = [launches EXCEPT ![r] = @ + 1]
       \/ /\ \E ctl \in {"failed", "requesting"} :
                 disk' = [disk EXCEPT ![r].claim = TRUE, ![r].ctl = ctl]
          /\ mem' = [mem EXCEPT !.run = r, !.status = "failed", !.acked = FALSE]
          /\ UNCHANGED <<worker, launches>>
    /\ UNCHANGED <<sess, browser, calls, faults, closed>>

(* Threads and descriptors go with the process. *)
Dies ==
    /\ mem' = Down
    /\ sess' = NoSession(sess.turns)
    /\ worker' = [r \in Runs |-> NoWorker]

(* After the claim the process dies, or a write is refused: of the folder, *)
(* of request.json or of controller.json.  Nothing handles that error, and *)
(* the server goes on with the run it had.                                 *)
StartFails(r) ==
    /\ Fault
    /\ MayStart(r)
    /\ \E ctl \in {"none", "missing", "requesting"} :
           /\ disk' = [disk EXCEPT ![r].claim = TRUE, ![r].ctl = ctl]
           /\ youngest' = IF ctl = "none" THEN youngest ELSE r
           /\ \/ Dies
              \/ ctl # "requesting" /\ UNCHANGED <<mem, worker, sess>>
    /\ UNCHANGED <<browser, calls, launches, closed>>

(* A worker raises, because it is cancelled or for any other reason: the   *)
(* program is over, nothing of it is pending.                              *)
Raise(r) ==
    /\ \/ Cancelled(r) /\ UNCHANGED faults
       \/ Fault
    /\ worker[r].pc \in {"prepare", "ask", "api", "answer", "ready", "play", "save"}
    /\ Step(r, "fail")
    /\ UNCHANGED <<disk, youngest, mem, sess, browser, calls, launches, closed>>

(* _wait_for_capture and readiness, or the first observation *)
Prepare(r) ==
    /\ worker[r].pc = "prepare"
    /\ IF worker[r].mode = "script"
       THEN Step(r, "ready") /\ UNCHANGED disk
       ELSE /\ Step(r, "ask")
            /\ disk' = IF worker[r].mode = "api"
                       THEN [disk EXCEPT ![r].api = "preparing"] ELSE disk
    /\ UNCHANGED <<youngest, mem, sess, browser, history>>

(* The call is made on what was decided before the intent was written. *)
AskUnchecked(r) ==                                                       \* variant
    /\ worker[r].pc = "ask"
    /\ Step(r, "api")
    /\ disk' = IF worker[r].mode = "api"
               THEN [disk EXCEPT ![r].api = "requesting"] ELSE disk
    /\ calls' = [calls EXCEPT ![r] = @ + 1]
    /\ UNCHANGED <<youngest, mem, sess, browser, launches, faults, closed>>

(* api_request() and, of an adaptive run, provider(): the intent, the last *)
(* look at the cancellation, and the call.                                 *)
Ask(r) ==
    /\ worker[r].pc = "ask" /\ ~Cancelled(r)
    /\ Step(r, "api")
    /\ disk' = IF worker[r].mode = "api"
               THEN [disk EXCEPT ![r].api = "requesting"] ELSE disk
    /\ calls' = [calls EXCEPT ![r] = @ + 1]
    /\ UNCHANGED <<youngest, mem, sess, browser, launches, faults, closed>>

Answer(r) ==
    /\ worker[r].pc = "api"
    /\ Step(r, "answer")
    /\ disk' = IF worker[r].mode = "api"
               THEN [disk EXCEPT ![r].api = "response"] ELSE disk
    /\ UNCHANGED <<youngest, mem, sess, browser, history>>

Validate(r) ==
    /\ worker[r].pc = "answer" /\ ~Cancelled(r)
    /\ Step(r, "ready")
    /\ UNCHANGED <<disk, youngest, mem, sess, browser, history>>

Ready(r) ==
    /\ worker[r].pc = "ready" /\ ~Cancelled(r)
    /\ Step(r, "play")
    /\ mem' = [mem EXCEPT !.status = "running"]
    /\ disk' = [disk EXCEPT ![r].ctl = "running"]
    /\ youngest' = r
    /\ UNCHANGED <<sess, browser, history>>

(* request(): one input at a time *)
Input(r) ==
    /\ worker[r].pc = "play" /\ worker[r].inputs < MaxInputs
    /\ ~Cancelled(r) /\ mem.pending = NoInput
    /\ mem' = [mem EXCEPT !.pending =
                   [run |-> r, n |-> worker[r].inputs + 1, sent |-> FALSE, ack |-> "none"]]
    /\ worker' = [worker EXCEPT ![r].pc = "input", ![r].inputs = @ + 1]
    /\ UNCHANGED <<disk, youngest, sess, browser, history>>

(* Acknowledged, refused by the page, out of time or cancelled: only an    *)
(* input that was accepted leaves the run a good one.                      *)
InputEnds(r) ==
    /\ worker[r].pc = "input"
    /\ \E bad \in BOOLEAN :
           /\ ~bad => mem.pending.ack = "ok" /\ ~Cancelled(r)
           /\ worker' = [worker EXCEPT ![r].pc = "play", ![r].bad = @ \/ bad]
    /\ mem' = [mem EXCEPT !.pending = NoInput]
    /\ UNCHANGED <<disk, youngest, sess, browser, history>>

(* The program has returned; an adaptive run may ask for another one. *)
Return(r) ==
    /\ worker[r].pc = "play"
    /\ \/ Step(r, "save") /\ UNCHANGED mem
       \/ /\ worker[r].mode = "adaptive" /\ calls[r] < MaxProviderCalls
          /\ ~worker[r].bad /\ ~Cancelled(r)
          /\ Step(r, "ask")
          /\ mem' = [mem EXCEPT !.status = "requesting"]
    /\ UNCHANGED <<disk, youngest, sess, browser, history>>

(* result.json and publication.json, then the controller's *)
Save(r) ==
    /\ worker[r].pc = "save" /\ ~Cancelled(r)
    /\ \E status \in Terminal :
           /\ status = "completed" => ~worker[r].bad
           /\ mem' = [mem EXCEPT !.status = status]
           /\ disk' = [disk EXCEPT ![r].ctl = status]
    /\ youngest' = r
    /\ Step(r, "end")
    /\ UNCHANGED <<sess, browser, history>>

(* The handler of _run: failure.json is written if it can be. *)
Fail(r) ==
    /\ worker[r].pc = "fail"
    /\ mem' = [mem EXCEPT !.status = "failed"]
    /\ disk' \in {disk, [disk EXCEPT ![r].said = @ \/ calls[r] = 0]}
    /\ Step(r, "end")
    /\ UNCHANGED <<youngest, sess, browser, history>>

(* The descriptors are closed with every worker. *)
RetainedNever(r) == FALSE                                                \* variant

(* A failed run's descriptors are closed with its worker. *)
Retained(r) == r \in mem.leases /\ mem.status = "failed" /\ r \notin mem.acks

(* finally of _run: a failed run that holds descriptors is cancelled, so   *)
(* that the browser is told to let go, and keeps them until it has; each   *)
(* of the two writes may fail.                                             *)
End(r) ==
    /\ worker[r].pc = "end"
    /\ LET cancels == r \in mem.leases /\ mem.status = "failed" /\ ~Cancelled(r)
           told == [disk EXCEPT ![r].cancel = TRUE, ![r].said = @ \/ calls[r] = 0]
       IN \E written \in {disk} \cup (IF cancels THEN {told} ELSE {}) :
              \/ /\ disk' = [written EXCEPT ![r].ctl = mem.status]
                 /\ youngest' = r
                 /\ mem' = [mem EXCEPT !.leases = IF Retained(r) THEN @ ELSE @ \ {r}]
              \/ /\ disk' = written
                 /\ mem' = [mem EXCEPT !.leases = IF Retained(r) THEN @ ELSE @ \ {r},
                                       !.status = "failed"]
                 /\ UNCHANGED youngest
    /\ closed' = IF r \in mem.leases /\ ~Retained(r) THEN closed \cup {r} ELSE closed
    /\ worker' = [worker EXCEPT ![r] = NoWorker]
    /\ UNCHANGED <<sess, browser, calls, launches, faults>>

-----------------------------------------------------------------------------
(* cancel(): the intent first; a cancelled call is said not to have begun  *)
(* by what the files tell of it.  The last write may fail.                 *)
Cancel(r) ==
    /\ mem.up
    /\ LET mine == mem.run = r /\ mem.status # "completed"
           tells == mine \/ ~Cancelled(r)
       IN /\ \E saved \in {FALSE, mine} :
                 /\ disk' = [disk EXCEPT ![r].cancel = TRUE,
                                         ![r].said = @ \/ (tells /\ SaysNotStarted(r)),
                                         ![r].ctl = IF saved THEN "failed" ELSE @]
                 /\ youngest' = IF saved THEN r ELSE youngest
          /\ mem' = [mem EXCEPT !.status = IF mine THEN "failed" ELSE @,
                                !.acked = @ \/ mine,
                                !.pending.ack = IF mem.pending.run = r THEN "bad" ELSE @]
    /\ UNCHANGED <<worker, sess, browser, history>>

(* failure_release(): what release.json must say *)
Wanted(r) == IF disk[r].quar = 0 THEN 1 ELSE 1 + disk[r].quar

(* release_failed_run(): the receipt is created once, for a quarantined    *)
(* run or for the failed or unrecorded one in memory.  What follows it may *)
(* not be written; a quarantined run is then still held, the one in memory *)
(* acknowledged or not.                                                    *)
Release(r) ==
    /\ mem.up /\ mem.pending = NoInput
    /\ mem.run \notin Live /\ r \notin Live /\ r \notin mem.leases
    /\ \/ r \in mem.quars
       \/ mem.run = r /\ mem.status \in Terminal /\ ~Finalized(r)
    /\ disk[r].rel \in {0, Wanted(r)}
    /\ LET receipt == [disk EXCEPT ![r].rel = Wanted(r)]
           released == [mem EXCEPT !.quars = @ \ {r}, !.acked = @ \/ mem.run = r,
                                   !.status = IF mem.run = r THEN "failed" ELSE @]
       IN \/ /\ disk' = [receipt EXCEPT ![r].ctl = "failed"]
             /\ youngest' = r
             /\ mem' = released
             /\ UNCHANGED <<worker, sess>>
          \/ /\ disk' = receipt
             /\ UNCHANGED youngest
             /\ \/ Dies
                \/ /\ mem' \in {mem} \cup (IF r \in mem.quars THEN {} ELSE {released})
                   /\ UNCHANGED <<worker, sess>>
    /\ UNCHANGED <<browser, history>>

(* attach_recording(), however late *)
Upload(r) ==
    /\ mem.up /\ disk[r].ctl # "none"
    /\ disk' = [disk EXCEPT ![r].rec = TRUE]
    /\ UNCHANGED <<youngest, mem, worker, sess, browser, history>>

-----------------------------------------------------------------------------
Die ==
    /\ Fault
    /\ mem.up
    /\ Dies
    /\ UNCHANGED <<disk, youngest, browser, calls, launches, closed>>

(* controller.json of a stopped server is unreadable or gone, which may    *)
(* make its folder the youngest.                                           *)
Corrupt(r) ==
    /\ Fault
    /\ ~mem.up /\ disk[r].ctl \notin {"none", "missing", "corrupt"} /\ disk[r].quar < MaxIds
    /\ \E ctl \in {"missing", "corrupt"} : disk' = [disk EXCEPT ![r].ctl = ctl]
    /\ youngest' \in {youngest, r}
    /\ UNCHANGED <<mem, worker, sess, browser, calls, launches, closed>>

Known == {r \in Runs : disk[r].ctl # "none"}
Torn == {r \in Known : disk[r].ctl \in {"missing", "corrupt"}}
QuarantineId(r) == IF r \in Torn THEN disk[r].quar + 1 ELSE disk[r].quar

(* Only what this start has found unreadable is held. *)
HeldNewly == Torn                                                        \* variant

(* Quarantines without the receipt that names them *)
Held == {r \in Known : QuarantineId(r) # 0 /\ disk[r].rel # 1 + QuarantineId(r)}

Cut == {r \in Known : disk[r].ctl \in {"requesting", "running"}}

(* _recover_incomplete(): the server takes up the folder that was the      *)
(* youngest before it rewrote any; the run whose worker had not ended is    *)
(* rewritten with the broken ones, in any order.                           *)
Recover ==
    /\ ~mem.up
    /\ LET broken == Torn \cup Held \cup Cut
           Of(r) == [disk[r] EXCEPT
                        !.ctl = IF r \in broken THEN "failed" ELSE @,
                        !.quar = QuarantineId(r),
                        !.said = @ \/ (r \in Cut \ Held /\ disk[r].api = "none")]
       IN /\ disk' = [r \in Runs |-> Of(r)]
          /\ youngest' \in broken \cup {youngest}
          /\ \E acked \in BOOLEAN :
                 /\ acked => youngest # None /\ (disk[youngest].cancel \/ disk[youngest].rel # 0)
                 /\ mem' = [ColdStart EXCEPT
                               !.run = youngest, !.acked = acked, !.quars = Held,
                               !.status = IF youngest = None THEN @ ELSE Of(youngest).ctl]
    /\ UNCHANGED <<worker, sess, browser, history>>

-----------------------------------------------------------------------------
(* SessionCoordinator._active() *)
Active(m) == \/ m.status \in {"requesting", "running"}
             \/ m.run \in Live \/ m.run \in m.leases \/ m.pending # NoInput

(* navigate(): prepare_wait, disconnect and connect; asking again for the  *)
(* same page changes nothing.                                              *)
Navigate(want) ==
    /\ mem.up /\ ~Active(mem) /\ sess.at # "none"
    /\ want = "game" => sess.owner /\ sess.at = "waiting"
    /\ sess.want # want /\ sess.turns < MaxTurns
    /\ sess' = [sess EXCEPT !.owner = TRUE, !.want = want, !.acked = FALSE,
                            !.turn = sess.turns + 1, !.turns = @ + 1]
    /\ UNCHANGED <<disk, youngest, mem, worker, browser, history>>

(* The page's acknowledgement of the pending input: it counts, counts as   *)
(* refused (a stale frame, too short a hold), or is too late.              *)
Acked(f) ==
    LET p == mem.pending
    IN {p.ack} \cup IF p.sent /\ f.ack # None /\ f.ack.run = p.run /\ f.ack.n = p.n
                    THEN {"bad"} \cup (IF f.ack.ok THEN {"ok"} ELSE {}) ELSE {}

Command == [run |-> mem.pending.run, n |-> mem.pending.n]

(* A navigation that waits for an idle page whose artifacts are settled; a *)
(* page that is still capturing is not told.                               *)
MayLeave == sess.owner /\ sess.turn # 0 /\ ~sess.acked /\ ~Active(mem) /\ Settled

Sendable(f) == /\ f.at = "game" /\ mem.pending # NoInput
               /\ ~mem.pending.sent /\ ~Cancelled(mem.pending.run)

(* frame() of the bridge and then of the session, in one hold of the lock: *)
(* the input's acknowledgement, the browser's release of a cancelled run,  *)
(* the next command, and whether the page may leave.  Nobody waits for the *)
(* reply to a late frame.                                                  *)
Serve(f, late) ==
    /\ mem.up
    /\ UNCHANGED <<worker, page, calls, launches, faults>>
    /\ LET r == mem.run
           lets == f.rel = r /\ Cancelled(r)
           frees == lets /\ r \notin Live
       IN /\ closed' = IF frees THEN closed \cup (mem.leases \cap {r}) ELSE closed
          /\ disk' = IF frees THEN [disk EXCEPT ![r].ctl = mem.status] ELSE disk
          /\ youngest' = IF frees THEN r ELSE youngest
          /\ sess' = [sess EXCEPT !.at = f.at,
                                  !.acked = IF sess.turn = 0 THEN @
                                            ELSE f.turn = sess.turn /\ f.at = sess.want]
          /\ \E ack \in Acked(f), send \in {FALSE, Sendable(f)} :
                 /\ mem' = [mem EXCEPT !.pending.ack = ack, !.pending.sent = @ \/ send,
                                       !.acks = IF lets THEN @ \cup {r} ELSE @,
                                       !.leases = IF frees THEN @ \ {r} ELSE @]
                 /\ \E nav \in {0, IF MayLeave' THEN sess.turn ELSE 0} :
                        wire' = IF late THEN [wire EXCEPT !.late = NoFrame]
                                ELSE [wire EXCEPT
                                         !.replied = TRUE,
                                         !.reply = [cmd |-> IF send THEN Command ELSE None,
                                                    release |-> IF Cancelled(r) THEN r ELSE None,
                                                    nav |-> nav, want |-> sess.want,
                                                    told |-> f.ack]]

(* poll(): what the page has to say.  Between the fetch and its arrival    *)
(* the page can only go on in ways the server does not see, so that a poll *)
(* is served when it is sent, unless it is given up.                       *)
Frame == [ack |-> page.ack, rel |-> page.rel, at |-> page.at, turn |-> page.turn]

Poll == ~wire.replied /\ Serve(Frame, FALSE)

ServeLate == wire.late # NoFrame /\ Serve(wire.late, TRUE)

-----------------------------------------------------------------------------
(* The fetch has failed or is out of time: the keys are let go.  Its frame *)
(* was served, is lost, or will be served some time.                       *)
GiveUp ==
    /\ Fault
    /\ \E late \in {wire.late} \cup (IF wire.replied \/ MaxLate = 0 THEN {} ELSE {Frame}) :
           wire' = [Quiet EXCEPT !.late = late]
    /\ page' = [page EXCEPT !.broken = page.key # None]
    /\ UNCHANGED <<server, calls, launches, closed>>

(* What follows the reply: a release first, a command only without one and *)
(* with nothing held, a navigation when the page is not busy.  A command   *)
(* may be refused, of a cancelled run it is.                               *)
Receive ==
    /\ wire.replied
    /\ LET told == wire.reply.release
           cmd == wire.reply.cmd
           taken == cmd # None /\ told = None /\ page.key = None
           heard == [page EXCEPT
                        !.ack = IF @ = wire.reply.told THEN None ELSE @,
                        !.rel = IF told = None THEN @ ELSE told,
                        !.broken = IF told = None THEN @ ELSE page.key # None]
       IN \/ /\ taken /\ cmd.run # page.rel
             /\ page' = [heard EXCEPT !.key = cmd, !.broken = FALSE]
          \/ /\ taken
             /\ page' = [heard EXCEPT !.ack = [run |-> cmd.run, n |-> cmd.n, ok |-> FALSE]]
          \/ /\ ~taken
             /\ page' = heard
          \/ /\ ~taken /\ wire.reply.nav # 0
             /\ page.at = "game" => wire.reply.want = "waiting" /\ page.key = None
             /\ page' = NewPage(wire.reply.want, wire.reply.nav)
    /\ wire' = [Quiet EXCEPT !.late = wire.late]
    /\ UNCHANGED <<server, history>>

(* releaseAll(): hidden, blurred, stale, or the operator's button *)
Interrupt ==
    /\ page.key # None /\ ~page.broken
    /\ page' = [page EXCEPT !.broken = TRUE]
    /\ UNCHANGED <<server, wire, history>>

(* The end of executeInput() *)
KeyUp ==
    /\ page.key # None
    /\ \E ok \in BOOLEAN :
           /\ ok => ~page.broken
           /\ page' = [page EXCEPT !.key = None, !.broken = FALSE,
                                   !.ack = [run |-> page.key.run, n |-> page.key.n, ok |-> ok]]
    /\ UNCHANGED <<server, wire, history>>

(* game_entry_redirect(): a pinned browser enters the game only by the     *)
(* current transition; history may bring back any page.                    *)
Load(at, turn) ==
    /\ Fault
    /\ wire' = [Quiet EXCEPT !.late = wire.late]
    /\ page' = NewPage(at, turn)
    /\ UNCHANGED <<server, calls, launches, closed>>

Reload(at, turn) ==
    /\ mem.up /\ turn <= sess.turns
    /\ at = "game" /\ sess.owner => sess.want = "game" /\ turn = sess.turn
    /\ Load(at, turn)

Reopen(turn) == turn <= sess.turns /\ Load("game", turn)

-----------------------------------------------------------------------------
Init ==
    /\ disk = [r \in Runs |-> NoFolder]
    /\ youngest = None
    /\ mem = ColdStart
    /\ worker = [r \in Runs |-> NoWorker]
    /\ sess = NoSession(0)
    /\ page = NewPage("game", 0)
    /\ wire = Quiet
    /\ calls = [r \in Runs |-> 0]
    /\ launches = [r \in Runs |-> 0]
    /\ faults = 0
    /\ closed = {}

Work(r) == \/ Raise(r) \/ Prepare(r) \/ Ask(r) \/ Answer(r) \/ Validate(r) \/ Ready(r)
           \/ Input(r) \/ InputEnds(r) \/ Return(r) \/ Save(r) \/ Fail(r) \/ End(r)

Operate(r) == Cancel(r) \/ Release(r) \/ Upload(r)

Browse == \/ Poll \/ ServeLate \/ GiveUp \/ Receive \/ Interrupt \/ KeyUp
          \/ \E turn \in 0..MaxTurns : Reopen(turn) \/ \E at \in {"game", "waiting"} : Reload(at, turn)

Next ==
    \/ \E r \in Runs : \/ \E leased \in BOOLEAN, mode \in Modes : Start(r, leased, mode)
                       \/ StartFails(r) \/ Work(r) \/ Operate(r) \/ Corrupt(r)
    \/ Die \/ Recover \/ Browse
    \/ \E want \in {"waiting", "game"} : Navigate(want)

Spec == Init /\ [][Next]_vars

-----------------------------------------------------------------------------
(* Damaged evidence that the operator has not yet acknowledged *)
Damaged == {r \in Runs : disk[r].quar # 0 /\ disk[r].rel # 1 + disk[r].quar}

PageActs == page.key # None /\ ~page.broken

Memory == [up : BOOLEAN, run : Runs \cup {None}, acked : BOOLEAN,
           status : {"idle", "requesting", "running"} \cup Terminal,
           pending : Inputs \cup {NoInput}, leases : SUBSET Runs, acks : SUBSET Runs,
           quars : SUBSET Runs]

Workers == [pc : WorkerSteps, mode : {"script", "api", "adaptive"},
            inputs : 0..MaxInputs, bad : BOOLEAN]

Places == {"none", "waiting", "game"}

Sessions == [owner : BOOLEAN, want : Places, turn : Nat, acked : BOOLEAN, at : Places,
             turns : Nat]

Acks == [run : Runs, n : 1..MaxInputs, ok : BOOLEAN] \cup {None}

Pages == [at : Places, turn : Nat, key : Commands \cup {None}, broken : BOOLEAN,
          rel : Runs \cup {None}, ack : Acks]

Frames == [ack : Acks, rel : Runs \cup {None}, at : Places, turn : Nat]

Replies == [cmd : Commands \cup {None}, release : Runs \cup {None}, nav : Nat,
            want : Places, told : Acks]

TypeOK ==
    /\ disk \in [Runs -> Folders]
    /\ youngest \in Runs \cup {None}
    /\ mem \in Memory
    /\ worker \in [Runs -> Workers]
    /\ sess \in Sessions
    /\ page \in Pages
    /\ wire \in [replied : BOOLEAN, reply : Replies, late : Frames]
    /\ calls \in [Runs -> Nat] /\ launches \in [Runs -> Nat]
    /\ faults \in 0..MaxFaults /\ closed \subseteq Runs

(* The bridge has one worker at a time: the thread, the lock descriptors   *)
(* and the pending input all belong to the run in memory, and die with the *)
(* server.  A run is held for quarantine at least while its own receipt is *)
(* missing, and what the server has not read since it was started can only *)
(* be a start of its own that failed, and launched nothing.                *)
(* Code: start(), request() and _recover_incomplete().                     *)
OneWorker ==
    /\ Live \cup mem.leases \subseteq {mem.run}
    /\ mem.pending # NoInput => mem.pending.run \in Live
    /\ ~mem.up => Live = {} /\ mem.leases = {}
    /\ mem.up => /\ Damaged \subseteq mem.quars /\ \A r \in mem.quars : disk[r].quar # 0
                 /\ \A r \in Torn : launches[r] = 0

(* A request has one controller and, but for an adaptive one, one provider *)
(* call, however often it is sent again and the server restarted, also     *)
(* when the server died between the claim and the folder.  Code: the claim *)
(* of start().                                                             *)
OneController ==
    \A r \in Runs : /\ launches[r] <= 1
                    /\ calls[r] > 0 => launches[r] = 1
                    /\ disk[r].api # "none" => calls[r] <= 1

(* The world's locks are not let go by the server while the browser may    *)
(* still be pressing a key of that run: a failed run keeps them until the  *)
(* page has said that it has released everything.  Code: the finally of    *)
(* _run() and the releaseAck of frame().                                   *)
LeaseOutlivesInput == PageActs => page.key.run \notin closed

(* No document says that the provider was not called when it was, in any   *)
(* order of the cancellation, the two writes of the intent and the call.   *)
(* Code: api_request() and cancel(); an adaptive run keeps its intents     *)
(* elsewhere and is not covered.                                           *)
OutcomeHonest ==
    \A r \in Runs : disk[r].said /\ disk[r].api # "none" => calls[r] = 0

(* A page is not told to leave the game once a run with the world's locks  *)
(* has begun, whatever frames were lost or late on the way.  Code:         *)
(* SessionCoordinator.frame(), navigate() and dispatch().                  *)
Undisturbed ==
    wire.replied /\ wire.reply.nav # 0 /\ wire.reply.want = "waiting"
        => mem.leases = {}

(* No controller begins while the evidence of another is damaged and waits *)
(* for the operator, not after any number of restarts either.  The one     *)
(* folder without a readable controller.json that it may begin over is     *)
(* that of a start which failed in this same server and launched nothing:  *)
(* it is found, and held, by the next restart only.                        *)
(* Code: the quarantines of _recover_incomplete() and start().             *)
NoStartOverDamage ==
    [][\A r \in Runs : launches'[r] > launches[r] =>
           Damaged = {} /\ \A t \in Torn : launches[t] = 0]_vars

(* What the server has in memory is what it wrote and what the page was    *)
(* told, in every run that is relayed.                                     *)
BridgeInv == TypeOK /\ OneWorker /\ Undisturbed

-----------------------------------------------------------------------------
(* What makes these facts inductive *)

(* A run that was not claimed has left nothing anywhere; its folder, once  *)
(* made, stays.                                                            *)
FolderInv ==
    /\ youngest # None => disk[youngest].ctl # "none"
    /\ \A r \in Runs :
          /\ disk[r].ctl = "none" => disk[r].quar = 0
          /\ disk[r].ctl \in {"missing", "corrupt"} => disk[r].quar < MaxIds
          /\ ~disk[r].claim => /\ launches[r] = 0 /\ calls[r] = 0 /\ disk[r].api = "none"
                               /\ disk[r].ctl = "none" /\ (disk[r].said => disk[r].cancel)
          /\ worker[r].pc # "none" => disk[r].claim /\ launches[r] = 1 /\ disk[r].ctl # "none"

(* The call of a run follows its documents, and the documents the call.    *)
CallInv ==
    \A r \in Runs :
        /\ disk[r].api = "preparing" => calls[r] = 0
        /\ worker[r].pc # "none" /\ worker[r].mode # "api" => disk[r].api = "none"
        /\ worker[r].pc # "none" /\ worker[r].mode = "api" =>
               /\ worker[r].pc = "prepare" => disk[r].api = "none" /\ calls[r] = 0
               /\ worker[r].pc = "ask" => disk[r].api = "preparing"
               /\ worker[r].pc = "api" => disk[r].api = "requesting"
        /\ worker[r].pc # "none" /\ disk[r].said => disk[r].cancel \/ worker[r].pc = "end"

(* The worker, the status and the input in memory are of one run.          *)
WorkInv ==
    /\ OneWorker
    /\ mem.run # None => mem.status # "idle" /\ disk[mem.run].ctl # "none"
    /\ ~mem.up => mem.pending = NoInput
    /\ mem.pending # NoInput =>
           /\ worker[mem.pending.run].pc = "input"
           /\ worker[mem.pending.run].inputs = mem.pending.n
           /\ mem.pending.ack = "ok" => mem.pending.sent
    /\ \A r \in Runs :
          worker[r].pc = "end" =>
              mem.status \in Terminal /\ (mem.status = "completed" => ~worker[r].bad)

(* The page has heard that r is over, and will act on nothing of it. *)
Silent(r) ==
    /\ wire.reply.cmd # None => wire.reply.cmd.run # r
    /\ PageActs => page.key.run # r

(* Commands on their way to the page, or held by it, and what the page has *)
(* to say of earlier ones                                                  *)
Commanded == {wire.reply.cmd, page.key} \ {None}
Reported == {page.ack, wire.late.ack} \ {None}

(* The command of the pending input is new: whatever is under way of its   *)
(* run is older.                                                           *)
Fresh(c) ==
    /\ disk[c.run].claim
    /\ worker[c.run].pc # "none" => c.n <= worker[c.run].inputs
    /\ mem.pending.run = c.run /\ ~mem.pending.sent => c.n < mem.pending.n

(* Until its run has gone bad, a command is that of the pending input, and *)
(* not accepted while the page may still act on it.                        *)
Current(c) ==
    worker[c.run].pc # "none" /\ ~worker[c.run].bad =>
        /\ mem.pending.run = c.run /\ mem.pending.n = c.n
        /\ mem.pending.sent /\ mem.pending.ack # "ok"

InputInv ==
    /\ \A c \in Commanded : Fresh(c) /\ Current(c)
    /\ wire.reply.cmd # None => wire.reply.cmd # page.key
    /\ \A a \in Reported :
          /\ Fresh(a)
          /\ a.ok => \A c \in Commanded : c.run # a.run \/ c.n # a.n

(* Descriptors are closed, and a release is said, of runs that are silent. *)
LeaseInv ==
    /\ \A r \in closed : worker[r].pc = "none" /\ disk[r].claim /\ Silent(r)
    /\ \A r \in Runs :
          /\ r \in mem.acks \/ r \in {page.rel, wire.late.rel} => disk[r].cancel /\ Silent(r)
          /\ wire.reply.release = r => disk[r].cancel /\ wire.reply.cmd = None

(* A page that was told to leave the game has not been told to enter it    *)
(* since: nobody knows a transition before it is made.                     *)
TurnInv ==
    /\ {sess.turn, page.turn, wire.late.turn, wire.reply.nav} \subseteq 0..sess.turns
    /\ wire.replied /\ wire.reply.nav # 0 /\ wire.reply.want = "waiting" /\ sess.want = "game"
           => wire.late.turn < sess.turn /\ ~sess.acked
    /\ ~wire.replied => wire.reply = NoReply

(* All of it *)
RelayInv == /\ BridgeInv /\ OneController /\ OutcomeHonest
            /\ FolderInv /\ CallInv /\ WorkInv /\ InputInv /\ LeaseInv /\ TurnInv

=============================================================================
