-------------------------- MODULE ProgramController --------------------------
(***************************************************************************)
(* The loops that let a model play: run_agent of scripts/maple_agent.py    *)
(* (serial, or continuous: the last program acts on while the next plan is *)
(* asked for) and run_adaptive of scripts/full_client_adaptive.py (cycles  *)
(* of observation, call and program under one deadline, with or without    *)
(* the full-horizon policy).  All of them hand the model's code to the     *)
(* same executor (_execute_program), which sends its inputs to the client  *)
(* one at a time.                                                          *)
(*                                                                         *)
(* Time is one clock with three marks: open, closing (too little is left   *)
(* for a new call under the horizon policy) and over (the deadline).  A    *)
(* program is a budget, its counts and how it ended; what it says is left  *)
(* out.  The process may die at any step: saved is what survives it.       *)
(***************************************************************************)
EXTENDS Naturals, FiniteSets

CONSTANTS
    ControlModes, \* the ways of control explored
    MaxCalls,     \* max_calls, max_api_requests
    MaxActions,   \* max_actions
    MaxTokens,    \* max_total_tokens
    MaxRequests,  \* max_requests of a program, max_sdk_requests of a run
    Reserve       \* what one call may cost: prompt, schema and capped output

AllModes == {"serial", "continuous", "adaptive", "horizon"}

ASSUME ControllerAssumption ==
    /\ ControlModes \subseteq AllModes
    /\ {MaxCalls, MaxActions, MaxRequests, Reserve} \subseteq Nat \ {0}
    /\ MaxTokens \in Nat

VARIABLES
    mode,       \* control_mode, or the adaptive protocol without or with horizon
    clock,      \* how much of wall_seconds is left
    pc, turn,   \* the controller: where it is, turns or cycles begun
    progs,      \* the program of each turn
    active,     \* the program left running (continuous); 0 is None
    cancelled,  \* the bridge's cancel event
    counters,   \* what the controller has counted
    trace,      \* status, reason and the API outcome of each turn
    saved,      \* the saved trace and counters
    alive,      \* the process lives
    called,     \* history: turns whose provider call was really made
    sent,       \* history: inputs really sent to the client
    landed      \* history: inputs the client really performed

loopVars == <<mode, clock, pc, turn, progs, active, cancelled, counters, trace,
              saved, alive, called, sent, landed>>
world == <<called, sent, landed>>
process == <<mode, clock, cancelled, alive>>

Turns == 1..MaxCalls
Adaptive == mode \in {"adaptive", "horizon"}
Over == clock = "over"
WindowOpen == mode = "horizon" => clock = "open"

Terminals == {"death", "completed", "time_limit", "action_limit",
              "infrastructure_error"}
Passive == {"request_window_closed", "api_request_limit", "action_limit",
            "sdk_request_limit", "token_reservation_limit"}

NoProgram == [st |-> "none", limit |-> 0, allowance |-> 0, requests |-> 0,
              attempts |-> 0, actions |-> 0, sending |-> FALSE,
              doubt |-> FALSE, cancel |-> FALSE, reason |-> "none"]
NoCounts == [calls |-> 0, reserved |-> 0, used |-> 0, attempts |-> 0,
             actions |-> 0, requests |-> 0]
NoTrace == [status |-> "running", reason |-> "none",
            outcome |-> [t \in Turns |-> "none"]]

LoopInit ==
    /\ mode \in ControlModes
    /\ clock = "open"
    /\ pc = "top" /\ turn = 0 /\ active = 0
    /\ progs = [t \in Turns |-> NoProgram]
    /\ cancelled = FALSE /\ alive = TRUE
    /\ counters = NoCounts
    /\ trace = NoTrace
    /\ saved = [trace |-> NoTrace, counters |-> NoCounts]
    /\ called = {} /\ sent = 0 /\ landed = 0

(***************************************************************************)
(* The executor.                                                           *)
(***************************************************************************)

\* cancel_event: the bridge's in an adaptive run, the harvest's otherwise.
Stopped(p) == IF Adaptive THEN cancelled ELSE p.cancel

Listening(t) == /\ alive
                /\ progs[t].st = "running"
                /\ ~progs[t].sending

\* The program is at its next SDK request: neither stopped nor out of time.
Asks(t) == Listening(t) /\ ~Stopped(progs[t]) /\ ~Over

Ended(p, why) == [p EXCEPT !.st = "ended", !.reason = why]
Asked(p) == [p EXCEPT !.requests = @ + 1]

Executor(t, p) ==
    /\ progs' = [progs EXCEPT ![t] = p]
    /\ UNCHANGED <<process, pc, turn, active, counters, trace, saved, called>>

\* One request too many ends the program.
Exhausts(t) ==
    /\ Asks(t)
    /\ progs[t].requests = progs[t].allowance
    /\ Executor(t, Ended(progs[t], "rpc_limit"))
    /\ UNCHANGED <<sent, landed>>

\* A request that sends no input: an observation, a wait, one refused by
\* validate_rpc.  An observation may show the end, or fail.
Looks(t) ==
    LET p == Asked(progs[t]) IN
    /\ Asks(t)
    /\ progs[t].requests < progs[t].allowance
    /\ \/ Executor(t, p)
       \/ Executor(t, Ended(p, "death"))
       \/ ~Adaptive /\ Executor(t, Ended(p, "completed"))
       \/ Executor(t, Ended([p EXCEPT !.doubt = TRUE], "infrastructure_error"))
    /\ UNCHANGED <<sent, landed>>

\* An input is counted as attempted before it is sent.
Sends(t) ==
    /\ Asks(t)
    /\ progs[t].requests < progs[t].allowance
    /\ progs[t].attempts < progs[t].limit
    /\ Executor(t, [Asked(progs[t]) EXCEPT !.attempts = @ + 1, !.sending = TRUE])
    /\ sent' = sent + 1
    /\ UNCHANGED landed

OverLimit(t) ==
    /\ Asks(t)
    /\ progs[t].requests < progs[t].allowance
    /\ progs[t].attempts = progs[t].limit
    /\ Executor(t, Ended(Asked(progs[t]), "action_limit"))
    /\ UNCHANGED <<sent, landed>>

\* The client accepts the input, or refuses it, or no answer arrives, and
\* then nobody knows whether it was performed.
Answers(t) ==
    LET p == [progs[t] EXCEPT !.sending = FALSE]
        yes == [p EXCEPT !.actions = @ + 1]
    IN
    /\ alive /\ progs[t].st = "running" /\ progs[t].sending
    /\ UNCHANGED sent
    /\ \/ /\ \/ Executor(t, yes)
             \/ Executor(t, Ended(yes, "death"))
             \/ ~Adaptive /\ Executor(t, Ended(yes, "completed"))
          /\ landed' = landed + 1
       \/ /\ Executor(t, [p EXCEPT !.doubt = TRUE])
          /\ UNCHANGED landed
       \/ /\ Executor(t, Ended([p EXCEPT !.doubt = TRUE],
                               IF Stopped(p) THEN "replaced"
                               ELSE "infrastructure_error"))
          /\ landed' \in {landed, landed + 1}

\* The program returns or throws.
Returns(t) == /\ Asks(t)
              /\ Executor(t, Ended(progs[t], "program_complete"))
              /\ UNCHANGED <<sent, landed>>

\* variant
\* Wrong: only a cancellation ends a program that does not return.
LeaseOnCancel(t) ==
    /\ Listening(t) /\ Stopped(progs[t])
    /\ Executor(t, Ended(progs[t], "replaced"))
    /\ UNCHANGED <<sent, landed>>

\* The executor's loop sees the cancellation, the deadline or the end of the
\* program's own time, whatever the program does.
LeaseEnds(t) ==
    /\ Listening(t)
    /\ Executor(t, Ended(progs[t], IF Stopped(progs[t]) THEN "replaced"
                                   ELSE IF Over THEN "time_limit"
                                   ELSE "program_timeout"))
    /\ UNCHANGED <<sent, landed>>

\* An exception leaves the executor: the evidence limit of the step callback,
\* an answer that is no object, a sandbox that cannot be killed.
Raises(t) ==
    /\ Listening(t) /\ progs[t].requests > 0
    /\ Executor(t, Ended(progs[t], "raised"))
    /\ UNCHANGED <<sent, landed>>

(***************************************************************************)
(* What both loops do.                                                     *)
(***************************************************************************)

At(where) == alive /\ pc = where
To(where) == pc' = where

SaveTrace == saved' = [trace |-> trace', counters |-> counters']

\* What the controller knows of a running program: its step callback runs when
\* a step is complete, so the input on its way is missing.
Seen(p) == p.attempts - (IF p.sending THEN 1 ELSE 0)

Remaining(c) == MaxActions - c.attempts

Launch(t) ==
    progs' = [progs EXCEPT ![t] =
        [NoProgram EXCEPT !.st = "running", !.limit = Remaining(counters),
            !.allowance = IF Adaptive THEN MaxRequests - counters.requests
                          ELSE MaxRequests]]

\* record_execution, and the same sums of an adaptive cycle
Tally(p) ==
    [counters EXCEPT !.attempts = @ + p.attempts, !.actions = @ + p.actions,
                     !.requests = @ + p.requests]

\* Of a program that was joined nothing is looked at again.
Forget(t) == [progs EXCEPT ![t] =
                [NoProgram EXCEPT !.st = "joined",
                    !.reason = IF progs[t].reason = "raised"
                               THEN "raised" ELSE "none"]]

(***************************************************************************)
(* run_agent.                                                              *)
(***************************************************************************)

Loop(where) == ~Adaptive /\ At(where)

Ends(why) == /\ To("final")
             /\ trace' = [trace EXCEPT !.reason = why]

\* The program left running while the loop goes on
Background == IF active = 0 THEN "none" ELSE progs[active].st

\* A program that ended: its reason, as the harvest reports it
Verdict(p) == IF p.reason = "raised" THEN "infrastructure_error" ELSE p.reason

\* The program in the background is joined, and its counts are taken over.
Harvest == /\ counters' = Tally(progs[active])
           /\ progs' = Forget(active)
           /\ active' = 0

\* The next turn waits some seconds for the running program, and goes on
\* whether it ended or not.
TurnTop ==
    /\ Loop("top") /\ turn < MaxCalls
    /\ UNCHANGED <<process, turn, saved, world>>
    /\ \/ /\ Background \in {"none", "running"}
          /\ To("observe") /\ UNCHANGED <<progs, active, counters, trace>>
       \/ /\ Background = "ended"
          /\ Harvest
          /\ IF Verdict(progs[active]) \in Terminals
             THEN Ends(Verdict(progs[active]))
             ELSE To("observe") /\ UNCHANGED trace

TurnObserve ==
    /\ Loop("observe")
    /\ UNCHANGED <<process, turn, progs, active, counters, saved, world>>
    /\ \/ Over /\ Ends("time_limit")
       \/ /\ ~Over
          /\ \/ To("plan") /\ UNCHANGED trace
             \/ \E why \in {"death", "completed", "infrastructure_error"} :
                    Ends(why)

\* The budget is judged while the program in the background may act on.
Spent == counters.attempts + (IF active # 0 THEN Seen(progs[active]) ELSE 0)

TurnPlan ==
    /\ Loop("plan")
    /\ UNCHANGED <<process, progs, active, saved, sent, landed>>
    /\ \/ /\ Spent >= MaxActions
          /\ Ends("action_limit") /\ UNCHANGED <<turn, counters, called>>
       \/ /\ Spent < MaxActions /\ counters.used + Reserve > MaxTokens
          /\ Ends("budget_limit") /\ UNCHANGED <<turn, counters, called>>
       \/ /\ Spent < MaxActions /\ counters.used + Reserve <= MaxTokens
          /\ IF Over THEN Ends("time_limit") /\ UNCHANGED <<turn, counters, called>>
             ELSE /\ turn' = turn + 1
                  /\ counters' = [counters EXCEPT !.calls = @ + 1]
                  /\ called' = called \cup {turn + 1}
                  /\ To("asking") /\ UNCHANGED trace

\* The answer is counted (an answer without usage costs its reservation) and
\* the decision is saved; then the budget callback, the token limit and the
\* deadline are asked before its program may start.
TurnAnswer ==
    /\ Loop("asking")
    /\ UNCHANGED <<process, turn, progs, active, world>>
    /\ \/ /\ Ends(IF Over THEN "time_limit" ELSE "infrastructure_error")
          /\ UNCHANGED <<counters, saved>>
       \/ \E usage \in 0..Reserve :
          /\ counters' = [counters EXCEPT
                !.used = @ + (IF usage = 0 THEN Reserve ELSE usage)]
          /\ \E next \in {"none", "budget_limit", "time_limit"} :
             /\ counters'.used >= MaxTokens => next = "budget_limit"
             /\ next = "none" => ~Over
             /\ next = "time_limit" => Over
             /\ trace' = [trace EXCEPT !.outcome[turn] = "confirmed",
                                       !.reason = next]
             /\ saved' = [saved EXCEPT !.trace.outcome[turn] = "confirmed"]
             /\ IF next # "none" THEN To("final")
                ELSE \/ To("top")       \* no valid program
                     \/ To("replace")

\* variant
\* Wrong: the next program is submitted while the last one is told to stop.
ReplaceAtOnce ==
    /\ Loop("replace")
    /\ To("submit")
    /\ progs' = IF active = 0 THEN progs
                ELSE [progs EXCEPT ![active].cancel = TRUE]
    /\ UNCHANGED <<process, turn, active, counters, trace, saved, world>>

\* A plan has come: the program before it is told to stop.
Replace ==
    /\ Loop("replace")
    /\ IF active = 0 THEN To("submit") /\ UNCHANGED progs
       ELSE To("stopping") /\ progs' = [progs EXCEPT ![active].cancel = TRUE]
    /\ UNCHANGED <<process, turn, active, counters, trace, saved, world>>

\* It is joined before the next one starts.
Joined ==
    /\ Loop("stopping") /\ progs[active].st = "ended"
    /\ Harvest
    /\ IF Verdict(progs[active]) \in Terminals
       THEN Ends(Verdict(progs[active]))
       ELSE To("submit") /\ UNCHANGED trace
    /\ UNCHANGED <<process, turn, saved, world>>

Submit ==
    /\ Loop("submit")
    /\ UNCHANGED <<process, turn, counters, saved, world>>
    /\ \/ /\ mode = "continuous"
          /\ \/ Over /\ Ends("time_limit") /\ UNCHANGED <<progs, active>>
             \/ /\ ~Over /\ counters.attempts >= MaxActions
                /\ Ends("action_limit") /\ UNCHANGED <<progs, active>>
             \/ /\ ~Over /\ counters.attempts < MaxActions
                /\ Launch(turn) /\ active' = turn
                /\ To("top") /\ UNCHANGED trace
       \/ /\ mode = "serial"
          /\ Launch(turn)
          /\ To("running") /\ UNCHANGED <<active, trace>>

\* Serial: the loop waits for its program.  If the executor raises, what the
\* program sent is never counted.
Executed ==
    /\ Loop("running") /\ progs[turn].st = "ended"
    /\ IF progs[turn].reason = "raised" THEN UNCHANGED counters
       ELSE counters' = Tally(progs[turn])
    /\ IF Verdict(progs[turn]) \in Terminals
       THEN Ends(Verdict(progs[turn]))
       ELSE To("top") /\ UNCHANGED trace
    /\ progs' = Forget(turn)
    /\ UNCHANGED <<process, turn, active, saved, world>>

\* No call is left: the last program may finish.
LastLease ==
    /\ Loop("top") /\ turn = MaxCalls
    /\ UNCHANGED <<process, turn, saved, world>>
    /\ \/ /\ active = 0
          /\ Ends("decision_limit") /\ UNCHANGED <<progs, active, counters>>
       \/ /\ Background = "ended"
          /\ Harvest
          /\ Ends(IF Verdict(progs[active]) \in Terminals
                  THEN Verdict(progs[active]) ELSE "decision_limit")

\* However the loop ended, a program that still runs is told to stop ...
Stop ==
    /\ Loop("final") /\ active # 0 /\ ~progs[active].cancel
    /\ progs' = [progs EXCEPT ![active].cancel = TRUE]
    /\ UNCHANGED <<process, pc, turn, active, counters, trace, saved, world>>

\* ... and joined before the result is written.
Result ==
    /\ Loop("final")
    /\ \/ /\ active = 0
          /\ trace' = [trace EXCEPT !.status = "ended"]
          /\ UNCHANGED <<progs, active, counters>>
       \/ /\ Background = "ended" /\ progs[active].cancel
          /\ Harvest
          /\ trace' = [trace EXCEPT !.status = "ended",
                !.reason = IF /\ @ \notin {"infrastructure_error", "budget_limit"}
                              /\ Verdict(progs[active]) \in Terminals
                           THEN Verdict(progs[active]) ELSE @]
    /\ SaveTrace /\ To("done")
    /\ UNCHANGED <<process, turn, world>>

(***************************************************************************)
(* run_adaptive.                                                           *)
(***************************************************************************)

Cycle(where) == Adaptive /\ At(where)

Stops(status, why) == /\ To("final")
                      /\ trace' = [trace EXCEPT !.status = status, !.reason = why]
Fails(why) == Stops("failed", why)
Completes(why) == Stops("completed", why)

\* Under the horizon policy a run that may not go on is watched to its end.
WaitsOut(why, tr) ==
    IF mode = "horizon"
    THEN To("waiting") /\ trace' = [tr EXCEPT !.reason = why]
    ELSE To("final") /\ trace' = [tr EXCEPT !.status = "completed", !.reason = why]
Finishes(why) == WaitsOut(why, trace)

Exhausted == IF counters.attempts >= MaxActions THEN "action_limit"
             ELSE IF counters.requests >= MaxRequests THEN "sdk_request_limit"
             ELSE "none"

CycleTop ==
    /\ Cycle("top")
    /\ UNCHANGED <<process, turn, progs, active, counters, world>>
    /\ \/ turn = MaxCalls /\ Finishes("api_request_limit") /\ SaveTrace
       \/ turn < MaxCalls /\ cancelled /\ Fails("cancelled") /\ UNCHANGED saved
       \/ /\ turn < MaxCalls /\ ~cancelled
          /\ \/ Over /\ Completes("wall_time_limit") /\ UNCHANGED saved
             \/ /\ ~Over /\ Exhausted # "none"
                /\ Finishes(Exhausted) /\ SaveTrace
             \/ /\ ~Over /\ Exhausted = "none" /\ ~WindowOpen
                /\ Finishes("request_window_closed") /\ SaveTrace
             \/ /\ ~Over /\ Exhausted = "none" /\ WindowOpen
                /\ To("observe") /\ UNCHANGED <<trace, saved>>

\* The first cycle has its observation; a later one asks, within the deadline.
CycleObserve ==
    /\ Cycle("observe")
    /\ UNCHANGED <<process, progs, active, counters, world>>
    /\ \/ /\ Fails("adaptive_observation_unavailable")
          /\ UNCHANGED <<turn, saved>>
       \/ /\ turn > 0 => ~cancelled /\ ~Over
          /\ \/ Completes("death") /\ UNCHANGED <<turn, saved>>
             \/ /\ ~WindowOpen /\ Finishes("request_window_closed")
                /\ SaveTrace /\ UNCHANGED turn
             \/ /\ WindowOpen
                /\ turn' = turn + 1
                /\ trace' = [trace EXCEPT !.outcome[turn + 1] = "not_started"]
                /\ To("request") /\ UNCHANGED saved

\* variant
\* Wrong: the trace is saved when the answer is there.
RequestUnsaved ==
    /\ Cycle("request")
    /\ UNCHANGED <<process, turn, progs, active, world, saved>>
    /\ ~cancelled /\ ~Over /\ WindowOpen
    /\ counters.reserved + Reserve <= MaxTokens
    /\ counters' = [counters EXCEPT !.calls = @ + 1, !.reserved = @ + Reserve]
    /\ trace' = [trace EXCEPT !.outcome[turn] = "uncertain"]
    /\ To("marked")

\* provider(): the window, the reservation (never given back once the call is
\* made), the intent, and the saved mark that the call may have been made.
Request ==
    /\ Cycle("request")
    /\ UNCHANGED <<process, turn, progs, active, world>>
    /\ \/ /\ cancelled \/ Over
          /\ Fails("adaptive_wall_deadline") /\ UNCHANGED <<counters, saved>>
       \/ /\ ~cancelled /\ ~Over /\ ~WindowOpen
          /\ Finishes("request_window_closed") /\ UNCHANGED counters /\ SaveTrace
       \/ /\ ~cancelled /\ ~Over /\ WindowOpen
          /\ IF counters.reserved + Reserve > MaxTokens
             THEN /\ Finishes("token_reservation_limit")
                  /\ UNCHANGED counters /\ SaveTrace
             ELSE /\ counters' = [counters EXCEPT !.calls = @ + 1,
                                                  !.reserved = @ + Reserve]
                  /\ trace' = [trace EXCEPT !.outcome[turn] = "uncertain"]
                  /\ To("marked") /\ SaveTrace

\* The saves took time: if the window closed meanwhile the call is not made,
\* and its unsent reservation is given back.  The phase callback and the
\* bridge's provider refuse a cancelled run (full_client_bridge.py:1345, :1359).
Call ==
    /\ Cycle("marked")
    /\ UNCHANGED <<process, turn, progs, active, sent, landed>>
    /\ \/ /\ ~WindowOpen
          /\ counters' = [counters EXCEPT !.calls = @ - 1, !.reserved = @ - Reserve]
          /\ WaitsOut("request_window_closed",
                      [trace EXCEPT !.outcome[turn] = "not_started"])
          /\ SaveTrace /\ UNCHANGED called
       \/ /\ WindowOpen /\ (Over \/ cancelled)
          /\ Fails("adaptive_wall_deadline") /\ UNCHANGED <<counters, called, saved>>
       \/ /\ WindowOpen /\ ~Over /\ ~cancelled
          /\ called' = called \cup {turn}
          /\ To("asking") /\ UNCHANGED <<counters, trace, saved>>

\* The answer is stored before it is judged; an exception leaves it uncertain.
CycleAnswer ==
    /\ Cycle("asking")
    /\ UNCHANGED <<process, turn, progs, active, counters, world>>
    /\ \/ Fails("request_error") /\ UNCHANGED saved
       \/ /\ trace' = [trace EXCEPT !.outcome[turn] = "receipt_saved"]
          /\ SaveTrace /\ To("answered")

\* It must be new, of the model asked for, and within the token limits; only
\* then it is confirmed, and only then cancellation and deadline are looked at.
Confirm ==
    /\ Cycle("answered")
    /\ UNCHANGED <<process, turn, progs, active, world>>
    /\ \/ /\ Fails("adaptive_api_response_identity_invalid")
          /\ UNCHANGED <<counters, saved>>
       \/ \E usage \in 1..(Reserve + 1) :
          IF counters.used + usage > MaxTokens
          THEN /\ Fails("adaptive_actual_token_limit_exceeded")
               /\ UNCHANGED <<counters, saved>>
          ELSE /\ counters' = [counters EXCEPT !.used = @ + usage]
               /\ \E next \in {"running", "failed", "completed"} :
                  /\ next = "failed" <=> cancelled
                  /\ next = "running" => ~Over
                  /\ next = "completed" => Over
                  /\ trace' = [trace EXCEPT !.outcome[turn] = "confirmed",
                        !.status = next,
                        !.reason = CASE next = "running" -> @
                                     [] next = "failed" -> "cancelled"
                                     [] next = "completed" -> "wall_time_limit"]
                  /\ IF next = "running" THEN To("top") \/ To("prepare")
                     ELSE To("final")
               /\ SaveTrace

\* The program is stored, the world observed once more, and the program runs.
PrepareProgram ==
    /\ Cycle("prepare")
    /\ UNCHANGED <<process, turn, active, counters, world>>
    /\ \/ /\ Fails("adaptive_observation_unavailable")
          /\ UNCHANGED <<progs, saved>>
       \/ /\ ~cancelled /\ ~Over
          /\ \/ Completes("death") /\ UNCHANGED <<progs, saved>>
             \/ /\ Launch(turn)
                /\ UNCHANGED trace /\ SaveTrace /\ To("running")

\* The receipts are counted and saved, and then judged: one input that was not
\* surely performed fails the run.
Settle ==
    LET p == progs[turn]
        c == Tally(p)
    IN
    /\ Cycle("running") /\ p.st = "ended"
    /\ UNCHANGED <<process, turn, active, world>>
    /\ progs' = Forget(turn)
    /\ IF p.reason = "raised"
       THEN Fails("adaptive_evidence_byte_limit") /\ UNCHANGED <<counters, saved>>
       ELSE /\ counters' = c
            /\ IF p.doubt THEN Fails("adaptive_input_receipt_uncertain")
               ELSE IF p.reason \in {"infrastructure_error", "replaced"}
               THEN Fails("adaptive_execution_unavailable")
               ELSE IF p.reason = "death" THEN Completes("death")
               ELSE IF c.attempts >= MaxActions THEN Finishes("action_limit")
               ELSE IF c.requests >= MaxRequests THEN Finishes("sdk_request_limit")
               ELSE IF Over THEN Completes("wall_time_limit")
               ELSE To("top") /\ UNCHANGED trace
            /\ saved' = [trace |-> IF pc' = "waiting" THEN trace' ELSE trace,
                        counters |-> c]

\* Until the deadline the run only observes; death, a cancellation and an
\* observation that fails end it early.
Watch ==
    /\ Cycle("waiting")
    /\ UNCHANGED <<process, turn, progs, active, counters, world>>
    /\ \/ Over /\ Completes(trace.reason)
       \/ ~Over /\ Completes("death")
       \/ ~Over /\ Fails("adaptive_observation_unavailable")
       \/ cancelled /\ Fails("cancelled")
    /\ SaveTrace

Close == /\ Cycle("final")
         /\ UNCHANGED <<process, turn, progs, active, counters, trace, world>>
         /\ SaveTrace /\ To("done")

(***************************************************************************)
(* Time, the operator and the process.                                     *)
(***************************************************************************)

Tick == /\ pc # "done" /\ ~Over
        /\ clock' = IF clock = "open" THEN "closing" ELSE "over"
        /\ UNCHANGED <<mode, cancelled, alive, pc, turn, progs, active,
                       counters, trace, saved, world>>

CancelRun ==
    /\ Adaptive /\ alive /\ ~cancelled /\ pc # "done"
    /\ cancelled' = TRUE
    /\ UNCHANGED <<mode, clock, alive, pc, turn, progs, active, counters,
                   trace, saved, world>>

\* The process is killed, and the executor's thread with it.
Kill == /\ alive /\ pc # "done"
        /\ alive' = FALSE
        /\ UNCHANGED <<mode, clock, cancelled, pc, turn, progs, active,
                       counters, trace, saved, world>>

Agent == \/ TurnTop \/ TurnObserve \/ TurnPlan \/ TurnAnswer
         \/ Replace \/ Joined \/ Submit \/ Executed
         \/ LastLease \/ Stop \/ Result
AdaptiveLoop == \/ CycleTop \/ CycleObserve \/ Request \/ Call \/ CycleAnswer
                \/ Confirm \/ PrepareProgram \/ Settle \/ Watch \/ Close
Program(t) == \/ Exhausts(t) \/ Looks(t) \/ Sends(t) \/ OverLimit(t)
              \/ Answers(t) \/ Returns(t) \/ LeaseEnds(t) \/ Raises(t)

LoopNext == \/ Agent \/ AdaptiveLoop
            \/ \E t \in Turns : Program(t)
            \/ Tick \/ CancelRun \/ Kill

\* The loops run on, an input is answered or times out, a program's time ends,
\* and so does the run's.
Fairness == /\ WF_loopVars(Agent) /\ WF_loopVars(AdaptiveLoop) /\ WF_loopVars(Tick)
            /\ \A t \in Turns : WF_loopVars(Answers(t)) /\ WF_loopVars(LeaseEnds(t))

LoopSpec == LoopInit /\ [][LoopNext]_loopVars /\ Fairness

(***************************************************************************)
(* Properties.                                                             *)
(***************************************************************************)

\* Types, and the limits: what was really called, reserved and sent, by however
\* many programs that overlap with however many calls, stays within the run's
\* budgets (full_client_adaptive.py:337, maple_agent.py:379, :642).
WithinLimits ==
    /\ mode \in ControlModes /\ clock \in {"open", "closing", "over"}
    /\ turn \in 0..MaxCalls /\ active \in 0..turn
    /\ called \subseteq 1..turn
    /\ counters.used <= MaxTokens /\ counters.reserved <= MaxTokens
    /\ Adaptive => Reserve * Cardinality(called) <= counters.reserved
    /\ sent <= MaxActions /\ landed <= sent
    /\ counters.actions <= counters.attempts

\* At no time do two programs act: a replacement starts only after the program
\* before it has stopped, its last input answered, and no program acts once the
\* run is over (maple_agent.py:624, :665).
OneProgram ==
    LET acting == {t \in Turns : progs[t].st = "running"} IN
    /\ Cardinality(acting) <= 1
    /\ pc = "done" => acting = {}

\* The totals of a run that returned are those of what it did: every input sent
\* is an attempt, and the acknowledged ones were performed, also the inputs of
\* a program that was stopped halfway.  Only an executor that raises, or whose
\* result cannot be kept, under a loop without step counts loses them
\* (maple_agent.py:532, :546, full_client_adaptive.py:415).
Accounted ==
    pc = "done" /\ alive =>
        \/ mode # "continuous" /\ \E t \in Turns : progs[t].reason = "raised"
        \/ /\ saved.counters.attempts = sent
           /\ saved.counters.actions <= landed
           /\ Cardinality(called) <= saved.counters.calls

\* Whatever moment an adaptive run dies at, its saved trace does not deny a
\* call it made, and counts and reserves at least what was called
\* (full_client_adaptive.py:347-355).
NeverDenied ==
    Adaptive =>
        /\ \A t \in called :
              saved.trace.outcome[t] \in {"uncertain", "receipt_saved", "confirmed"}
        /\ Cardinality(called) <= saved.counters.calls
        /\ Reserve * Cardinality(called) <= saved.counters.reserved

\* A run saved as completed is whole: every call it counts was made, answered
\* and confirmed, every input it sent was surely performed, and under the
\* horizon policy it lasted to its deadline or to death
\* (full_client_adaptive.py:249, :355, :425).
CompletedWhole ==
    Adaptive /\ saved.trace.status = "completed" =>
        /\ \A t \in Turns : saved.trace.outcome[t] \in {"none", "not_started", "confirmed"}
        /\ saved.counters.calls = Cardinality(called)
        /\ saved.counters.reserved = Reserve * Cardinality(called)
        /\ saved.counters.actions = sent /\ landed = sent
        /\ mode = "horizon" => Over \/ saved.trace.reason = "death"

\* Whatever the model's programs do, a run that is not killed returns
\* (maple_agent.py:262, :665; full_client_adaptive.py:249, :441).
Returned == <>(pc = "done" \/ ~alive)

\* What a run may do and what it says it did, while it runs and when it returned.
ControllerInv == WithinLimits /\ OneProgram /\ Accounted

\* The saved trace of an adaptive run can be believed, also after a kill.
TraceHonest == NeverDenied /\ CompletedWhole

=============================================================================
