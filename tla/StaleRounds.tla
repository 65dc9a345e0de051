----------------------------- MODULE StaleRounds -----------------------------
(***************************************************************************)
(* The voice loop's thread against a barge-in from another thread.         *)
(*                                                                         *)
(* VoiceDialogueLoop protects the turn manager with _turn_lock, but runs   *)
(* cognition, scheduler.decide(), half of the speaking gate and the final  *)
(* dispatch without it, while request_interrupt() closes the round under   *)
(* the lock.  This module takes decide() and the interrupt apart into the  *)
(* reads and writes of shared objects that another thread can come between,*)
(* and leaves whole what runs under the lock against a loop that waits     *)
(* for it.  TurnManager.tla has the same operations as single steps.       *)
(*                                                                         *)
(* A turn is identified here by its token.  Two start_round() calls that   *)
(* overlap may give two turns the same round_id; every check compares the  *)
(* token too, which is fresh.                                              *)
(***************************************************************************)
EXTENDS Naturals, Sequences

CONSTANTS
    MaxListens,     \* bound on the turns after which the loop stops listening
    MaxInterrupts   \* bound on the calls of request_interrupt

ASSUME RaceAssumption == MaxListens \in Nat /\ MaxInterrupts \in Nat

VARIABLES
    turns,      \* every TurnBlackboard, in the order of creation
    current,    \* _current_turn, a position in turns or None
    lock,       \* the holder of _turn_lock: "free" or "user"; the loop takes
                \* and gives it back within one step
    loop,       \* the loop's thread: where it is, and its local variables
    user,       \* the interrupting thread, likewise
    asked,      \* how many interrupts were requested
    spoken      \* the rounds whose reply was dispatched to the mouth

vars == <<turns, current, lock, loop, user, asked, spoken>>

None == 0

(* Besides the loop's turns, an interrupt starts one and may make decide() *)
(* start one.                                                              *)
MaxTurns == MaxListens + 2 * MaxInterrupts

Turn == [state     : {"active", "completed", "interrupted"},
         cancelled : BOOLEAN,
         why       : {"listening", "interrupt", "decide"},  \* who started it
         decisions : SUBSET (1..MaxTurns),  \* rounds its decisions are of
         plan      : {"none", "ready", "cancelled"},
         verdict   : {"none", "approved", "blocked"}]

Fresh(why) == [state |-> "active", cancelled |-> FALSE, why |-> why,
               decisions |-> {}, plan |-> "none", verdict |-> "none"]

Live(t) == turns[t].state = "active" /\ ~ turns[t].cancelled

(* Faulty: the ids are not compared.                                       *)
AnyIsCurrent(t) == current # None /\ Live(current)

IsCurrent(t) == current = t /\ Live(t)

(* Faulty: a state nobody else knows of.                                   *)
CloseAsCancelled(t) == [t EXCEPT !.state = "cancelled", !.cancelled = TRUE]

(* previous_turn of start_round: completed and cancelled, unless it was    *)
(* interrupted.                                                            *)
Close(t) ==
    IF t.state = "interrupted" THEN t
    ELSE [t EXCEPT !.state = "completed", !.cancelled = TRUE]

(* start_round up to the new turn, which is not current yet.               *)
Started(why) ==
    Append([t \in 1..Len(turns) |->
               IF t = current THEN Close(turns[t]) ELSE turns[t]], Fresh(why))

(* The loop goes on at pc; its local variables stay.                       *)
LoopAt(pc) == loop' = [loop EXCEPT !.pc = pc]

Init ==
    /\ turns = << >>
    /\ current = None
    /\ lock = "free"
    /\ loop = [pc |-> "idle", mine |-> None, seen |-> None, plan |-> "none"]
    /\ user = [pc |-> "idle", old |-> None, new |-> None]
    /\ asked = 0
    /\ spoken = {}

-----------------------------------------------------------------------------
(* The voice loop *)

(* _start_round(reason="listening"), under the lock.                       *)
StartRound ==
    /\ loop.pc = "idle" /\ lock = "free" /\ Len(turns) < MaxListens
    /\ turns' = Started("listening")
    /\ current' = Len(turns) + 1
    /\ loop' = [loop EXCEPT !.pc = "listen", !.mine = Len(turns) + 1]
    /\ UNCHANGED <<lock, user, asked, spoken>>

(* Audio, then _finalize_asr under the lock.  A stale round is given up;   *)
(* so is one with nothing to think about.                                  *)
Finalize(worth) ==
    /\ loop.pc = "listen" /\ lock = "free"
    /\ LoopAt(IF IsCurrent(loop.mine) /\ worth THEN "think" ELSE "idle")
    /\ UNCHANGED <<turns, current, lock, user, asked, spoken>>

(* Faulty: the loop waits for its round to be current again.               *)
ThinkAgain ==
    /\ loop.pc = "think" /\ lock = "free"
    /\ LoopAt(IF IsCurrent(loop.mine) THEN "decide" ELSE "think")
    /\ UNCHANGED <<turns, current, lock, user, asked, spoken>>

(* cognition, then the first check of _record_scheduler_decision; for a    *)
(* round that is over, cognition's result is dropped.                      *)
Think ==
    /\ loop.pc = "think" /\ lock = "free"
    /\ LoopAt(IF IsCurrent(loop.mine) THEN "decide" ELSE "idle")
    /\ UNCHANGED <<turns, current, lock, user, asked, spoken>>

(* decide(): _active_turn finds a live turn, or begins a start_round.      *)
DecideEnter ==
    /\ loop.pc = "decide"
    /\ IF Live(current)
       THEN loop' = [loop EXCEPT !.pc = "reject", !.seen = current]
       ELSE loop' = [loop EXCEPT !.pc = "start", !.seen = current]
    /\ UNCHANGED <<turns, current, lock, user, asked, spoken>>

(* ... that start_round, without the lock: it closes the turn current now, *)
(* and makes a new one current, whichever is current by then.              *)
DecideStart ==
    /\ loop.pc = "start"
    /\ turns' = Started("decide")
    /\ loop' = [loop EXCEPT !.pc = "install", !.seen = Len(turns) + 1]
    /\ UNCHANGED <<current, lock, user, asked, spoken>>

DecideInstall ==
    /\ loop.pc = "install"
    /\ current' = loop.seen
    /\ LoopAt("reject")
    /\ UNCHANGED <<turns, lock, user, asked, spoken>>

(* decide(): reject_if_cancelled; the error sends the loop to its gate.    *)
DecideReject ==
    /\ loop.pc = "reject"
    /\ LoopAt(IF IsCurrent(loop.mine) THEN "commit" ELSE "gate")
    /\ UNCHANGED <<turns, current, lock, user, asked, spoken>>

(* The slow decision, which may plan an action, then the check of          *)
(* commit_stable_decision.                                                 *)
CommitCheck(plan) ==
    /\ loop.pc = "commit"
    /\ loop' = [loop EXCEPT !.pc = IF IsCurrent(loop.mine) THEN "append" ELSE "gate",
                            !.plan = plan]
    /\ UNCHANGED <<turns, current, lock, user, asked, spoken>>

(* commit_stable_decision goes on with the turn that is current by now:    *)
(* first its decisions ...                                                 *)
CommitAppend ==
    /\ loop.pc = "append"
    /\ turns' = [turns EXCEPT ![current].decisions = @ \cup {loop.mine}]
    /\ LoopAt("plan")
    /\ UNCHANGED <<current, lock, user, asked, spoken>>

(* ... then its action plan.                                               *)
CommitPlan ==
    /\ loop.pc = "plan"
    /\ turns' = [turns EXCEPT ![current].plan = loop.plan]
    /\ LoopAt("alias")
    /\ UNCHANGED <<current, lock, user, asked, spoken>>

(* decide() writes the plan once more, on the turn it had read at first.   *)
DecidePlan ==
    /\ loop.pc = "alias"
    /\ turns' = [turns EXCEPT ![loop.seen].plan = loop.plan]
    /\ LoopAt("verdict")
    /\ UNCHANGED <<current, lock, user, asked, spoken>>

(* Faulty: the arbiter looks at whatever round is current.                 *)
VerdictOnCurrent(t) == IF Live(current) THEN "approved" ELSE "blocked"

(* What the arbiter finds for the loop's round on turn t.                  *)
Verdict(t) ==
    IF IsCurrent(loop.mine) /\ t = loop.mine THEN "approved" ELSE "blocked"

(* decide(): the arbiter, and its verdict on the turn read at first.       *)
DecideVerdict ==
    /\ loop.pc = "verdict"
    /\ turns' = [turns EXCEPT ![loop.seen].verdict = Verdict(loop.seen)]
    /\ LoopAt("gate")
    /\ UNCHANGED <<current, lock, user, asked, spoken>>

(* _actions_allowed_for_turn: its first check, under the lock.  Actions    *)
(* without a reply are let through; without actions there is nothing to do.*)
GateCheck(result) ==
    /\ loop.pc = "gate" /\ lock = "free"
    /\ LoopAt(CASE ~ IsCurrent(loop.mine) -> "idle"
                [] OTHER -> CASE result = "reply"   -> "gateplan"
                              [] result = "actions" -> "check"
                              [] result = "nothing" -> "idle")
    /\ UNCHANGED <<turns, current, lock, user, asked, spoken>>

(* ... the reply's plan written on the turn, without the lock ...          *)
GatePlan ==
    /\ loop.pc = "gateplan"
    /\ turns' = [turns EXCEPT ![loop.mine].plan = "ready"]
    /\ LoopAt("arbiter")
    /\ UNCHANGED <<current, lock, user, asked, spoken>>

(* ... and the arbiter, under the lock.                                    *)
GateArbiter ==
    /\ loop.pc = "arbiter" /\ lock = "free"
    /\ turns' = [turns EXCEPT ![loop.mine].verdict = Verdict(loop.mine)]
    /\ LoopAt(IF Verdict(loop.mine) = "approved" THEN "check" ELSE "idle")
    /\ UNCHANGED <<current, lock, user, asked, spoken>>

(* Faulty: the loop trusts the gate.                                       *)
NoLastCheck ==
    /\ loop.pc = "check"
    /\ LoopAt("dispatch")
    /\ UNCHANGED <<turns, current, lock, user, asked, spoken>>

(* The session starts speaking; the last check, under the lock.            *)
LastCheck ==
    /\ loop.pc = "check" /\ lock = "free"
    /\ LoopAt(IF IsCurrent(loop.mine) THEN "dispatch" ELSE "idle")
    /\ UNCHANGED <<turns, current, lock, user, asked, spoken>>

(* body_runtime.dispatch_actions(actions), without the lock.               *)
Dispatch ==
    /\ loop.pc = "dispatch"
    /\ spoken' = spoken \cup {loop.mine}
    /\ LoopAt("idle")
    /\ UNCHANGED <<turns, current, lock, user, asked>>

Loop ==
    \/ StartRound
    \/ \E worth \in BOOLEAN : Finalize(worth)
    \/ Think \/ DecideEnter \/ DecideStart \/ DecideInstall \/ DecideReject
    \/ \E plan \in {"none", "ready"} : CommitCheck(plan)
    \/ CommitAppend \/ CommitPlan \/ DecidePlan \/ DecideVerdict
    \/ \E result \in {"reply", "actions", "nothing"} : GateCheck(result)
    \/ GatePlan \/ GateArbiter \/ LastCheck \/ Dispatch

-----------------------------------------------------------------------------
(* request_interrupt, which holds the lock until its round is current *)

UserAt(pc) == user' = [user EXCEPT !.pc = pc]

(* The lock, and the turn to interrupt; with none there is only a round to *)
(* start.                                                                  *)
Acquire ==
    /\ user.pc = "idle" /\ lock = "free" /\ asked < MaxInterrupts
    /\ lock' = "user"
    /\ asked' = asked + 1
    /\ user' = [pc |-> IF current = None THEN "start" ELSE "mark",
                old |-> current, new |-> None]
    /\ UNCHANGED <<turns, current, loop, spoken>>

(* manager.interrupt: first the turn's state ...                           *)
Mark ==
    /\ user.pc = "mark"
    /\ turns' = [turns EXCEPT ![user.old].state = "interrupted"]
    /\ UserAt("cancel")
    /\ UNCHANGED <<current, lock, loop, asked, spoken>>

(* ... then its token ...                                                  *)
CancelToken ==
    /\ user.pc = "cancel"
    /\ turns' = [turns EXCEPT ![user.old].cancelled = TRUE]
    /\ UserAt("start")
    /\ UNCHANGED <<current, lock, loop, asked, spoken>>

(* Faulty: an interrupt that starts over when the current turn has changed,*)
(* on the turn it had read before.                                         *)
NewTurnRetried ==
    /\ user.pc = "start"
    /\ turns' = IF current = user.old THEN Started("interrupt") ELSE turns
    /\ user' = IF current = user.old
               THEN [user EXCEPT !.pc = "install", !.new = Len(turns) + 1]
               ELSE [user EXCEPT !.pc = "mark"]
    /\ UNCHANGED <<current, lock, loop, asked, spoken>>

(* ... then start_round: it closes the turn that is current by now ...     *)
NewTurn ==
    /\ user.pc = "start"
    /\ turns' = Started("interrupt")
    /\ user' = [user EXCEPT !.pc = "install", !.new = Len(turns) + 1]
    /\ UNCHANGED <<current, lock, loop, asked, spoken>>

(* ... and makes the new one current; then the controller's summary cancels*)
(* the interrupted turn's plan, and the lock is given back.                *)
Install ==
    /\ user.pc = "install"
    /\ current' = user.new
    /\ UserAt(IF user.old = None THEN "release" ELSE "cancelplan")
    /\ UNCHANGED <<turns, lock, loop, asked, spoken>>

CancelPlan ==
    /\ user.pc = "cancelplan"
    /\ turns' = IF turns[user.old].plan = "none" THEN turns
                ELSE [turns EXCEPT ![user.old].plan = "cancelled"]
    /\ UserAt("release")
    /\ UNCHANGED <<current, lock, loop, asked, spoken>>

Release ==
    /\ user.pc = "release"
    /\ lock' = "free"
    /\ UserAt("stop")
    /\ UNCHANGED <<turns, current, loop, asked, spoken>>

(* Without the lock: the old session is interrupted, StopSpeech dispatched,*)
(* and the caller gets its answer.                                         *)
StopSpeech ==
    /\ user.pc = "stop"
    /\ UserAt("idle")
    /\ UNCHANGED <<turns, current, lock, loop, asked, spoken>>

InCall == Mark \/ CancelToken \/ NewTurn \/ Install \/ CancelPlan \/ Release \/ StopSpeech

User == Acquire \/ InCall

-----------------------------------------------------------------------------
(* Both threads are quiet for good: the bounds are reached.                *)
Done ==
    /\ loop.pc = "idle" /\ Len(turns) >= MaxListens
    /\ user.pc = "idle" /\ asked = MaxInterrupts
    /\ UNCHANGED vars

Next == Loop \/ User \/ Done

Spec == Init /\ [][Next]_vars

(* Both threads keep running: the interpreter schedules a thread that is   *)
(* ready in the end, and interrupts are finitely many, so the lock is free *)
(* for good at some point.  Nobody has to interrupt.                       *)
FairSpec == Spec /\ WF_vars(Loop) /\ WF_vars(InCall)

-----------------------------------------------------------------------------
(* Properties *)

TypeOK ==
    /\ turns \in Seq(Turn) /\ Len(turns) <= MaxTurns
    /\ current \in 0..Len(turns)
    /\ lock \in {"free", "user"}
    /\ loop \in [pc : {"idle", "listen", "think", "decide", "start", "install",
                       "reject", "commit", "append", "plan", "alias", "verdict",
                       "gate", "gateplan", "arbiter", "check", "dispatch"},
                 mine : 0..Len(turns), seen : 0..Len(turns),
                 plan : {"none", "ready"}]
    /\ user \in [pc : {"idle", "mark", "cancel", "start", "install",
                       "cancelplan", "release", "stop"},
                 old : 0..Len(turns), new : 0..Len(turns)]
    /\ asked \in 0..MaxInterrupts
    /\ spoken \subseteq 1..Len(turns)

(* "Ensure cancelled old rounds cannot commit new stable decisions": the   *)
(* live round holds no decision that was made for a round before it.       *)
CancelledRoundsCommitNothing ==
    \A t \in 1..Len(turns) : Live(t) => turns[t].decisions \subseteq {t}

(* How far that goes wrong, at the most: a round that was closed before the*)
(* loop's last check stays silent for good, however the plan on it and the *)
(* verdicts are rewritten.                                                 *)
ClosedBeforeLastCheckIsSilent ==
    [][\A t \in 1..Len(turns) :
          /\ ~ Live(t) /\ t \notin spoken
          /\ ~ (loop.pc = "dispatch" /\ loop.mine = t)
          => /\ t \notin spoken'
             /\ ~ (loop'.pc = "dispatch" /\ loop'.mine = t)]_vars

(* A decision that lands on a turn it was not made for lands on the round  *)
(* an interrupt started, never on a round the loop listens to, and not     *)
(* beside another decision; and when decide() and an interrupt start rounds*)
(* at the same time, the one left live without being current never gets a  *)
(* decision or a plan (observe_final, decide, interrupt).                  *)
StraysAreContained ==
    /\ \A t \in 1..Len(turns) :
        /\ turns[t].why # "interrupt" => turns[t].decisions \subseteq {t}
        /\ \A r, q \in turns[t].decisions : r = q
    /\ \A t \in 1..Len(turns) :
        Live(t) /\ t # current => turns[t].decisions = {} /\ turns[t].plan = "none"

(* An approved verdict is on a turn that holds its own decision: a decision*)
(* that went astray is never approved.                                     *)
ApprovedHasItsDecision ==
    \A t \in 1..Len(turns) :
        turns[t].verdict = "approved" => t \in turns[t].decisions

(* Every iteration of the loop ends, whatever is interrupted, and every    *)
(* interrupt gives the lock back.                                          *)
ThreadsEnd ==
    /\ loop.pc # "idle" ~> loop.pc = "idle"
    /\ lock = "user" ~> lock = "free"
=============================================================================
