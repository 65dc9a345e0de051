----------------------------- MODULE TurnManager -----------------------------
(***************************************************************************)
(* The round and cancellation protocol of the realtime cognition lanes:    *)
(* RealtimeTurnManager (eibrain/cognition/realtime/turn.py), the           *)
(* InterruptionController, the ResponseArbiter and the parts of            *)
(* RealtimeCognitiveScheduler that write the turn blackboard.              *)
(*                                                                         *)
(* Every operation is one step: this is the component as its callers see   *)
(* it when one call runs at a time.  What happens when VoiceDialogueLoop   *)
(* calls decide() outside its lock is the subject of StaleRounds.tla.       *)
(*                                                                         *)
(* Callers identify a round by the pair (round_id, cancellation_token).    *)
(* A token is a fresh uuid per round, so round r's token is written r; a   *)
(* caller may hold the pair of any round ever issued, may mix two of them  *)
(* up, or pass no id at all (Unset).                                       *)
(***************************************************************************)
EXTENDS Integers

CONSTANTS
    MaxRounds,      \* bound on _round_index (the code has none)
    MaxWrites       \* bound on the hypotheses and on the decisions of one turn

ASSUME TurnAssumption == MaxRounds \in Nat /\ MaxWrites \in Nat

VARIABLE
    tm      \* the manager: [index, current, history]
            \*   index    _round_index
            \*   current  the round of _current_turn, Unset when it is None
            \*   history  _history: the turn of every round started so far

Unset == 0

-----------------------------------------------------------------------------
(* Turns *)

(* Statuses the scheduler and the interruption give to a planned action;   *)
(* "none" is a decision with an empty action plan.                         *)
Planned == {"none", "ready", "needs_retry"}

(* One TurnBlackboard.  The list of stable decisions is kept as its length *)
(* and its last element: turn.action_plan holds the very action objects of *)
(* the last decision, so one status stands for both.                       *)
Turn == [state     : {"active", "completed", "interrupted"},
         cancelled : BOOLEAN,               \* cancellation.cancelled
         why       : {"none", "superseded", "interrupt"}, \* its reason
         hyps      : 0..MaxWrites,          \* len(fast_hypotheses)
         final     : BOOLEAN,               \* asr_final is not None
         decided   : 0..MaxWrites,          \* len(stable_decisions)
         from      : 0..MaxRounds,          \* round_id of the last decision
         action    : Planned \cup {"cancelled"}, \* action_plan[0].status
         verdict   : {"none", "approved", "blocked"}]

FreshTurn == [state |-> "active", cancelled |-> FALSE, why |-> "none",
              hyps |-> 0, final |-> FALSE, decided |-> 0, from |-> Unset,
              action |-> "none", verdict |-> "none"]

Live(t) == t.state = "active" /\ ~ t.cancelled

(* CancellationToken.cancel: the first reason wins.                        *)
Cancel(t, why) ==
    IF t.cancelled THEN t ELSE [t EXCEPT !.cancelled = TRUE, !.why = why]

(* Faulty: start_round forgets the token of the turn it replaces.          *)
SupersededLive(t) ==
    IF t.state = "interrupted" THEN t ELSE [t EXCEPT !.state = "completed"]

(* The previous turn when start_round replaces it.                         *)
Superseded(t) ==
    IF t.state = "interrupted" THEN t
    ELSE [Cancel(t, "superseded") EXCEPT !.state = "completed"]

Interrupted(t) == [Cancel(t, "interrupt") EXCEPT !.state = "interrupted"]

(* Faulty: the plan of an interrupted turn stays ready.                    *)
PlanKept(t) == t

(* InterruptionController._mark_action_plan_cancelled on the old turn.     *)
PlanCancelled(t) ==
    IF t.action = "none" THEN t ELSE [t EXCEPT !.action = "cancelled"]

-----------------------------------------------------------------------------
(* The manager *)

(* Faulty: any round of a good token.                                      *)
TokenIsCurrent(m, id) ==
    m.current # Unset /\ id.token = m.current /\ Live(m.history[m.current])

IsCurrent(m, id) ==
    /\ m.current # Unset
    /\ id.round = m.current
    /\ id.token = m.current
    /\ Live(m.history[m.current])

(* Faulty: the new turn is not entered in the history.                     *)
UnrecordedRound(m) ==
    [index |-> m.index + 1, current |-> m.index + 1, history |-> m.history]

StartRound(m) ==
    [index   |-> m.index + 1,
     current |-> m.index + 1,
     history |-> [r \in 1..(m.index + 1) |->
                     IF r = m.index + 1 THEN FreshTurn
                     ELSE IF r = m.current THEN Superseded(m.history[r])
                     ELSE m.history[r]]]

(* RealtimeTurnManager.interrupt on its own.                               *)
InterruptTurn(m) ==
    StartRound(IF m.current = Unset THEN m
               ELSE [m EXCEPT !.history[m.current] = Interrupted(@)])

(* Faulty: the plans of all the old rounds are cancelled.                  *)
InterruptAll(m) ==
    IF m.current = Unset THEN StartRound(m)
    ELSE LET new == InterruptTurn(m)
         IN  [new EXCEPT !.history = [r \in DOMAIN @ |-> PlanCancelled(@[r])]]

(* InterruptionController.interrupt_and_start_new_round: the interrupt,    *)
(* then the summary, which cancels what is left of the old action plan.    *)
InterruptAndStart(m) ==
    IF m.current = Unset THEN StartRound(m)
    ELSE [InterruptTurn(m) EXCEPT !.history[m.current] = PlanCancelled(@)]

(* Faulty: a round per call.                                               *)
AlwaysNewTurn(m) == StartRound(m)

(* RealtimeCognitiveScheduler._active_turn: a call that finds no live turn *)
(* starts one, even a call that is rejected afterwards.                    *)
ActiveTurn(m) ==
    IF m.current # Unset /\ Live(m.history[m.current]) THEN m
    ELSE StartRound(m)

(* The ids a call is checked against: a part the caller left out is taken  *)
(* from the active turn (round_id or turn.round_id, and the same for the   *)
(* token).                                                                 *)
Completed(m, id) ==
    [round |-> IF id.round = Unset THEN m.current ELSE id.round,
     token |-> IF id.token = Unset THEN m.current ELSE id.token]

(* A scheduler call under id goes through: reject_if_cancelled is silent.  *)
Accepts(m, id) == IsCurrent(m, Completed(m, id))

(* ResponseArbiter.allow_speaking for turn r and a decision that carries   *)
(* the pair of round from.  The slow reasoner always marks its decision    *)
(* and its segments stable, gives a spoken text even without a transcript, *)
(* and structures every action it plans, so only the round can block.      *)
AllowSpeaking(m, r, from) ==
    /\ IsCurrent(m, [round |-> from, token |-> from])
    /\ r = from
    /\ Live(m.history[r])

Verdict(m, r, from) == IF AllowSpeaking(m, r, from) THEN "approved" ELSE "blocked"

(* SlowReasoner.decide, commit_stable_decision and the arbiter's verdict   *)
(* in one step: the decision made for round from lands on the current turn.*)
Decided(m, from, action) ==
    LET t == m.history[m.current] IN
    [m EXCEPT !.history[m.current] =
        [t EXCEPT !.decided = t.decided + 1, !.from = from, !.action = action,
                  !.verdict = Verdict(m, m.current, from)]]

-----------------------------------------------------------------------------
(* Operations *)

Init == tm = [index |-> 0, current |-> Unset, history |-> [r \in 1..0 |-> FreshTurn]]

(* Ids a caller can hold: those of rounds already issued, possibly mixed   *)
(* up, or none.                                                            *)
Held == [round : 0..tm.index, token : 0..tm.index]

MayStart == tm.index < MaxRounds

(* A call that works on the active turn, and starts it when there is none. *)
Reached == ActiveTurn(tm)

MayReach == Reached # tm => MayStart

(* start_round by the voice loop, at the head of an iteration.             *)
ClientStartRound == MayStart /\ tm' = StartRound(tm)

(* scheduler.interrupt, the barge-in.                                      *)
Interrupt == MayStart /\ tm' = InterruptAndStart(tm)

(* scheduler.observe_partial: one fast hypothesis.                         *)
ObservePartial(id) ==
    /\ MayReach
    /\ IF Accepts(Reached, id)
       THEN /\ Reached.history[Reached.current].hyps < MaxWrites
            /\ tm' = [Reached EXCEPT !.history[Reached.current].hyps = @ + 1]
       ELSE tm' = Reached

(* scheduler.observe_final: the transcript, or None for an empty one.      *)
ObserveFinal(id, heard) ==
    /\ MayReach
    /\ tm' = IF Accepts(Reached, id)
             THEN [Reached EXCEPT !.history[Reached.current].final = heard]
             ELSE Reached

(* manager.finalize_asr, called directly by the voice loop on silence: it  *)
(* starts nothing.                                                         *)
FinalizeAsr(id, heard) ==
    tm' = IF IsCurrent(tm, id)
          THEN [tm EXCEPT !.history[tm.current].final = heard]
          ELSE tm

(* scheduler.decide.                                                       *)
Decide(id, action) ==
    /\ MayReach
    /\ IF Accepts(Reached, id)
       THEN /\ Reached.history[Reached.current].decided < MaxWrites
            /\ tm' = Decided(Reached, Completed(Reached, id).round, action)
       ELSE tm' = Reached

Next ==
    \/ ClientStartRound
    \/ Interrupt
    \/ \E id \in Held : ObservePartial(id)
    \/ \E id \in Held, heard \in BOOLEAN : ObserveFinal(id, heard)
    \/ \E id \in Held, heard \in BOOLEAN : FinalizeAsr(id, heard)
    \/ \E id \in Held, action \in Planned : Decide(id, action)

Spec == Init /\ [][Next]_tm

-----------------------------------------------------------------------------
(* Properties *)

(* The manager is a run of turns numbered from 1.                          *)
TypeOK ==
    /\ tm \in [index : 0..MaxRounds, current : 0..MaxRounds,
               history : [1..tm.index -> Turn]]
    /\ tm.current \in 0..tm.index

(* However calls and interrupts follow each other, one round is live, the  *)
(* one the manager calls current, and every other round ever started is    *)
(* closed with its token cancelled: no old worker can find its token good. *)
OneLiveRound ==
    \A r \in 1..tm.index :
        IF r = tm.current THEN Live(tm.history[r])
        ELSE tm.history[r].state # "active" /\ tm.history[r].cancelled

(* An interrupted turn is cancelled for the interrupt, and nothing of its  *)
(* action plan is left to run; a turn closed by the next one says so.      *)
ClosedForOneReason ==
    \A r \in 1..tm.index :
        /\ tm.history[r].state = "interrupted" =>
               /\ tm.history[r].why = "interrupt"
               /\ tm.history[r].action \in {"none", "cancelled"}
        /\ tm.history[r].state = "completed" =>
               /\ tm.history[r].why = "superseded"
               /\ tm.history[r].action # "cancelled"

(* One call at a time, a decision that a turn holds was made for that very *)
(* turn and was approved for speaking.                                     *)
DecisionsOfTheirRound ==
    \A r \in 1..tm.index :
        tm.history[r].decided > 0 =>
            tm.history[r].from = r /\ tm.history[r].verdict = "approved"

(* A round that has been closed never changes again, whatever late calls   *)
(* arrive under its ids, and its ids never become current again.           *)
ClosedRoundsAreFrozen ==
    [][\A r \in 1..tm.index :
          ~ Live(tm.history[r]) => /\ r \in 1..tm'.index
                                   /\ tm'.history[r] = tm.history[r]
                                   /\ ~ IsCurrent(tm', [round |-> r, token |-> r])]_tm

(* The manager implements the protocol of Rounds: contributions are the    *)
(* fast hypotheses and the stable decisions.                               *)
FateOf(t) == CASE t.state = "active"      -> "open"
               [] t.state = "completed"   -> "superseded"
               [] t.state = "interrupted" -> "interrupted"

Protocol == INSTANCE Rounds WITH
    opened   <- tm.index,
    fate     <- [r \in 1..tm.index |-> FateOf(tm.history[r])],
    accepted <- [r \in 1..tm.index |-> tm.history[r].hyps + tm.history[r].decided]

ImplementsRounds == Protocol!Spec
=============================================================================
