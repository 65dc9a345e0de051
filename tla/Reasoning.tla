------------------------------ MODULE Reasoning ------------------------------
(***************************************************************************)
(* From what was heard to what is decided (cognition/realtime): the hints  *)
(* of the fast lane (fast.py), the decision of the slow one (slow.py), the *)
(* memories it may refer to (scheduler.py), the plan of speech and actions *)
(* (planner.py) and what the lanes report of themselves.  A text is what   *)
(* its markers say of it, and confidences are in hundredths.               *)
(***************************************************************************)
EXTENDS Integers, FiniteSets

(* What the fast lane has: a partial text, a hint of the scene and of the  *)
(* mood, and whether the mood calls for a soft tone.                       *)
Signals ==
    [text : BOOLEAN, question : BOOLEAN, action : BOOLEAN, memory : BOOLEAN,
     vision : BOOLEAN, emotion : BOOLEAN, soft : BOOLEAN]

Hypothesis(intent, confidence) == [intent |-> intent, confidence |-> confidence]

TextHypotheses(s) ==
    IF ~s.text THEN {}
    ELSE LET marked == {h \in {Hypothesis("possible_question", 58),
                               Hypothesis("possible_action_request", 66),
                               Hypothesis("possible_memory_writeback", 62)} :
                           \/ h.intent = "possible_question" /\ s.question
                           \/ h.intent = "possible_action_request" /\ s.action
                           \/ h.intent = "possible_memory_writeback" /\ s.memory}
         IN  IF marked = {} THEN {Hypothesis("continue_listening", 41)} ELSE marked

FastHypotheses(s) ==
    LET all == TextHypotheses(s)
                 \union {h \in {Hypothesis("possible_environment_context", 48)} : s.vision}
                 \union {h \in {Hypothesis("supportive_tone_hint", IF s.soft THEN 64 ELSE 45)} : s.emotion}
    IN  IF all = {} THEN {Hypothesis("waiting_for_signal", 30)} ELSE all

MicroFeedback(s) ==
    IF s.emotion /\ s.soft THEN "go on"
    ELSE IF s.text /\ s.action THEN "not judging yet"
    ELSE IF s.text THEN "listening to the end" ELSE "thinking with you"

-----------------------------------------------------------------------------
(* The final text: empty, or what its markers say, a reminder first.       *)
Finals == {"empty", "reminder", "question", "action", "plain"}

HeuristicIntent(final) ==
    CASE final = "reminder" -> "create_reminder"
      [] final = "question" -> "answer_question"
      [] final = "action" -> "action_oriented"
      [] final = "plain" -> "respond"
      [] OTHER -> "no_final_text"

(* The intents that may be decided: a marked final decides, else the most  *)
(* confident hypothesis of the round does, whichever of equals came first. *)
IsBest(h, hypotheses) == h \in hypotheses /\ \A g \in hypotheses : g.confidence <= h.confidence

DecisionOf(final, intent) ==
    IF intent \in {"listen", "continue_listening", "waiting_for_signal"} /\ final # "plain"
    THEN HeuristicIntent(final)
    ELSE CASE intent = "possible_memory_writeback" -> "remember"
           [] intent = "possible_action_request" -> "action_oriented"
           [] intent = "possible_question" -> "answer_question"
           [] OTHER -> intent

PickIntents(final, hypotheses) ==
    IF final \notin {"plain", "empty"} \/ hypotheses = {} THEN {HeuristicIntent(final)}
    ELSE {DecisionOf(final, h.intent) : h \in {g \in hypotheses : IsBest(g, hypotheses)}}

(* An action plan is a single step, of a decision that asks for one.       *)
HasActionPlan(intent) == intent \in {"action_oriented", "create_reminder", "remember"}

-----------------------------------------------------------------------------
(* Memories: the guardrails of the persona filter candidates before the    *)
(* slow lane ranks them.                                                   *)
Candidates ==
    [score : Nat, drifts : BOOLEAN, protectedKey : BOOLEAN,
     status : {"available", "filtered"}, verdict : {"none", "allow", "filter", "reject"}]

Guarded(c) ==
    IF c.drifts \/ c.protectedKey
    THEN [c EXCEPT !.status = "filtered", !.verdict = "filter"] ELSE c

CandidateFiltered(c) == c.status = "filtered" \/ c.verdict \in {"filter", "reject"}

(* refs are memory references of the candidates: the three best left.      *)
AreMemoryRefs(refs, candidates) ==
    LET allowed == {c \in candidates : ~CandidateFiltered(c)}
    IN  /\ refs \subseteq allowed
        /\ Cardinality(refs) <= 3
        /\ \A c \in allowed \ refs : \A r \in refs : c.score <= r.score

-----------------------------------------------------------------------------
(* The plan: tools that may be unavailable, results that may have failed.  *)
Fallback(tools, results) == (\E t \in tools : ~t.available) \/ (\E r \in results : ~r.ok)

ActionStatus(t, tools, results) ==
    IF ~t.available THEN "unavailable"
    ELSE IF Fallback(tools, results) THEN "cancelled" ELSE "ready"

SpeechSource(tools, results, speech, final) ==
    IF Fallback(tools, results)
    THEN IF \E t \in tools : ~t.available THEN "action_unavailable_fallback" ELSE "action_fallback"
    ELSE IF speech THEN "slow_reasoner" ELSE IF final THEN "safe_ack" ELSE "none"

(* _alignment: what is said names every action that is ready.              *)
Aligned(tools, results, speech, named) ==
    LET ready == {t \in tools : ActionStatus(t, tools, results) = "ready"}
    IN  IF Fallback(tools, results) THEN ready = {} ELSE ~speech \/ ready \subseteq named

-----------------------------------------------------------------------------
(* _lane_snapshots, for a turn with some hypotheses, decisions, segments,  *)
(* a final text and the verdict of the arbiter.                            *)
TurnViews ==
    {t \in [hypotheses : Nat, decisions : Nat, segments : Nat, final : BOOLEAN,
            verdict : {"", "approved", "blocked"}] :
        /\ t.segments > 0 => t.decisions > 0
        /\ t.verdict # "" => t.decisions > 0}

SlowLane(t) ==
    IF t.decisions > 0 THEN "stable_committed" ELSE IF t.final THEN "decision_pending" ELSE "idle"
ArbiterLane(t) ==
    IF t.verdict # "" THEN t.verdict ELSE IF t.decisions > 0 THEN "pending" ELSE "idle"
SpeakingLane(t) ==
    IF t.segments > 0 THEN IF t.verdict = "approved" THEN "ready" ELSE "blocked" ELSE "idle"
SpeakingPending(t) == IF t.segments > 0 /\ t.verdict # "approved" THEN t.segments ELSE 0

=============================================================================
