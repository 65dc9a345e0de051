------------------------------ MODULE Feedback -------------------------------
(***************************************************************************)
(* What is recorded of an action of the head (eibrain/memory/              *)
(* head_feedback.py) and of the following of a target (visual_feedback.py),*)
(* and what a visual event leaves for memory (visual_memory.py).           *)
(*                                                                         *)
(* All three make a record, say whether it is to be written, and hand it   *)
(* to the memory as the parameters of one call; they write nothing         *)
(* themselves.  A text that is not there, or is blank, is "none".          *)
(***************************************************************************)
EXTENDS VisualMemory

Given(a, b) == IF a # "none" THEN a ELSE b

-----------------------------------------------------------------------------
(* An action of the head: its outcome, the details of the outcome, and     *)
(* what was said of it.  Only a truth value counts as "success"; kind and  *)
(* category may be given by the caller.                                    *)

Yes == {"none", "true"}
Kinds3 == {"working", "episodic", "procedural"}
Executions ==
    [success : {"none", "true", "false"}, detailSuccess : {"none", "true", "false"},
     status : {"none", "good", "bad", "other"}, detailStatus : {"none", "good", "bad", "other"},
     error : Yes, words : Yes, adjustment : Yes,
     kind : {"none", "unknown"} \union Kinds3, category : Yes]

(* _extract_success: the status of the details counts only if the outcome  *)
(* has none.                                                               *)
Succeeded(x) ==
    LET told == Given(x.success, x.detailSuccess)
        status == Given(x.status, x.detailStatus)
    IN  IF told # "none" THEN told
        ELSE CASE status = "good" -> "true" [] status = "bad" -> "false" [] OTHER -> "none"

(* _infer_memory_kind, unless it is given; one that is not known raises.   *)
InferredKind(x) ==
    CASE x.adjustment = "true" -> "procedural"
      [] x.adjustment = "none" /\ Succeeded(x) = "none" /\ x.words = "none" -> "working"
      [] OTHER -> "episodic"
MemoryKind(x) == Given(x.kind, InferredKind(x))
IsRecorded(x) == MemoryKind(x) \in Kinds3

(* _infer_category: an error makes an incident of a success.               *)
Category(x) ==
    CASE x.category # "none" -> "given"
      [] x.category = "none" /\ MemoryKind(x) = "procedural" -> "head.procedural_adjustment_candidate"
      [] x.category = "none" /\ MemoryKind(x) = "working" -> "head.transient_execution_signal"
      [] x.category = "none" /\ MemoryKind(x) = "episodic"
           /\ (Succeeded(x) = "false" \/ x.error = "true") -> "head.execution_incident"
      [] OTHER -> "head.execution_outcome"

RetentionFor(kind) ==
    CASE kind = "working" -> "short_lived" [] kind = "episodic" -> "episode"
      [] OTHER -> "adjustment_candidate"
IsDurable(kind) == kind \in {"procedural", "episodic"}
Promotion(x) == IF MemoryKind(x) = "procedural" THEN "candidate" ELSE "not_promoted"
HeadTags(x) ==
    {"head_feedback", MemoryKind(x), Category(x)}
      \union {t \in {"incident"} : Succeeded(x) = "false"}
      \union {t \in {"adjustment_candidate"} : x.adjustment = "true"}

HeadRecord(x) ==
    [kind |-> MemoryKind(x), category |-> Category(x), success |-> Succeeded(x),
     retention |-> RetentionFor(MemoryKind(x)), promotion |-> Promotion(x),
     eligible |-> IsDurable(MemoryKind(x)), tags |-> HeadTags(x)]

(* build_eimemory_ingest_params: of every record, eligible or not.         *)
IngestParams(x) ==
    {[outcome |-> r.success, tags |-> r.tags,
      meta |-> [kind |-> r.kind, category |-> r.category, retention |-> r.retention,
                promotion |-> r.promotion, writeback |-> r.eligible]] : r \in {HeadRecord(x)}}

(* The ids: of each mapping the first of its keys, and the first mapping   *)
(* that has one.  Both fall back on a request and on a turn.               *)
TraceIn(m) == Given(m.trace, Given(m.request, m.turn))
EventIn(m) == Given(m.source, Given(m.event, Given(m.request, m.turn)))
FeedbackTrace(given, outcome, details, action, feedback) ==
    Given(given, Given(TraceIn(outcome), Given(TraceIn(details),
          Given(TraceIn(action), TraceIn(feedback)))))
SourceEvent(outcome, details, action, feedback) ==
    Given(EventIn(outcome), Given(EventIn(details), Given(EventIn(action), EventIn(feedback))))

-----------------------------------------------------------------------------
(* A record of the following of a target.  error is the first error or     *)
(* reason that the outcome or the score has.                               *)

VisualRecords ==
    [type : {"identity_correction", "label_correction", "target_lost", "target_missing",
             "follow_result", "observed", "other"},
     corrected : BOOLEAN, said : {"yes", "no", "none"}, score : {"yes", "no", "none"},
     status : {"good", "bad", "lost", "none"}, error : BOOLEAN, confident : BOOLEAN]

RecordOutcome(v) == Outcome(v.type, v.corrected, v.said, v.score, v.status)

(* _importance, in hundredths                                              *)
RecordImportance(v) ==
    CASE v.type \in {"identity_correction", "label_correction"} \/ v.corrected -> 100
      [] v.type \notin {"identity_correction", "label_correction"} /\ ~ v.corrected
           /\ (RecordOutcome(v) = "failure" \/ v.error) -> 85
      [] OTHER -> CASE RecordOutcome(v) = "lost" -> 75 [] RecordOutcome(v) = "success" -> 70
                    [] OTHER -> 50

VisualRecord(v) ==
    [outcome |-> RecordOutcome(v), success |-> RecordOutcome(v) = "success",
     importance |-> RecordImportance(v),
     eligible |-> Writable(v.type, RecordOutcome(v), v.confident)]

(* build_eimemory_visual_feedback_params: none of a record that is not     *)
(* eligible.  The key is of the session, the event and the type alone.     *)
IdempotencyKey(session, event, type) ==
    IF event = "none" THEN "none" ELSE <<session, event, type>>
FeedbackParams(v, session, event) ==
    IF ~ VisualRecord(v).eligible THEN {}
    ELSE {[key |-> IdempotencyKey(session, event, v.type), outcome |-> RecordOutcome(v),
           importance |-> RecordImportance(v)]}

(* The record _build_visual_loop_diagnostics makes of a frame: the reason  *)
(* of the follow score, of which there always is one, is handed on.        *)
RecordOfFrame(f, confident) ==
    [type |-> FrameFeedback(f), corrected |-> FALSE,
     said |-> Truth(FollowSucceeds(f.measures)), score |-> Truth(FollowSucceeds(f.measures)),
     status |-> "none", error |-> TRUE, confident |-> confident]

-----------------------------------------------------------------------------
(* The candidate of a visual event: build_visual_memory_candidate          *)

Day == 24 * 60 * 60 * 1000
(* _retention_policy                                                       *)
TtlOf(kind) ==
    Day * CASE kind = "user_feedback" -> 90
            [] kind \in {"registered_face_recognized", "follow_failed"} -> 30
            [] kind = "user_device_interaction" -> 14
            [] kind \in {"target_long_present", "target_long_absent"} -> 7
            [] OTHER -> 3
RetainedAs(kind) ==
    CASE kind = "registered_face_recognized" -> "identity_episode"
      [] kind = "follow_failed" -> "adjustment_candidate"
      [] kind = "user_feedback" -> "training_candidate"
      [] OTHER -> "episode"
IsPromoted(kind) == kind \in {"registered_face_recognized", "follow_failed", "user_feedback"}

(* _target_id: who or what a candidate is of.  t has the ids that were     *)
(* found, in the order they are looked for; feedback is of its own text,   *)
(* and all feedback without one is of the same.                            *)
TargetOf(kind, t) ==
    CASE kind = "registered_face_recognized" -> Given(t.event, Given(t.lock, t.context))
      [] kind = "user_device_interaction"    -> Given(t.event, t.context)
      [] kind = "user_feedback"              -> Given(t.words, "no words")
      [] OTHER                               -> Given(t.lock, Given(t.event, t.context))
(* _dedupe_key: without a target the whole event stands for it.            *)
CandidateKey(kind, session, t, content) ==
    <<kind, Given(session, "global"),
      IF TargetOf(kind, t) # "none" THEN TargetOf(kind, t) ELSE <<"digest", content>>>>

MemoryCandidates(e, l, score, session, t, content) ==
    {[kind |-> k, key |-> CandidateKey(k, session, t, content), ttl |-> TtlOf(k),
      retention |-> RetainedAs(k), training |-> ForTraining(k), promoted |-> IsPromoted(k),
      sensitivity |-> Sensitivity(k), eligible |-> TRUE, identityMemory |-> FALSE] :
        k \in {Classify(e, l, score)} \ {"none"}}

=============================================================================
