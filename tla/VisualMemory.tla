---------------------------- MODULE VisualMemory -----------------------------
(***************************************************************************)
(* What a frame of the visual loop leaves for memory and for training.     *)
(*                                                                         *)
(* Every frame is scored (score_visual_follow, eibrain/body/               *)
(* visual_follow_score.py), judged by VisualMemoryPolicy (eibrain/memory/  *)
(* visual_memory.py), which makes a candidate of it or not, and written    *)
(* into a feedback record for training (eibrain/memory/visual_feedback.py).*)
(* _build_visual_loop_diagnostics of the body runtime does all three.      *)
(*                                                                         *)
(* The policy keeps when it last made a candidate of each key, and makes   *)
(* none of the same key within its dedupe window.  Times are those of the  *)
(* events; they need not be in order.                                      *)
(***************************************************************************)
EXTENDS Integers

CONSTANTS
    MinFrames, MinPresence, MinAbsence,     \* min_stable_frames and the like
    Window,                                 \* dedupe_window_ms
    Subjects                                \* sessions with what they look at

-----------------------------------------------------------------------------
(* The follow score.  Each measure is within its limit, or is not; the     *)
(* error may be unknown before or after the command, as may be the age.    *)

Measures == [known : BOOLEAN, age : {"unknown", "stale", "fresh"},
             suppressed : BOOLEAN, held : BOOLEAN, commanded : BOOLEAN,
             overshoot : BOOLEAN, reduced : BOOLEAN, settled : BOOLEAN,
             actionInTime : BOOLEAN, settledInTime : BOOLEAN]

(* A command that moves by less than the epsilon is a hold.                *)
Held(m) == m.held \/ ~ m.commanded

FollowSucceeds(m) ==
    /\ m.known /\ m.age = "fresh" /\ ~ m.suppressed /\ m.settled
    /\ ~ Held(m) => ~ m.overshoot /\ m.reduced /\ m.actionInTime /\ m.settledInTime

-----------------------------------------------------------------------------
(* The kind of event                                                       *)

(* What a field says that is read as a truth value.                        *)
Said == {"yes", "no", "unclear", "none"}

(* The groups of event types, and whether any of the texts is there that   *)
(* stand for a type.  "status" is the first text of a status of the event  *)
(* or of the score.                                                        *)
Events == [type : {"feedback", "face", "control", "failed", "followed", "absent", "present",
                   "other"},
           text : BOOLEAN, recognised : BOOLEAN, control : BOOLEAN,
           success : Said, status : {"good", "bad", "none"}]

Locks == [locked : Said, target : BOOLEAN, lastTarget : BOOLEAN,
          frames : Nat, duration : Nat, missing : Nat]

(* _follow_success: the event's own word goes before that of the score.    *)
Followed(e, score) ==
    LET raw == IF e.success # "none" THEN e.success ELSE score
    IN  IF raw \in {"yes", "no"} THEN raw
        ELSE CASE e.status = "good" -> "yes" [] e.status = "bad" -> "no" [] OTHER -> "none"

LongPresent(l) ==
    /\ l.locked = "yes" /\ l.target
    /\ l.frames >= MinFrames \/ l.duration >= MinPresence

LongAbsent(l) ==
    /\ l.locked # "yes" /\ (l.target \/ l.lastTarget)
    /\ l.missing >= MinAbsence

EventKinds == {"user_feedback", "registered_face_recognized", "user_device_interaction",
          "follow_failed", "follow_success", "target_long_absent", "target_long_present"}

(* _classify_event: the first of these that applies.                       *)
Classify(e, l, score) ==
    IF e.type = "feedback" \/ e.text THEN "user_feedback"
    ELSE IF e.type = "face" \/ e.recognised THEN "registered_face_recognized"
    ELSE IF e.type = "control" \/ e.control THEN "user_device_interaction"
    ELSE IF e.type = "failed" \/ Followed(e, score) = "no" THEN "follow_failed"
    ELSE IF e.type = "followed" \/ Followed(e, score) = "yes" THEN "follow_success"
    ELSE IF e.type = "absent" \/ LongAbsent(l) THEN "target_long_absent"
    ELSE IF e.type = "present" \/ LongPresent(l) THEN "target_long_present"
    ELSE "none"

(* _retention_policy and _privacy_for: what is proposed for training, and  *)
(* how private it is.                                                      *)
ForTraining(kind) == kind \in {"follow_failed", "user_feedback"}

Sensitivity(kind) ==
    CASE kind \in {"follow_failed", "user_feedback"} -> "operational"
      [] kind = "registered_face_recognized" -> "personal"
      [] OTHER -> "environmental"

-----------------------------------------------------------------------------
(* The feedback record *)

(* _resolve_outcome: how it went, for a kind of feedback, what was said of *)
(* its success by the outcome and by the score, and a status of either.    *)
Outcome(kind, corrected, said, score, status) ==
    LET success == IF said \in {"yes", "no"} THEN said ELSE score
    IN  IF kind \in {"identity_correction", "label_correction"} /\ corrected THEN "corrected"
        ELSE IF kind \in {"target_lost", "target_missing"} THEN "lost"
        ELSE IF success = "yes" THEN "success"
        ELSE IF success = "no" THEN "failure"
        ELSE CASE status = "good" -> "success" [] status = "lost" -> "lost"
               [] status = "bad" -> "failure" [] OTHER -> "observed"

(* The record's writeback: low confidence counts against an observation    *)
(* only.                                                                   *)
Writable(kind, outcome, confident) ==
    confident \/ ~ (outcome = "observed" \/ kind = "observed")

-----------------------------------------------------------------------------
(* One frame of the visual loop: _build_visual_loop_diagnostics.  A frame  *)
(* without a target has no error.  The events of the vision lane name their*)
(* type under "eventType", which the policy does not read, and a frame     *)
(* without events stands for itself with the status of the loop.           *)

Truth(b) == IF b THEN "yes" ELSE "no"

FrameEvent == [type |-> "other", text |-> FALSE, recognised |-> FALSE, control |-> FALSE,
               success |-> "none", status |-> "none"]

Frames == {f \in [waiting : BOOLEAN, target : BOOLEAN, measures : Measures, lock : Locks] :
             /\ f.waiting => ~ f.target
             /\ f.measures.known => f.target}

FrameKind(f) == Classify(FrameEvent, f.lock, Truth(FollowSucceeds(f.measures)))

FrameFeedback(f) == IF f.waiting THEN "target_lost" ELSE "follow_result"

FrameOutcome(f) ==
    Outcome(FrameFeedback(f), FALSE, Truth(FollowSucceeds(f.measures)),
            Truth(FollowSucceeds(f.measures)), "none")

-----------------------------------------------------------------------------
(* The policy over time *)

VARIABLES
    seen,       \* _seen_at_ms
    made,       \* history: the candidates made so far
    latest,     \* history: the time of the last event
    inOrder     \* history: no event was older than the one before

vars == <<seen, made, latest, inOrder>>

Keys == EventKinds \X Subjects
Never == -1
Apart(t, u) == t - u >= Window \/ u - t >= Window

Init ==
    /\ seen = [k \in Keys |-> Never]
    /\ made = {} /\ latest = 0 /\ inOrder = TRUE

(* evaluate: noise and duplicates leave nothing behind.                    *)
Evaluate(kind, subject, t) ==
    LET k == <<kind, subject>>
        new == kind # "none" /\ (seen[k] = Never \/ Apart(t, seen[k]))
    IN  /\ seen' = IF new THEN [seen EXCEPT ![k] = t] ELSE seen
        /\ made' = IF new THEN made \cup {[key |-> k, at |-> t]} ELSE made
        /\ latest' = t
        /\ inOrder' = (inOrder /\ t >= latest)

Next == \E kind \in EventKinds \cup {"none"}, s \in Subjects, t \in Nat : Evaluate(kind, s, t)

Spec == Init /\ [][Next]_vars

-----------------------------------------------------------------------------
(* Properties *)

TypeOK ==
    /\ seen \in [Keys -> Nat \cup {Never}]
    /\ made \in SUBSET [key : Keys, at : Nat]
    /\ latest \in Nat /\ inOrder \in BOOLEAN

(* However many events come: as long as none is older than the one before, *)
(* any two candidates of one key are a dedupe window apart, not only those *)
(* that follow each other (VisualMemoryPolicy.evaluate).                   *)
CandidatesApart ==
    inOrder => \A c, d \in made : c.key = d.key /\ c # d => Apart(c.at, d.at)

(* What the policy remembers of a key is its latest candidate.             *)
LatestIsSeen ==
    inOrder => /\ \A k \in Keys : seen[k] <= latest
               /\ \A c \in made : c.at <= seen[c.key]
=============================================================================
