---------------------------- MODULE VoiceContext -----------------------------
(***************************************************************************)
(* What the voice chain is told of the scene (vision_voice_context.py):    *)
(* whether "this" and "there" can be resolved, which target there is, and  *)
(* how far the description can be relied upon.  Confidences and the        *)
(* reliability are in thousandths.                                         *)
(***************************************************************************)
EXTENDS Integers

Confidences == 0..1000
Unknown == "unknown"

(* One call: the age of the visual state or Unknown, the objects of the    *)
(* scene and of the state, and the target.                                 *)
Labels == {"person", "face", "other"}
Things == [label : Labels, confidence : Confidences]
GivenTargets ==
    [given : BOOLEAN, named : BOOLEAN, lost : BOOLEAN, locked : BOOLEAN,
     following : BOOLEAN, confidence : Confidences]
Views ==
    [age : Nat \union {Unknown}, staleAfter : Nat, scene : SUBSET Things,
     state : SUBSET Things, target : GivenTargets]

(* An unknown age is not stale.                                            *)
IsStale(v) == v.age # Unknown /\ v.age > v.staleAfter

CompactObjects(v) == IF v.scene # {} THEN v.scene ELSE v.state

HasPerson(v) == \E o \in CompactObjects(v) : o.label = "person"

TargetStatus(v) ==
    IF ~v.target.given THEN "none"
    ELSE IF IsStale(v) THEN "stale"
    ELSE IF v.target.lost THEN "lost"
    ELSE IF v.target.locked THEN "locked"
    ELSE IF v.target.named THEN "observed" ELSE "none"

Following(v) == v.target.following /\ TargetStatus(v) = "locked"

TrackingStatus(v) ==
    IF Following(v) THEN "following"
    ELSE IF TargetStatus(v) \in {"locked", "lost", "stale"} THEN TargetStatus(v) ELSE "idle"

CanResolveDeictic(v) ==
    /\ ~IsStale(v)
    /\ TargetStatus(v) # "lost"
    /\ TargetStatus(v) \in {"locked", "observed"} \/ HasPerson(v)

ReferenceReason(v) ==
    IF IsStale(v) THEN "visual_context_stale"
    ELSE IF TargetStatus(v) = "lost" THEN "target_lost"
    ELSE IF CanResolveDeictic(v) THEN "fresh_visual_grounding" ELSE "no_live_person_or_target"

(* The confidence of the target, or of the best object.                    *)
BestObject(v, c) ==
    \/ CompactObjects(v) = {} /\ c = 0
    \/ /\ \E o \in CompactObjects(v) : o.confidence = c
       /\ \A o \in CompactObjects(v) : o.confidence <= c

ReliesOnTarget(v) ==
    TargetStatus(v) \in {"locked", "observed", "lost", "stale"} /\ v.target.confidence > 0

(* reliability r: capped without grounding, and again when it is stale.    *)
IsReliability(v, r) ==
    \E base \in Confidences :
        /\ IF ReliesOnTarget(v) THEN base = v.target.confidence ELSE BestObject(v, base)
        /\ LET capped == IF ~CanResolveDeictic(v) /\ base > 490 THEN 490 ELSE base
           IN  r = IF IsStale(v) THEN (capped * 3) \div 10 ELSE capped

-----------------------------------------------------------------------------
(* The call of the running body, after every look at the scene             *)
(* (_attach_visual_pipeline_state): no target is given.                    *)
BodyViews == {v \in Views : ~v.target.given /\ v.state = {}}

=============================================================================
