---------------------------- MODULE MemoryPolicy ----------------------------
(***************************************************************************)
(* MultimodalMemoryPolicy: which sources a turn may recall from, what an   *)
(* event would be remembered as, and which proposals are written; with the *)
(* two places of the cognitive runtime that write without the orchestrator.*)
(*                                                                         *)
(* All of it is a function of its input; the theorems hold for every input *)
(* and the module has no behaviour.  What a text contains is an input: the *)
(* markers are looked for in the code, here they are there or not.         *)
(***************************************************************************)

-----------------------------------------------------------------------------
(* Recall (build_recall_context) *)

General == {"eimemory.knowledge.claims", "eimemory.knowledge_base", "eimemory.news",
            "eimemory.paper", "eimemory.research"}
Audit == {"openclaw.before_prompt_build", "ei_bridge.openclaw_feishu"}
Personal == {"eibrain.identity", "eibrain.preference"}
Identity == Personal \cup {"eibrain.dialogue", "eibrain.audio_dialogue",
                           "openclaw.agent_end", "openclaw.message_received"}

(* What is asked for: the task, whether the request comes from the eye and *)
(* from the neck, mouth or an action, and what the query speaks of.        *)
Requests ==
    [task : {"orient", "diagnose", "act", "respond"},
     ofEye : BOOLEAN, ofAction : BOOLEAN,
     namesDevice : BOOLEAN, namesAction : BOOLEAN]

IsVisual(r) == r.task = "orient" \/ r.ofEye
IsExplicitDiagnostic(r) == r.task = "diagnose"
IsActionFeedback(r) == r.task = "act" \/ r.ofAction \/ r.namesAction
IsDiagnostic(r) == IsExplicitDiagnostic(r) \/ (r.namesDevice /\ ~ IsActionFeedback(r))

(* The first that applies: sight, diagnosis, feedback on actions, dialogue.*)
Profile(r) ==
    IF IsVisual(r) THEN "visual"
    ELSE IF IsDiagnostic(r) THEN "diagnostic"
    ELSE IF IsActionFeedback(r) THEN "action"
    ELSE "dialogue"

AllowedSources(r) ==
    LET p == Profile(r)
    IN  IF p = "visual"
        THEN {"eibrain.visual_world", "eibrain.visual_frame", "eibrain.identity", "eibrain.policy"}
        ELSE IF p = "diagnostic"
        THEN {"eibrain.audio_dialogue", "eibrain.visual_frame", "eibrain.policy", "eibrain.system"}
             \cup (IF IsExplicitDiagnostic(r) THEN Audit ELSE {})
        ELSE IF p = "action"
        THEN {"eibrain.head_feedback", "eibrain.action_trace", "eibrain.outcome_feedback",
              "eibrain.procedural_feedback", "eibrain.training_candidate", "eibrain.policy"}
        ELSE Identity

BlockedSources(r) ==
    LET p == Profile(r)
    IN  IF p = "diagnostic" /\ IsExplicitDiagnostic(r) THEN General
        ELSE IF p = "action" THEN Identity \cup Audit \cup General
        ELSE General \cup Audit

-----------------------------------------------------------------------------
(* Classification (classify_writeback_candidate) *)

(* An event: its kind, what its text contains, what came with it, how it   *)
(* went, and the source it was given, if any.                              *)
Kinds == {"summary", "frame", "observation", "feedback", "dialogue", "action", "other"}
Sources == General \cup Audit \cup Identity \cup
           {"none", "eibrain.visual_frame", "eibrain.outcome_feedback"}
Happenings ==
    [kind : Kinds, byEye : BOOLEAN, hasMemo : BOOLEAN, hasStyle : BOOLEAN,
     explicit : BOOLEAN, feedback : BOOLEAN, adjustment : BOOLEAN,
     failed : BOOLEAN, acted : BOOLEAN, badStatus : BOOLEAN, source : Sources]

(* _is_action_outcome_event                                                *)
IsOutcome(e) == e.kind = "action" \/ e.acted \/ e.failed \/ e.badStatus

(* The branch of the classification an event takes, the first that applies.*)
Class(e) ==
    IF e.adjustment THEN "procedural"
    ELSE IF e.kind = "summary" THEN "summary"
    ELSE IF e.kind = "frame" THEN "frame"
    ELSE IF e.kind = "observation" \/ e.byEye THEN "observation"
    ELSE IF e.explicit \/ e.hasMemo THEN "semantic"
    ELSE IF e.feedback \/ e.kind = "feedback" THEN "training"
    ELSE IF e.kind = "dialogue" THEN "dialogue"
    ELSE IF IsOutcome(e) THEN "outcome"
    ELSE "working"

(* What says how the robot should speak is only ever a working event.      *)
MemoryType(e) ==
    LET c == Class(e)
    IN  IF e.hasStyle \/ c \in {"frame", "working"} THEN "working_event"
        ELSE IF c = "procedural" THEN "procedural_adjustment_candidate"
        ELSE IF c \in {"summary", "dialogue"} THEN "conversation"
        ELSE IF c = "observation" THEN "world_observation"
        ELSE IF c = "semantic" THEN "semantic_candidate"
        ELSE IF c = "training" THEN "training_candidate"
        ELSE "action_outcome"

ShortLived(e) == e.hasStyle \/ Class(e) \in {"frame", "dialogue", "working"}

IsTraining(e) ==
    /\ ~ e.hasStyle
    /\ \/ Class(e) \in {"procedural", "training"}
       \/ Class(e) = "outcome" /\ (e.feedback \/ e.failed)

(* _writeback_policy, which asks again in an order of its own.             *)
Eligible(e) ==
    /\ ~ e.hasStyle
    /\ \/ e.adjustment
       \/ e.explicit
       \/ MemoryType(e) \in {"semantic_candidate", "world_observation"}
       \/ e.kind = "summary"
       \/ e.kind # "frame" /\ IsTraining(e)

(* The source that is written; the branches of "semantic" and of style do  *)
(* not take over one of identity or preference.                            *)
WrittenSource(e) ==
    IF e.source = "none" \/ (e.source \in Personal /\ (e.hasStyle \/ Class(e) = "semantic"))
    THEN "default" ELSE e.source

-----------------------------------------------------------------------------
(* Assessment (evaluate_write_proposals), one proposal at a time *)

(* A proposal: its type and source, whether its key or text is one of the  *)
(* protected ones, whether the user confirmed it, the memories that say    *)
(* something else under its key, and what its numbers come to.             *)
Proposals ==
    [type : {"preference", "identity", "other"}, source : Sources \cup {"default"},
     protected : BOOLEAN, frame : BOOLEAN, confirmed : BOOLEAN,
     disagree : BOOLEAN, lowConfidence : BOOLEAN, lowScore : BOOLEAN]

(* _preference_conflicts: only preferences have any.                       *)
Conflicts(p) == p.type = "preference" /\ p.disagree

Bucket(p) ==
    IF p.protected \/ p.source \in General \cup Audit \/ p.lowConfidence \/ p.frame \/ p.lowScore
    THEN "rejected"
    ELSE IF Conflicts(p) /\ ~ p.confirmed THEN "deferred"
    ELSE "accepted"

-----------------------------------------------------------------------------
(* The direct way (_remember_candidate_episode): the cognitive runtime     *)
(* writes what was said when it asks to be remembered, and what the eye    *)
(* sees when it has changed.                                               *)
IsSpoken(e) ==
    /\ e.kind = "dialogue" /\ e.explicit /\ ~ e.byEye
    /\ ~ e.feedback /\ ~ e.adjustment /\ e.source = "eibrain.audio_dialogue"
IsSeen(e) ==
    /\ e.kind = "observation" /\ e.byEye /\ ~ e.explicit
    /\ ~ e.feedback /\ ~ e.adjustment /\ e.source = "eibrain.visual_frame"

(* _assess_direct_writeback: the candidate as a proposal, with the fixed   *)
(* confidence of 0.75 and the defaults, which come to a score of half or   *)
(* more; a style in the text gives the candidate a protected key.          *)
AsProposal(e) ==
    [type |-> "other", source |-> WrittenSource(e), protected |-> e.hasStyle,
     frame |-> e.kind = "frame", confirmed |-> FALSE, disagree |-> FALSE,
     lowConfidence |-> FALSE, lowScore |-> FALSE]

WrittenDirectly(e) == (IsSpoken(e) \/ IsSeen(e)) /\ Bucket(AsProposal(e)) = "accepted"
=============================================================================
