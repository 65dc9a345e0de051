------------------------------- MODULE Health -------------------------------
(***************************************************************************)
(* What the body says it can still do: DegradationManager turns the health *)
(* of the organs' subfunctions into capabilities and a degradation mode,   *)
(* FallbackPolicy turns these into the actions that are safe, the ones that*)
(* are disabled, and whether anything may be done without asking.          *)
(*                                                                         *)
(* All of it is a function of one snapshot.  The theorems hold for every   *)
(* snapshot; the module has no behaviour.  "none" stands for a subfunction *)
(* that is missing, unavailable or driven by the noop driver.              *)
(***************************************************************************)

Organs == {"ear", "mouth", "eye", "neck"}
Subfunctions == {"capture", "asr", "detection", "identity", "tts_playback", "motor"}
OrganOf(sub) ==
    IF sub \in {"capture", "asr"} THEN "ear"
    ELSE IF sub \in {"detection", "identity"} THEN "eye"
    ELSE IF sub = "tts_playback" THEN "mouth" ELSE "neck"

(* One snapshot: the organs there are, the health of the subfunctions, and *)
(* whether the recogniser's last status is one of those that a degraded    *)
(* recogniser may be in without being broken.                              *)
Snapshots ==
    [organs : SUBSET Organs,
     health : [Subfunctions -> {"healthy", "degraded", "none"}],
     asrAtRest : BOOLEAN]

-----------------------------------------------------------------------------
(* DegradationManager *)

(* _is_real_capability                                                     *)
IsReal(s, sub) == OrganOf(sub) \in s.organs /\ s.health[sub] = "healthy"
IsRealOrDegraded(s, sub) == OrganOf(sub) \in s.organs /\ s.health[sub] # "none"

CanHear(s) == IsRealOrDegraded(s, "capture")
CanTranscribe(s) ==
    /\ IsRealOrDegraded(s, "asr")
    /\ s.health["asr"] = "healthy" \/ s.asrAtRest
CanSee(s) == IsRealOrDegraded(s, "detection")
CanIdentify(s) == IsReal(s, "identity")
CanSpeak(s) == IsRealOrDegraded(s, "tts_playback")
CanOrient(s) == IsRealOrDegraded(s, "motor")

(* evaluate: an organ that was never installed does not degrade the body.  *)
DegradationMode(s) ==
    IF "ear" \in s.organs /\ CanHear(s) /\ ~ CanTranscribe(s) THEN "low_confidence_body"
    ELSE IF "mouth" \in s.organs /\ ~ CanSpeak(s) THEN "mute_companion"
    ELSE IF "neck" \in s.organs /\ ~ CanOrient(s) THEN "fixed_gaze"
    ELSE "normal"

-----------------------------------------------------------------------------
(* FallbackPolicy *)

(* _infer_mode: the mode when nobody has said one.                         *)
InferredMode(s) ==
    IF CanHear(s) /\ ~ CanTranscribe(s) THEN "low_confidence_body"
    ELSE IF ~ CanSpeak(s) THEN "mute_companion"
    ELSE IF ~ CanOrient(s) THEN "fixed_gaze"
    ELSE "normal"

CanConverse(s) == CanHear(s) /\ CanTranscribe(s) /\ CanSpeak(s)

(* The _collect methods. "dialogue.finalize" is never among the safe ones. *)
Disabled(s) ==
    UNION {IF CanHear(s) THEN {} ELSE {"dialogue.listen", "dialogue.finalize"},
           IF CanConverse(s) THEN {} ELSE {"dialogue.respond"},
           IF CanHear(s) /\ ~ CanTranscribe(s) THEN {"dialogue.finalize"} ELSE {},
           IF CanSpeak(s) THEN {} ELSE {"speech.play"},
           IF CanOrient(s) THEN {} ELSE {"head.move"},
           IF CanSee(s) THEN {} ELSE {"vision.track"},
           IF CanIdentify(s) THEN {} ELSE {"identity.recognize"}}

Collected(s) ==
    UNION {IF CanHear(s) THEN {"dialogue.listen"} ELSE {},
           IF CanConverse(s) THEN {"dialogue.respond"} ELSE {},
           IF CanSpeak(s) THEN {"speech.play"} ELSE {},
           {"speech.stop"},
           IF CanOrient(s) THEN {"head.move"} ELSE {},
           IF CanSee(s) THEN {"vision.track"} ELSE {},
           IF CanIdentify(s) THEN {"identity.recognize"} ELSE {}}
Safe(s) == Collected(s) \ Disabled(s)

Critical == {"dialogue.listen", "dialogue.respond", "speech.play", "dialogue.finalize"}

RequiresConfirmation(s, mode) == mode # "normal" \/ "dialogue.finalize" \in Disabled(s)
CanAutorun(s, mode) == ~ RequiresConfirmation(s, mode) /\ Critical \cap Disabled(s) = {}
=============================================================================
