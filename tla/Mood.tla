-------------------------------- MODULE Mood --------------------------------
(***************************************************************************)
(* How the mood of a round and the persona shape what is said: the hints   *)
(* of voice, room and camera become an emotional state with its guidance   *)
(* (realtime/emotion.py), the state picks a voice, and the persona keeps   *)
(* memories from changing it (realtime/persona.py).  Values are in         *)
(* hundredths, distances in centimetres, noise in decibels; -1 is unknown. *)
(***************************************************************************)
EXTENDS Integers

Hints ==
    [stress : Int, valence : Int, fatigue : Int, arousal : Int, aroused : BOOLEAN,
     energy : {"", "low", "medium", "high"},
     expression : {"", "tired", "sad", "concerned", "angry", "stressed", "other"},
     attention : {"", "present", "away"},
     noiseDb : Int, noiseLevel : {"", "medium", "high"},
     time : {"day", "morning", "afternoon", "evening", "night"}, distance : Int]

(* The hint and the state take different defaults for an unknown arousal.  *)
Arousal(h, default) == IF h.aroused THEN h.arousal ELSE default

HintLabel(h) ==
    LET calm == ~(h.valence >= 25 \/ h.attention = "present")
    IN  IF h.stress >= 70 \/ (Arousal(h, 0) >= 75 /\ h.valence < 0) THEN "stressed"
        ELSE IF ~calm THEN "engaged"
        ELSE IF h.expression \in {"tired", "sad", "concerned", "angry", "stressed"} THEN "concerned"
        ELSE "calm"

Noise(h) ==
    IF h.noiseDb >= 70 \/ h.noiseLevel = "high" THEN "high"
    ELSE IF h.noiseDb >= 60 \/ h.noiseLevel = "medium" THEN "medium" ELSE "low"

Proximity(h) ==
    IF h.distance >= 200 THEN "far" ELSE IF h.distance \in 0..120 THEN "near" ELSE "mid"

MoodOf(h) ==
    IF h.stress >= 70 \/ HintLabel(h) = "stressed" THEN "stressed"
    ELSE IF h.fatigue >= 65 \/ h.energy = "low" \/ h.expression = "tired" THEN "tired"
    ELSE IF h.valence <= -25 \/ h.expression \in {"sad", "concerned"} THEN "sad"
    ELSE IF h.valence >= 25 \/ h.attention = "present" THEN "engaged" ELSE "calm"

Energy(h) ==
    IF h.energy # "" THEN h.energy
    ELSE IF h.fatigue >= 65 \/ Arousal(h, 50) <= 35 THEN "low"
    ELSE IF Arousal(h, 50) >= 70 THEN "high" ELSE "medium"

Vulnerable(h) == MoodOf(h) \in {"sad", "stressed", "tired"}

-----------------------------------------------------------------------------
(* Guidance, worked out three times from the same state.                   *)
SuppressionReasons(h) ==
    {reason \in {"night", "high_noise", "far_distance"} :
        \/ reason = "night" /\ h.time = "night"
        \/ reason = "high_noise" /\ Noise(h) = "high"
        \/ reason = "far_distance" /\ Proximity(h) = "far"}

SuppressSpeech(h) == SuppressionReasons(h) # {}

Priority(h) ==
    IF SuppressSpeech(h) /\ (h.time = "night" \/ (Noise(h) = "high" /\ Proximity(h) = "far"))
    THEN "defer"
    ELSE IF Vulnerable(h) THEN "supportive" ELSE "low"

ConstrainedChannel(h) == Noise(h) = "high" \/ h.time = "night" \/ Proximity(h) = "far"

StrategyBrevity(h) ==
    IF Noise(h) = "high" /\ (h.time = "night" \/ Proximity(h) = "far") THEN "very_concise"
    ELSE IF Noise(h) \in {"high", "medium"} \/ ConstrainedChannel(h) THEN "concise" ELSE "normal"

StrategyTone(h) == IF Vulnerable(h) THEN "gentle" ELSE "warm"
StyleTone(h) == IF HintLabel(h) \in {"stressed", "concerned"} THEN "gentle" ELSE "warm"

-----------------------------------------------------------------------------
(* The voice: the room goes before the mood, and the night before noise.   *)
VoiceStyle(h) ==
    IF h.time = "night" THEN "night"
    ELSE IF Noise(h) = "high" THEN "noisy"
    ELSE IF MoodOf(h) = "tired" \/ Energy(h) = "low" THEN "tired" ELSE "warm"

Volume == [warm |-> 76, tired |-> 64, noisy |-> 92, night |-> 50]

(* _limit_text: n characters cut to max, of which rstrip may drop some.    *)
LimitedLengths(n, max) ==
    IF max <= 0 \/ n <= max THEN {n}
    ELSE IF max <= 3 THEN {max} ELSE {3 + k : k \in 0..(max - 3)}

-----------------------------------------------------------------------------
(* apply_memory_guardrails, one protected key after the other: what memory *)
(* says of it is taken out, and so is a section that this empties.         *)
Key(section, name) == [section |-> section, name |-> name]
ProtectedKeys ==
    {Key("identity", k) : k \in {"name", "role", "loyalty"}}
      \union {Key("core_traits", k) : k \in {"calm", "mature", "professional"}}
      \union {Key("speaking_style", k) : k \in {"tone", "brevity", "language", "avoid"}}
      \union {Key("response_policy", k) : k \in {"max_chars", "sentence_limit", "preface_policy"}}
      \union {Key("memory_policy", "writeback"), Key("decision_principles", "safety")}
      \union {Key("interaction_rules", k) : k \in {"must", "banned"}}

VARIABLES recalled, accepted, rejected, unchecked

guardVars == <<recalled, accepted, rejected, unchecked>>

(* A context of memory: sections, empty ones included, and their entries.  *)
IsContext(c) == \A e \in c.entries : e.section \in c.sections

GuardInit ==
    /\ \E sections, entries :
          recalled = [sections |-> sections, entries |-> entries] /\ IsContext(recalled)
    /\ accepted = recalled
    /\ rejected = {}
    /\ unchecked = ProtectedKeys

(* _nested_pop                                                             *)
Popped(c, key) ==
    LET entries == c.entries \ {key}
        emptied == {s \in {key.section} : \A e \in entries : e.section # s}
    IN  [sections |-> c.sections \ emptied, entries |-> entries]

CheckKey(key) ==
    /\ unchecked' = unchecked \ {key}
    /\ IF key \in accepted.entries
       THEN accepted' = Popped(accepted, key) /\ rejected' = rejected \union {key}
       ELSE UNCHANGED <<accepted, rejected>>
    /\ UNCHANGED recalled

GuardNext == \E key \in unchecked : CheckKey(key)
GuardSpec == GuardInit /\ [][GuardNext]_guardVars

=============================================================================
