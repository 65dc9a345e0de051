----------------------------- MODULE VadCapture -------------------------------
(***************************************************************************)
(* What of a window of sound reaches the recogniser: the capture loop of   *)
(* ArecordStreamCapture.read_voice_window (eibrain/body/ear_stream.py), the*)
(* VadEndpointPolicy that decides for it when there is one (vad_policy.py) *)
(* and transcribe_window, which decides whether to decode.                 *)
(*                                                                         *)
(* The two count the same frames with counters of their own: the policy    *)
(* adds up all the voice there was, the loop the frames of one burst.      *)
(* Lengths are in frames; a frame is silent, faint (loud enough for the    *)
(* fallback) or voice.                                                     *)
(***************************************************************************)
EXTENDS Naturals, Sequences

CONSTANTS
    PreRoll, MinVoice, EndSilence, MinCapture,  \* vad_pre_roll_ms, ..., in frames
    MaxFrames       \* the length of the window

(* The loop rounds every length up to a frame at least; only the least     *)
(* capture may be nothing.                                                 *)
ASSUME VadAssumption ==
    /\ {PreRoll, MinVoice, EndSilence, MaxFrames} \subseteq Nat \ {0}
    /\ MinCapture \in Nat

VARIABLES
    policy,     \* vad_endpoint_policy, and the policy's counters
    sound,      \* all_frames: how loud each frame was
    preRoll, pending, captured,     \* the lists of the loop, as frame numbers
    triggered,
    voice,      \* voice_frames once triggered, consecutive_voice_frames before
    silence,    \* silence_after_voice
    done,       \* the loop has ended
    decoded     \* frames the recogniser is given

vadVars == <<policy, sound, preRoll, pending, captured, triggered, voice, silence, done, decoded>>

Levels == {"silent", "faint", "voice"}

VadInit ==
    /\ \E on \in BOOLEAN :
          policy = [on |-> on, voice |-> 0, silence |-> 0, triggered |-> FALSE]
    /\ sound = << >> /\ preRoll = << >> /\ pending = << >> /\ captured = << >>
    /\ triggered = FALSE /\ voice = 0 /\ silence = 0
    /\ done = FALSE /\ decoded = << >>

-----------------------------------------------------------------------------
(* observe: the policy's counters and what it decides                      *)

Observed(level) ==
    LET heard == policy.voice + (IF level = "voice" THEN 1 ELSE 0)
    IN  [policy EXCEPT
            !.voice = heard,
            !.silence = IF level = "voice" THEN 0
                        ELSE IF policy.triggered THEN @ + 1 ELSE @,
            !.triggered = @ \/ heard >= MinVoice]

Peaked(heard) == \E i \in DOMAIN heard : heard[i] # "silent"

ShouldStart(p) == ~ policy.triggered /\ p.triggered
ShouldStop(p, heard) ==
    p.triggered /\ Len(heard) >= MinCapture /\ p.silence >= EndSilence
ShouldForceDecode(p, heard) == Len(heard) >= MaxFrames /\ (p.triggered \/ Peaked(heard))

-----------------------------------------------------------------------------
(* One frame                                                               *)

IsVoice(heard) == heard[Len(heard)] = "voice"

Waiting(heard) ==
    /\ preRoll' = IF IsVoice(heard) THEN preRoll
                  ELSE LET all == Append(preRoll, Len(heard))
                       IN  SubSeq(all, IF Len(all) > PreRoll THEN 2 ELSE 1, Len(all))
    /\ pending' = IF IsVoice(heard) THEN Append(pending, Len(heard)) ELSE << >>
    /\ voice' = IF IsVoice(heard) THEN voice + 1 ELSE 0
    /\ UNCHANGED <<captured, triggered, silence, done>>

(* Faulty: the frame that triggers is the first one kept.                  *)
TriggerLate(heard) ==
    /\ triggered' = TRUE
    /\ captured' = preRoll \o <<Len(heard)>>
    /\ voice' = voice + 1 /\ pending' = << >> /\ silence' = 0
    /\ UNCHANGED <<preRoll, done>>

Trigger(heard) ==
    /\ triggered' = TRUE
    /\ captured' = preRoll \o Append(pending, Len(heard))
    /\ voice' = voice + 1 /\ pending' = << >> /\ silence' = 0
    /\ UNCHANGED <<preRoll, done>>

(* The loop's own idea of when to stop, without a policy.                  *)
Enough ==
    /\ Len(captured') >= MinCapture /\ voice' >= MinVoice /\ silence' >= EndSilence

Capturing(heard, stop) ==
    /\ captured' = Append(captured, Len(heard))
    /\ voice' = IF IsVoice(heard) THEN voice + 1 ELSE voice
    /\ silence' = IF IsVoice(heard) THEN 0 ELSE silence + 1
    /\ done' = (IF policy.on THEN stop ELSE Enough)
    /\ UNCHANGED <<preRoll, pending, triggered>>

Frame ==
    /\ ~ done /\ Len(sound) < MaxFrames
    /\ \E level \in Levels :
       \E heard \in {Append(sound, level)} :
       \E p \in {IF policy.on THEN Observed(level) ELSE policy} :
          /\ sound' = heard /\ policy' = p
          /\ IF ~ triggered /\ policy.on /\ ShouldForceDecode(p, heard)
             THEN /\ done' = TRUE
                  /\ UNCHANGED <<preRoll, pending, captured, triggered, voice, silence>>
             ELSE IF triggered
             THEN Capturing(heard, ShouldStop(p, heard) \/ ShouldForceDecode(p, heard))
             ELSE IF level = "voice" /\ (IF policy.on THEN ShouldStart(p)
                                         ELSE voice + 1 >= MinVoice)
             THEN Trigger(heard)
             ELSE Waiting(heard)
    /\ UNCHANGED decoded

(* The window is over, or arecord has ended.                               *)
Over ==
    /\ ~ done /\ done' = TRUE
    /\ UNCHANGED <<policy, sound, preRoll, pending, captured, triggered, voice, silence, decoded>>

Everything == [i \in DOMAIN sound |-> i]

(* transcribe_window.  When the detector has missed, the whole window is   *)
(* decoded if it is loud enough on the average: surely so when no frame is *)
(* silent, surely not when all are.                                        *)
Decode ==
    /\ done /\ decoded = << >>
    /\ IF triggered THEN decoded' = captured
       ELSE /\ Peaked(sound) /\ decoded' = Everything
    /\ UNCHANGED <<policy, sound, preRoll, pending, captured, triggered, voice, silence, done>>

VadNext == Frame \/ Over \/ Decode

VadSpec == VadInit /\ [][VadNext]_vadVars

-----------------------------------------------------------------------------
(* Properties *)

Frames == 1..Len(sound)

VadTypeOK ==
    /\ policy \in [on : BOOLEAN, voice : 0..MaxFrames, silence : 0..MaxFrames,
                   triggered : BOOLEAN]
    /\ sound \in Seq(Levels) /\ Len(sound) <= MaxFrames
    /\ \A list \in {preRoll, pending, captured, decoded} : list \in Seq(Frames)
    /\ {triggered, done} \subseteq BOOLEAN
    /\ {voice, silence} \subseteq 0..MaxFrames

(* i is in a burst that is long enough for the detector.                   *)
Spoken(i) ==
    \E from \in Frames :
        /\ i \in from..from + MinVoice - 1 /\ from + MinVoice - 1 \in Frames
        /\ \A j \in from..from + MinVoice - 1 : sound[j] = "voice"

(* Whoever speaks for long enough is heard, from the first frame of the    *)
(* burst on and in the order of the frames: with a policy the loop learns  *)
(* of the onset from it, and misses only one that comes with the very last *)
(* frame of the window.                                                    *)
SpeechIsKept ==
    /\ policy.on /\ ~ done => triggered = policy.triggered
    /\ \A i \in Frames : Spoken(i) =>
          \/ \E k \in DOMAIN captured : captured[k] = i
          \/ policy.on /\ ~ triggered /\ Len(sound) = MaxFrames
    /\ \A k, l \in DOMAIN captured : k < l => captured[k] < captured[l]
=============================================================================
