----------------------------- MODULE EarSharing ------------------------------
(***************************************************************************)
(* Who records with the microphone, and what is said of the ear.           *)
(*                                                                         *)
(* The threads of the console ask the ear organ for its heartbeat, which   *)
(* records a window and recognises it, under the lock of the organ and no  *)
(* more often than the cache allows (organs/ear/organ.py).  The voice loop *)
(* records with a capture of its own: to listen, and to notice somebody    *)
(* who speaks during a playback (apps/body_runtime/app.py).  Both captures *)
(* run arecord under one lock file, for which they wait eight seconds      *)
(* (ear_stream.py).                                                        *)
(*                                                                         *)
(* The second half is what one window makes of the health of the ear, of a *)
(* transcript, and of a barge-in.                                          *)
(***************************************************************************)
EXTENDS Integers

CONSTANTS
    Watchers,   \* threads that ask for a heartbeat
    Voice,      \* the thread of the voice loop
    Ttl         \* refresh_interval_s

VARIABLES
    where,      \* where each thread is
    heartLock,  \* who holds _heartbeat_lock
    mic,        \* who holds the lock file
    cachedAt,   \* _cached_heartbeat_at, or Nothing
    stamp,      \* now_ts of each watcher
    clock

earvars == <<where, heartLock, mic, cachedAt, stamp, clock>>

Threads == Watchers \union {Voice}
Free == CHOOSE f : f \notin Threads
Nothing == -1

EarInit ==
    /\ where = [t \in Threads |-> "out"]
    /\ heartLock = Free /\ mic = Free
    /\ cachedAt = Nothing
    /\ stamp = [t \in Threads |-> 0]
    /\ clock = 0

To(t, place) == where' = [where EXCEPT ![t] = place]

(* heartbeat: the lock is free, or the caller waits for it; it reads the   *)
(* time when it has it.  With the lock taken and a heartbeat in the cache, *)
(* that is the answer, however old, and nothing changes.                   *)
Enter(t) ==
    /\ where[t] \in {"out", "waits"} /\ heartLock = Free
    /\ heartLock' = t /\ stamp' = [stamp EXCEPT ![t] = clock] /\ To(t, "inside")
    /\ UNCHANGED <<mic, cachedAt, clock>>

Await(t) ==
    /\ where[t] = "out" /\ heartLock # Free /\ cachedAt = Nothing
    /\ To(t, "waits")
    /\ UNCHANGED <<heartLock, mic, cachedAt, stamp, clock>>

IsCached(t) == cachedAt # Nothing /\ stamp[t] - cachedAt < Ttl

Leave(t) == heartLock' = Free /\ To(t, "out")

AnswerCached(t) ==
    /\ where[t] = "inside" /\ IsCached(t)
    /\ Leave(t)
    /\ UNCHANGED <<mic, cachedAt, stamp, clock>>

(* _capture_health: a window, or none when the lock file is not free in    *)
(* time or arecord fails; then the other subfunctions are asked.           *)
Begin(t) ==
    /\ \/ where[t] = "inside" /\ ~IsCached(t)
       \/ t = Voice /\ where[t] = "out"
    /\ To(t, "file")
    /\ UNCHANGED <<heartLock, mic, cachedAt, stamp, clock>>

TakeFile(t) ==
    /\ where[t] = "file" /\ mic = Free
    /\ mic' = t /\ To(t, "records")
    /\ UNCHANGED <<heartLock, cachedAt, stamp, clock>>

After(t) == IF t = Voice THEN "out" ELSE "asks"

FileTimesOut(t) ==
    /\ where[t] = "file" /\ mic # Free
    /\ To(t, After(t))
    /\ UNCHANGED <<heartLock, mic, cachedAt, stamp, clock>>

Recorded(t) ==
    /\ where[t] = "records"
    /\ mic' = Free /\ To(t, After(t))
    /\ UNCHANGED <<heartLock, cachedAt, stamp, clock>>

(* The heartbeat is kept with the time at which it was begun.  A driver    *)
(* that raises leaves the old one.                                         *)
Keep(t) ==
    /\ where[t] = "asks"
    /\ cachedAt' = stamp[t]
    /\ Leave(t)
    /\ UNCHANGED <<mic, stamp, clock>>

ProbeRaises(t) ==
    /\ where[t] = "asks"
    /\ Leave(t)
    /\ UNCHANGED <<mic, cachedAt, stamp, clock>>

Tick == clock' = clock + 1 /\ UNCHANGED <<where, heartLock, mic, cachedAt, stamp>>

EarNext ==
    \/ \E t \in Watchers : Enter(t) \/ Await(t) \/ AnswerCached(t) \/ Keep(t) \/ ProbeRaises(t)
    \/ \E t \in Threads : Begin(t) \/ TakeFile(t) \/ FileTimesOut(t) \/ Recorded(t)
    \/ Tick

EarSpec == EarInit /\ [][EarNext]_earvars

-----------------------------------------------------------------------------
(* At most one arecord runs, whoever started it: the device would refuse   *)
(* the second one (_capture_lock).                                         *)
OneRecorder == \A t, u \in Threads : where[t] = "records" /\ where[u] = "records" => t = u

(* However many threads ask, and however long they wait for each other,    *)
(* heartbeats that record are an interval apart: the microphone is left to *)
(* the voice loop in between (heartbeat reads the time after it has the    *)
(* lock).                                                                  *)
WindowsApart ==
    [][cachedAt' # cachedAt /\ cachedAt # Nothing => cachedAt' >= cachedAt + Ttl]_earvars

-----------------------------------------------------------------------------
(* What a window says of the ear.  A window is empty, quiet or a voice; it *)
(* is loud enough for the recogniser or not, too short for it or not; the  *)
(* recogniser returns a text or does not (an error is no text).            *)
Healths == {"healthy", "degraded", "unavailable"}

Windows ==
    {w \in [audio : {"none", "quiet", "voice"}, loud : BOOLEAN, short : BOOLEAN, text : BOOLEAN,
            provider : {"sherpa_onnx", "faster_whisper"}, vadNoop : BOOLEAN,
            probes : [{"asr"} -> Healths] \union [{} -> Healths]] :
        w.audio = "none" => w.short}

(* Only a recogniser has ever its driver asked (_driver_probe): of every   *)
(* other subfunction the passive probe knows nothing and says "healthy".   *)
PassiveProbe(w, name) == IF name \in DOMAIN w.probes THEN w.probes[name] ELSE "healthy"

Unheard(w, name) == IF PassiveProbe(w, name) = "unavailable" THEN "unavailable" ELSE "degraded"

CaptureHealth(w) == IF w.audio # "none" THEN "healthy" ELSE Unheard(w, "capture")

VadHealth(w) ==
    IF w.vadNoop THEN IF w.audio # "none" THEN "healthy" ELSE "degraded"
    ELSE PassiveProbe(w, "vad")

Transcribed(w) == w.audio = "voice" /\ w.loud /\ w.text

AsrHealth(w) ==
    IF Transcribed(w) THEN "healthy"
    ELSE IF w.audio # "none" \/ (w.provider = "sherpa_onnx" /\ w.short) THEN "degraded"
    ELSE Unheard(w, "asr")

EarHealth(w) ==
    LET all == {CaptureHealth(w), VadHealth(w), AsrHealth(w)}
    IN  IF all = {"healthy"} THEN "healthy"
        ELSE IF all \intersect {"healthy", "degraded"} # {} THEN "degraded"
        ELSE "unavailable"

(* EarStreamProcessor.transcribe_window: what is recognised.  After a      *)
(* voice that never started, only what is above the fallback threshold.    *)
Recognised(w, streaming, triggered, fallback) ==
    IF streaming /\ ~triggered THEN fallback /\ w.loud ELSE w.audio # "none"

(* transcribe_audio_window: nothing while the body speaks; otherwise the   *)
(* text of the window.                                                     *)
HeardText(speaking, w, streaming, triggered, fallback) ==
    ~speaking /\ Recognised(w, streaming, triggered, fallback) /\ w.text

(* probe_barge_in: the status of a probe of the microphone during a        *)
(* playback.                                                               *)
BargeInStatus(wired, raises, w) ==
    IF ~wired THEN "not_wired"
    ELSE IF raises THEN "capture_error"
    ELSE IF w.audio = "none" THEN "no_audio"
    ELSE IF w.audio = "voice" /\ w.loud THEN "detected" ELSE "clear"
=============================================================================
