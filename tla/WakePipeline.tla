---------------------------- MODULE WakePipeline ----------------------------
(***************************************************************************)
(* Waiting for the wake word.                                              *)
(*                                                                         *)
(* A capture thread appends what the microphone hears to a ring buffer.  A *)
(* detector thread decodes the latest part of the ring whenever there is   *)
(* something new in it, and queues an observation if it hears a wake word. *)
(* The voice loop takes observations from the queue while it sleeps.  For a*)
(* conversation it pauses the pipeline, as it needs the microphone itself, *)
(* and resumes it after the sleep word.                                    *)
(*                                                                         *)
(* Pausing sets a stop event and joins the thread for two seconds.  A      *)
(* detector whose recogniser takes longer is given up, and finds the event *)
(* cleared again when it looks.  The capture thread is always joined: a    *)
(* read takes a frame, and the source's stop ends one that hangs.          *)
(*                                                                         *)
(* A chunk is the number of the wake word that it carries, or 0.           *)
(***************************************************************************)
EXTENDS Integers, Sequences, FiniteSets

CONSTANTS
    RingSize,       \* max_duration_ms of the ring, in chunks
    Lookback,       \* lookback_ms, in chunks
    MinBuffer,      \* min_buffer_ms, in chunks
    MaxChunks,      \* bound on the chunks captured
    MaxWords,       \* bound on the wake words spoken
    MaxStalls,      \* bound on the joins that time out
    MaxFailures     \* bound on the starts of the microphone that raise

ASSUME WakeAssumption ==
    /\ {RingSize, Lookback, MinBuffer} \subseteq Nat \ {0}
    /\ {MaxChunks, MaxWords, MaxStalls, MaxFailures} \subseteq Nat

VARIABLES
    ring,       \* PcmRingBuffer._chunks
    sequence,   \* its _sequence: how many chunks there were
    capture,    \* the capture thread: off, at the top of its loop, or reading
    decoded,    \* _last_sequence of the detector
    detectors,  \* the detector threads: where each is, and what it hears
    handle,     \* the detector's _thread; 0 for None
    stopping,   \* the workers whose stop event is set
    queue,      \* the detector's queue: each observation the words in it
    loop,       \* the voice loop
    spoken,     \* how many wake words were said
    stalls, failures,
    failed,     \* the last start of the pipeline raised
    woken,      \* history: the words that began a conversation
    leftover    \* history: the words that were around at the last resume

wakeVars == <<ring, sequence, capture, decoded, detectors, handle, stopping, queue, loop,
          spoken, stalls, failures, failed, woken, leftover>>

Words == 1..MaxWords
Slots == 1..(MaxStalls + 1)
Off == [pc |-> "off", hears |-> {}]
AtTop == [pc |-> "top", hears |-> {}]
Alive(d) == detectors[d].pc # "off"

WakeInit ==
    /\ ring = <<>> /\ sequence = 0 /\ decoded = 0
    /\ capture = "off" /\ detectors = [d \in Slots |-> Off] /\ handle = 0
    /\ stopping = {} /\ queue = <<>>
    /\ loop = "startCapture"        \* VoiceDialogueLoop.start
    /\ spoken = 0 /\ stalls = 0 /\ failures = 0 /\ failed = FALSE
    /\ woken = {} /\ leftover = {}

-----------------------------------------------------------------------------
(* The capture thread *)

LastOf(s, n) == SubSeq(s, IF Len(s) > n THEN Len(s) - n + 1 ELSE 1, Len(s))

(* Faulty: trimmed only when there is one chunk too many.                  *)
TrimLate(chunks) == LastOf(chunks, RingSize + 1)

(* The oldest chunks go.                                                   *)
Trim(chunks) == LastOf(chunks, RingSize)

CaptureTop ==
    /\ capture = "top"
    /\ capture' = IF "capture" \in stopping THEN "off" ELSE "read"
    /\ UNCHANGED <<ring, sequence, decoded, detectors, handle, stopping, queue, loop, spoken,
                   stalls, failures, failed, woken, leftover>>

(* A chunk arrives, with a new wake word or without.                       *)
CaptureRead ==
    /\ capture = "read" /\ sequence < MaxChunks
    /\ capture' = "top"
    /\ sequence' = sequence + 1
    /\ \/ spoken' = spoken /\ ring' = Trim(Append(ring, 0))
       \/ spoken < MaxWords /\ spoken' = spoken + 1
          /\ ring' = Trim(Append(ring, spoken + 1))
    /\ UNCHANGED <<decoded, detectors, handle, stopping, queue, loop, stalls, failures, failed,
                   woken, leftover>>

(* The source has nothing, or raises.                                      *)
CaptureNothing ==
    /\ capture = "read"
    /\ capture' = "top"
    /\ UNCHANGED <<ring, sequence, decoded, detectors, handle, stopping, queue, loop, spoken,
                   stalls, failures, failed, woken, leftover>>

-----------------------------------------------------------------------------
(* A detector thread *)

(* Faulty: the whole ring is decoded.                                      *)
RecentRing == ring

Recent == LastOf(ring, Lookback)

WordsIn(chunks) == {chunks[i] : i \in DOMAIN chunks} \ {0}

(* The stop event, and then poll_once: the latest part of the ring, if it  *)
(* is new and long enough.                                                 *)
DetectorTop(d) ==
    /\ detectors[d].pc = "top"
    /\ IF "detector" \in stopping
       THEN detectors' = [detectors EXCEPT ![d] = Off] /\ UNCHANGED decoded
       ELSE /\ sequence # decoded /\ Len(Recent) >= MinBuffer
            /\ decoded' = sequence
            /\ detectors' = [detectors EXCEPT ![d] =
                                [pc |-> "decode", hears |-> WordsIn(Recent)]]
    /\ UNCHANGED <<ring, sequence, capture, handle, stopping, queue, loop, spoken, stalls,
                   failures, failed, woken, leftover>>

(* The recogniser is done.  It may have heard nothing, or have raised.     *)
Decode(d) ==
    /\ detectors[d].pc = "decode"
    /\ detectors' = [detectors EXCEPT ![d] = AtTop]
    /\ \/ UNCHANGED queue
       \/ detectors[d].hears # {} /\ queue' = Append(queue, detectors[d].hears)
    /\ UNCHANGED <<ring, sequence, capture, decoded, handle, stopping, loop, spoken, stalls,
                   failures, failed, woken, leftover>>

-----------------------------------------------------------------------------
(* The voice loop *)

(* Faulty: a pipeline that does not run is not polled.                     *)
TakeIfRunning ==
    /\ loop = "asleep" /\ queue # <<>> /\ capture # "off"
    /\ queue' = Tail(queue)

(* An iteration takes the first observation ...                            *)
Take ==
    /\ loop = "asleep" /\ queue # <<>>
    /\ queue' = Tail(queue)

(* ... which begins a conversation; the pipeline is paused ...             *)
Wake ==
    /\ Take
    /\ woken' = woken \cup Head(queue)
    /\ stopping' = stopping \cup {"detector"}
    /\ loop' = "joinDetector"
    /\ UNCHANGED <<ring, sequence, capture, decoded, detectors, handle, spoken, stalls, failures,
                   failed, leftover>>

(* ... or is lost, as an interrupt has closed the round in the meantime.   *)
Lose ==
    /\ Take
    /\ UNCHANGED <<ring, sequence, capture, decoded, detectors, handle, stopping, loop, spoken,
                   stalls, failures, failed, woken, leftover>>

Joined == handle # 0 => ~ Alive(handle)

(* The detector has ended, or is given up; then the capture worker's turn. *)
JoinDetector ==
    /\ loop = "joinDetector"
    /\ \/ Joined /\ UNCHANGED stalls
       \/ /\ ~ Joined /\ detectors[handle].pc = "decode"
          /\ stalls < MaxStalls /\ stalls' = stalls + 1
    /\ handle' = 0
    /\ stopping' = stopping \cup {"capture"}
    /\ loop' = "joinCapture"
    /\ UNCHANGED <<ring, sequence, capture, decoded, detectors, queue, spoken, failures, failed,
                   woken, leftover>>

(* Faulty: the microphone is taken before the capture thread has ended.    *)
JoinCaptureAtOnce ==
    /\ loop = "joinCapture"
    /\ loop' = "talk"
    /\ UNCHANGED <<ring, sequence, capture, decoded, detectors, handle, stopping, queue, spoken,
                   stalls, failures, failed, woken, leftover>>

JoinCapture ==
    /\ loop = "joinCapture" /\ capture = "off"
    /\ loop' = "talk"
    /\ UNCHANGED <<ring, sequence, capture, decoded, detectors, handle, stopping, queue, spoken,
                   stalls, failures, failed, woken, leftover>>

(* The sleep word: the pipeline is resumed, with the ring and the queue as *)
(* they are.                                                               *)
Sleep ==
    /\ loop = "talk"
    /\ loop' = "startCapture"
    /\ leftover' = WordsIn(LastOf(ring, Lookback))
                     \cup (UNION {queue[i] : i \in DOMAIN queue})
                     \cup (UNION {detectors[d].hears : d \in Slots})
    /\ UNCHANGED <<ring, sequence, capture, decoded, detectors, handle, stopping, queue, spoken,
                   stalls, failures, failed, woken>>

StartCapture ==
    /\ loop = "startCapture"
    /\ capture' = "top" /\ stopping' = stopping \ {"capture"}
    /\ loop' = "startDetector"
    /\ UNCHANGED <<ring, sequence, decoded, detectors, handle, queue, spoken, stalls, failures,
                   failed, woken, leftover>>

(* The process of the microphone cannot be started: the loop notes the     *)
(* error, and sleeps with neither thread.                                  *)
StartFails ==
    /\ loop = "startCapture"
    /\ failures < MaxFailures /\ failures' = failures + 1
    /\ failed' = TRUE
    /\ loop' = "asleep"
    /\ UNCHANGED <<ring, sequence, capture, decoded, detectors, handle, stopping, queue, spoken,
                   stalls, woken, leftover>>

(* Faulty: the stop event stays as the pause left it.                      *)
StartDetectorStopped ==
    /\ loop = "startDetector"
    /\ \E d \in Slots : /\ ~ Alive(d)
                        /\ detectors' = [detectors EXCEPT ![d] = AtTop] /\ handle' = d
    /\ failed' = FALSE
    /\ loop' = "asleep"
    /\ UNCHANGED <<ring, sequence, capture, decoded, stopping, queue, spoken, stalls, failures,
                   woken, leftover>>

StartDetector ==
    /\ loop = "startDetector"
    /\ stopping' = stopping \ {"detector"}
    /\ \E d \in Slots : /\ ~ Alive(d)
                        /\ detectors' = [detectors EXCEPT ![d] = AtTop] /\ handle' = d
    /\ failed' = FALSE
    /\ loop' = "asleep"
    /\ UNCHANGED <<ring, sequence, capture, decoded, queue, spoken, stalls, failures, woken,
                   leftover>>

Capture == CaptureTop \/ CaptureRead \/ CaptureNothing
Detector(d) == DetectorTop(d) \/ Decode(d)
WaitingLoop == \/ Wake \/ Lose \/ JoinDetector \/ JoinCapture
        \/ StartCapture \/ StartFails \/ StartDetector

(* After a failed start the loop polls on, though nothing may come.        *)
Deaf == loop = "asleep" /\ capture = "off" /\ UNCHANGED wakeVars

WakeNext == Capture \/ (\E d \in Slots : Detector(d)) \/ WaitingLoop \/ Sleep \/ Deaf

WakeSpec ==
    /\ WakeInit /\ [][WakeNext]_wakeVars
    /\ WF_wakeVars(Capture) /\ WF_wakeVars(WaitingLoop)
    /\ \A d \in Slots : WF_wakeVars(Detector(d))

-----------------------------------------------------------------------------
(* Properties *)

WakeTypeOK ==
    /\ ring \in Seq(0..MaxWords) /\ Len(ring) <= RingSize
    /\ sequence \in 0..MaxChunks /\ decoded \in 0..sequence
    /\ capture \in {"off", "top", "read"}
    /\ detectors \in [Slots -> [pc : {"off", "top", "decode"}, hears : SUBSET Words]]
    /\ handle \in Slots \cup {0}
    /\ stopping \subseteq {"capture", "detector"}
    /\ queue \in Seq((SUBSET Words) \ {{}})
    /\ loop \in {"asleep", "joinDetector", "joinCapture", "talk", "startCapture",
                 "startDetector"}
    /\ spoken \in 0..MaxWords /\ stalls \in 0..MaxStalls /\ failures \in 0..MaxFailures
    /\ failed \in BOOLEAN /\ woken \subseteq Words /\ leftover \subseteq Words

(* During a conversation the pipeline does not have the microphone.        *)
MicrophoneIsFree == loop = "talk" => capture = "off"

(* A sleeping loop whose pipeline has started is heard: both threads run,  *)
(* and will go on, whatever was given up before.                           *)
AsleepIsHeard ==
    loop = "asleep" /\ ~ failed =>
        capture # "off" /\ handle # 0 /\ Alive(handle) /\ stopping = {}

(* A word begins a second conversation only if it was still waiting in the *)
(* queue, being decoded or within the look-back when the pipeline resumed. *)
OnlyLeftoversWakeAgain ==
    [][loop = "asleep" /\ loop' = "joinDetector"
         => Head(queue) \cap woken \subseteq leftover]_wakeVars

(* What was heard is taken up in the end, even while the pipeline is down. *)
HeardIsTaken == loop = "asleep" /\ queue # <<>> ~> loop # "asleep" \/ queue = <<>>
=============================================================================
