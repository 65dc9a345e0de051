----------------------------- MODULE VoiceStream -----------------------------
(***************************************************************************)
(* One realtime session (body/realtime_voice.py) with the adapter that     *)
(* feeds it the events of a voice stream (voice_streaming_adapter.py).     *)
(*                                                                         *)
(* A call may name a round and a token, either or neither.  One that names *)
(* something must name what the session has, and find it open; one that    *)
(* names nothing is let in at any time.  VoiceSessions has many sessions   *)
(* and two threads; here it is one session and one call at a time, with    *)
(* all that a call writes.  Texts, lanes and statuses are left out.        *)
(***************************************************************************)
EXTENDS Integers, Sequences

CONSTANTS Ids    \* the round ids and tokens that callers name or give

VARIABLES
    voice,      \* what the session has noted
    clock,      \* what it has last read from its clock
    counts,     \* the adapter's signals and traces
    tagged,     \* history: all that moved it since its round began named something
    refused     \* history: the signals that the session refused

streamVars == <<voice, clock, counts, tagged, refused>>

Unset == 0
Absent == "absent"
CancelSteps == {"generation", "tts", "action_plan"}
Times == {"started", "audio", "partial", "microfeedback", "final", "reply", "speech", "ended"}
OverPhases == {"barge_in", "completed", "error"}
Endings == {"interrupt", "complete", "error"}
Signals == {"partial", "final", "chunk", "delta", "playback"}
Traces == {"partial", "final", "chunk"}

(* An id that nobody gave is derived from the number of the round.         *)
Named == Ids \union {Absent}
IdOr(given, n) == IF given = Absent THEN <<"derived", n>> ELSE given

Unread == [t \in Times |-> Unset]

StreamInit ==
    /\ \E round \in Named, token \in Named :
          voice = [phase |-> "idle", sequence |-> 1, round |-> IdOr(round, 1), token |-> IdOr(token, 1),
                     at |-> Unread, interrupted |-> FALSE, cancelled |-> {}, chain |-> <<>>, events |-> <<>>]
    /\ clock = 1
    /\ counts = [signal |-> [s \in Signals |-> 0], trace |-> [s \in Traces |-> 0]]
    /\ tagged = TRUE
    /\ refused = [s \in Signals |-> 0]

-----------------------------------------------------------------------------
(* The session: what a call makes of it at time t                          *)

Names(round, token) == round # Absent \/ token # Absent

Belongs(round, token) == round \in {Absent, voice.round} /\ token \in {Absent, voice.token}

IsOpen == ~voice.interrupted /\ voice.phase \notin OverPhases

LetsIn(round, token) == Names(round, token) => Belongs(round, token) /\ IsOpen

Event(s, type, phase) == [type |-> type, phase |-> phase, round |-> s.round, token |-> s.token]

Record(s, type, phase) == [s EXCEPT !.events = Append(@, Event(s, type, phase))]

Transition(s, type, phase) == Record([s EXCEPT !.phase = phase], type, phase)

Stamp(s, time, t) == [s EXCEPT !.at[time] = t]
StampFirst(s, time, t) == IF s.at[time] = Unset THEN Stamp(s, time, t) ELSE s

(* _mark_cancellation_step: done once, and told in the chain.              *)
MarkStep(s, step) ==
    IF step \in s.cancelled THEN s
    ELSE Record([s EXCEPT !.cancelled = @ \union {step},
                          !.chain = Append(@, [target |-> step, round |-> s.round, token |-> s.token])],
                step, s.phase)

(* start_listening: all but the events and the ids is begun anew.          *)
Listening(s, t) ==
    Transition([s EXCEPT !.at = [Unread EXCEPT !["started"] = t], !.interrupted = FALSE,
                         !.cancelled = {}, !.chain = <<>>],
               "listening_started", "listening")

Rotated(s, round, token) ==
    LET n == s.sequence + 1
    IN  [s EXCEPT !.sequence = n, !.round = IdOr(round, n), !.token = IdOr(token, n), !.events = <<>>]

Interrupted(s) ==
    LET cut == Transition([s EXCEPT !.interrupted = TRUE], "interrupt", "barge_in")
    IN  MarkStep(MarkStep(MarkStep(cut, "generation"), "tts"), "action_plan")

Completed(s, t) == Transition(Stamp(s, "ended", t), "complete", "completed")

(* The calls that need an open session when they name one.                 *)
Calls == {"audio", "partial", "final", "microfeedback", "delta", "speak", "chunk",
          "interrupt", "complete", "fail"}

After(s, call, t) ==
    CASE call = "audio"         -> Record(StampFirst(s, "audio", t), "audio_detected", "listening")
      [] call = "partial"       -> Transition(StampFirst(s, "partial", t), "asr_partial", "partial_asr")
      [] call = "final"         -> Transition(Stamp(s, "final", t), "asr_final", "thinking_stream")
      [] call = "microfeedback" -> Record(StampFirst(s, "microfeedback", t), "microfeedback", s.phase)
      [] call = "delta"         -> Transition(StampFirst(s, "reply", t), "agent_think", "thinking_stream")
      [] call = "speak"         -> Transition(StampFirst(s, "speech", t), "tts_started", "speaking_stream")
      [] call = "chunk"         -> Record(s, "tts_chunk", s.phase)
      [] call = "interrupt"     -> Interrupted(s)
      [] call = "complete"      -> Completed(s, t)
      [] call = "fail"          -> Transition(Stamp(s, "ended", t), "error", "error")

-----------------------------------------------------------------------------
(* Calls of the session itself: a call that is refused raises, and writes  *)
(* nothing.                                                                *)

Ticks == clock' \in Nat /\ clock' >= clock

Make(call, round, token) ==
    /\ LetsIn(round, token) /\ Ticks
    /\ voice' = After(voice, call, clock')
    /\ tagged' = (tagged /\ Names(round, token))

CallSession(call, round, token) == Make(call, round, token) /\ UNCHANGED <<counts, refused>>

StartListening(round, token) ==
    /\ LetsIn(round, token) /\ Ticks
    /\ voice' = Listening(voice, clock')
    /\ tagged' = (tagged /\ Names(round, token))
    /\ UNCHANGED <<counts, refused>>

FreshRound(round, token) ==
    /\ Ticks
    /\ voice' = Listening(Rotated(voice, round, token), clock')
    /\ tagged' = TRUE
    /\ UNCHANGED <<counts, refused>>

(* A step of the cancellation may be marked after the end, too.            *)
MarkCancelled(step, round, token) ==
    /\ Belongs(round, token) /\ Ticks
    /\ voice' = MarkStep(voice, step)
    /\ UNCHANGED <<counts, tagged, refused>>

-----------------------------------------------------------------------------
(* Events of the stream, through the adapter                               *)

SignalNoted(signal, trace) ==
    counts' = [counts EXCEPT !.signal[signal] = @ + 1,
                             !.trace = [s \in Traces |-> IF s \in trace THEN @[s] + 1 ELSE @[s]]]

(* A signal is counted before the session is asked, its trace after it.    *)
SignalArrives(signal, call, round, token) ==
    \/ /\ Make(call, round, token)
       /\ SignalNoted(signal, {signal} \intersect Traces)
       /\ UNCHANGED refused
    \/ /\ ~LetsIn(round, token)
       /\ SignalNoted(signal, {})
       /\ refused' = [refused EXCEPT ![signal] = @ + 1]
       /\ UNCHANGED <<voice, clock, tagged>>

(* Playback stopped: done, if it says so and nobody has interrupted; a     *)
(* second such stop of the round is left out, any other marks a step.      *)
Duplicate(round, token) == voice.phase = "completed" /\ Belongs(round, token)

PlaybackStopped(completed, round, token) ==
    IF completed /\ ~voice.interrupted
    THEN ~Duplicate(round, token) /\ CallSession("complete", round, token)
    ELSE MarkCancelled("tts", round, token)

Heartbeat ==
    /\ Ticks
    /\ voice' = Record(voice, "voice_heartbeat", voice.phase)
    /\ UNCHANGED <<counts, tagged, refused>>

StreamEvent(round, token) ==
    \/ SignalArrives("partial", "partial", round, token)
    \/ SignalArrives("final", "final", round, token)
    \/ SignalArrives("delta", "delta", round, token)
    \/ SignalArrives("playback", "speak", round, token)
    \/ SignalArrives("chunk", "chunk", round, token)
    \/ \E completed \in BOOLEAN : PlaybackStopped(completed, round, token)

SessionCall(round, token) ==
    \/ \E call \in Calls : CallSession(call, round, token)
    \/ StartListening(round, token)
    \/ FreshRound(round, token)
    \/ \E step \in CancelSteps : MarkCancelled(step, round, token)

StreamNext ==
    \/ \E round \in Named, token \in Named : StreamEvent(round, token) \/ SessionCall(round, token)
    \/ Heartbeat

StreamSpec == StreamInit /\ [][StreamNext]_streamVars

-----------------------------------------------------------------------------
(* What a snapshot says                                                    *)

IsSet(s, time) == s.at[time] # Unset

ClosedLoop(s) == IsSet(s, "final") /\ IsSet(s, "reply") /\ IsSet(s, "speech") /\ s.phase = "completed"

(* latency_ms: from the start, and from one stage to the next.             *)
Spans == ({"started"} \X (Times \ {"started"})) \union
         {<<"final", "reply">>, <<"reply", "speech">>, <<"speech", "ended">>}

Measured(s) == {p \in Spans : IsSet(s, "started") /\ IsSet(s, p[1]) /\ IsSet(s, p[2])}

LatencyMs(s, p) == IF s.at[p[2]] > s.at[p[1]] THEN s.at[p[2]] - s.at[p[1]] ELSE 0

-----------------------------------------------------------------------------
(* Every step of the cancellation that was taken is in the chain once,     *)
(* with the ids of its round, and an interrupted session has taken all of  *)
(* them, whichever were taken before it was interrupted.                   *)
ChainTellsSteps ==
    /\ voice.cancelled = {voice.chain[i].target : i \in DOMAIN voice.chain}
    /\ \A i, j \in DOMAIN voice.chain :
          voice.chain[i].target = voice.chain[j].target => i = j
    /\ \A i \in DOMAIN voice.chain :
          voice.chain[i].round = voice.round /\ voice.chain[i].token = voice.token
    /\ voice.interrupted => voice.cancelled = CancelSteps

(* In a round whose callers name it, nothing happens after its end: the    *)
(* session ends once, and what is recorded after that are cancellation     *)
(* steps and heartbeats, all with the ids of the round.                    *)
NothingAfterTheEnd ==
    /\ \A i \in DOMAIN voice.events :
          voice.events[i].round = voice.round /\ voice.events[i].token = voice.token
    /\ tagged => \A i, j \in DOMAIN voice.events :
          i < j /\ voice.events[i].type \in Endings
             => voice.events[j].type \in CancelSteps \union {"voice_heartbeat"}

(* The latencies from the start are never cut to nothing, and in a round   *)
(* whose callers name it neither is the one to the end; between two stages *)
(* they may be, since a second final text moves the first stage.           *)
LatenciesAreTimes ==
    \A p \in Measured(voice) :
        p[1] = "started" \/ (p[2] = "ended" /\ tagged)
            => voice.at[p[1]] + LatencyMs(voice, p) = voice.at[p[2]]

(* What the adapter has counted is what the session took or refused.       *)
SignalsAreAccountedFor ==
    \A s \in Traces : counts.signal[s] = counts.trace[s] + refused[s]

(* A closed loop has all of its latencies, and has not been interrupted.   *)
ClosedLoopIsWhole ==
    ClosedLoop(voice) =>
        /\ IsSet(voice, "ended")
        /\ tagged => ~voice.interrupted

=============================================================================
