----------------------------- MODULE VoiceBridge -----------------------------
(***************************************************************************)
(* VoiceRuntimeBridge (eibrain/cognition/realtime/voice_runtime_bridge.py):*)
(* the events of a voice runtime that hears, synthesises and plays by      *)
(* itself, applied to the turn manager of TurnManager.tla.                 *)
(*                                                                         *)
(* The runtime is not part of this code and promises nothing: an event may *)
(* arrive late, twice, after events sent later, or never.  So what it has  *)
(* once sent stays deliverable for ever, and delivering it takes nothing   *)
(* away.  Transcripts and interrupts are applied to whatever round is      *)
(* current; only speech is compared with the ids it carries, and each of   *)
(* the two ids may be missing.                                             *)
(*                                                                         *)
(* An utterance is known by the round that was current when it was said    *)
(* (Unset before the first one), which is what the properties compare with *)
(* the round in which its answer is played.                                *)
(***************************************************************************)
EXTENDS TurnManager

VARIABLES
    uttered,    \* the utterances whose transcripts the runtime has sent
    landed,     \* <<u, r>>: the transcript of u was observed in round r, so
                \* the slow lane holds an input for u with the ids of r
    playing     \* the speech plan being played, or Silence

bridgeVars == <<tm, uttered, landed, playing>>

Silence == [of |-> Unset, in |-> Unset, tags |-> {}]

(* Which of the two ids a chunk of speech carries.                         *)
Tagging == SUBSET {"round", "token"}

(* The ids of a chunk of an answer to the input made for round r.          *)
TagsOf(r, tags) ==
    [round |-> IF "round" \in tags THEN r ELSE Unset,
     token |-> IF "token" \in tags THEN r ELSE Unset]

(* _has_stable_speaking_content of the current turn: it is live, holds     *)
(* segments (every decision commits some, all of them stable) and the      *)
(* arbiter approved them.                                                  *)
HasStableSpeakingContent(t) ==
    Live(t) /\ t.decided > 0 /\ t.verdict = "approved"

(* The ids a chunk does carry are those of the current turn.               *)
IdsMatch(id) == /\ id.round \in {Unset, tm.current}
                /\ id.token \in {Unset, tm.current}

(* Faulty: the ids are looked at only when there is no approved content.   *)
PlayableByContent(id) ==
    /\ tm.current # Unset
    /\ \/ HasStableSpeakingContent(tm.history[tm.current])
       \/ IdsMatch(id) /\ id.token = Unset /\ tm.history[tm.current].final

(* _stale_tts_reason is None: without approved content, speech still goes  *)
(* through if it carries no token and the turn has a transcript.           *)
IsPlayable(id) ==
    /\ tm.current # Unset
    /\ IdsMatch(id)
    /\ \/ HasStableSpeakingContent(tm.history[tm.current])
       \/ id.token = Unset /\ tm.history[tm.current].final

-----------------------------------------------------------------------------
BridgeInit ==
    /\ Init
    /\ uttered = {}
    /\ landed = {}
    /\ playing = Silence

(* The user says something; the runtime begins to send its transcripts.    *)
Utter == /\ uttered' = uttered \cup {tm.current}
         /\ UNCHANGED <<tm, landed, playing>>

(* _handle_asr_partial: the ids of the event are not passed on.            *)
HandleAsrPartial ==
    /\ uttered # {}
    /\ ObservePartial([round |-> Unset, token |-> Unset])
    /\ UNCHANGED <<uttered, landed, playing>>

(* _handle_asr_final: the same; the answer to the event carries the ids of *)
(* the round the transcript landed in, for the slow lane to use.           *)
HandleAsrFinal(u, heard) ==
    /\ ObserveFinal([round |-> Unset, token |-> Unset], heard)
    /\ landed' = landed \cup {<<u, tm'.current>>}
    /\ UNCHANGED <<uttered, playing>>

(* The slow lane works on an input it was given, however old.              *)
DecideInput(w, action) ==
    /\ Decide([round |-> w[2], token |-> w[2]], action)
    /\ UNCHANGED <<uttered, landed, playing>>

(* _handle_tts of a chunk of the answer to input w: stale speech is marked *)
(* as such, and anything else becomes the speech plan.                     *)
HandleTts(w, tags) ==
    /\ IsPlayable(TagsOf(w[2], tags))
    /\ playing' = [of |-> w[1], in |-> tm.current, tags |-> tags]
    /\ UNCHANGED <<tm, uttered, landed>>

(* Faulty: a new round is started and the playback goes on.                *)
InterruptPlaysOn == Interrupt /\ UNCHANGED <<uttered, landed, playing>>

(* _handle_interrupt: whatever round the event was meant for, the current  *)
(* one is interrupted and its speech stopped.                              *)
HandleInterrupt ==
    /\ Interrupt
    /\ playing' = Silence
    /\ UNCHANGED <<uttered, landed>>

(* _handle_activity: a proposal needs a round to belong to.                *)
HandleActivity ==
    /\ tm.current = Unset
    /\ ClientStartRound
    /\ UNCHANGED <<uttered, landed, playing>>

BridgeNext ==
    \/ Utter
    \/ HandleAsrPartial
    \/ \E u \in uttered, heard \in BOOLEAN : HandleAsrFinal(u, heard)
    \/ \E w \in landed, action \in Planned : DecideInput(w, action)
    \/ \E w \in landed, tags \in Tagging : HandleTts(w, tags)
    \/ HandleInterrupt
    \/ HandleActivity

BridgeSpec == BridgeInit /\ [][BridgeNext]_bridgeVars

-----------------------------------------------------------------------------
(* Properties *)

BridgeTypeOK ==
    /\ TypeOK
    /\ uttered \subseteq 0..tm.index
    /\ landed \subseteq (0..tm.index) \X (1..tm.index)
    /\ playing \in [of : 0..tm.index, in : 0..tm.index, tags : Tagging]

(* Whatever arrives late or twice, what is being played belongs to the     *)
(* live round; if it carried any id it answers an utterance whose          *)
(* transcript was observed in that very round, so that a barge-in silences *)
(* all tagged speech of the rounds before it, also what is still to arrive;*)
(* and without ids it is played in a round that has observed a transcript, *)
(* that is, only once the user has spoken again (_stale_tts_reason,        *)
(* _handle_interrupt).                                                     *)
RepliesStayInTheirRound ==
    playing # Silence =>
        /\ playing.in = tm.current
        /\ Live(tm.history[tm.current])
        /\ playing.tags # {} => <<playing.of, tm.current>> \in landed
        /\ \E w \in landed : w[2] = tm.current
=============================================================================
