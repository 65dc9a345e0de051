------------------------------- MODULE Speech -------------------------------
(***************************************************************************)
(* One reply at a time from the voice loop through the body runtime to the *)
(* mouth and its driver, against calls that stop speech.                   *)
(*                                                                         *)
(* The body runtime keeps a deadline, _speech_busy_until: while it lies    *)
(* ahead, is_speaking() holds and the loop neither listens nor replies.  It*)
(* is set two minutes ahead before the mouth is called, and 0.75 seconds   *)
(* ahead when the mouth is done; request_voice_interrupt() sets it to zero.*)
(* The mouth calls the driver, which runs a command of at most a minute,   *)
(* and remembers what it knows of the playback.  So the two minutes never  *)
(* run out during a call, and the model does not let them.                 *)
(***************************************************************************)
EXTENDS Naturals

CONSTANTS
    MaxReplies,     \* bound on the replies of the loop
    MaxStops        \* bound on the calls that stop speech

ASSUME SpeechAssumption ==
    MaxReplies \in Nat /\ MaxStops \in Nat

VARIABLES
    gate,       \* _speech_busy_until: "open" (past), "tail" (0.75 s ahead) or
                \* "long" (two minutes ahead)
    player,     \* the audio process: "silent" or "playing"
    mouth,      \* MouthOrgan._last_playback: its status and busy
    loop,       \* the voice loop's thread in dispatch_actions
    stop,       \* the stopping thread: where it is, which call, the driver's
                \* result, the mouth's busy as it read it
    replies,    \* how many replies were dispatched
    stops,      \* how many stop calls were made
    cleared,    \* history: an interrupt opened the gate since the last reply began
    spoilt      \* history: since the mouth last noted an end, the driver raised
                \* or a stop failed

vars == <<gate, player, mouth, loop, stop, replies, stops, cleared, spoilt>>

IsSpeaking == gate # "open"

Init ==
    /\ gate = "open"
    /\ player = "silent"
    /\ mouth = [status |-> "none", busy |-> FALSE]
    /\ loop = "idle"
    /\ stop = [pc |-> "idle", call |-> "interrupt", result |-> "ok", busy |-> FALSE]
    /\ replies = 0 /\ stops = 0
    /\ cleared = FALSE /\ spoilt = FALSE

-----------------------------------------------------------------------------
(* dispatch_actions of a reply *)

(* Faulty: the gate is closed for as long as the tail of a reply.          *)
BeginShort ==
    /\ loop = "idle" /\ ~ IsSpeaking /\ replies < MaxReplies
    /\ gate' = "tail"
    /\ cleared' = FALSE
    /\ replies' = replies + 1
    /\ loop' = "handed"
    /\ UNCHANGED <<player, mouth, stop, stops, spoilt>>

(* The loop saw is_speaking() false, listened, thought; the gate closes.   *)
Begin ==
    /\ loop = "idle" /\ ~ IsSpeaking /\ replies < MaxReplies
    /\ gate' = "long"
    /\ cleared' = FALSE
    /\ replies' = replies + 1
    /\ loop' = "handed"
    /\ UNCHANGED <<player, mouth, stop, stops, spoilt>>

(* The mouth notes the playback before it calls the driver.                *)
MouthStart ==
    /\ loop = "handed"
    /\ mouth' = [status |-> "starting", busy |-> TRUE]
    /\ loop' = "invoke"
    /\ UNCHANGED <<gate, player, stop, replies, stops, cleared, spoilt>>

(* The driver has its audio and plays, or fails before it does, or raises. *)
DriverPlays ==
    /\ loop = "invoke"
    /\ player' = "playing"
    /\ loop' = "playing"
    /\ UNCHANGED <<gate, mouth, stop, replies, stops, cleared, spoilt>>

DriverFails ==
    /\ loop = "invoke"
    /\ \/ loop' = "failed" /\ UNCHANGED spoilt
       \/ loop' = "raised" /\ spoilt' = TRUE
    /\ UNCHANGED <<gate, player, mouth, stop, replies, stops, cleared>>

(* The playback has ended, or its command was killed after its time; what  *)
(* the command had started goes on playing.                                *)
DriverReturns ==
    /\ loop = "playing"
    /\ \/ player' = "silent" /\ loop' \in {"played", "failed"}
       \/ player = "playing" /\ UNCHANGED player /\ loop' = "failed"
    /\ UNCHANGED <<gate, mouth, stop, replies, stops, cleared, spoilt>>

(* An orphaned playback comes to its end.                                  *)
OrphanEnds ==
    /\ player = "playing" /\ loop # "playing"
    /\ player' = "silent"
    /\ UNCHANGED <<gate, mouth, loop, stop, replies, stops, cleared, spoilt>>

(* Faulty: the driver's word for it becomes the mouth's.                   *)
MouthDoneRaw ==
    /\ loop \in {"played", "failed"}
    /\ mouth' = [status |-> loop, busy |-> FALSE]
    /\ spoilt' = FALSE
    /\ loop' = "leave"
    /\ UNCHANGED <<gate, player, stop, replies, stops, cleared>>

(* Faulty: only a playback that went well makes the mouth free again.      *)
MouthDoneIfOk ==
    /\ loop \in {"played", "failed"}
    /\ mouth' = IF loop = "played" THEN [status |-> "ok", busy |-> FALSE]
                ELSE [mouth EXCEPT !.status = "error"]
    /\ spoilt' = FALSE
    /\ loop' = "leave"
    /\ UNCHANGED <<gate, player, stop, replies, stops, cleared>>

(* The mouth notes the result; "ok" and "error" are not busy.  It does not *)
(* get there when the driver raises.                                       *)
MouthDone ==
    /\ loop \in {"played", "failed"}
    /\ mouth' = [status |-> IF loop = "played" THEN "ok" ELSE "error", busy |-> FALSE]
    /\ spoilt' = FALSE
    /\ loop' = "leave"
    /\ UNCHANGED <<gate, player, stop, replies, stops, cleared>>

(* Faulty: no finally; an exception leaves the gate as it was.             *)
LeaveIfDone ==
    /\ loop \in {"leave", "raised"}
    /\ gate' = IF loop = "leave" THEN "tail" ELSE gate
    /\ loop' = "idle"
    /\ UNCHANGED <<player, mouth, stop, replies, stops, cleared, spoilt>>

(* finally: the gate stays closed for the tail of the reply.               *)
Leave ==
    /\ loop \in {"leave", "raised"}
    /\ gate' = "tail"
    /\ loop' = "idle"
    /\ UNCHANGED <<player, mouth, stop, replies, stops, cleared, spoilt>>

(* The 0.75 seconds are over.                                              *)
TailEnds ==
    /\ gate = "tail"
    /\ gate' = "open"
    /\ UNCHANGED <<player, mouth, loop, stop, replies, stops, cleared, spoilt>>

Reply == MouthStart \/ DriverPlays \/ DriverFails \/ DriverReturns \/ MouthDone \/ Leave

-----------------------------------------------------------------------------
(* A stop: BodyRuntimeApp.request_voice_interrupt ("interrupt"), or        *)
(* VoiceDialogueLoop.request_interrupt ("barge_in")                        *)

(* The mouth calls the driver; a call that raises may have had its effect. *)
(* The speak command of this tree does not look at the operation it is     *)
(* asked for: it answers "ok" and the playback goes on.  An HTTP backend   *)
(* may end it.                                                             *)
DriverStops(call, result) ==
    /\ stop.pc = "idle" /\ stops < MaxStops
    /\ stops' = stops + 1
    /\ stop' = [pc |-> IF result = "raised" THEN "answer" ELSE "read", call |-> call,
                result |-> result, busy |-> FALSE]
    /\ \/ result # "failed" /\ player' = "silent"
       \/ UNCHANGED player
    /\ UNCHANGED <<gate, mouth, loop, replies, cleared, spoilt>>

(* After a stop that failed the mouth is as busy as it was: it reads that, *)
(* and then notes the result.                                              *)
MouthReads ==
    /\ stop.pc = "read"
    /\ stop' = [stop EXCEPT !.pc = "record", !.busy = stop.result # "ok" /\ mouth.busy]
    /\ UNCHANGED <<gate, player, mouth, loop, replies, stops, cleared, spoilt>>

MouthStopped ==
    /\ stop.pc = "record"
    /\ mouth' = [status |-> IF stop.result = "ok" THEN "stopped" ELSE "stop_failed",
                 busy |-> stop.busy]
    /\ spoilt' = (stop.result # "ok")
    /\ stop' = [stop EXCEPT !.pc = "answer"]
    /\ UNCHANGED <<gate, player, loop, replies, stops, cleared>>

(* Its outcome says "ok" whatever the result: it is built without a status,*)
(* which defaults to that.  Without an outcome the stop is not ok.         *)
OutcomeOk == stop.result # "raised"

(* request_voice_interrupt: an outcome that is ok opens the gate.          *)
Interrupted ==
    /\ stop.pc = "answer" /\ stop.call = "interrupt"
    /\ IF OutcomeOk THEN gate' = "open" /\ cleared' = TRUE
                    ELSE UNCHANGED <<gate, cleared>>
    /\ stop' = [stop EXCEPT !.pc = "idle"]
    /\ UNCHANGED <<player, mouth, loop, replies, stops, spoilt>>

(* request_interrupt: the answer decides what is reported of the stop, and *)
(* nothing else.                                                           *)
BargedIn ==
    /\ stop.pc = "answer" /\ stop.call = "barge_in"
    /\ stop' = [stop EXCEPT !.pc = "idle"]
    /\ UNCHANGED <<gate, player, mouth, loop, replies, stops, cleared, spoilt>>

Stop == MouthReads \/ MouthStopped \/ Interrupted \/ BargedIn

-----------------------------------------------------------------------------
(* Nothing is under way and no reply can begin.                            *)
Done ==
    /\ loop = "idle" /\ stop.pc = "idle" /\ player = "silent"
    /\ gate # "tail" /\ (replies = MaxReplies \/ IsSpeaking)
    /\ UNCHANGED vars

Next ==
    \/ Begin \/ Reply \/ OrphanEnds \/ TailEnds
    \/ \E call \in {"interrupt", "barge_in"}, result \in {"ok", "failed", "raised"} :
           DriverStops(call, result)
    \/ Stop
    \/ Done

Spec == Init /\ [][Next]_vars

(* A driver call ends, with a result or its timeout; time goes by; both    *)
(* threads run on.                                                         *)
FairSpec ==
    /\ Spec
    /\ WF_vars(Reply) /\ WF_vars(TailEnds) /\ WF_vars(OrphanEnds) /\ WF_vars(Stop)

-----------------------------------------------------------------------------
(* Properties *)

Dispatching == loop # "idle"

TypeOK ==
    /\ gate \in {"open", "tail", "long"}
    /\ player \in {"silent", "playing"}
    /\ mouth \in [status : {"none", "starting", "ok", "error", "stopped", "stop_failed"},
                  busy : BOOLEAN]
    /\ loop \in {"idle", "handed", "invoke", "playing", "played", "failed", "raised", "leave"}
    /\ stop \in [pc : {"idle", "read", "record", "answer"}, call : {"interrupt", "barge_in"},
                 result : {"ok", "failed", "raised"}, busy : BOOLEAN]
    /\ replies \in 0..MaxReplies /\ stops \in 0..MaxStops
    /\ cleared \in BOOLEAN /\ spoilt \in BOOLEAN

(* Nothing but an interrupt takes the gate from a reply that is being      *)
(* dispatched, however it ends.                                            *)
GateCoversReply == Dispatching /\ gate # "long" => cleared

(* The loop gets to listen again after every reply: no end of a driver call*)
(* leaves the gate closed.                                                 *)
GateOpens == IsSpeaking ~> ~ IsSpeaking

(* With neither a reply nor a stop under way, the mouth says that it is    *)
(* busy only where a driver raised or a stop failed since it last noted an *)
(* end.                                                                    *)
BusyAtRestHasACause == ~ Dispatching /\ stop.pc = "idle" /\ mouth.busy => spoilt
=============================================================================
