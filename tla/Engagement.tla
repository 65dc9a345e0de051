----------------------------- MODULE Engagement -----------------------------
(***************************************************************************)
(* The engagement file: how the voice loop tells the visual tracking loop  *)
(* whether somebody is being talked to.                                    *)
(*                                                                         *)
(* VoiceDialogueLoop writes conversation_active to a JSON file, replaced   *)
(* as a whole, and only when it differs from what it believes is there;    *)
(* VisualTrackingLoop reads it once per iteration and tracks or rests.     *)
(* The file outlives the process: this module stops, kills and restarts    *)
(* the process, and lets writes, frames and pauses fail.                   *)
(*                                                                         *)
(* One write and the assignment of _last_engagement_state are one step:    *)
(* nobody else writes, and stop() waits for the loop's thread, which it    *)
(* finds dead or, after three seconds, in a blocking call.                 *)
(***************************************************************************)
EXTENDS Naturals

CONSTANTS
    MaxFailures,    \* bound on the writes, frames and pauses that fail
    MaxRestarts     \* bound on the times the process ends

ASSUME EngagementAssumption == MaxFailures \in Nat /\ MaxRestarts \in Nat

VARIABLES
    file,       \* engagement.json: "missing", "active" or "inactive"
    conv,       \* VoiceDialogueLoop.conversation_active
    last,       \* VoiceDialogueLoop._last_engagement_state
    voice,      \* the voice loop's thread: "off", "idle", "woke" or "slept"
    visual,     \* the visual loop's thread: "off", "read", "track" or "rest"
    rested,     \* VisualTrackingLoop._sleeping_paused
    neck,       \* what the neck was told last: "none", "tracking" or "cleared"
    failures,   \* how many writes, frames and pauses failed
    restarts,   \* how often the process ended
    wrote       \* history: this process has written the file

process == <<conv, last, voice, visual, rested, neck, wrote>>
engagementVars == <<file, process, failures, restarts>>

EngagementInit ==
    /\ file = "missing"
    /\ conv = FALSE /\ last = FALSE
    /\ voice = "off" /\ visual = "off"
    /\ rested = FALSE /\ neck = "none"
    /\ failures = 0 /\ restarts = 0
    /\ wrote = FALSE

Fails == failures < MaxFailures /\ failures' = failures + 1

-----------------------------------------------------------------------------
(* The voice loop *)

(* Faulty: the loop believes in the write before it has been done.         *)
PublishBelieved(active, always) ==
    IF active = last /\ ~ always
    THEN UNCHANGED <<file, last, wrote, failures>>
    ELSE /\ last' = active
         /\ \/ /\ file' = IF active THEN "active" ELSE "inactive"
               /\ wrote' = TRUE
               /\ UNCHANGED failures
            \/ Fails /\ UNCHANGED <<file, wrote>>

(* _publish_engagement_state: nothing to do when the value is the one      *)
(* believed to be there; a write that fails leaves file and belief alone.  *)
PublishEngagement(active, always) ==
    IF active = last /\ ~ always
    THEN UNCHANGED <<file, last, wrote, failures>>
    ELSE \/ /\ file' = IF active THEN "active" ELSE "inactive"
            /\ last' = active
            /\ wrote' = TRUE
            /\ UNCHANGED failures
         \/ Fails /\ UNCHANGED <<file, last, wrote>>

(* start(): the conversation flag is published if it is news.              *)
StartLoops ==
    /\ voice = "off" /\ visual = "off"
    /\ PublishEngagement(conv, FALSE)
    /\ voice' = "idle"
    /\ visual' = "read"
    /\ UNCHANGED <<conv, rested, neck, restarts>>

(* An utterance without the wake word, or silence, while asleep.           *)
NotWoke ==
    /\ voice = "idle" /\ ~ conv
    /\ PublishEngagement(FALSE, FALSE)
    /\ UNCHANGED <<conv, voice, visual, rested, neck, restarts>>

(* The wake word; then the write.                                          *)
Wake ==
    /\ voice = "idle" /\ ~ conv
    /\ conv' = TRUE
    /\ voice' = "woke"
    /\ UNCHANGED <<file, last, visual, rested, neck, failures, restarts, wrote>>

PublishWake ==
    /\ voice = "woke"
    /\ PublishEngagement(TRUE, FALSE)
    /\ voice' = "idle"
    /\ UNCHANGED <<conv, visual, rested, neck, restarts>>

(* The sleep word; then the write, which is always tried.                  *)
Sleep ==
    /\ voice = "idle" /\ conv
    /\ conv' = FALSE
    /\ voice' = "slept"
    /\ UNCHANGED <<file, last, visual, rested, neck, failures, restarts, wrote>>

(* Faulty: the flag as it was when the sleep word was heard.               *)
PublishBeforeSleep ==
    /\ voice = "slept"
    /\ PublishEngagement(TRUE, TRUE)
    /\ voice' = "idle"
    /\ UNCHANGED <<conv, visual, rested, neck, restarts>>

PublishSleep ==
    /\ voice = "slept"
    /\ PublishEngagement(FALSE, TRUE)
    /\ voice' = "idle"
    /\ UNCHANGED <<conv, visual, rested, neck, restarts>>

Voice == NotWoke \/ Wake \/ PublishWake \/ Sleep \/ PublishSleep

-----------------------------------------------------------------------------
(* The visual loop *)

(* Faulty: the phase a missing file reads as gets through.                 *)
ReadPhase ==
    /\ visual = "read"
    /\ visual' = CASE file = "active"   -> "track"
                   [] file = "inactive" -> "rest"
                   [] file = "missing"  -> "unknown"
    /\ UNCHANGED <<file, conv, last, voice, rested, neck, failures, restarts, wrote>>

(* should_run_vision: a missing file reads as nobody being talked to.      *)
Read ==
    /\ visual = "read"
    /\ visual' = IF file = "active" THEN "track" ELSE "rest"
    /\ UNCHANGED <<file, conv, last, voice, rested, neck, failures, restarts, wrote>>

(* One frame, on what the file said when it was read.                      *)
Track ==
    /\ visual = "track"
    /\ rested' = FALSE
    /\ \/ neck' = "tracking" /\ UNCHANGED failures
       \/ Fails /\ UNCHANGED neck
    /\ visual' = "read"
    /\ UNCHANGED <<file, conv, last, voice, restarts, wrote>>

(* Faulty: a pause counts as done before it is.                            *)
RestOnce ==
    /\ visual = "rest"
    /\ rested' = TRUE
    /\ \/ rested /\ UNCHANGED <<neck, failures>>
       \/ ~ rested /\ neck' = "cleared" /\ UNCHANGED failures
       \/ ~ rested /\ Fails /\ UNCHANGED neck
    /\ visual' = "read"
    /\ UNCHANGED <<file, conv, last, voice, restarts, wrote>>

(* pause_visual_tracking, once per rest; one that raises is tried again.   *)
Rest ==
    /\ visual = "rest"
    /\ \/ rested /\ UNCHANGED <<rested, neck, failures>>
       \/ ~ rested /\ rested' = TRUE /\ neck' = "cleared" /\ UNCHANGED failures
       \/ ~ rested /\ Fails /\ UNCHANGED <<rested, neck>>
    /\ visual' = "read"
    /\ UNCHANGED <<file, conv, last, voice, restarts, wrote>>

Visual == Read \/ Track \/ Rest

-----------------------------------------------------------------------------
(* The process *)

(* What a new process starts with; the file is what it was.                *)
FreshProcess ==
    /\ conv' = FALSE /\ last' = FALSE
    /\ voice' = "off" /\ visual' = "off"
    /\ rested' = FALSE /\ neck' = "none"
    /\ wrote' = FALSE

Ends == restarts < MaxRestarts /\ restarts' = restarts + 1

(* The process is killed, at any point.                                    *)
Crash ==
    /\ voice # "off" /\ Ends
    /\ FreshProcess
    /\ UNCHANGED <<file, failures>>

(* stop() publishes the flag as it is, conversation or not, and the process*)
(* ends.                                                                   *)
StopProcess ==
    /\ voice = "idle" /\ Ends
    /\ FreshProcess
    /\ \/ file' = (IF conv THEN "active" ELSE "inactive") /\ UNCHANGED failures
       \/ Fails /\ UNCHANGED file

EngagementNext == StartLoops \/ Voice \/ Visual \/ Crash \/ StopProcess

EngagementSpec == EngagementInit /\ [][EngagementNext]_engagementVars

(* Both loops iterate for as long as the process is up, without anybody    *)
(* saying anything.                                                        *)
EngagementFairSpec ==
    /\ EngagementSpec
    /\ WF_engagementVars(StartLoops)
    /\ WF_engagementVars(NotWoke) /\ WF_engagementVars(PublishWake) /\ WF_engagementVars(PublishSleep)
    /\ WF_engagementVars(Visual)

-----------------------------------------------------------------------------
(* Properties *)

EngagementTypeOK ==
    /\ file \in {"missing", "active", "inactive"}
    /\ conv \in BOOLEAN /\ last \in BOOLEAN
    /\ voice \in {"off", "idle", "woke", "slept"}
    /\ visual \in {"off", "read", "track", "rest"}
    /\ rested \in BOOLEAN /\ neck \in {"none", "tracking", "cleared"}
    /\ failures \in 0..MaxFailures /\ restarts \in 0..MaxRestarts
    /\ wrote \in BOOLEAN

(* From its first write on, the loop knows what is in the file, whatever   *)
(* fails; this is what makes leaving a write out safe.                     *)
WriterKnowsFile == wrote => (file = IF last THEN "active" ELSE "inactive")

(* Between iterations of a process that has written, file and conversation *)
(* differ only where a write has failed.                                   *)
FileFollowsConversation ==
    wrote /\ voice = "idle" /\ failures = 0 =>
        file = IF conv THEN "active" ELSE "inactive"

(* When the process has written the file and the conversation is over, the *)
(* neck comes to rest, however many writes and pauses fail on the way.     *)
HeadComesToRest ==
    (wrote /\ ~ conv) ~> (neck # "tracking" \/ conv \/ voice = "off")
=============================================================================
