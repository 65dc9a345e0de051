---------------------------- MODULE VisualFollow ----------------------------
(***************************************************************************)
(* From the camera to the robot's attention, over three processes' worth of*)
(* stale state.                                                            *)
(*                                                                         *)
(* The vision service runs the detector while a conversation goes on and   *)
(* replaces one state file with what it saw; asleep it stops the detector's*)
(* pipeline and writes an empty state.  The eye organ reads that file, at  *)
(* most once per refresh interval, and the visual loop acts on what the eye*)
(* answers: it counts misses, locks on and lets go, sends the head home and*)
(* shows where the robot's attention is.  The voice loop recomputes that   *)
(* display from the lock without asking the visual loop.                   *)
(*                                                                         *)
(* What is in view is one of three things: nobody, somebody the detector is*)
(* not sure of (score below 0.3), somebody it is sure of.  Whether the head*)
(* moves is HeadTracking's matter, how the conversation gets into the      *)
(* engagement file Engagement's.                                           *)
(***************************************************************************)
EXTENDS Naturals

CONSTANTS
    RecenterAfterMisses,      \* recenter_after_misses of the visual loop
    UnlockAfter         \* misses after which the lock is given up, 3

ASSUME FollowAssumption == {RecenterAfterMisses, UnlockAfter} \subseteq Nat \ {0}

VARIABLES
    view,       \* who is in front of the camera
    engaged,    \* conversation_active in the engagement file
    service,    \* the vision service: down, between frames, or in detect_once
    pipeline,   \* its detector's GStreamer pipeline plays
    slot,       \* _latest_state of the detector, or "empty"
    file,       \* the detections of the vision state file
    cache,      \* _cached_heartbeat of the eye, and whether it is fresh
    lostFrames, sentHome,     \* _visual_tracking_misses, ..._recentered_this_episode
    tracking,       \* interaction_state: tracking_locked, tracking_miss_count
    attention,  \* interaction_state: current_mode = "attention"
    paused,     \* _sleeping_paused of the visual loop
    voice       \* the mode the voice loop has computed and not yet written

followVars == <<view, engaged, service, pipeline, slot, file, cache, lostFrames, sentHome, tracking,
          attention, paused, voice>>

Views == {"none", "weak", "strong"}
UpTo(a, b) == IF a < b THEN a ELSE b

FollowInit ==
    /\ view \in Views /\ engaged = FALSE
    /\ service = "idle" /\ pipeline = FALSE /\ slot = "empty"
    /\ file \in Views           \* as the service before left it
    /\ cache = [seen |-> "none", fresh |-> FALSE]
    /\ lostFrames = 0 /\ sentHome = FALSE
    /\ tracking = [on |-> FALSE, misses |-> 0]
    /\ attention = FALSE /\ paused = FALSE /\ voice = "idle"

App == <<cache, lostFrames, sentHome, tracking, attention, paused, voice>>
Vision == <<service, pipeline, slot, file>>

-----------------------------------------------------------------------------
(* People come and go, and so do conversations                             *)

Move == view' \in Views /\ UNCHANGED <<engaged, Vision, App>>
Converse == engaged' = ~ engaged /\ UNCHANGED <<view, Vision, App>>

-----------------------------------------------------------------------------
(* The vision service: process_once                                        *)

(* Awake, the detector is asked, and starts its pipeline if it has none.   *)
(* Asleep, the pipeline is stopped and an empty state written.  What the   *)
(* pipeline had seen last stays in its slot.                               *)
ServiceLook ==
    /\ service = "idle"
    /\ IF engaged
       THEN service' = "detect" /\ pipeline' = TRUE /\ UNCHANGED file
       ELSE pipeline' = FALSE /\ file' = "none" /\ UNCHANGED service
    /\ UNCHANGED <<view, engaged, slot, App>>

(* _on_sample, in a thread of the pipeline                                 *)
Sample ==
    /\ pipeline /\ slot' = view
    /\ UNCHANGED <<view, engaged, service, pipeline, file, App>>

(* Faulty: without a sample the last state is left alone.                  *)
DetectKeepsFile ==
    /\ service = "detect" /\ service' = "idle"
    /\ file' = (IF slot = "empty" THEN file ELSE slot)
    /\ slot' = "empty"
    /\ UNCHANGED <<view, engaged, pipeline, App>>

(* The slot is emptied into the file; or five seconds go by without a      *)
(* sample, and a state without detections is written.                      *)
Detect ==
    /\ service = "detect" /\ service' = "idle"
    /\ file' = (IF slot = "empty" THEN "none" ELSE slot)
    /\ slot' = "empty"
    /\ UNCHANGED <<view, engaged, pipeline, App>>

(* The pipeline does not start, the service is stopped or killed: the file *)
(* stays as it is.  systemd starts it again (Restart=always).              *)
ServiceDies ==
    /\ service # "down" /\ service' = "down"
    /\ pipeline' = FALSE /\ slot' = "empty"
    /\ UNCHANGED <<view, engaged, file, App>>
ServiceRestarts ==
    /\ service = "down" /\ service' = "idle"
    /\ UNCHANGED <<view, engaged, pipeline, slot, file, App>>

-----------------------------------------------------------------------------
(* The eye: heartbeat, from its cache or from the file.  A file that is too*)
(* old makes it "degraded"; its detections are delivered all the same.     *)

(* Faulty: the cache is asked before its age.                              *)
HeartbeatOnce == IF cache.seen # "none" THEN cache.seen ELSE file

Heartbeat == IF cache.fresh THEN cache.seen ELSE file

Cached == cache' = [seen |-> Heartbeat, fresh |-> TRUE]
CacheExpires ==
    /\ cache.fresh /\ cache' = [cache EXCEPT !.fresh = FALSE]
    /\ UNCHANGED <<view, engaged, Vision, lostFrames, sentHome, tracking, attention, paused, voice>>

-----------------------------------------------------------------------------
(* The visual loop: one iteration                                          *)

(* _refresh_interaction_mode, not forced: not attention while the robot    *)
(* speaks, without a lock, or more than five seconds after the last one.   *)
Shown(locked) == attention' \in {FALSE, locked}

(* Faulty: the lock outlives one miss more.                                *)
MissNotedLate ==
    LET n == tracking.misses + 1
    IN  tracking' = [on |-> tracking.on /\ n <= UnlockAfter, misses |-> UpTo(n, UnlockAfter + 1)]

(* _note_visual_miss                                                       *)
MissNoted ==
    LET n == tracking.misses + 1
    IN  tracking' = [on |-> tracking.on /\ n < UnlockAfter, misses |-> UpTo(n, UnlockAfter)]

Locked == tracking' = [on |-> TRUE, misses |-> 0] /\ attention' = TRUE

(* No target; at the last miss, once, the head is sent home.               *)
FrameEmpty ==
    /\ MissNoted /\ Shown(tracking'.on)
    /\ lostFrames' = UpTo(lostFrames + 1, RecenterAfterMisses)
    /\ sentHome' = (sentHome \/ lostFrames + 1 >= RecenterAfterMisses)

(* The eye sees somebody, and the misses of this loop start again.  Below  *)
(* 0.3 it counts as a miss of the lock.                                    *)
FrameWeak ==
    /\ lostFrames' = 0 /\ sentHome' = FALSE
    /\ MissNoted /\ Shown(tracking'.on)

(* Locked on: as the hold of a target that hardly moved, with no action    *)
(* planned, or after the pan.  A pan that raises notes nothing.            *)
FrameStrong ==
    /\ lostFrames' = 0 /\ sentHome' = FALSE
    /\ \/ Locked
       \/ UNCHANGED tracking /\ Shown(tracking.on)

(* track_visual_target_once, after update_voice_dialogue_state(running)    *)
Track ==
    /\ engaged /\ paused' = FALSE
    /\ Cached
    /\ \/ Heartbeat = "none" /\ FrameEmpty
       \/ Heartbeat = "weak" /\ FrameWeak
       \/ Heartbeat = "strong" /\ FrameStrong
    /\ UNCHANGED <<view, engaged, Vision, voice>>

(* Faulty: the loop notes that it has paused and leaves the lock alone.    *)
PauseKeepsLock ==
    /\ ~ engaged /\ paused' = TRUE
    /\ Shown(tracking.on)
    /\ UNCHANGED <<view, engaged, Vision, cache, lostFrames, sentHome, tracking, voice>>

(* The conversation is over: pause_visual_tracking, once, unless the neck  *)
(* raised when it was cleared; every iteration recomputes the mode.        *)
PauseTracking ==
    /\ ~ engaged
    /\ IF paused
       THEN UNCHANGED <<lostFrames, sentHome, tracking, paused>>
       ELSE /\ lostFrames' = 0 /\ sentHome' = FALSE
            /\ tracking' = [on |-> FALSE, misses |-> 0]
            /\ paused' \in BOOLEAN
    /\ Shown(tracking'.on)
    /\ UNCHANGED <<view, engaged, Vision, cache, voice>>

-----------------------------------------------------------------------------
(* The voice loop: _refresh_interaction_mode by another thread, which reads*)
(* the lock and writes the mode without a lock between them.               *)

VoiceComputes ==
    /\ voice = "idle"
    /\ voice' \in {"other"} \cup (IF tracking.on THEN {"attention"} ELSE {})
    /\ UNCHANGED <<view, engaged, Vision, cache, lostFrames, sentHome, tracking, attention, paused>>
VoiceWrites ==
    /\ voice # "idle" /\ voice' = "idle"
    /\ attention' = (voice = "attention")
    /\ UNCHANGED <<view, engaged, Vision, cache, lostFrames, sentHome, tracking, paused>>

-----------------------------------------------------------------------------
Loop == Track \/ PauseTracking
FollowNext ==
    \/ Move \/ Converse
    \/ ServiceLook \/ Sample \/ Detect \/ ServiceDies \/ ServiceRestarts
    \/ CacheExpires \/ Loop
    \/ VoiceComputes \/ VoiceWrites

(* A frame of somebody whose pan does not raise.                           *)
PanWorked == Track /\ tracking'.on /\ attention'

FollowSpec == FollowInit /\ [][FollowNext]_followVars

(* The loops run, the cache grows old, systemd restarts the service.  The  *)
(* service comes through a frame and the neck takes a pan, again and again *)
(* although not each time.                                                 *)
FollowFairSpec ==
    /\ FollowSpec
    /\ WF_followVars(Loop) /\ WF_followVars(CacheExpires) /\ WF_followVars(VoiceWrites)
    /\ WF_followVars(ServiceRestarts) /\ SF_followVars(ServiceLook) /\ SF_followVars(Detect)
    /\ SF_followVars(PanWorked)

-----------------------------------------------------------------------------
(* Properties *)

FollowTypeOK ==
    /\ view \in Views /\ engaged \in BOOLEAN
    /\ service \in {"down", "idle", "detect"} /\ pipeline \in BOOLEAN
    /\ slot \in Views \cup {"empty"} /\ file \in Views
    /\ cache \in [seen : Views, fresh : BOOLEAN]
    /\ lostFrames \in 0..RecenterAfterMisses /\ sentHome \in BOOLEAN
    /\ tracking \in [on : BOOLEAN, misses : 0..UnlockAfter]
    /\ attention \in BOOLEAN /\ paused \in BOOLEAN
    /\ voice \in {"idle", "other", "attention"}

(* The head is at home, or on its way there, only without a lock: the two  *)
(* counters of misses may differ, but never so that the robot looks away   *)
(* from somebody it has locked on.                                         *)
LockedHeadStays == sentHome => ~ tracking.on

(* Who has left is forgotten, by the lock and by the display, whatever the *)
(* slot, the file and the cache still hold of them; and so is everybody    *)
(* when the conversation is over.                                          *)
ForgottenInTheEnd ==
    <>[](view = "none") \/ <>[](~ engaged) => <>[](~ tracking.on /\ ~ attention)

(* Whom the service keeps reporting during a conversation is looked at, after*)
(* whatever the cache held and the misses before.                          *)
SeenInTheEnd == <>[](file = "strong" /\ engaged) => []<>(tracking.on /\ attention)
=============================================================================
