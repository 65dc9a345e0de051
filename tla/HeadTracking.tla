---------------------------- MODULE HeadTracking ----------------------------
(***************************************************************************)
(* From a frame to the servo: three controllers on top of each other.      *)
(*                                                                         *)
(* The planner (NeckFusionPolicy) turns where the target is into an angle, *)
(* from the angle it believes the head has: the last one it asked for.  The*)
(* neck organ passes that through NeckPolicy, which leaves out a command   *)
(* that repeats the last one or follows it too soon, and notes the command *)
(* before the motor driver runs it.  Two threads get there: the visual loop*)
(* with its pans and recenterings, and the voice loop with the head        *)
(* movements of a reply.  There is no lock, so NeckPolicy.decide checks and*)
(* commits in two steps.                                                   *)
(*                                                                         *)
(* Angles are small integers and a unit of time is one Tick.  How large a  *)
(* step is (gain, rounding, smoothing) is left open between one and its    *)
(* limit.  The neck's labels for displays (state, active_intent) are left  *)
(* out.                                                                    *)
(***************************************************************************)
EXTENDS Integers

CONSTANTS
    PanMin, PanMax, Home,   \* degrees; both policies are given the same
    MaxStep,                \* max_step_degrees of a pan of the planner
    NeckStep,               \* max_step of NeckPolicy, for targets without angle
    Required,               \* consecutive_bias_required
    FusionInterval,         \* min_command_interval_s of the planner, in ticks
    MinInterval,            \* min_command_interval_s of NeckPolicy
    FrameGap,               \* interval_s of the visual loop
    RecenterAfter,          \* misses before the head is recentered
    MaxOrients              \* bound on the head movements of replies

ASSUME HeadAssumption ==
    /\ PanMin \in Nat \ {0} /\ PanMax \in Nat /\ Home \in PanMin..PanMax
    /\ {MaxStep, NeckStep, Required, FrameGap, RecenterAfter} \subseteq Nat \ {0}
    /\ {FusionInterval, MinInterval, MaxOrients} \subseteq Nat

VARIABLES
    fusion,     \* _neck_fusion_last_action: its action, target_angle,
                \* bias_direction and bias_count
    misses, recentered,     \* _visual_tracking_misses, ..._recentered_this_episode
    neck,       \* NeckControlState: last_angle, last_commanded_angle, status
    servo,      \* the angle of the head
    job,        \* what each thread has under way with the neck organ
    sinceAct,   \* ticks since acted_at_ts of the planner, up to its interval
    sinceCmd,   \* ticks since last_command_at_ts, up to MinInterval
    sinceFrame, \* ticks since the last frame, up to FrameGap
    orients,    \* how many replies moved the head
    clean,      \* history: the last motor call went well and had the neck alone
    astray      \* history: since the last clean pan something else moved the
                \* head, or a pan was left out

vars == <<fusion, misses, recentered, neck, servo, job, sinceAct, sinceCmd,
          sinceFrame, orients, clean, astray>>

Angles == PanMin..PanMax
NoAngle == 0
Threads == {"vision", "voice"}
Other(t) == IF t = "vision" THEN "voice" ELSE "vision"
AtMost(a, b) == IF a < b THEN a ELSE b
Clip(a) == IF a < PanMin THEN PanMin ELSE AtMost(a, PanMax)

Idle == [pc |-> "idle", kind |-> "pan", goal |-> Home, alone |-> TRUE]

Init ==
    /\ fusion = [action |-> "hold", angle |-> NoAngle, side |-> "centre", count |-> 0]
    /\ misses = 0 /\ recentered = FALSE
    /\ neck = [last |-> Home, commanded |-> NoAngle, status |-> "idle"]
    /\ servo \in Angles         \* wherever it was left
    /\ job = [t \in Threads |-> Idle]
    /\ sinceAct = FusionInterval /\ sinceCmd = MinInterval /\ sinceFrame = FrameGap
    /\ orients = 0
    /\ clean = FALSE /\ astray = TRUE

-----------------------------------------------------------------------------
(* The neck organ: handle_action, for either thread *)

(* _desired_angle, of an intent without an angle of its own.               *)
Desired(x) ==
    CASE x = "none"   -> {Home}
      [] x = "centre" -> {neck.last}
      [] x = "left"   -> {Clip(neck.last - d) : d \in 1..NeckStep}
      [] x = "right"  -> {Clip(neck.last + d) : d \in 1..NeckStep}

(* The intent reaches NeckPolicy.decide, which has found no reason yet to  *)
(* leave it out.                                                           *)
Ask(t, kind, goal) ==
    job' = [u \in Threads |->
              IF u = t THEN [pc |-> "check", kind |-> kind, goal |-> goal,
                             alone |-> job[Other(t)].pc = "idle"]
              ELSE [job[u] EXCEPT !.alone = FALSE]]

Suppressed(t) == neck.commanded = job[t].goal \/ sinceCmd < MinInterval

(* Faulty: what was left out is noted as the angle of the head.            *)
SuppressAsDone(t) ==
    /\ job[t].pc = "check" /\ Suppressed(t)
    /\ neck' = [neck EXCEPT !.status = "suppressed", !.last = job[t].goal]
    /\ job' = [job EXCEPT ![t] = Idle]
    /\ astray' = (astray \/ job[t].kind = "pan")
    /\ UNCHANGED <<fusion, misses, recentered, servo, sinceAct, sinceCmd, sinceFrame,
                   orients, clean>>

(* _suppress: the angle is the last one commanded, or its time has not come*)
(* yet.  The organ's outcome is "ok" all the same.                         *)
Suppress(t) ==
    /\ job[t].pc = "check" /\ Suppressed(t)
    /\ neck' = [neck EXCEPT !.status = "suppressed"]
    /\ job' = [job EXCEPT ![t] = Idle]
    /\ astray' = (astray \/ job[t].kind = "pan")
    /\ UNCHANGED <<fusion, misses, recentered, servo, sinceAct, sinceCmd, sinceFrame,
                   orients, clean>>

(* The checks are passed ...                                               *)
Pass(t) ==
    /\ job[t].pc = "check" /\ ~ Suppressed(t)
    /\ job' = [job EXCEPT ![t].pc = "commit"]
    /\ UNCHANGED <<fusion, misses, recentered, neck, servo, sinceAct, sinceCmd, sinceFrame,
                   orients, clean, astray>>

(* ... and the command is noted, before it is carried out.                 *)
Commit(t) ==
    /\ job[t].pc = "commit"
    /\ neck' = [last |-> job[t].goal, commanded |-> job[t].goal, status |-> "command"]
    /\ sinceCmd' = 0
    /\ job' = [job EXCEPT ![t].pc = "motor"]
    /\ UNCHANGED <<fusion, misses, recentered, servo, sinceAct, sinceFrame, orients, clean,
                   astray>>

(* The motor driver: the head moves, or it fails or raises, before or after*)
(* the head has moved.  mark_command_status does not see what was raised.  *)
Motor(t, result) ==
    /\ job[t].pc = "motor"
    /\ servo' \in IF result = "ok" THEN {job[t].goal} ELSE {servo, job[t].goal}
    /\ neck' = IF result = "raised" THEN neck ELSE [neck EXCEPT !.status = result]
    /\ job' = [job EXCEPT ![t] = Idle]
    /\ clean' = (result = "ok" /\ job[t].alone)
    /\ astray' = ~ (clean' /\ job[t].kind = "pan")
    /\ UNCHANGED <<fusion, misses, recentered, sinceAct, sinceCmd, sinceFrame, orients>>

Neck(t) ==
    \/ Suppress(t) \/ Pass(t) \/ Commit(t)
    \/ \E result \in {"ok", "error", "raised"} : Motor(t, result)

-----------------------------------------------------------------------------
(* The planner: NeckFusionPolicy.recommend, for a target that is seen      *)

CurrentAngle == IF fusion.angle = NoAngle THEN Home ELSE fusion.angle
Pans == {"left", "right"}

(* Faulty: a hold starts from the home angle again.                        *)
HoldAtHome == [action |-> "hold", angle |-> Home, side |-> "centre", count |-> 0]

(* _state_for_hold: low confidence, or inside the deadband or hysteresis.  *)
Hold == [action |-> "hold", angle |-> CurrentAngle, side |-> "centre", count |-> 0]

(* The offset to this side, counted once more.                             *)
Biased(side) ==
    [action |-> "hold", angle |-> CurrentAngle, side |-> side,
     count |-> IF fusion.side = side THEN AtMost(fusion.count + 1, Required) ELSE 1]

RateLimited ==
    fusion.action \in Pans \cup {"recenter"} /\ sinceAct < FusionInterval

(* Faulty: the angle is not limited to the range.                          *)
SteppedOut(side, d) == IF side = "right" THEN CurrentAngle + d ELSE CurrentAngle - d

(* Faulty: a pan goes all the way.                                         *)
SteppedFar(side, d) == IF side = "right" THEN PanMax ELSE PanMin

Stepped(side, d) == Clip(IF side = "right" THEN CurrentAngle + d ELSE CurrentAngle - d)

Panned(side, d) ==
    [Biased(side) EXCEPT !.action = side, !.angle = Stepped(side, d)]

-----------------------------------------------------------------------------
(* The visual loop's thread: track_visual_target_once *)

Frame == job["vision"].pc = "idle" /\ sinceFrame = FrameGap /\ sinceFrame' = 0

(* The target is seen; _prepare_tracking_target may hold it back.          *)
Seen == Frame /\ misses' = 0 /\ recentered' = FALSE

SeenHeld ==
    /\ Seen
    /\ \/ UNCHANGED fusion
       \/ fusion' = Hold
    /\ UNCHANGED <<neck, servo, job, sinceAct, sinceCmd, orients, clean, astray>>

(* The target is to one side; the pan has to wait for more of the same, or *)
(* for its interval.  The cooldown never applies: it is asked for only with*)
(* an error beyond the threshold, and holds only within it.                *)
SeenBiased(side) ==
    /\ Seen
    /\ Biased(side).count < Required \/ RateLimited
    /\ fusion' = Biased(side)
    /\ UNCHANGED <<neck, servo, job, sinceAct, sinceCmd, orients, clean, astray>>

(* A pan.  A label that the neck does not follow is left out there.        *)
SeenPan(side, d, trackable) ==
    /\ Seen
    /\ Biased(side).count >= Required /\ ~ RateLimited
    /\ fusion' = Panned(side, d)
    /\ sinceAct' = 0
    /\ IF trackable
       THEN Ask("vision", "pan", Stepped(side, d)) /\ UNCHANGED <<neck, astray>>
       ELSE neck' = [neck EXCEPT !.status = "suppressed"] /\ astray' = TRUE /\ UNCHANGED job
    /\ UNCHANGED <<servo, sinceCmd, orients, clean>>

(* No target: at the third miss in a row, once, the head is sent home.  The*)
(* planner is not told.                                                    *)
Missed ==
    /\ Frame
    /\ misses' = AtMost(misses + 1, RecenterAfter)
    /\ IF ~ recentered /\ misses + 1 >= RecenterAfter
       THEN recentered' = TRUE /\ Ask("vision", "recenter", Home)
       ELSE UNCHANGED <<recentered, job>>
    /\ UNCHANGED <<fusion, neck, servo, sinceAct, sinceCmd, orients, clean, astray>>

(* pause_visual_tracking and clear_neck_control, when the conversation ends*)
Pause ==
    /\ job["vision"].pc = "idle"
    /\ misses' = 0 /\ recentered' = FALSE
    /\ neck' = [neck EXCEPT !.status = "idle"]
    /\ UNCHANGED <<fusion, servo, job, sinceAct, sinceCmd, sinceFrame, orients, clean, astray>>

-----------------------------------------------------------------------------
(* The voice loop's thread: the MoveHeadAction of a reply, with the target_x*)
(* of when the reply was planned.                                          *)
Orient(x) ==
    /\ job["voice"].pc = "idle" /\ orients < MaxOrients
    /\ orients' = orients + 1
    /\ \E goal \in Desired(x) : Ask("voice", "orient", goal)
    /\ UNCHANGED <<fusion, misses, recentered, neck, servo, sinceAct, sinceCmd, sinceFrame,
                   clean, astray>>

(* Time goes by.                                                           *)
Tick ==
    /\ sinceAct' = AtMost(sinceAct + 1, FusionInterval)
    /\ sinceCmd' = AtMost(sinceCmd + 1, MinInterval)
    /\ sinceFrame' = AtMost(sinceFrame + 1, FrameGap)
    /\ UNCHANGED <<fusion, misses, recentered, neck, servo, job, orients, clean, astray>>

Next ==
    \/ \E t \in Threads : Neck(t)
    \/ SeenHeld
    \/ \E side \in Pans : SeenBiased(side)
    \/ \E side \in Pans, d \in 1..MaxStep, trackable \in BOOLEAN : SeenPan(side, d, trackable)
    \/ Missed \/ Pause
    \/ \E x \in {"none", "left", "centre", "right"} : Orient(x)
    \/ Tick

Spec == Init /\ [][Next]_vars

-----------------------------------------------------------------------------
(* Properties *)

TypeOK ==
    /\ fusion \in [action : {"hold"} \cup Pans, angle : Angles \cup {NoAngle},
                   side : Pans \cup {"centre"}, count : 0..Required]
    /\ misses \in 0..RecenterAfter /\ recentered \in BOOLEAN
    /\ neck \in [last : Angles, commanded : Angles \cup {NoAngle},
                 status : {"idle", "command", "suppressed", "ok", "error"}]
    /\ servo \in Angles
    /\ job \in [Threads -> [pc : {"idle", "check", "commit", "motor"},
                            kind : {"pan", "recenter", "orient"}, goal : Angles,
                            alone : BOOLEAN]]
    /\ sinceAct \in 0..FusionInterval /\ sinceCmd \in 0..MinInterval
    /\ sinceFrame \in 0..FrameGap
    /\ orients \in 0..MaxOrients
    /\ clean \in BOOLEAN /\ astray \in BOOLEAN

AtRest == \A t \in Threads : job[t].pc = "idle"

(* The neck knows where the head is, after a motor call that went well and *)
(* met no other thread, whatever it has left out since.                    *)
NeckKnowsHead == AtRest /\ clean => servo = neck.last

(* The planner's angle is the head's, as long as only its own pans moved   *)
(* the head and none of them was left out.                                 *)
PlannerKnowsHead == AtRest /\ ~ astray => CurrentAngle = servo

(* Then a pan moves the head by no more than the limit of a step.          *)
StepsAreSmall ==
    [][job["vision"].pc = "motor" /\ job'["vision"].pc = "idle"
       /\ job["vision"].kind = "pan" /\ ~ astray
          => servo' - servo \in -MaxStep..MaxStep]_vars
=============================================================================
