------------------------------ MODULE Proactive -------------------------------
(***************************************************************************)
(* ProactiveActivityManager (eibrain/cognition/realtime/activity.py): when *)
(* the robot does something nobody has asked it for.                       *)
(*                                                                         *)
(* The scheduler asks after every decision, with what it knows of the      *)
(* situation.  What the manager would like to do (speak, show something, be*)
(* silent) is a function of the situation; what it may do depends on what  *)
(* it has done before: a cooldown per channel, a cap per channel and one   *)
(* per type of event within their own windows, and a quiet time after the  *)
(* user has objected.  The emissions it remembers are pruned as it goes.   *)
(*                                                                         *)
(* Idle times are compared with three thresholds, urgency is counted in    *)
(* twentieths.  Time is whole and never runs backwards; texts and counters *)
(* are left out.  The emissions are a set: each carries its number, and    *)
(* what the manager asks of them does not depend on their order in a list. *)
(***************************************************************************)
EXTENDS Integers, FiniteSets

CONSTANTS
    Cooldowns,      \* channel_cooldowns: a time per channel
    ChannelCaps,    \* channel_caps: a limit and a window per channel
    EventCaps,      \* event_type_caps: the same for some types of event
    Feedback,       \* feedback_cooldown_seconds
    Situations,     \* what the scheduler may tell of the situation
    Horizon         \* bound on the time

Channels == {"speak", "visual_only"}
Events == {"execution_result_needs_attention", "execution_follow_up",
           "emotion_and_memory_nudge", "memory_nudge", "emotion_check_in",
           "long_quiet_check_in", "no_low_disturbance_opportunity"}

Cap == [limit : Nat, window : Nat]

(* How long the user has been idle, against min_, visual_ and              *)
(* speak_idle_seconds.                                                     *)
Idle == {"recent", "min", "visual", "speak"}

(* importance is -1 when there are no memory candidates.                   *)
AllSituations ==
    [idle : Idle, low : BOOLEAN, importance : {-1, 0, 9}, failed : BOOLEAN,
     followup : BOOLEAN, muted : BOOLEAN, objection : {"none", "negative", "interrupt"}]

ASSUME ProactiveAssumption ==
    /\ Cooldowns \in [Channels -> Nat]
    /\ ChannelCaps \in [Channels -> Cap]
    /\ DOMAIN EventCaps \subseteq Events /\ \A v \in DOMAIN EventCaps : EventCaps[v] \in Cap
    /\ Feedback \in Nat /\ Horizon \in Nat
    /\ Situations \subseteq AllSituations

VARIABLES
    now,
    last,           \* _last_emit_at
    emissions,      \* _emissions
    quiet,          \* _quiet_until
    emitted,        \* history: all emissions there have ever been
    objected,       \* history: when the user objected last, or Never
    announced       \* history: the next_allowed_at of some answer, its channel and
                    \* its type of event

proactiveVars == <<now, last, emissions, quiet, emitted, objected, announced>>

Never == 0 - Feedback
NoAnswer == [channel |-> "silent", event |-> "none", until |-> 0]

ProactiveInit ==
    /\ now = 0 /\ quiet = 0
    /\ last = [c \in {} |-> 0] /\ emissions = {}
    /\ emitted = {} /\ objected = Never
    /\ announced = NoAnswer

-----------------------------------------------------------------------------
(* What the manager would like to do                                       *)

If(p, n) == IF p THEN n ELSE 0

(* _urgency                                                                *)
Urgency(s) ==
    If(s.low, 9) + If(s.failed, 9) + If(s.followup, 10) + If(s.idle = "speak", 5)
    + If(s.importance > 0, s.importance)

(* _reason                                                                 *)
Reason(s) ==
    CASE s.failed -> "execution_result_needs_attention"
      [] ~ s.failed /\ s.followup -> "execution_follow_up"
      [] ~ s.failed /\ ~ s.followup /\ s.importance >= 0 /\ s.low -> "emotion_and_memory_nudge"
      [] ~ s.failed /\ ~ s.followup /\ s.importance >= 0 /\ ~ s.low -> "memory_nudge"
      [] ~ s.failed /\ ~ s.followup /\ s.importance < 0 /\ s.low -> "emotion_check_in"
      [] OTHER -> IF s.idle = "speak" THEN "long_quiet_check_in"
                  ELSE "no_low_disturbance_opportunity"

WouldSpeak(s) == s.idle = "speak" /\ Urgency(s) >= 13 /\ ~ s.failed

(* The channel of propose, before its rate limits.                         *)
Wish(s) ==
    IF s.objection = "interrupt" \/ (s.idle = "recent" /\ ~ s.followup) THEN "silent"
    ELSE IF WouldSpeak(s) /\ ~ s.muted THEN "speak"
    ELSE IF (s.idle \in {"visual", "speak"} \/ s.followup) /\ Urgency(s) > 0
         THEN "visual_only"
    ELSE "silent"

-----------------------------------------------------------------------------
(* What it may do.  A time that is not later than now blocks nothing.      *)

Within(cap, es) == {e \in es : e.at > now - cap.window}

(* Faulty: the emissions are taken for sorted the other way round.         *)
CapUntilNewest(cap, es) ==
    IF Cardinality(Within(cap, es)) < cap.limit THEN 0
    ELSE (CHOOSE t \in {e.at : e \in Within(cap, es)} : \A e \in Within(cap, es) : e.at <= t)
         + cap.window

Oldest(es) == CHOOSE t \in {e.at : e \in es} : \A e \in es : t <= e.at

(* _cap_until: when the oldest of limit emissions leaves the window.       *)
CapUntil(cap, es) ==
    IF cap.limit = 0 THEN now + cap.window
    ELSE IF Cardinality(Within(cap, es)) < cap.limit THEN 0
    ELSE Oldest(Within(cap, es)) + cap.window

CooldownUntil(channel, lasts) ==
    IF channel \in DOMAIN lasts THEN lasts[channel] + Cooldowns[channel] ELSE 0
ChannelUntil(channel, es) ==
    CapUntil(ChannelCaps[channel], {e \in es : e.channel = channel})
EventUntil(event, es) ==
    IF event \in DOMAIN EventCaps
    THEN CapUntil(EventCaps[event], {e \in es : e.event = event}) ELSE 0

(* _rate_limit: the first of the limits that blocks.                       *)
BlockedUntil(channel, event, until) ==
    LET limits == <<until, CooldownUntil(channel, last),
                    ChannelUntil(channel, emissions), EventUntil(event, emissions)>>
        blocking == {i \in 1..4 : limits[i] > now}
    IN  IF blocking = {} THEN 0 ELSE limits[CHOOSE i \in blocking : \A j \in blocking : i <= j]

LaterOf(a, b) == IF a < b THEN b ELSE a

(* _next_allowed_at: the last of them.                                     *)
NextAllowed(channel, event, until, lasts, es) ==
    LaterOf(LaterOf(until, CooldownUntil(channel, lasts)),
            LaterOf(ChannelUntil(channel, es), EventUntil(event, es)))

Windows == {ChannelCaps[c].window : c \in Channels}
           \cup {EventCaps[v].window : v \in DOMAIN EventCaps}

Emission(channel, event) ==
    [nth |-> Cardinality(emitted) + 1, at |-> now, channel |-> channel, event |-> event]

(* Faulty: an emission replaces those of its kind.                         *)
RememberLatest(channel, event) ==
    {e \in emissions : e.channel # channel \/ e.event # event} \cup {Emission(channel, event)}

(* _remember_emission: what is older than the longest of the windows goes. *)
Remember(channel, event) ==
    {e \in emissions \cup {Emission(channel, event)} : \E w \in Windows : e.at >= now - w}

-----------------------------------------------------------------------------
(* propose                                                                 *)

(* An interrupt or negative feedback is noted before anything is decided.  *)
Quiet(s) == IF s.objection = "none" THEN quiet ELSE LaterOf(quiet, now + Feedback)

NotesObjection(s) == objected' = IF s.objection = "none" THEN objected ELSE now

(* Any one of the answers, until its time has come.                        *)
Announces(channel, event, until) ==
    announced' \in {announced, [channel |-> channel, event |-> event, until |-> until]}

Emit(s) ==
    LET channel == Wish(s)
        event == Reason(s)
    IN  /\ channel # "silent"
        /\ BlockedUntil(channel, event, Quiet(s)) <= now
        /\ last' = [c \in DOMAIN last \cup {channel} |-> IF c = channel THEN now ELSE last[c]]
        /\ emissions' = Remember(channel, event)
        /\ emitted' = emitted \cup {Emission(channel, event)}
        /\ Announces(channel, event, NextAllowed(channel, event, Quiet(s), last', emissions'))
        /\ quiet' = Quiet(s) /\ NotesObjection(s)
        /\ UNCHANGED now

Refuse(s) ==
    LET channel == Wish(s)
        event == Reason(s)
        until == BlockedUntil(channel, event, Quiet(s))
    IN  /\ channel # "silent" /\ until > now
        /\ Announces(channel, event, until)
        /\ quiet' = Quiet(s) /\ NotesObjection(s)
        /\ UNCHANGED <<now, last, emissions, emitted>>

KeepSilent(s) ==
    /\ Wish(s) = "silent"
    /\ quiet' = Quiet(s) /\ NotesObjection(s)
    /\ UNCHANGED <<now, last, emissions, emitted, announced>>

Pass ==
    /\ now < Horizon /\ now' = now + 1
    /\ announced' = IF announced.until > now' THEN announced ELSE NoAnswer
    /\ UNCHANGED <<last, emissions, quiet, emitted, objected>>

ProactiveNext == Pass \/ \E s \in Situations : Emit(s) \/ Refuse(s) \/ KeepSilent(s)

ProactiveSpec == ProactiveInit /\ [][ProactiveNext]_proactiveVars

-----------------------------------------------------------------------------
(* Properties *)

ProactiveTypeOK ==
    /\ now \in 0..Horizon /\ quiet \in 0..Horizon + Feedback
    /\ DOMAIN last \subseteq Channels /\ \A c \in DOMAIN last : last[c] \in 0..now
    /\ emissions \subseteq emitted
    /\ emitted \subseteq [nth : 1..Cardinality(emitted), at : 0..now,
                          channel : Channels, event : Events]
    /\ objected \in {Never} \cup 0..now

(* No window of the cap holds more than its limit of them.                 *)
Capped(cap, es) ==
    \A t \in 0..now : Cardinality({e \in es : e.at \in t..t + cap.window - 1}) <= cap.limit

(* Over everything the robot ever did on its own, and not only what the    *)
(* manager still remembers: no window of a cap holds more than its limit,  *)
(* two emissions of a channel are a cooldown apart, and none follows an    *)
(* objection within the feedback cooldown (_rate_limit).                   *)
WithinLimits ==
    /\ \A c \in Channels : Capped(ChannelCaps[c], {e \in emitted : e.channel = c})
    /\ \A v \in DOMAIN EventCaps : Capped(EventCaps[v], {e \in emitted : e.event = v})
    /\ \A d, e \in emitted :
          d.nth < e.nth /\ d.channel = e.channel => e.at >= d.at + Cooldowns[d.channel]
    /\ \A e \in emitted : e.at <= objected \/ e.at >= objected + Feedback

(* The next_allowed_at of an answer, refusal or emission, is not too late: *)
(* before it nothing of that channel and type is emitted, whatever was said*)
(* and done in between (_next_allowed_at).                                 *)
AnnouncedIsKept ==
    [][\A e \in emitted' \ emitted :
          e.channel = announced.channel /\ e.event = announced.event
          => now >= announced.until]_proactiveVars
=============================================================================
