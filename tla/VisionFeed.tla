----------------------------- MODULE VisionFeed ------------------------------
(***************************************************************************)
(* The target events of the vision lane: what BodyRuntimeApp feeds from    *)
(* the target lock into VisionEventShaper (eibrain/cognition/              *)
(* vision_events.py), and what a consumer of the events makes of it.       *)
(*                                                                         *)
(* Every frame of the visual loop is given to the lock and the result to   *)
(* the shaper.  A locked target is announced on every frame, a lost one    *)
(* once, and the shaper drops an event of the same kind about the same     *)
(* track that comes within its dedupe window.                              *)
(***************************************************************************)
EXTENDS TargetLock

CONSTANT
    Window      \* dedupe_window_ms, in ticks

ASSUME FeedAssumption == Window \in Nat

VARIABLES
    shaper,     \* [locked, subject, emitted]
                \*   locked   _last_target_locked
                \*   subject  the track of _last_target_subject
                \*   emitted  how long ago each kind of event was last
                \*            emitted for each track, up to Window
    told,       \* the last target event a consumer has got: [kind, track]
    losses      \* history: for each track, how long ago the lock lost it, and
                \* how long before that it had lost it, both up to Window

feedVars == <<lock, steady, shaper, told, losses>>

EventKinds == {"target_locked", "target_lost"}

Nothing == [kind |-> "none", track |-> 0]

LockedOn(l) == l.holder # NoOne

(* The target event of one frame: _target_events with the deltas that      *)
(* _build_visual_loop_diagnostics makes of the lock.                       *)
TargetEvent(l) ==
    CASE LockedOn(l) -> [kind |-> "target_locked", track |-> l.holder.track]
      [] ~ LockedOn(l) /\ shaper.locked -> [kind |-> "target_lost", track |-> shaper.subject]
      [] OTHER -> Nothing

(* Faulty: one window for both kinds of event.                             *)
AllowEmitAnyKind(e, dt) ==
    \A kind \in EventKinds : shaper.emitted[kind][e.track] + dt >= Window

(* _allow_emit, dt after the frame before.                                 *)
AllowEmit(e, dt) ==
    shaper.emitted[e.kind][e.track] + dt >= Window

(* One batch of deltas through the shaper.                                 *)
Shape(l, dt) ==
    LET e == TargetEvent(l)
        passes == e # Nothing /\ AllowEmit(e, dt)
    IN  /\ shaper' = [locked  |-> LockedOn(l),
                      subject |-> IF LockedOn(l) THEN l.holder.track ELSE shaper.subject,
                      emitted |-> [kind \in EventKinds |-> [t \in Tracks |->
                          IF passes /\ e = [kind |-> kind, track |-> t] THEN 0
                          ELSE Capped(shaper.emitted[kind][t] + dt, Window)]]]
        /\ told' = IF passes THEN e ELSE told

FeedInit ==
    /\ LockInit
    /\ shaper = [locked |-> FALSE, subject |-> 0,
                 emitted |-> [kind \in EventKinds |-> [t \in Tracks |-> Window]]]
    /\ told = Nothing
    /\ losses = [t \in Tracks |-> [last |-> Window, before |-> Window]]

FeedLook(f, dt) ==
    /\ Look(f, dt)
    /\ Shape(lock', dt)
    /\ losses' = [t \in Tracks |->
                    IF t = lock.holder.track /\ lock'.holder = NoOne
                    THEN [last |-> 0, before |-> Capped(losses[t].last + dt, Window)]
                    ELSE [losses[t] EXCEPT !.last = Capped(@ + dt, Window)]]

FeedNext == \E f \in Frames, dt \in 1..MaxPause : FeedLook(f, dt)

FeedSpec == FeedInit /\ [][FeedNext]_feedVars

-----------------------------------------------------------------------------
(* Properties *)

FeedTypeOK ==
    /\ LockTypeOK
    /\ shaper \in [locked : BOOLEAN, subject : Tracks \cup {0},
                   emitted : [EventKinds -> [Tracks -> 0..Window]]]
    /\ told \in [kind : EventKinds, track : Tracks] \cup {Nothing}

(* Though events are dropped, what a consumer was told last agrees with    *)
(* the lock: it has heard of a locked target, unless that very target was  *)
(* announced within the window before it was lost and found again; and it  *)
(* has heard of the loss, unless the lock lost the same track twice within *)
(* one window, which the consumer never hears of.                          *)
ConsumerKnowsLock ==
    /\ LockedOn(lock) =>
          \/ told = [kind |-> "target_locked", track |-> lock.holder.track]
          \/ shaper.emitted["target_locked"][lock.holder.track] < Window
    /\ ~ LockedOn(lock) /\ told.kind = "target_locked" =>
          losses[shaper.subject].before < Window
=============================================================================
