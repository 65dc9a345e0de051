----------------------------- MODULE TargetLock ------------------------------
(***************************************************************************)
(* VisualTargetLockSelector (eibrain/body/visual_target_lock.py): which of *)
(* the faces and persons in view is the one looked at, from frame to frame.*)
(*                                                                         *)
(* A candidate keeps its track number as long as the tracker follows it;   *)
(* whether its face is recognised may change with every frame, and with it *)
(* the key under which the selector remembers since when it has seen it.   *)
(* Scores, distances and times are small integers: what matters is whether *)
(* a score beats another by the hysteresis, whether a candidate is within  *)
(* reach of where the target was, and how long ago something happened.     *)
(***************************************************************************)
EXTENDS Integers, FiniteSets

CONSTANTS
    Tracks,         \* track numbers the tracker gives, positive
    Places,         \* where a candidate may be, integers
    Qualities,      \* what confidence, area and centrality add to its score
    Reach,          \* max_lock_distance
    Hysteresis,     \* switch_hysteresis
    LostTimeout,    \* lost_timeout, in ticks
    TargetAge,      \* target_age, in ticks
    MaxPause        \* the longest time between two frames, in ticks

ASSUME LockAssumption ==
    /\ Tracks \subseteq Nat \ {0} /\ IsFiniteSet(Tracks)
    /\ Places \subseteq Int
    /\ Qualities \subseteq 0..9     \* less than a step of priority
    /\ {Reach, Hysteresis, LostTimeout, TargetAge} \subseteq Nat
    /\ MaxPause \in Nat \ {0}

VARIABLES
    lock,   \* [holder, id, ago, ages]
            \*   holder  _locked, or NoOne
            \*   id      _lock_id: the key of the holder when it was chosen
            \*   ago     now_ts - _last_seen_ts, up to LostTimeout + 1
            \*   ages    now_ts - _candidate_seen_since, up to TargetAge, for
            \*           the keys of the last frame
    steady  \* history: for how long each key has been in view without a gap,
            \* Absent when it is not in view

lockVars == <<lock, steady>>

Me == 0     \* the key of the registered person; other keys are track numbers

Keys == Tracks \cup {Me}

Absent == -1

Candidate == [track : Tracks, known : BOOLEAN, label : {"face", "person"},
              place : Places, quality : Qualities]

NoOne == [track |-> 0, known |-> FALSE, label |-> "person", place |-> 0, quality |-> 0]

(* What the camera may show: a candidate per track, listed by track; only  *)
(* one of them is taken for the registered person.                         *)
Frames == {f \in UNION {[T -> Candidate] : T \in SUBSET Tracks} :
              /\ \A t \in DOMAIN f : f[t].track = t
              /\ Cardinality({t \in DOMAIN f : f[t].known}) <= 1}

InView(f) == {f[t] : t \in DOMAIN f}

Key(c) == IF c.known THEN Me ELSE c.track

Priority(c) == IF c.known THEN 3 ELSE IF c.label = "face" THEN 2 ELSE 1

Score(c) == 10 * Priority(c) + c.quality

(* _best_candidate: the highest score; the track number breaks a tie.      *)
Best(cs) == CHOOSE c \in cs : \A d \in cs :
                \/ Score(d) < Score(c)
                \/ Score(d) = Score(c) /\ d.track <= c.track

Distance(c, d) == IF c.place < d.place THEN d.place - c.place ELSE c.place - d.place

(* _find_locked_candidate: the same person, or else the same track, or     *)
(* else the nearest within reach that looks alike.                         *)
SamePerson(h, cs) == {c \in cs : h.known /\ c.known}
SameTrack(h, cs)  == {c \in cs : c.track = h.track}
Nearby(h, cs)     == {c \in cs : c.label = h.label /\ Distance(c, h) <= Reach}

Nearest(h, cs) == CHOOSE c \in cs : \A d \in cs :
                      \/ Distance(c, h) < Distance(d, h)
                      \/ Distance(c, h) = Distance(d, h) /\ c.track <= d.track

Found(h, cs) ==
    IF h = NoOne THEN NoOne
    ELSE IF SamePerson(h, cs) # {} THEN CHOOSE c \in SamePerson(h, cs) : TRUE
    ELSE IF SameTrack(h, cs) # {} THEN CHOOSE c \in SameTrack(h, cs) : TRUE
    ELSE IF Nearby(h, cs) # {} THEN Nearest(h, Nearby(h, cs))
    ELSE NoOne

(* _should_switch.                                                         *)
Beats(c, d) == Score(c) >= Score(d) + Hysteresis

Capped(n, cap) == IF n > cap THEN cap ELSE n

(* Faulty: what has left the view keeps the time it was first seen.        *)
AgesKept(l, cs) ==
    [k \in {Key(c) : c \in cs} \cup DOMAIN l.ages |->
        IF k \in DOMAIN l.ages THEN l.ages[k] ELSE 0]

(* _update_candidate_ages.                                                 *)
Ages(l, cs) == [k \in {Key(c) : c \in cs} |->
                   IF k \in DOMAIN l.ages THEN l.ages[k] ELSE 0]

Maintained(l, c) == [l EXCEPT !.holder = c, !.ago = 0]

Switched(l, c) == [l EXCEPT !.holder = c, !.id = Key(c), !.ago = 0]

Unlocked(l) == [l EXCEPT !.holder = NoOne, !.id = Me, !.ago = 0]

(* The strongest candidate displaces d, now that it has been in view long  *)
(* enough.                                                                 *)
Displaces(l, cs, d) ==
    /\ cs # {}
    /\ Key(Best(cs)) # Key(d)
    /\ Beats(Best(cs), d)
    /\ l.ages[Key(Best(cs))] >= TargetAge

(* The same against a holder that is out of view, whose key is not looked  *)
(* at.                                                                     *)
DisplacesLost(l, cs) ==
    /\ cs # {}
    /\ Beats(Best(cs), l.holder)
    /\ l.ages[Key(Best(cs))] >= TargetAge

(* Faulty: a target out of view is given up at once.                       *)
SelectImpatient(l, found, cs) ==
    CASE found # NoOne ->
           IF Displaces(l, cs, found) THEN Switched(l, Best(cs)) ELSE Maintained(l, found)
      [] OTHER -> IF cs = {} THEN Unlocked(l) ELSE Switched(l, Best(cs))

(* select, after the ages are up to date.                                  *)
Select(l, found, cs) ==
    CASE found # NoOne ->
           IF Displaces(l, cs, found) THEN Switched(l, Best(cs)) ELSE Maintained(l, found)
      [] l.holder # NoOne /\ found = NoOne /\ l.ago <= LostTimeout ->
           IF DisplacesLost(l, cs) THEN Switched(l, Best(cs)) ELSE l
      [] OTHER -> IF cs = {} THEN Unlocked(l) ELSE Switched(l, Best(cs))

(* Time passes for everything the selector remembers.                      *)
Later(l, dt) ==
    [l EXCEPT !.ago = Capped(l.ago + dt, LostTimeout + 1),
              !.ages = [k \in DOMAIN l.ages |-> Capped(l.ages[k] + dt, TargetAge)]]

-----------------------------------------------------------------------------
LockInit ==
    /\ lock = [holder |-> NoOne, id |-> Me, ago |-> 0, ages |-> [k \in {} |-> 0]]
    /\ steady = [k \in Keys |-> Absent]

Look(f, dt) ==
    \E cs \in {InView(f)} :
    \E l \in {[Later(lock, dt) EXCEPT !.ages = Ages(Later(lock, dt), cs)]} :
    \E found \in {Found(l.holder, cs)} :
    /\ lock' = Select(l, found, cs)
    /\ steady' = [k \in Keys |->
                     IF k \notin {Key(c) : c \in cs} THEN Absent
                     ELSE IF steady[k] = Absent THEN 0
                     ELSE Capped(steady[k] + dt, TargetAge)]

LockNext == \E f \in Frames, dt \in 1..MaxPause : Look(f, dt)

LockSpec == LockInit /\ [][LockNext]_lockVars

-----------------------------------------------------------------------------
(* Properties *)

LockTypeOK ==
    /\ lock.holder \in Candidate \cup {NoOne}
    /\ lock.id \in Keys
    /\ lock.ago \in 0..(LostTimeout + 1)
    /\ DOMAIN lock.ages \subseteq Keys
    /\ \A k \in DOMAIN lock.ages : lock.ages[k] \in 0..TargetAge
    /\ steady \in [Keys -> Absent..TargetAge]

(* c can be taken for h: the same person, the same track, or one that      *)
(* looks alike within reach.                                               *)
TakenFor(c, h) ==
    \/ c.known /\ h.known
    \/ c.track = h.track
    \/ c.label = h.label /\ Distance(c, h) <= Reach

(* As long as the target was seen within lost_timeout, the selector keeps  *)
(* a target: the one it had, in view or not, one that can be taken for it, *)
(* under the lock id it had, or one whose key has been in view on every    *)
(* frame of the last target_age, under that key as the new lock id.        *)
SwitchIsEarned ==
    [][lock.holder # NoOne /\ lock.ago + MaxPause <= LostTimeout =>
          \/ lock'.holder = lock.holder /\ lock'.id = lock.id
          \/ TakenFor(lock'.holder, lock.holder) /\ lock'.id = lock.id
          \/ /\ lock'.holder # NoOne
             /\ lock'.id = Key(lock'.holder)
             /\ steady'[lock'.id] >= TargetAge]_lockVars
=============================================================================
