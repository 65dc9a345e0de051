----------------------------- MODULE SceneTracks -----------------------------
(***************************************************************************)
(* RealtimeVisionSimulator: the vision service's tracker, which names what *)
(* it sees from frame to frame and keeps the robot's attention on one of   *)
(* the tracks.                                                             *)
(*                                                                         *)
(* Objects have one label (tracks of different labels do not meet) and     *)
(* stand somewhere on a line; a detection is an object, where it is and how*)
(* salient (area times confidence).  A salience beats another when it is   *)
(* greater by attention_switch_margin, and saliences are so coarse that any*)
(* two differ by that much or not at all.  The tracker is told nothing     *)
(* while the service sleeps: what happens between two frames is arbitrary. *)
(* The events follow from the tracks, and what a track did within a frame  *)
(* (moved, approaching, stationary) is a label; both are left out.         *)
(***************************************************************************)
EXTENDS Integers, FiniteSets

CONSTANTS
    Objects,        \* numbers, in the order in which a frame lists them
    Places,         \* integers
    Saliences,
    MatchDistance,  \* match_distance
    MaxMissing,     \* max_missing_frames
    Cooldown,       \* attention_switch_cooldown_frames
    MaxTracks       \* bound on the tracks ever made

ASSUME SceneAssumption ==
    /\ Objects \subseteq Nat /\ IsFiniteSet(Objects)
    /\ Places \subseteq Int
    /\ {MatchDistance, MaxMissing, Cooldown, MaxTracks} \subseteq Nat

VARIABLES
    where,      \* where the objects are
    tracks,     \* _tracks: id -> place and missing_frames; of whom it was made,
                \* and whom it was matched with last
    made,       \* _next_ids
    attention,  \* _attention_track_id, 0 for none
    candidate,  \* _attention_candidate_track_id, ..._frames
    steady,     \* history: since the oldest of the tracks the objects have kept
                \* their distance and moved slowly
    streak      \* history: for how many frames, up to Cooldown, each track has
                \* beaten the one with the attention

sceneVars == <<where, tracks, made, attention, candidate, steady, streak>>

Nobody == [id |-> 0, frames |-> 0]
AtMost(a, b) == IF a < b THEN a ELSE b
Gap(a, b) == IF a < b THEN b - a ELSE a - b

SceneInit ==
    /\ where \in [Objects -> Places]
    /\ tracks = [t \in {} |-> Nobody] /\ made = 0
    /\ attention = 0 /\ candidate = Nobody
    /\ steady = TRUE /\ streak = [t \in {} |-> 0]

-----------------------------------------------------------------------------
(* _match_detections: by distance, then by detection, then by track        *)

(* Faulty: a track is taken for the nearest detection however far.         *)
AnyPair(seen, place) == [object : seen, track : DOMAIN tracks]

Pairs(seen, place) ==
    {c \in [object : seen, track : DOMAIN tracks] :
        Gap(place[c.object], tracks[c.track].place) <= MatchDistance}

Sooner(c, d, place) ==
    LET gapC == Gap(place[c.object], tracks[c.track].place)
        gapD == Gap(place[d.object], tracks[d.track].place)
    IN  \/ gapC < gapD
        \/ gapC = gapD /\ c.object < d.object
        \/ gapC = gapD /\ c.object = d.object /\ c.track <= d.track

(* The greedy matching: nothing is taken twice, and a pair is left out only*)
(* for a sooner one that shares its detection or its track.                *)
Matching(seen, place) ==
    LET candidates == Pairs(seen, place)
        Meet(c, d) == c.object = d.object \/ c.track = d.track
    IN  CHOOSE m \in SUBSET candidates :
            /\ \A c, d \in m : c = d \/ ~ Meet(c, d)
            /\ \A c \in candidates : \E d \in m : Meet(c, d) /\ Sooner(d, c, place)

-----------------------------------------------------------------------------
(* update: the tracks of the next frame                                    *)

Matched(t, m) == \E c \in m : c.track = t

(* Seen again, and no longer missing.                                      *)
Renewed(t, m, place) ==
    LET o == (CHOOSE c \in m : c.track = t).object
    IN  [tracks[t] EXCEPT !.place = place[o], !.missing = 0, !.last = o]

Kept(t) == tracks[t].missing + 1 <= MaxMissing

(* The unmatched detections are given new ids, in their order.             *)
NewId(o, new) == made + Cardinality({p \in new : p <= o})

NextTracks(m, new, place) ==
    LET ids == {NewId(o, new) : o \in new}
        alive == {t \in DOMAIN tracks : Matched(t, m) \/ Kept(t)}
    IN  [t \in alive \cup ids |->
            IF t \in ids
            THEN LET o == CHOOSE o \in new : NewId(o, new) = t
                 IN  [place |-> place[o], missing |-> 0, of |-> o, last |-> o]
            ELSE IF Matched(t, m) THEN Renewed(t, m, place)
                 ELSE [tracks[t] EXCEPT !.missing = @ + 1]]

-----------------------------------------------------------------------------
(* _attention_track, over the tracks that were seen in this frame          *)

Seen(ts) == {t \in DOMAIN ts : ts[t].missing = 0}

(* The most salient of them.  (Between two of one salience the code goes by*)
(* confidence and then by id, which may prefer either.)                    *)
Best(ts, salience) ==
    {t \in Seen(ts) : \A u \in Seen(ts) : salience[ts[u].last] <= salience[ts[t].last]}

Beats(ts, t, u, salience) == salience[ts[t].last] > salience[ts[u].last]

(* Faulty: any candidate's frames count for any other.                     *)
CandidateAnyone(best) == [id |-> best, frames |-> candidate.frames + 1]

CandidateNext(best) ==
    [id |-> best, frames |-> IF candidate.id = best THEN candidate.frames + 1 ELSE 1]

(* A track that is not seen loses the attention at once.  One that is keeps*)
(* it until the same other track has beaten it Cooldown frames in a row.   *)
Attend(ts, best, salience) ==
    IF Seen(ts) = {} THEN attention' = 0 /\ candidate' = Nobody
    ELSE IF attention \notin Seen(ts) THEN attention' = best /\ candidate' = Nobody
    ELSE IF best = attention \/ ~ Beats(ts, best, attention, salience)
         THEN UNCHANGED attention /\ candidate' = Nobody
    ELSE IF CandidateNext(best).frames >= Cooldown
         THEN attention' = best /\ candidate' = Nobody
    ELSE UNCHANGED attention /\ candidate' = CandidateNext(best)

Streak(ts, salience) ==
    [t \in DOMAIN ts |->
        IF attention \in Seen(ts) /\ t \in Seen(ts) /\ Beats(ts, t, attention, salience)
        THEN AtMost(Cooldown, 1 + (IF t \in DOMAIN streak THEN streak[t] ELSE 0))
        ELSE 0]

-----------------------------------------------------------------------------
(* One frame: what is seen of the objects, where they are by then          *)

(* Far enough apart that no object comes within reach of another's track,  *)
(* and slow enough to stay within reach of one's own, however many frames  *)
(* the track may miss.                                                     *)
Apart(place) ==
    \A o, p \in Objects : o # p => Gap(place[o], place[p]) > 2 * MatchDistance
Slow(place) ==
    \A o \in Objects : Gap(place[o], where[o]) * (MaxMissing + 1) <= MatchDistance

SceneFrame(seen, place) ==
    \E m \in {Matching(seen, place)} :
    \E new \in {{o \in seen : \A c \in m : c.object # o}} :
    \E ts \in {NextTracks(m, new, place)} :
        /\ made + Cardinality(new) <= MaxTracks
        /\ where' = place /\ tracks' = ts
        /\ made' = made + Cardinality(new)
        /\ steady' = (Apart(place) /\ (DOMAIN tracks = {} \/ (steady /\ Slow(place))))
        /\ \E salience \in [seen -> Saliences] :
              /\ IF Seen(ts) = {} THEN Attend(ts, 0, salience)
                 ELSE \E best \in Best(ts, salience) : Attend(ts, best, salience)
              /\ streak' = Streak(ts, salience)

SceneNext == \E seen \in SUBSET Objects, place \in [Objects -> Places] : SceneFrame(seen, place)

SceneSpec == SceneInit /\ [][SceneNext]_sceneVars

-----------------------------------------------------------------------------
(* Properties *)

SceneTypeOK ==
    /\ where \in [Objects -> Places]
    /\ made \in 0..MaxTracks /\ DOMAIN tracks \subseteq 1..made
    /\ \A t \in DOMAIN tracks :
          tracks[t] \in [place : Places, missing : 0..MaxMissing, of : Objects,
                         last : Objects]
    /\ attention \in 0..made
    /\ candidate.id \in 0..made /\ candidate.frames \in 0..Cooldown - 1
    /\ steady \in BOOLEAN
    /\ streak \in [DOMAIN tracks -> 0..Cooldown]

(* As long as the objects keep their distance and move slowly, a track     *)
(* stays with its object and an object with its track, through any frames  *)
(* that one or the other is missing from.                                  *)
IdentitiesStick ==
    steady =>
        /\ \A t \in DOMAIN tracks : tracks[t].last = tracks[t].of
        /\ \A t, u \in DOMAIN tracks : tracks[t].of = tracks[u].of => t = u

(* A track that is still seen loses the attention only to one that has     *)
(* beaten it in each of the last Cooldown frames.                          *)
AttentionIsEarned ==
    [][attention # 0 /\ attention' # attention /\ attention \in Seen(tracks')
       => attention' # 0 /\ streak'[attention'] >= Cooldown]_sceneVars
=============================================================================
