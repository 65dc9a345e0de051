----------------------------- MODULE WorldScene ------------------------------
(***************************************************************************)
(* The scenes that a turn remembers (cognition/world/scene_builder.py with *)
(* its caller in the cognitive runtime): how the objects of a frame are    *)
(* matched with those of the last scene written, what that says changed,   *)
(* and whether the change is worth another write.                          *)
(***************************************************************************)
EXTENDS Integers

CONSTANTS
    Current, Previous,  \* indices of the objects of the two scenes
    SameLabel,          \* the pairs of them that have the same label
    FarApart,              \* FarApart[pair]: the distance of their centres
    Reach,              \* objects that are farther apart are not the same
    Shifted             \* the pairs whose objects are in different places

VARIABLES
    matches,    \* the pairs chosen so far
    left        \* the candidates not looked at, nearest first

mvars == <<matches, left>>

MatchInit == matches = {} /\ left = SameLabel

UsedCurrent == {m[1] : m \in matches}
UsedPrevious == {m[2] : m \in matches}

Nearest(pair) == \A other \in left : FarApart[pair] <= FarApart[other]

Consider(pair) ==
    /\ Nearest(pair)
    /\ left' = left \ {pair}
    /\ matches' = IF \/ FarApart[pair] > Reach
                     \/ pair[1] \in UsedCurrent \/ pair[2] \in UsedPrevious
                  THEN matches ELSE matches \union {pair}

MatchNext == \E pair \in left : Consider(pair)

MatchSpec == MatchInit /\ [][MatchNext]_mvars

(* No object is matched twice, however near several others are.            *)
OneToOne ==
    \A m, n \in matches : m[1] = n[1] \/ m[2] = n[2] => m = n

(* Once all candidates are looked at, two objects of one label within      *)
(* reach are apart only because one of them has a match that is no farther:*)
(* nothing appears beside the object that it could have been.              *)
MatchesAreStable ==
    left = {} =>
        \A pair \in SameLabel :
            FarApart[pair] <= Reach =>
                \E m \in matches :
                    (m[1] = pair[1] \/ m[2] = pair[2]) /\ FarApart[m] <= FarApart[pair]

(* What happened, as far as the matches say (_build_events).               *)
Appeared == Current \ UsedCurrent
Disappeared == Previous \ UsedPrevious
Moved == matches \intersect Shifted

(* An object comes, goes or moves, and moves only once.                    *)
OneEventEach ==
    /\ \A m, n \in Moved : m[1] = n[1] \/ m[2] = n[2] => m = n
    /\ \A m \in Moved : m[1] \notin Appeared /\ m[2] \notin Disappeared

-----------------------------------------------------------------------------
(* The score of the change, in hundredths and before it is divided by the  *)
(* number of objects: half a point for everyone who came or went, and for  *)
(* a match that moved its distance, half a point at most.                  *)
ChangePoints(appeared, disappeared, moved) == 50 * (appeared + disappeared) + moved

Denominator(current, previous) ==
    IF current >= previous /\ current >= 1 THEN current
    ELSE IF previous >= 1 THEN previous ELSE 1

(* should_write_world_observation: the score is at least 0.35, or 0.6 for  *)
(* the event of a significant change; equal fingerprints are never written.*)
Significant(points, denominator) == points >= 60 * denominator
ShouldWrite(same, points, denominator) ==
    ~same /\ (Significant(points, denominator) \/ points >= 35 * denominator)

(* remember_world_observation_from_state: the first scene is always        *)
(* written, and the scene compared with is the last one written.           *)
Remembered(first, same, points, denominator) ==
    first \/ ShouldWrite(same, points, denominator)

=============================================================================
