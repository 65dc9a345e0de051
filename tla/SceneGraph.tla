----------------------------- MODULE SceneGraph ------------------------------
(***************************************************************************)
(* The graph of a visual scene (cognition/vision_scene_graph.py): the      *)
(* objects that the tracks and the detections of a frame become, one raw   *)
(* item at a time, how two boxes lie to each other, and what became of     *)
(* every object since the previous scene.  Coordinates are integers, a     *)
(* centre is twice the middle of its box.                                  *)
(***************************************************************************)
EXTENDS Integers

CONSTANTS
    Names,      \* ids and labels
    Details,    \* what an object carries besides its identity
    Nameless    \* no id was given

(* An item of a frame: the id of its tracker, the id of the track it was   *)
(* derived from, its own id, and the id its label and place would give it. *)
Raws ==
    [track : Names \union {Nameless}, sourceTrack : Names \union {Nameless},
     own : Names \union {Nameless}, slug : Names, label : Names, person : BOOLEAN,
     valid : BOOLEAN, details : SUBSET Details]

VARIABLES
    part,       \* "tracks", then "detections", then "built"
    objects,    \* the objects made so far
    seenIds     \* seen_ids

gvars == <<part, objects, seenIds>>

GivenId(raw) == IF raw.track # Nameless THEN raw.track ELSE raw.own

(* _raw_object_id knows the source track as well, _object_id does not.     *)
RawObjectId(raw) ==
    IF raw.track # Nameless THEN raw.track
    ELSE IF raw.sourceTrack # Nameless THEN raw.sourceTrack ELSE raw.own

PlainId(raw) == IF GivenId(raw) = Nameless THEN raw.slug ELSE GivenId(raw)

(* _object_id: an id that is taken gets a suffix until it is free.         *)
ObjectIds(raw) ==
    IF PlainId(raw) \notin seenIds THEN {PlainId(raw)} ELSE Names \ seenIds

(* _normalize_object: without a label or a box there is no object.         *)
NormalizeObject(raw, id) ==
    [id |-> id, label |-> raw.label, kind |-> IF raw.person THEN "person" ELSE "object",
     details |-> raw.details]

GraphInit == part = "tracks" /\ objects = {} /\ seenIds = {}

AddObject(raw) ==
    IF raw.valid
    THEN \E id \in ObjectIds(raw) :
            /\ objects' = objects \union {NormalizeObject(raw, id)}
            /\ seenIds' = seenIds \union {id}
    ELSE UNCHANGED <<objects, seenIds>>

AddTrack(raw) == part = "tracks" /\ AddObject(raw) /\ UNCHANGED part

(* A detection that names an object there already is adds to it.           *)
MergeObjectExtras(target, item) ==
    [target EXCEPT !.details = @ \union item.details]

MergeDetection(raw) ==
    /\ part = "detections"
    /\ \E target \in objects :
          /\ target.id = RawObjectId(raw)
          /\ objects' = IF raw.valid
                        THEN (objects \ {target}) \union
                                {MergeObjectExtras(target, NormalizeObject(raw, PlainId(raw)))}
                        ELSE objects
    /\ UNCHANGED <<part, seenIds>>

AddDetection(raw) ==
    /\ part = "detections"
    /\ \A o \in objects : o.id # RawObjectId(raw)
    /\ AddObject(raw) /\ UNCHANGED part

NextPart ==
    /\ \/ part = "tracks" /\ part' = "detections"
       \/ part = "detections" /\ part' = "built"
    /\ UNCHANGED <<objects, seenIds>>

GraphNext ==
    \/ \E raw \in Raws : AddTrack(raw) \/ MergeDetection(raw) \/ AddDetection(raw)
    \/ NextPart

GraphSpec == GraphInit /\ [][GraphNext]_gvars

(* No two objects of a scene have the same id, though two items of a frame *)
(* may, and a detection may name a track's object in four ways; so relations,*)
(* events and the next scene can speak of objects by their ids.            *)
IdsDistinct == \A a, b \in objects : a.id = b.id => a = b

(* What is merged into an object never changes who it is nor takes away    *)
(* what is known of it (_merge_object_extras).                             *)
IdentityKept ==
    [][\A o \in objects : \E p \in objects' :
          /\ p.id = o.id /\ p.label = o.label /\ p.kind = o.kind
          /\ o.details \subseteq p.details]_gvars

-----------------------------------------------------------------------------
(* Relations *)

Boxes == {b \in [x_min : Int, x_max : Int, y_min : Int, y_max : Int] :
             b.x_min <= b.x_max /\ b.y_min <= b.y_max}

Larger(m, n) == IF m >= n THEN m ELSE n
Smaller(m, n) == IF m <= n THEN m ELSE n

(* _normalize_bbox.  A list of four is corners or a corner and a size; when*)
(* nobody says which, small ones and ones that would be turned inside out  *)
(* are a size.  Pixels are scaled when the size of the frame is known (0 is*)
(* unknown), corners are put in order and cut to the frame.                *)
Magnitude(n) == IF n >= 0 THEN n ELSE -n

IsSize(l, hint, unit) ==
    \/ hint = "xywh"
    \/ /\ hint # "xyxy"
       /\ \/ \A i \in 1..4 : Magnitude(l[i]) <= unit
          \/ l[3] <= l[1] \/ l[4] <= l[2]

Corners(l, hint, unit) ==
    IF IsSize(l, hint, unit) THEN <<l[1], l[2], l[1] + l[3], l[2] + l[4]>> ELSE l

Scaled(n, other, size, unit) ==
    IF size > 0 /\ Larger(Magnitude(n), Magnitude(other)) > unit THEN n \div size ELSE n

Clipped(n, unit) == Larger(0, Smaller(unit, n))

NormalizeBbox(c, width, height, unit) ==
    LET x1 == Scaled(c[1], c[3], width, unit)
        x2 == Scaled(c[3], c[1], width, unit)
        y1 == Scaled(c[2], c[4], height, unit)
        y2 == Scaled(c[4], c[2], height, unit)
    IN  [x_min |-> Clipped(Smaller(x1, x2), unit), x_max |-> Clipped(Larger(x1, x2), unit),
         y_min |-> Clipped(Smaller(y1, y2), unit), y_max |-> Clipped(Larger(y1, y2), unit)]

Dx(a, b) == (b.x_min + b.x_max) - (a.x_min + a.x_max)
Dy(a, b) == (b.y_min + b.y_max) - (a.y_min + a.y_max)

(* _overlap_area: positive when the boxes share an area.                   *)
OverlapArea(a, b) ==
    /\ Smaller(a.x_max, b.x_max) - Larger(a.x_min, b.x_min) > 0
    /\ Smaller(a.y_max, b.y_max) - Larger(a.y_min, b.y_min) > 0

HorizontalGap(a, b) == Larger(Larger(a.x_min - b.x_max, b.x_min - a.x_max), 0)
VerticalGap(a, b) == Larger(Larger(a.y_min - b.y_max, b.y_min - a.y_max), 0)
BboxGapSquare(a, b) ==
    HorizontalGap(a, b) * HorizontalGap(a, b) + VerticalGap(a, b) * VerticalGap(a, b)

(* _relation_types, with twice the offsets of the code as the centres are. *)
RelationTypes(a, b, aside, apart, gapSquare) ==
    {r \in {"left_of", "right_of", "above", "below", "overlaps", "near"} :
        \/ r = "left_of" /\ Dx(a, b) > aside
        \/ r = "right_of" /\ Dx(a, b) < -aside
        \/ r = "above" /\ Dy(a, b) > apart
        \/ r = "below" /\ Dy(a, b) < -apart
        \/ r = "overlaps" /\ OverlapArea(a, b)
        \/ r = "near" /\ BboxGapSquare(a, b) <= gapSquare}

Mirror(r) ==
    CASE r = "left_of" -> "right_of" [] r = "right_of" -> "left_of"
      [] r = "above" -> "below" [] r = "below" -> "above"
      [] OTHER -> r

-----------------------------------------------------------------------------
(* What became of the objects *)

(* _matched_temporal_state *)
MatchedState(distance, areaDelta, from, to, motion, approach) ==
    IF areaDelta >= Larger(0, approach) /\ distance < motion /\ from = to THEN "approaching"
    ELSE IF distance >= motion \/ from # to THEN "moving" ELSE "stationary"

(* _temporal_analysis.  previous and current are functions from the keys   *)
(* of objects to their region and area, moved[k] how far an object of both *)
(* came; without a previous scene everything is only observed.             *)
TemporalStates(hasPrevious, previous, current, moved, motion, approach) ==
    [k \in DOMAIN previous \union DOMAIN current |->
        IF k \notin DOMAIN current THEN "disappeared"
        ELSE IF k \notin DOMAIN previous THEN IF hasPrevious THEN "appeared" ELSE "observed"
        ELSE MatchedState(moved[k], current[k].area - previous[k].area,
                          previous[k].region, current[k].region, motion, approach)]

TemporalEvents(states) ==
    {k \in DOMAIN states : states[k] \notin {"stationary", "observed"}}

=============================================================================
