------------------------------- MODULE Rounds -------------------------------
(***************************************************************************)
(* What the realtime round protocol promises, without saying how.  Rounds  *)
(* of dialogue are opened one after the other; at most one is open; a      *)
(* round is closed once, either because the next one superseded it or      *)
(* because the user barged in; only the open round accepts contributions   *)
(* (fast hypotheses and stable decisions), whoever sends them and however  *)
(* late they arrive.                                                       *)
(*                                                                         *)
(* TurnManager.tla is the code's implementation of this promise, and shows *)
(* it by a refinement mapping.                                             *)
(***************************************************************************)
EXTENDS Naturals

VARIABLES
    opened,     \* how many rounds have been opened; they are numbered from 1
    fate,       \* fate[r]: "open", "superseded" or "interrupted"
    accepted    \* accepted[r]: how many contributions round r has accepted

vars == <<opened, fate, accepted>>

Fates == {"open", "superseded", "interrupted"}

Init ==
    /\ opened = 0
    /\ fate = [r \in 1..0 |-> "open"]
    /\ accepted = [r \in 1..0 |-> 0]

(* Open round opened + 1, closing the one before it for the given reason;  *)
(* the new round starts with n contributions, the old ones keep theirs.    *)
OpenNext(why, n) ==
    /\ opened' = opened + 1
    /\ fate' = [r \in 1..(opened + 1) |->
                   IF r = opened + 1 THEN "open"
                   ELSE IF r = opened THEN why ELSE fate[r]]
    /\ accepted' = [r \in 1..(opened + 1) |->
                       IF r = opened + 1 THEN n ELSE accepted[r]]

Supersede == OpenNext("superseded", 0)

BargeIn == OpenNext("interrupted", 0)

(* The very first contribution may open the first round by itself.         *)
OpenAndAccept == opened = 0 /\ OpenNext("superseded", 1)

(* The open round, which is the last one opened, accepts a contribution.   *)
Accept ==
    /\ opened > 0
    /\ accepted' = [accepted EXCEPT ![opened] = @ + 1]
    /\ UNCHANGED <<opened, fate>>

Next == Supersede \/ BargeIn \/ OpenAndAccept \/ Accept

Spec == Init /\ [][Next]_vars
=============================================================================
