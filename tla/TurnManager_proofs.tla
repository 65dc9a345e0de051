------------------------- MODULE TurnManager_proofs -------------------------
(***************************************************************************)
(* Proofs about TurnManager for every MaxRounds and MaxWrites.             *)
(*                                                                         *)
(* The invariants of TurnManager are not inductive one by one: that a call *)
(* changes the live round only needs the current turn to be the last one   *)
(* and to be live, and a closed turn keeps a single reason only because    *)
(* the live one is not cancelled yet.  IInv is their common strengthening: *)
(* what the live turn and what a closed turn look like.                    *)
(***************************************************************************)
EXTENDS TurnManager, TLAPS

(* The turn of the current round r.                                        *)
LiveTurn(t, r) ==
    /\ Live(t)
    /\ t.why = "none"
    /\ t.action # "cancelled"
    /\ t.decided > 0 => t.from = r /\ t.verdict = "approved"

(* The turn of a round r that is over.                                     *)
ClosedTurn(t, r) ==
    /\ t.cancelled
    /\ \/ /\ t.state = "interrupted"
          /\ t.why = "interrupt"
          /\ t.action \in {"none", "cancelled"}
       \/ /\ t.state = "completed"
          /\ t.why = "superseded"
          /\ t.action # "cancelled"
    /\ t.decided > 0 => t.from = r /\ t.verdict = "approved"

(* A manager in order: the last turn is current and live, the others over. *)
InOrder(m) ==
    /\ m \in [index : 0..MaxRounds, current : 0..MaxRounds,
              history : [1..m.index -> Turn]]
    /\ m.current = m.index
    /\ \A r \in 1..m.index :
          IF r = m.index THEN LiveTurn(m.history[r], r)
          ELSE ClosedTurn(m.history[r], r)

IInv == InOrder(tm)

USE TurnAssumption DEF TurnAssumption

-----------------------------------------------------------------------------
(* Lemmas about the operators *)

(* A fresh turn is a live one, of any round.                               *)
LEMMA FreshIsLive ==
    ASSUME NEW r PROVE FreshTurn \in Turn /\ LiveTurn(FreshTurn, r)
BY DEF FreshTurn, Turn, LiveTurn, Live, Unset, Planned

(* What start_round does to the live turn closes it.                       *)
LEMMA SupersededIsClosed ==
    ASSUME NEW r, NEW t \in Turn, LiveTurn(t, r)
    PROVE  Superseded(t) \in Turn /\ ClosedTurn(Superseded(t), r)
BY DEF Superseded, Cancel, Turn, LiveTurn, ClosedTurn, Live, Planned

(* An interrupt closes the live turn, and start_round then leaves it alone.*)
LEMMA InterruptedIsClosed ==
    ASSUME NEW r, NEW t \in Turn, LiveTurn(t, r)
    PROVE  LET u == Superseded(Interrupted(t)) IN
           /\ u \in Turn
           /\ PlanCancelled(u) \in Turn
           /\ ClosedTurn(PlanCancelled(u), r)
<1>1. Interrupted(t) \in Turn /\ Interrupted(t).state = "interrupted"
         /\ Interrupted(t).why = "interrupt" /\ Interrupted(t).cancelled
         /\ Interrupted(t).decided = t.decided /\ Interrupted(t).from = t.from
         /\ Interrupted(t).verdict = t.verdict
  BY DEF Interrupted, Cancel, Turn, LiveTurn, Live
<1>2. Superseded(Interrupted(t)) = Interrupted(t)
  BY <1>1 DEF Superseded
<1> DEFINE u == Interrupted(t)
<1>3. PlanCancelled(u) \in Turn /\ ClosedTurn(PlanCancelled(u), r)
  <2> HIDE DEF u
  <2>1. u \in Turn /\ u.state = "interrupted" /\ u.why = "interrupt" /\ u.cancelled
          /\ (u.decided > 0 => u.from = r /\ u.verdict = "approved")
    BY <1>1 DEF u, LiveTurn
  <2> QED BY <2>1 DEF PlanCancelled, ClosedTurn, Turn, Planned
<1> QED BY <1>1, <1>2, <1>3

(* Starting a round keeps a manager in order.                              *)
LEMMA StartRoundInOrder ==
    ASSUME NEW m, InOrder(m), m.index < MaxRounds
    PROVE  /\ InOrder(StartRound(m))
           /\ StartRound(m).index = m.index + 1
           /\ \A r \in 1..m.index : r # m.current =>
                 StartRound(m).history[r] = m.history[r]
<1> DEFINE n == StartRound(m)
<1>1. /\ n.index = m.index + 1 /\ n.current = m.index + 1 /\ n.index \in 0..MaxRounds
      /\ m.index \in Nat
  BY DEF InOrder, StartRound
<1>2. \A r \in 1..n.index :
         n.history[r] = IF r = m.index + 1 THEN FreshTurn
                        ELSE IF r = m.current THEN Superseded(m.history[r])
                        ELSE m.history[r]
  BY <1>1 DEF StartRound
<1>3. ASSUME NEW r \in 1..n.index
      PROVE  /\ n.history[r] \in Turn
             /\ IF r = n.index THEN LiveTurn(n.history[r], r)
                ELSE ClosedTurn(n.history[r], r)
  <2>1. CASE r = m.index + 1
    BY <1>1, <1>2, <2>1, FreshIsLive
  <2>2. CASE r = m.current
    BY <1>1, <1>2, <2>2, SupersededIsClosed DEF InOrder
  <2>3. CASE r # m.index + 1 /\ r # m.current
    BY <1>1, <1>2, <2>3 DEF InOrder
  <2> QED BY <2>1, <2>2, <2>3
<1>4. n.history \in [1..n.index -> Turn]
  BY <1>1, <1>2, <1>3 DEF StartRound
<1>5. n \in [index : 0..MaxRounds, current : 0..MaxRounds, history : [1..n.index -> Turn]]
  BY <1>1, <1>4 DEF StartRound
<1>6. \A r \in 1..m.index : r # m.current => n.history[r] = m.history[r]
  BY <1>1, <1>2
<1> HIDE DEF n
<1>7. InOrder(n)
  BY <1>1, <1>3, <1>4, <1>5 DEF InOrder
<1> QED BY <1>1, <1>6, <1>7 DEF n

(* A barge-in keeps a manager in order: it closes the live turn, cancels   *)
(* its plan, and starts the next.                                          *)
LEMMA InterruptInOrder ==
    ASSUME NEW m, InOrder(m), m.index < MaxRounds
    PROVE  /\ InOrder(InterruptAndStart(m))
           /\ InterruptAndStart(m).index = m.index + 1
           /\ \A r \in 1..m.index : r # m.current =>
                 InterruptAndStart(m).history[r] = m.history[r]
<1>1. CASE m.current = Unset
  BY <1>1, StartRoundInOrder DEF InterruptAndStart
<1>2. CASE m.current # Unset
  <2> DEFINE c == m.current
             mid == [m EXCEPT !.history[m.current] = Interrupted(@)]
             n == StartRound(mid)
             h == [r \in 1..(m.index + 1) |->
                      IF r = m.index + 1 THEN FreshTurn
                      ELSE IF r = c THEN Superseded(Interrupted(m.history[c]))
                      ELSE m.history[r]]
             g == [h EXCEPT ![c] = PlanCancelled(@)]
             p == [index |-> m.index + 1, current |-> m.index + 1, history |-> g]
  <2>1. /\ m.index \in Nat /\ c = m.index /\ c \in 1..m.index
        /\ m.history[c] \in Turn /\ LiveTurn(m.history[c], c)
    BY <1>2 DEF InOrder, Unset
  <2>2. /\ mid.index = m.index /\ mid.current = c
        /\ \A r \in 1..m.index :
              mid.history[r] = IF r = c THEN Interrupted(m.history[c]) ELSE m.history[r]
    BY <2>1 DEF InOrder
  <2>3. n = [index |-> m.index + 1, current |-> m.index + 1, history |-> h]
    <3> HIDE DEF mid
    <3>1. n = [index |-> m.index + 1, current |-> m.index + 1,
               history |-> [r \in 1..(m.index + 1) |->
                              IF r = m.index + 1 THEN FreshTurn
                              ELSE IF r = c THEN Superseded(mid.history[r])
                              ELSE mid.history[r]]]
      BY <2>2 DEF StartRound
    <3>2. \A r \in 1..(m.index + 1) :
             (IF r = m.index + 1 THEN FreshTurn
              ELSE IF r = c THEN Superseded(mid.history[r]) ELSE mid.history[r])
             = h[r]
      BY <2>1, <2>2
    <3> QED BY <3>1, <3>2
  <2>4. InterruptAndStart(m) = p
    <3>1. InterruptAndStart(m) = [n EXCEPT !.history[c] = PlanCancelled(@)]
      BY <1>2 DEF InterruptAndStart, InterruptTurn
    <3> HIDE DEF n, h, c
    <3> QED BY <2>3, <3>1
  <2>5. /\ c \in 1..(m.index + 1) /\ c # m.index + 1
        /\ DOMAIN g = 1..(m.index + 1)
        /\ g[c] = PlanCancelled(Superseded(Interrupted(m.history[c])))
        /\ g[m.index + 1] = FreshTurn
        /\ \A r \in 1..m.index : r # c => g[r] = m.history[r]
    BY <2>1
  <2> HIDE DEF mid, n, h, g
  <2>6. ASSUME NEW r \in 1..(m.index + 1)
        PROVE  /\ g[r] \in Turn
               /\ IF r = m.index + 1 THEN LiveTurn(g[r], r) ELSE ClosedTurn(g[r], r)
    <3>1. CASE r = m.index + 1
      BY <2>5, <3>1, FreshIsLive
    <3>2. CASE r = c
      BY <2>1, <2>5, <3>2, InterruptedIsClosed
    <3>3. CASE r # m.index + 1 /\ r # c
      <4>1. r \in 1..m.index /\ r # m.index
        BY <2>1, <3>3
      <4> QED BY <2>5, <3>3, <4>1 DEF InOrder
    <3> QED BY <3>1, <3>2, <3>3
  <2>7. g \in [1..(m.index + 1) -> Turn]
    <3>1. g = [r \in 1..(m.index + 1) |-> g[r]]
      BY DEF g, h
    <3> QED BY <2>6, <3>1
  <2>8. InOrder(p)
    BY <2>1, <2>6, <2>7 DEF InOrder
  <2> QED BY <2>4, <2>5, <2>8
<1> QED BY <1>1, <1>2

(* A call on the active turn finds a manager in order.                     *)
LEMMA ActiveTurnInOrder ==
    ASSUME NEW m, InOrder(m), ActiveTurn(m) # m => m.index < MaxRounds
    PROVE  /\ InOrder(ActiveTurn(m))
           /\ ActiveTurn(m) = IF m.index = 0 THEN StartRound(m) ELSE m
           /\ \A r \in 1..m.index : ActiveTurn(m).history[r] = m.history[r]
<1>1. ActiveTurn(m) = IF m.index = 0 THEN StartRound(m) ELSE m
  BY DEF ActiveTurn, InOrder, LiveTurn, Unset
<1>2. CASE m.index = 0
  <2>1. StartRound(m).index = m.index + 1
    BY DEF StartRound
  <2>2. ActiveTurn(m) # m
    BY <1>1, <1>2, <2>1
  <2> QED BY <1>1, <1>2, <2>2, StartRoundInOrder
<1>3. CASE m.index # 0
  BY <1>1, <1>3
<1> QED BY <1>2, <1>3

(* A call that changes the current turn into a live one leaves the manager *)
(* in order and the other turns alone.                                     *)
LEMMA WriteInOrder ==
    ASSUME NEW m, InOrder(m), m.current # Unset,
           NEW t \in Turn, LiveTurn(t, m.current)
    PROVE  LET n == [m EXCEPT !.history[m.current] = t] IN
           /\ InOrder(n)
           /\ n.index = m.index
           /\ \A r \in 1..m.index : r # m.current => n.history[r] = m.history[r]
BY DEF InOrder, Unset

-----------------------------------------------------------------------------
(* The steps *)

(* What every step preserves: the manager stays in order, it forgets no    *)
(* round, and it changes no turn but the current one.                      *)
Keeps(m) ==
    /\ InOrder(m)
    /\ m.index >= tm.index
    /\ \A r \in 1..tm.index : r # tm.current => m.history[r] = tm.history[r]

(* A call that writes t on the active turn it reached.                     *)
LEMMA ReachAndWrite ==
    ASSUME IInv, MayReach
    PROVE  /\ Keeps(Reached)
           /\ Reached.current = Reached.index /\ Reached.current # Unset
           /\ Reached.history[Reached.current] \in Turn
           /\ LiveTurn(Reached.history[Reached.current], Reached.current)
           /\ \A t \in Turn : LiveTurn(t, Reached.current) =>
                 Keeps([Reached EXCEPT !.history[Reached.current] = t])
<1> DEFINE m == Reached
<1>1. InOrder(m) /\ m = (IF tm.index = 0 THEN StartRound(tm) ELSE tm)
         /\ \A r \in 1..tm.index : m.history[r] = tm.history[r]
  BY ActiveTurnInOrder DEF IInv, MayReach, MayStart, Reached
<1>2. m.index # 0 /\ m.index >= tm.index
  <2>1. tm.index \in Nat
    BY DEF IInv, InOrder
  <2> QED BY <1>1, <2>1 DEF StartRound
<1> HIDE DEF m
<1>3. /\ m.current = m.index /\ m.current # Unset /\ m.index \in Nat /\ m.index \in 1..m.index
      /\ m.history[m.current] \in Turn
      /\ LiveTurn(m.history[m.current], m.current)
  BY <1>1, <1>2 DEF InOrder, Unset
<1>4. ASSUME NEW t \in Turn, LiveTurn(t, m.current)
      PROVE  Keeps([m EXCEPT !.history[m.current] = t])
  <2> DEFINE n == [m EXCEPT !.history[m.current] = t]
  <2>1. InOrder(n) /\ n.index = m.index
           /\ \A r \in 1..m.index : r # m.current => n.history[r] = m.history[r]
    BY <1>1, <1>3, <1>4, WriteInOrder
  <2>2. ASSUME NEW r \in 1..tm.index, r # tm.current
        PROVE  n.history[r] = tm.history[r]
    <3>1. r < tm.index /\ r \in 1..m.index /\ r # m.current
      BY <1>2, <1>3, <2>2 DEF IInv, InOrder
    <3> QED BY <1>1, <2>1, <3>1
  <2> QED BY <1>2, <2>1, <2>2 DEF Keeps
<1>5. Keeps(m)
  BY <1>1, <1>2 DEF Keeps
<1> QED BY <1>3, <1>4, <1>5 DEF m

(* An approved decision for the round of a live turn leaves it live.       *)
LEMMA DecidedIsLive ==
    ASSUME NEW r \in 0..MaxRounds, NEW u \in Turn, LiveTurn(u, r),
           u.decided < MaxWrites, NEW action \in Planned
    PROVE  LET t == [u EXCEPT !.decided = u.decided + 1, !.from = r,
                              !.action = action, !.verdict = "approved"]
           IN  t \in Turn /\ LiveTurn(t, r)
<1> DEFINE t == [u EXCEPT !.decided = u.decided + 1, !.from = r,
                          !.action = action, !.verdict = "approved"]
<1>1. u.decided + 1 \in 0..MaxWrites
  BY DEF Turn
<1>2. action \in Planned \cup {"cancelled"} /\ action # "cancelled"
  BY DEF Planned
<1>3. t \in Turn
  BY <1>1, <1>2 DEF Turn
<1>4. LiveTurn(t, r)
  BY <1>2 DEF Turn, LiveTurn, Live
<1> QED BY <1>3, <1>4

(* Every step keeps the manager in order and the turns that are over.      *)
LEMMA StepKeeps ==
    ASSUME IInv, [Next]_tm PROVE Keeps(tm')
<1>0. tm.index \in Nat /\ InOrder(tm) /\ Keeps(tm)
  BY DEF IInv, InOrder, Keeps
<1>1. CASE ClientStartRound
  BY <1>0, <1>1, StartRoundInOrder DEF ClientStartRound, MayStart, Keeps
<1>2. CASE Interrupt
  BY <1>0, <1>2, InterruptInOrder DEF Interrupt, MayStart, Keeps
<1> DEFINE c == Reached.current
           u == Reached.history[c]
<1>3. ASSUME NEW id \in Held, ObservePartial(id) PROVE Keeps(tm')
  <2>1. CASE Accepts(Reached, id)
    <3> DEFINE t == [u EXCEPT !.hyps = @ + 1]
    <3>1. tm' = [Reached EXCEPT !.history[c] = t] /\ MayReach /\ u.hyps < MaxWrites
      BY <1>3, <2>1 DEF ObservePartial
    <3>2. t \in Turn /\ LiveTurn(t, c)
      BY <3>1, ReachAndWrite DEF Turn, LiveTurn, Live
    <3> QED BY <3>1, <3>2, ReachAndWrite
  <2>2. CASE ~ Accepts(Reached, id)
    BY <1>3, <2>2, ReachAndWrite DEF ObservePartial
  <2> QED BY <2>1, <2>2
<1>4. ASSUME NEW id \in Held, NEW heard \in BOOLEAN, ObserveFinal(id, heard)
      PROVE  Keeps(tm')
  <2>1. CASE Accepts(Reached, id)
    <3> DEFINE t == [u EXCEPT !.final = heard]
    <3>1. tm' = [Reached EXCEPT !.history[c] = t] /\ MayReach
      BY <1>4, <2>1 DEF ObserveFinal
    <3>2. t \in Turn /\ LiveTurn(t, c)
      BY <3>1, ReachAndWrite DEF Turn, LiveTurn, Live
    <3> QED BY <3>1, <3>2, ReachAndWrite
  <2>2. CASE ~ Accepts(Reached, id)
    BY <1>4, <2>2, ReachAndWrite DEF ObserveFinal
  <2> QED BY <2>1, <2>2
<1>5. ASSUME NEW id \in Held, NEW heard \in BOOLEAN, FinalizeAsr(id, heard)
      PROVE  Keeps(tm')
  <2>1. CASE IsCurrent(tm, id)
    <3> DEFINE r == tm.current
               t == [tm.history[r] EXCEPT !.final = heard]
    <3>1. r # Unset /\ r \in 1..tm.index /\ tm.history[r] \in Turn
             /\ LiveTurn(tm.history[r], r)
      BY <1>0, <2>1 DEF IsCurrent, InOrder, Unset
    <3>2. t \in Turn /\ LiveTurn(t, r)
      BY <3>1 DEF Turn, LiveTurn, Live
    <3>3. tm' = [tm EXCEPT !.history[r] = t]
      BY <1>5, <2>1 DEF FinalizeAsr
    <3> QED BY <1>0, <3>1, <3>2, <3>3, WriteInOrder DEF Keeps
  <2>2. CASE ~ IsCurrent(tm, id)
    BY <1>0, <1>5, <2>2 DEF FinalizeAsr
  <2> QED BY <2>1, <2>2
<1>6. ASSUME NEW id \in Held, NEW action \in Planned, Decide(id, action)
      PROVE  Keeps(tm')
  <2>1. CASE Accepts(Reached, id)
    <3> DEFINE from == Completed(Reached, id).round
               t == [u EXCEPT !.decided = @ + 1, !.from = from, !.action = action,
                              !.verdict = Verdict(Reached, c, from)]
    <3>1. /\ tm' = [Reached EXCEPT !.history[c] = t]
          /\ MayReach
          /\ u.decided < MaxWrites
      BY <1>6, <2>1 DEF Decide, Decided
    <3>2. from = c /\ c \in 0..MaxRounds
      <4>1. from = c
        BY <2>1 DEF Accepts, IsCurrent
      <4>2. InOrder(Reached)
        BY <3>1, ReachAndWrite DEF Keeps
      <4> QED BY <4>1, <4>2 DEF InOrder
    <3>3. u \in Turn /\ LiveTurn(u, c) /\ c # Unset
      BY <3>1, ReachAndWrite
    <3>4. Verdict(Reached, c, from) = "approved"
      BY <3>2, <3>3 DEF Verdict, AllowSpeaking, IsCurrent, LiveTurn
    <3>5. t \in Turn /\ LiveTurn(t, c)
      <4> DEFINE v == Verdict(Reached, c, from)
      <4>1. v = "approved" /\ from = c /\ c \in 0..MaxRounds
        BY <3>2, <3>4
      <4>2. u.decided < MaxWrites
        BY <3>1
      <4>3. u \in Turn /\ LiveTurn(u, c)
        BY <3>3
      <4> HIDE DEF v, from, c, u
      <4>4. t = [u EXCEPT !.decided = @ + 1, !.from = c, !.action = action,
                          !.verdict = "approved"]
        BY <4>1 DEF v
      <4> HIDE DEF t
      <4> QED BY <4>1, <4>2, <4>3, <4>4, DecidedIsLive
    <3> QED BY <3>1, <3>5, ReachAndWrite
  <2>2. CASE ~ Accepts(Reached, id)
    BY <1>6, <2>2, ReachAndWrite DEF Decide
  <2> QED BY <2>1, <2>2
<1>7. CASE UNCHANGED tm
  BY <1>0, <1>7
<1> QED BY <1>1, <1>2, <1>3, <1>4, <1>5, <1>6, <1>7 DEF Next

-----------------------------------------------------------------------------
(* Theorems *)

(* The manager is always in order.                                         *)
THEOREM Ordered == Spec => []IInv
<1>1. Init => IInv
  BY DEF Init, IInv, InOrder, Unset
<1>2. IInv /\ [Next]_tm => IInv'
  BY StepKeeps DEF Keeps, IInv, InOrder
<1> QED BY <1>1, <1>2, PTL DEF Spec

(* Type correctness.                                                       *)
THEOREM TypeCorrect == Spec => []TypeOK
<1>1. IInv => TypeOK
  BY DEF IInv, InOrder, TypeOK
<1> QED BY <1>1, Ordered, PTL

(* However calls and interrupts follow each other, one round is live, the  *)
(* current one, and every other round's token is cancelled.                *)
THEOREM OneLiveRoundHolds == Spec => []OneLiveRound
<1>1. IInv => OneLiveRound
  BY DEF IInv, InOrder, OneLiveRound, LiveTurn, ClosedTurn, Live
<1> QED BY <1>1, Ordered, PTL

(* A turn is closed for one reason, and an interrupt leaves no action of   *)
(* its plan to run.                                                        *)
THEOREM ClosedForOneReasonHolds == Spec => []ClosedForOneReason
<1>1. IInv => ClosedForOneReason
  BY DEF IInv, InOrder, ClosedForOneReason, LiveTurn, ClosedTurn, Live
<1> QED BY <1>1, Ordered, PTL

(* One call at a time, a decision is for the turn that holds it, and       *)
(* approved.                                                               *)
THEOREM DecisionsHold == Spec => []DecisionsOfTheirRound
<1>1. IInv => DecisionsOfTheirRound
  BY DEF IInv, InOrder, DecisionsOfTheirRound, LiveTurn, ClosedTurn
<1> QED BY <1>1, Ordered, PTL

(* A closed round never changes again and its ids are never current again. *)
THEOREM FrozenHolds == Spec => ClosedRoundsAreFrozen
<1> DEFINE Frozen(r) ==
      ~ Live(tm.history[r]) => /\ r \in 1..tm'.index
                               /\ tm'.history[r] = tm.history[r]
                               /\ ~ IsCurrent(tm', [round |-> r, token |-> r])
<1>1. ASSUME IInv, [Next]_tm, NEW r \in 1..tm.index, ~ Live(tm.history[r])
      PROVE  /\ r \in 1..tm'.index
             /\ tm'.history[r] = tm.history[r]
             /\ ~ IsCurrent(tm', [round |-> r, token |-> r])
  <2>1. r # tm.current /\ tm.index \in Nat /\ tm.current = tm.index
    BY <1>1 DEF IInv, InOrder, LiveTurn
  <2>2. tm'.index >= tm.index /\ tm'.index \in Nat /\ tm'.current = tm'.index
          /\ tm'.history[r] = tm.history[r]
    BY <1>1, <2>1, StepKeeps DEF Keeps, InOrder
  <2> QED BY <2>1, <2>2 DEF IsCurrent
<1>2. IInv /\ [Next]_tm => [\A r \in 1..tm.index : Frozen(r)]_tm
  BY <1>1
<1> QED BY <1>2, Ordered, PTL DEF Spec, ClosedRoundsAreFrozen

-----------------------------------------------------------------------------
(* The refinement of Rounds *)

Count(t) == t.hyps + t.decided

(* The fate and the contributions of every round of m, as Rounds sees them.*)
Fates(m) == [r \in 1..m.index |-> FateOf(m.history[r])]

Counts(m) == [r \in 1..m.index |-> Count(m.history[r])]

(* How Rounds sees manager n opened from m, closing the open round as why. *)
Opens(m, n, why) ==
    /\ n.index = m.index + 1
    /\ Fates(n) = [r \in 1..(m.index + 1) |->
                      IF r = m.index + 1 THEN "open"
                      ELSE IF r = m.index THEN why ELSE Fates(m)[r]]
    /\ Counts(n) = [r \in 1..(m.index + 1) |->
                       IF r = m.index + 1 THEN 0 ELSE Counts(m)[r]]

(* Closing a turn keeps what it accepted.                                  *)
LEMMA ClosingMaps ==
    ASSUME NEW t \in Turn, NEW r, LiveTurn(t, r)
    PROVE  /\ FateOf(t) = "open"
           /\ FateOf(Superseded(t)) = "superseded"
           /\ Count(Superseded(t)) = Count(t)
           /\ FateOf(PlanCancelled(Superseded(Interrupted(t)))) = "interrupted"
           /\ Count(PlanCancelled(Superseded(Interrupted(t)))) = Count(t)
BY DEF Turn, LiveTurn, Live, FateOf, Count, Superseded, Interrupted, Cancel,
       PlanCancelled, Planned

(* A round opened by start_round supersedes the one before it.             *)
LEMMA StartRoundOpens ==
    ASSUME NEW m, InOrder(m)
    PROVE  Opens(m, StartRound(m), "superseded")
<1> DEFINE n == StartRound(m)
<1>1. n.index = m.index + 1 /\ m.index \in Nat /\ m.current = m.index
  BY DEF StartRound, InOrder
<1>2. ASSUME NEW r \in 1..(m.index + 1)
      PROVE  /\ FateOf(n.history[r]) = IF r = m.index + 1 THEN "open"
                  ELSE IF r = m.index THEN "superseded" ELSE Fates(m)[r]
             /\ Count(n.history[r]) = IF r = m.index + 1 THEN 0 ELSE Counts(m)[r]
  <2>1. n.history[r] = IF r = m.index + 1 THEN FreshTurn
                       ELSE IF r = m.index THEN Superseded(m.history[r])
                       ELSE m.history[r]
    BY <1>1 DEF StartRound
  <2>2. CASE r = m.index + 1
    BY <1>1, <2>1, <2>2 DEF FreshTurn, FateOf, Count
  <2>3. CASE r = m.index
    <3>1. r \in 1..m.index /\ m.history[r] \in Turn /\ LiveTurn(m.history[r], r)
      BY <1>1, <2>3 DEF InOrder
    <3> QED BY <1>1, <2>1, <2>3, <3>1, ClosingMaps DEF Counts
  <2>4. CASE r # m.index + 1 /\ r # m.index
    BY <1>1, <2>1, <2>4 DEF Fates, Counts
  <2> QED BY <2>2, <2>3, <2>4
<1> QED BY <1>1, <1>2 DEF Opens, Fates, Counts

(* A round opened by a barge-in interrupts the one before it.              *)
LEMMA InterruptOpens ==
    ASSUME NEW m, InOrder(m), m.index < MaxRounds
    PROVE  Opens(m, InterruptAndStart(m), "interrupted")
<1> DEFINE n == InterruptAndStart(m)
<1>1. n.index = m.index + 1 /\ m.index \in Nat /\ m.current = m.index
  BY InterruptInOrder DEF InOrder
<1>2. CASE m.index = 0
  <2>1. n = StartRound(m)
    BY <1>1, <1>2 DEF InterruptAndStart, Unset
  <2> DEFINE F(why) == [r \in 1..(m.index + 1) |->
                          IF r = m.index + 1 THEN "open"
                          ELSE IF r = m.index THEN why ELSE Fates(m)[r]]
  <2>2. \A r \in 1..(m.index + 1) : r = m.index + 1
    BY <1>2
  <2>3. F("superseded") = F("interrupted")
    BY <2>2
  <2>4. Opens(m, n, "superseded")
    BY <2>1, StartRoundOpens
  <2> QED BY <2>3, <2>4 DEF Opens
<1>3. CASE m.index # 0
  <2> DEFINE c == m.index
  <2>1. c \in 1..m.index /\ m.history[c] \in Turn /\ LiveTurn(m.history[c], c)
    BY <1>1, <1>3 DEF InOrder
  <2>2. /\ n.history[c] = PlanCancelled(Superseded(Interrupted(m.history[c])))
        /\ n.history[c + 1] = FreshTurn
        /\ \A r \in 1..m.index : r # c => n.history[r] = m.history[r]
    BY <1>1, <1>3, <2>1 DEF InterruptAndStart, InterruptTurn, StartRound, InOrder, Unset
  <2> HIDE DEF n
  <2>3. ASSUME NEW r \in 1..(m.index + 1)
        PROVE  /\ FateOf(n.history[r]) = IF r = m.index + 1 THEN "open"
                    ELSE IF r = m.index THEN "interrupted" ELSE Fates(m)[r]
               /\ Count(n.history[r]) = IF r = m.index + 1 THEN 0 ELSE Counts(m)[r]
    <3>1. CASE r = m.index + 1
      BY <1>1, <2>2, <3>1 DEF FreshTurn, FateOf, Count
    <3>2. CASE r = m.index
      BY <1>1, <2>1, <2>2, <3>2, ClosingMaps DEF Counts
    <3>3. CASE r # m.index + 1 /\ r # m.index
      BY <1>1, <2>2, <3>3 DEF Fates, Counts
    <3> QED BY <3>1, <3>2, <3>3
  <2> QED BY <1>1, <2>3 DEF Opens, Fates, Counts, n
<1> QED BY <1>2, <1>3

(* A write of the current turn that accepts k contributions.               *)
LEMMA WriteMaps ==
    ASSUME NEW m, InOrder(m), m.current # Unset, NEW k,
           NEW t \in Turn, LiveTurn(t, m.current),
           Count(t) = Count(m.history[m.current]) + k
    PROVE  LET n == [m EXCEPT !.history[m.current] = t] IN
           /\ n.index = m.index
           /\ Fates(n) = Fates(m)
           /\ Counts(n) = [Counts(m) EXCEPT ![m.index] = @ + k]
<1> DEFINE n == [m EXCEPT !.history[m.current] = t]
<1>1. /\ m.current = m.index /\ m.index \in Nat /\ m.index \in 1..m.index
      /\ m.history[m.index] \in Turn /\ LiveTurn(m.history[m.index], m.index)
  BY DEF InOrder, Unset
<1>2. /\ n.index = m.index /\ n.history[m.index] = t
      /\ \A r \in 1..m.index : r # m.index => n.history[r] = m.history[r]
  BY <1>1 DEF InOrder
<1> HIDE DEF n
<1>3. FateOf(t) = "open" /\ FateOf(m.history[m.index]) = "open"
  BY <1>1, ClosingMaps
<1>4. Fates(n) = Fates(m)
  BY <1>1, <1>2, <1>3 DEF Fates
<1>5. Counts(n) = [Counts(m) EXCEPT ![m.index] = @ + k]
  BY <1>1, <1>2 DEF Counts
<1> QED BY <1>2, <1>4, <1>5 DEF n

(* How Rounds sees a step of the manager from m to n.                      *)
Maps(m, n) ==
    \/ n.index = m.index /\ Fates(n) = Fates(m) /\ Counts(n) = Counts(m)
    \/ Opens(m, n, "superseded")
    \/ Opens(m, n, "interrupted")
    \/ /\ m.index > 0 /\ n.index = m.index /\ Fates(n) = Fates(m)
       /\ Counts(n) = [Counts(m) EXCEPT ![m.index] = @ + 1]
    \/ /\ m.index = 0 /\ n.index = 1 /\ Fates(n) = [r \in 1..1 |-> "open"]
       /\ Counts(n) = [r \in 1..1 |-> 1]

(* A call that reaches the active turn and writes at most one contribution.*)
LEMMA CallMaps ==
    ASSUME IInv, MayReach
    PROVE  /\ Maps(tm, Reached)
           /\ \A t \in Turn : \A k \in {0, 1} :
                /\ LiveTurn(t, Reached.current)
                /\ Count(t) = Count(Reached.history[Reached.current]) + k
                => Maps(tm, [Reached EXCEPT !.history[Reached.current] = t])
<1> DEFINE m == Reached
<1>1. m = (IF tm.index = 0 THEN StartRound(tm) ELSE tm) /\ tm.index \in Nat
  BY ActiveTurnInOrder DEF IInv, MayReach, MayStart, Reached, InOrder
<1>2. InOrder(m) /\ m.current # Unset
  BY ReachAndWrite DEF Keeps
<1>3. Opens(tm, StartRound(tm), "superseded")
  BY StartRoundOpens DEF IInv
<1>4. Maps(tm, m)
  BY <1>1, <1>3 DEF Maps
<1>5. tm.index = 0 => m.index = 1 /\ Fates(m) = [r \in 1..1 |-> "open"]
                                 /\ Counts(m) = [r \in 1..1 |-> 0]
  BY <1>1, <1>3 DEF Opens
<1>6. ASSUME NEW t \in Turn, NEW k \in {0, 1}, LiveTurn(t, m.current),
             Count(t) = Count(m.history[m.current]) + k
      PROVE  Maps(tm, [m EXCEPT !.history[m.current] = t])
  <2> DEFINE n == [m EXCEPT !.history[m.current] = t]
  <2>1. n.index = m.index /\ Fates(n) = Fates(m)
           /\ Counts(n) = [Counts(m) EXCEPT ![m.index] = @ + k]
    BY <1>2, <1>6, WriteMaps, SMTT(30)
  <2> SUFFICES Maps(tm, n)
    OBVIOUS
  <2> HIDE DEF m, n
  <2>2. CASE k = 0
    <3>1. Counts(n) = Counts(m)
      <4>1. Counts(m)[m.index] \in Nat
        BY <1>2 DEF InOrder, Counts, Count, Turn, Unset
      <4> QED BY <2>1, <2>2, <4>1 DEF Counts
    <3> QED BY <1>4, <2>1, <3>1 DEF Maps, Opens
  <2>3. CASE k = 1 /\ tm.index = 0
    <3>1. [[r \in 1..1 |-> 0] EXCEPT ![1] = @ + 1] = [r \in 1..1 |-> 1]
      OBVIOUS
    <3>2. Counts(n) = [r \in 1..1 |-> 1]
      BY <1>5, <2>1, <2>3, <3>1
    <3>3. n.index = 1 /\ Fates(n) = [r \in 1..1 |-> "open"]
      BY <1>5, <2>1, <2>3
    <3> QED BY <2>3, <3>2, <3>3 DEF Maps
  <2>4. CASE k = 1 /\ tm.index # 0
    BY <1>1, <2>1, <2>4 DEF Maps
  <2> QED BY <2>2, <2>3, <2>4
<1> QED BY <1>4, <1>6 DEF m

LEMMA StepMaps ==
    ASSUME IInv, [Next]_tm PROVE Maps(tm, tm')
<1>1. CASE ClientStartRound
  BY <1>1, StartRoundOpens DEF ClientStartRound, IInv, Maps
<1>2. CASE Interrupt
  BY <1>2, InterruptOpens DEF Interrupt, MayStart, IInv, Maps
<1> DEFINE c == Reached.current
           u == Reached.history[c]
<1>3. ASSUME NEW id \in Held, ObservePartial(id) PROVE Maps(tm, tm')
  <2>1. CASE Accepts(Reached, id)
    <3> DEFINE t == [u EXCEPT !.hyps = @ + 1]
    <3>1. tm' = [Reached EXCEPT !.history[c] = t] /\ MayReach /\ u.hyps < MaxWrites
      BY <1>3, <2>1 DEF ObservePartial
    <3>2. t \in Turn /\ LiveTurn(t, c) /\ Count(t) = Count(u) + 1
      BY <3>1, ReachAndWrite DEF Turn, LiveTurn, Live, Count
    <3> QED BY <3>1, <3>2, CallMaps
  <2>2. CASE ~ Accepts(Reached, id)
    BY <1>3, <2>2, CallMaps DEF ObservePartial
  <2> QED BY <2>1, <2>2
<1>4. ASSUME NEW id \in Held, NEW heard \in BOOLEAN, ObserveFinal(id, heard)
      PROVE  Maps(tm, tm')
  <2>1. CASE Accepts(Reached, id)
    <3> DEFINE t == [u EXCEPT !.final = heard]
    <3>1. tm' = [Reached EXCEPT !.history[c] = t] /\ MayReach
      BY <1>4, <2>1 DEF ObserveFinal
    <3>2. t \in Turn /\ LiveTurn(t, c) /\ Count(t) = Count(u) + 0
      BY <3>1, ReachAndWrite DEF Turn, LiveTurn, Live, Count
    <3> QED BY <3>1, <3>2, CallMaps
  <2>2. CASE ~ Accepts(Reached, id)
    BY <1>4, <2>2, CallMaps DEF ObserveFinal
  <2> QED BY <2>1, <2>2
<1>5. ASSUME NEW id \in Held, NEW heard \in BOOLEAN, FinalizeAsr(id, heard)
      PROVE  Maps(tm, tm')
  <2>1. CASE IsCurrent(tm, id)
    <3> DEFINE r == tm.current
               t == [tm.history[r] EXCEPT !.final = heard]
    <3>1. Reached = tm /\ MayReach
      BY <2>1 DEF IsCurrent, Reached, ActiveTurn, MayReach
    <3>2. t \in Turn /\ LiveTurn(t, r) /\ Count(t) = Count(tm.history[r]) + 0
      BY <3>1, ReachAndWrite DEF Turn, LiveTurn, Live, Count
    <3>3. tm' = [tm EXCEPT !.history[r] = t]
      BY <1>5, <2>1 DEF FinalizeAsr
    <3> QED BY <3>1, <3>2, <3>3, CallMaps
  <2>2. CASE ~ IsCurrent(tm, id)
    BY <1>5, <2>2 DEF FinalizeAsr, Maps
  <2> QED BY <2>1, <2>2
<1>6. ASSUME NEW id \in Held, NEW action \in Planned, Decide(id, action)
      PROVE  Maps(tm, tm')
  <2>1. CASE Accepts(Reached, id)
    <3> DEFINE from == Completed(Reached, id).round
               v == Verdict(Reached, c, from)
               t == [u EXCEPT !.decided = u.decided + 1, !.from = from,
                              !.action = action, !.verdict = v]
    <3>1. tm' = [Reached EXCEPT !.history[c] = t] /\ MayReach /\ u.decided < MaxWrites
      BY <1>6, <2>1 DEF Decide, Decided
    <3>2. from = c /\ c \in 0..MaxRounds /\ u \in Turn /\ LiveTurn(u, c) /\ c # Unset
      <4>1. from = c
        BY <2>1 DEF Accepts, IsCurrent
      <4>2. InOrder(Reached)
        BY <3>1, ReachAndWrite DEF Keeps
      <4> QED BY <3>1, <4>1, <4>2, ReachAndWrite DEF InOrder
    <3>3. v = "approved"
      BY <3>2 DEF Verdict, AllowSpeaking, IsCurrent, LiveTurn
    <3> HIDE DEF v, from
    <3>4. t = [u EXCEPT !.decided = u.decided + 1, !.from = c,
                        !.action = action, !.verdict = "approved"]
      BY <3>2, <3>3
    <3>5. t \in Turn /\ LiveTurn(t, c)
      <4>1. u.decided < MaxWrites
        BY <3>1
      <4> HIDE DEF t, u, c
      <4> QED BY <3>2, <3>4, <4>1, DecidedIsLive
    <3>6. Count(t) = Count(u) + 1
      BY <3>2 DEF Count, Turn
    <3> QED BY <3>1, <3>5, <3>6, CallMaps
  <2>2. CASE ~ Accepts(Reached, id)
    BY <1>6, <2>2, CallMaps DEF Decide
  <2> QED BY <2>1, <2>2
<1>7. CASE UNCHANGED tm
  BY <1>7 DEF Maps
<1> QED BY <1>1, <1>2, <1>3, <1>4, <1>5, <1>6, <1>7 DEF Next

(* The manager, the interruption controller and the scheduler implement    *)
(* the abstract round protocol: rounds open one at a time, close once, and *)
(* only the open one accepts hypotheses and decisions.                     *)
THEOREM Refinement == Spec => ImplementsRounds
<1>1. Init => Protocol!Init
  BY DEF Init, Protocol!Init
<1>2. ASSUME IInv, [Next]_tm PROVE [Protocol!Next]_(Protocol!vars)
  <2>1. Maps(tm, tm')
    BY <1>2, StepMaps
  <2>2. tm.index \in Nat
    BY <1>2 DEF IInv, InOrder
  <2>3. ASSUME NEW why \in {"superseded", "interrupted"}, Opens(tm, tm', why)
        PROVE  Protocol!OpenNext(why, 0)
    BY <2>3 DEF Opens, Fates, Counts, Count, Protocol!OpenNext
  <2>4. CASE tm'.index = tm.index /\ Fates(tm') = Fates(tm) /\ Counts(tm') = Counts(tm)
    BY <2>4 DEF Fates, Counts, Count, Protocol!vars
  <2>5. CASE Opens(tm, tm', "superseded")
    BY <2>3, <2>5 DEF Protocol!Next, Protocol!Supersede
  <2>6. CASE Opens(tm, tm', "interrupted")
    BY <2>3, <2>6 DEF Protocol!Next, Protocol!BargeIn
  <2>7. CASE /\ tm.index > 0 /\ tm'.index = tm.index /\ Fates(tm') = Fates(tm)
             /\ Counts(tm') = [Counts(tm) EXCEPT ![tm.index] = @ + 1]
    BY <2>7 DEF Fates, Counts, Count, Protocol!Next, Protocol!Accept
  <2>8. CASE /\ tm.index = 0 /\ tm'.index = 1 /\ Fates(tm') = [r \in 1..1 |-> "open"]
             /\ Counts(tm') = [r \in 1..1 |-> 1]
    BY <2>8 DEF Fates, Counts, Count, Protocol!Next, Protocol!OpenAndAccept,
                Protocol!OpenNext
  <2> QED BY <2>1, <2>4, <2>5, <2>6, <2>7, <2>8 DEF Maps
<1> QED BY <1>1, <1>2, Ordered, PTL DEF Spec, ImplementsRounds, Protocol!Spec
=============================================================================
