----------------------------- MODULE Parts_proofs -----------------------------
(***************************************************************************)
(* Theorems about the components that MCParts runs side by side, each for  *)
(* every value of its constants.                                           *)
(*                                                                         *)
(* VoiceBridge: speech without ids is let through by what the current round*)
(* has heard or decided.  So the invariant says that a round has heard or  *)
(* decided only what landed in it; the rest is the order of the turns      *)
(* themselves, which the events keep because each is a call of TurnManager.*)
(*                                                                         *)
(* Proactive: a limit holds over any window because whoever is let through *)
(* was below it then, and the emissions of a window that ends later are    *)
(* those of one that ended at the last of them.  What has been promised is *)
(* kept because each term of the time that is announced only grows while   *)
(* nothing is emitted.                                                     *)
(*                                                                         *)
(* SceneTracks: while the scene is steady a track is nearer to its object  *)
(* than half of what separates any two, so that no greedy matching confuses*)
(* them.                                                                   *)
(*                                                                         *)
(* VadCapture: until it triggers the loop holds back exactly the burst that*)
(* is being spoken, and nothing before it was long enough.                 *)
(***************************************************************************)
EXTENDS VoiceBridge, SceneTracks, Proactive, VadCapture, Numbers, TurnManager_proofs

-----------------------------------------------------------------------------
(* Late events and their rounds: VoiceBridge                               *)

Heard(m, r) == m.history[r].decided > 0 \/ m.history[r].final

LandedTypeOK ==
    /\ uttered \subseteq 0..tm.index
    /\ landed \subseteq (0..tm.index) \X (1..tm.index)

HeardHasLanded ==
    \A r \in 1..tm.index : Heard(tm, r) => \E w \in landed : w[2] = r

BridgeInv == IInv /\ LandedTypeOK /\ HeardHasLanded /\ RepliesStayInTheirRound

USE TurnAssumption DEF TurnAssumption

-----------------------------------------------------------------------------
(* Lemmas *)

(* Once there is a round, calls find it live.                              *)
LEMMA ReachedIsCurrent ==
    ASSUME IInv PROVE /\ tm.index \in Nat /\ tm.current = tm.index
                      /\ tm.index # 0 => Reached = tm
  BY DEF IInv, InOrder, LiveTurn, Reached, ActiveTurn, Unset

(* A barge-in takes nothing from what the old round has heard, and the new *)
(* one has heard nothing.                                                  *)
LEMMA InterruptHears ==
    ASSUME NEW m, InOrder(m), m.index < MaxRounds
    PROVE  LET n == InterruptAndStart(m) IN
           /\ ~ Heard(n, m.index + 1)
           /\ \A r \in 1..m.index : Heard(n, r) => Heard(m, r)
<1> DEFINE n == InterruptAndStart(m)
<1>1. n.index = m.index + 1 /\ m.index \in Nat /\ m.current = m.index
  BY InterruptInOrder DEF InOrder
<1>2. CASE m.index = 0
  BY <1>1, <1>2 DEF InterruptAndStart, StartRound, FreshTurn, Heard, Unset
<1>3. CASE m.index # 0
  <2> DEFINE c == m.index
  <2>1. c \in 1..m.index /\ m.history[c] \in Turn /\ LiveTurn(m.history[c], c)
    BY <1>1, <1>3 DEF InOrder
  <2>2. /\ n.history[c] = PlanCancelled(Superseded(Interrupted(m.history[c])))
        /\ n.history[c + 1] = FreshTurn
        /\ \A r \in 1..m.index : r # c => n.history[r] = m.history[r]
    BY <1>1, <1>3, <2>1 DEF InterruptAndStart, InterruptTurn, StartRound, InOrder, Unset
  <2>3. /\ PlanCancelled(Superseded(Interrupted(m.history[c]))).decided = m.history[c].decided
        /\ PlanCancelled(Superseded(Interrupted(m.history[c]))).final = m.history[c].final
    BY <2>1 DEF Turn, LiveTurn, Live, PlanCancelled, Superseded, Interrupted, Cancel
  <2> HIDE DEF n
  <2>4. ~ Heard(n, c + 1)
    BY <2>2 DEF Heard, FreshTurn
  <2>5. ASSUME NEW r \in 1..m.index, Heard(n, r) PROVE Heard(m, r)
    BY <2>2, <2>3, <2>5 DEF Heard
  <2> QED BY <2>4, <2>5 DEF n
<1> QED BY <1>2, <1>3

(* Every event is a call of the manager, or leaves it alone.               *)
LEMMA EventsAreCalls ==
    ASSUME BridgeInv, BridgeNext PROVE [Next]_tm
<1>1. ASSUME NEW w \in landed, NEW action \in Planned, DecideInput(w, action) PROVE Next
  <2>1. [round |-> w[2], token |-> w[2]] \in Held
    BY ReachedIsCurrent DEF BridgeInv, LandedTypeOK, Held
  <2> QED BY <1>1, <2>1 DEF DecideInput, Next
<1>2. [round |-> Unset, token |-> Unset] \in Held
  BY ReachedIsCurrent DEF BridgeInv, Held, Unset
<1> QED
  BY <1>1, <1>2 DEF BridgeNext, Utter, HandleAsrPartial, HandleAsrFinal, HandleTts,
     HandleInterrupt, HandleActivity, Next

(* What is being played stays what it is if the round does.                *)
LEMMA PlayingStays ==
    ASSUME BridgeInv, IInv', landed \subseteq landed', playing' = playing,
           tm.index # 0 => tm'.current = tm.current
    PROVE  RepliesStayInTheirRound'
<1> SUFFICES ASSUME playing # Silence
             PROVE  /\ playing.in = tm'.current
                    /\ Live(tm'.history[tm'.current])
                    /\ playing.tags # {} => <<playing.of, tm'.current>> \in landed'
                    /\ \E w \in landed' : w[2] = tm'.current
  BY DEF RepliesStayInTheirRound
<1>1. /\ playing.in = tm.current
      /\ playing.tags # {} => <<playing.of, tm.current>> \in landed
      /\ \E w \in landed : w[2] = tm.current
  BY DEF BridgeInv, RepliesStayInTheirRound
<1>2. tm.index # 0
  <2>1. PICK w \in landed : w[2] = tm.current
    BY <1>1
  <2> QED BY <2>1, ReachedIsCurrent DEF BridgeInv, LandedTypeOK
<1>3. tm'.current = tm.current /\ tm'.current \in 1..tm'.index /\ tm'.current = tm'.index
  <2>1. tm'.index \in Nat /\ tm'.current = tm'.index
    BY DEF IInv, InOrder
  <2> QED BY <1>2, <2>1, ReachedIsCurrent DEF BridgeInv
<1>4. Live(tm'.history[tm'.current])
  BY <1>3 DEF IInv, InOrder, LiveTurn
<1> QED BY <1>1, <1>3, <1>4

-----------------------------------------------------------------------------
LEMMA BridgeStarts == BridgeInit => BridgeInv
  BY DEF BridgeInit, Init, BridgeInv, IInv, InOrder, LandedTypeOK, HeardHasLanded,
     RepliesStayInTheirRound, Unset

LEMMA BridgeSteps == BridgeInv /\ [BridgeNext]_bridgeVars => BridgeInv'
<1>0. CASE UNCHANGED bridgeVars
  BY <1>0 DEF bridgeVars, BridgeInv, IInv, LandedTypeOK, HeardHasLanded,
     RepliesStayInTheirRound, Heard
<1> SUFFICES ASSUME BridgeInv, BridgeNext PROVE BridgeInv'
  BY <1>0
<1>1. /\ InOrder(tm') /\ tm'.index >= tm.index /\ tm'.index \in Nat /\ tm'.current = tm'.index
      /\ \A r \in 1..tm.index : r # tm.current => tm'.history[r] = tm.history[r]
  BY EventsAreCalls, StepKeeps DEF BridgeInv, Keeps, InOrder
<1>2. tm.index \in Nat /\ tm.current = tm.index /\ (tm.index # 0 => Reached = tm)
  BY ReachedIsCurrent DEF BridgeInv
<1>3. IInv'
  BY <1>1 DEF IInv
<1>4. \A w \in landed : w[1] \in 0..tm.index /\ w[2] \in 1..tm.index /\ w = <<w[1], w[2]>>
  BY DEF BridgeInv, LandedTypeOK
<1>5. ASSUME landed' = landed, uttered' \subseteq uttered \cup {tm.current} PROVE LandedTypeOK'
  <2>1. uttered \subseteq 0..tm.index
    BY DEF BridgeInv, LandedTypeOK
  <2> QED BY <1>1, <1>2, <1>4, <1>5, <2>1 DEF LandedTypeOK
<1>6. ASSUME NEW r \in 1..tm'.index PROVE r \in 1..tm.index \/ tm.index < r
  BY <1>1, <1>2
(* A round that is there already, or is fresh, has heard nothing new.      *)
<1>7. ASSUME landed \subseteq landed',
             \A r \in 1..tm'.index : Heard(tm', r) =>
                 (r \in 1..tm.index /\ Heard(tm, r)) \/ \E w \in landed' : w[2] = r
      PROVE  HeardHasLanded'
  BY <1>7 DEF BridgeInv, HeardHasLanded
<1>8. CASE Utter
  BY <1>3, <1>5, <1>8, <1>7, PlayingStays DEF Utter, BridgeInv
<1>9. CASE HandleAsrPartial
  <2>1. landed' = landed /\ playing' = playing /\ uttered' = uttered
        /\ ObservePartial([round |-> Unset, token |-> Unset])
    BY <1>9 DEF HandleAsrPartial
  <2>2. CASE tm.index # 0
    <3>1. tm'.index = tm.index /\ \A r \in 1..tm.index : Heard(tm', r) => Heard(tm, r)
      BY <1>2, <2>1, <2>2, SMTT(30) DEF ObservePartial, Heard, BridgeInv, IInv, InOrder, Turn
    <3> QED BY <1>1, <1>2, <1>3, <1>5, <1>7, <2>1, <3>1, PlayingStays DEF BridgeInv
  <2>3. CASE tm.index = 0
    <3>1. Reached = StartRound(tm)
      BY <1>2, <2>3 DEF Reached, ActiveTurn, Unset
    <3>2. tm'.index = 1 /\ ~ Heard(tm', 1)
      BY <1>2, <2>1, <2>3, <3>1 DEF ObservePartial, StartRound, FreshTurn, Heard
    <3> QED BY <1>3, <1>5, <1>7, <2>1, <2>3, <3>2, PlayingStays DEF BridgeInv
  <2> QED BY <2>2, <2>3
<1>10. ASSUME NEW u \in uttered, NEW heard \in BOOLEAN, HandleAsrFinal(u, heard)
       PROVE  BridgeInv'
  <2>1. landed' = landed \cup {<<u, tm'.current>>} /\ playing' = playing /\ uttered' = uttered
        /\ ObserveFinal([round |-> Unset, token |-> Unset], heard)
    BY <1>10 DEF HandleAsrFinal
  <2>2. /\ tm'.current # 0
        /\ tm.index # 0 => tm'.index = tm.index
        /\ tm.index = 0 => tm'.index = 1
    <3>1. tm'.index = Reached.index
      BY <2>1 DEF ObserveFinal
    <3>2. tm.index = 0 => Reached = StartRound(tm)
      BY <1>2 DEF Reached, ActiveTurn, Unset
    <3> QED BY <1>1, <1>2, <3>1, <3>2 DEF StartRound
  <2>3. LandedTypeOK'
    <3>1. u \in 0..tm.index /\ uttered \subseteq 0..tm.index
      BY DEF BridgeInv, LandedTypeOK
    <3>2. <<u, tm'.current>> \in (0..tm'.index) \X (1..tm'.index)
      BY <1>1, <1>2, <2>2, <3>1
    <3> QED BY <1>1, <1>2, <1>4, <2>1, <3>1, <3>2 DEF LandedTypeOK
  <2>4. ASSUME NEW r \in 1..tm'.index, Heard(tm', r)
        PROVE  (r \in 1..tm.index /\ Heard(tm, r)) \/ \E w \in landed' : w[2] = r
    <3>1. CASE r = tm'.current
      <4>1. <<u, tm'.current>> \in landed' /\ <<u, tm'.current>>[2] = r
        BY <2>1, <3>1
      <4> QED BY <4>1
    <3>2. CASE r # tm'.current
      <4>1. r \in 1..tm.index /\ r # tm.current
        BY <1>1, <1>2, <2>2, <3>2
      <4> QED BY <1>1, <2>4, <4>1 DEF Heard
    <3> QED BY <3>1, <3>2
  <2>5. HeardHasLanded'
    BY <1>7, <2>1, <2>4
  <2> QED BY <1>1, <1>2, <1>3, <2>1, <2>2, <2>3, <2>5, PlayingStays DEF BridgeInv
<1>11. ASSUME NEW w \in landed, NEW action \in Planned, DecideInput(w, action)
       PROVE  BridgeInv'
  <2>1. landed' = landed /\ playing' = playing /\ uttered' = uttered
        /\ Decide([round |-> w[2], token |-> w[2]], action)
    BY <1>11 DEF DecideInput
  <2>2. tm.index # 0 /\ Reached = tm /\ w[2] # Unset
    BY <1>2, <1>4 DEF Unset
  <2>3. tm'.index = tm.index
    BY <2>1, <2>2 DEF Decide, Decided, BridgeInv, IInv, InOrder
  <2>4. ASSUME NEW r \in 1..tm'.index, Heard(tm', r)
        PROVE  (r \in 1..tm.index /\ Heard(tm, r)) \/ \E v \in landed' : v[2] = r
    <3>1. CASE r # tm.current
      BY <1>1, <2>3, <2>4, <3>1 DEF Heard
    <3>2. CASE r = tm.current /\ ~ Accepts(tm, [round |-> w[2], token |-> w[2]])
      BY <2>1, <2>2, <2>3, <2>4, <3>2 DEF Decide
    <3>3. CASE r = tm.current /\ Accepts(tm, [round |-> w[2], token |-> w[2]])
      BY <2>1, <2>2, <3>3 DEF Accepts, Completed, IsCurrent
    <3> QED BY <3>1, <3>2, <3>3
  <2> QED BY <1>1, <1>2, <1>3, <1>5, <1>7, <2>1, <2>3, <2>4, PlayingStays DEF BridgeInv
<1>12. ASSUME NEW w \in landed, NEW tags \in Tagging, HandleTts(w, tags)
       PROVE  BridgeInv'
  <2>1. /\ IsPlayable(TagsOf(w[2], tags))
        /\ playing' = [of |-> w[1], in |-> tm.current, tags |-> tags]
        /\ tm' = tm /\ landed' = landed /\ uttered' = uttered
    BY <1>12 DEF HandleTts
  <2>2. w[2] # Unset /\ tm.current \in 1..tm.index
    BY <1>2, <1>4 DEF Unset
  <2>3. ASSUME tags # {} PROVE w[2] = tm.current
    <3>1. "round" \in tags \/ "token" \in tags
      BY <2>3 DEF Tagging
    <3> QED BY <2>1, <2>2, <3>1 DEF IsPlayable, IdsMatch, TagsOf, Unset
  <2>4. Heard(tm, tm.current)
    BY <2>1 DEF IsPlayable, HasStableSpeakingContent, Heard
  <2>5. \E v \in landed : v[2] = tm.current
    BY <2>2, <2>4 DEF BridgeInv, HeardHasLanded
  <2>6. Live(tm.history[tm.current])
    BY <1>2, <2>2 DEF BridgeInv, IInv, InOrder, LiveTurn
  <2>7. tags # {} => <<w[1], tm.current>> \in landed
    BY <1>4, <2>3
  <2>8. RepliesStayInTheirRound'
    <3>1. /\ playing'.in = tm.current /\ playing'.of = w[1] /\ playing'.tags = tags
      BY <2>1
    <3> QED BY <2>1, <2>5, <2>6, <2>7, <3>1 DEF RepliesStayInTheirRound
  <2>9. HeardHasLanded'
    BY <2>1 DEF BridgeInv, HeardHasLanded, Heard
  <2> QED BY <1>3, <1>5, <2>1, <2>8, <2>9 DEF BridgeInv
<1>13. CASE HandleInterrupt
  <2>1. /\ tm' = InterruptAndStart(tm) /\ tm.index < MaxRounds
        /\ playing' = Silence /\ landed' = landed /\ uttered' = uttered
    BY <1>13 DEF HandleInterrupt, Interrupt, MayStart
  <2>2. tm'.index = tm.index + 1
    BY <2>1, InterruptInOrder DEF BridgeInv, IInv
  <2>3. ASSUME NEW r \in 1..tm'.index, Heard(tm', r)
        PROVE  r \in 1..tm.index /\ Heard(tm, r)
    BY <1>2, <2>1, <2>2, <2>3, InterruptHears DEF BridgeInv, IInv
  <2>4. HeardHasLanded'
    BY <1>7, <2>1, <2>3
  <2> QED BY <1>3, <1>5, <2>1, <2>4 DEF BridgeInv, RepliesStayInTheirRound
<1>14. CASE HandleActivity
  <2>1. /\ tm' = StartRound(tm) /\ tm.index = 0
        /\ playing' = playing /\ landed' = landed /\ uttered' = uttered
    BY <1>2, <1>14 DEF HandleActivity, ClientStartRound, Unset
  <2>2. tm'.index = 1 /\ ~ Heard(tm', 1)
    BY <2>1 DEF StartRound, FreshTurn, Heard
  <2> QED BY <1>3, <1>5, <1>7, <2>1, <2>2, PlayingStays DEF BridgeInv
<1> QED BY <1>8, <1>9, <1>10, <1>11, <1>12, <1>13, <1>14 DEF BridgeNext

(* For any number of rounds and events, late or repeated: what is being    *)
(* played belongs to the live round, tagged speech answers what was heard  *)
(* in it, and untagged speech waits until it has heard anything            *)
(* (_stale_tts_reason, _handle_interrupt).                                 *)
THEOREM RepliesStay == BridgeSpec => []RepliesStayInTheirRound
<1>1. BridgeInv => RepliesStayInTheirRound
  BY DEF BridgeInv
<1> QED BY <1>1, BridgeStarts, BridgeSteps, PTL DEF BridgeSpec

-----------------------------------------------------------------------------
(* What the robot does on its own: Proactive *)

(* A cap, as of any time and for any emissions; and the limits made of it. *)
Recent(cap, es, n) == {e \in es : e.at > n - cap.window}

CapAt(cap, es, n) ==
    IF cap.limit = 0 THEN n + cap.window
    ELSE IF Cardinality(Recent(cap, es, n)) < cap.limit THEN 0
    ELSE Oldest(Recent(cap, es, n)) + cap.window

OnChannel(c, es) == {e \in es : e.channel = c}
OfEvent(v, es) == {e \in es : e.event = v}

ChannelAt(c, es, n) == CapAt(ChannelCaps[c], OnChannel(c, es), n)
EventAt(v, es, n) == IF v \in DOMAIN EventCaps THEN CapAt(EventCaps[v], OfEvent(v, es), n) ELSE 0

LEMMA AsOfNow ==
    /\ \A cap, es : Recent(cap, es, now) = Within(cap, es) /\ CapAt(cap, es, now) = CapUntil(cap, es)
    /\ \A c, es : ChannelUntil(c, es) = ChannelAt(c, es, now)
    /\ \A v, es : EventUntil(v, es) = EventAt(v, es, now)
BY DEF Recent, Within, CapAt, CapUntil, ChannelUntil, ChannelAt, EventUntil, EventAt, OnChannel, OfEvent

(* Nothing that happened after n is remembered.                            *)
Past(es, n) == IsFiniteSet(es) /\ \A e \in es : e.at \in 0..n

(* A cap is never exceeded.                                                *)
AlwaysCapped(cap, es) ==
    \A t \in Nat : Cardinality({e \in es : e.at \in t..t + cap.window - 1}) <= cap.limit

LEMMA OldestIs ==
    ASSUME NEW es, NEW n \in Nat, Past(es, n), es # {}
    PROVE  /\ Oldest(es) \in 0..n
           /\ \A e \in es : Oldest(es) <= e.at
           /\ \E e \in es : e.at = Oldest(es)
<1> DEFINE times == {e.at : e \in es}
<1>1. times \subseteq Nat /\ times # {}
  BY DEF Past
<1>2. \E t \in times : \A k \in times : t <= k
  <2> HIDE DEF times
  <2>1. QED
    BY <1>1, LeastNumber
<1>3. \E t \in times : \A e \in es : t <= e.at
  BY <1>2
<1>4. Oldest(es) \in times /\ \A e \in es : Oldest(es) <= e.at
  BY <1>3 DEF Oldest
<1>5. QED
  BY <1>4 DEF Past

LEMMA RecentIs ==
    ASSUME NEW cap \in Cap, NEW es, NEW n \in Nat, Past(es, n)
    PROVE  /\ cap.limit \in Nat /\ cap.window \in Nat
           /\ Recent(cap, es, n) \subseteq es /\ Past(Recent(cap, es, n), n)
           /\ Cardinality(Recent(cap, es, n)) \in Nat
           /\ Cardinality(Recent(cap, es, n)) >= cap.limit /\ cap.limit # 0 => Recent(cap, es, n) # {}
           /\ CapAt(cap, es, n) \in Nat
<1>1. cap.limit \in Nat /\ cap.window \in Nat
  BY DEF Cap
<1>2. Recent(cap, es, n) \subseteq es /\ IsFiniteSet(Recent(cap, es, n))
  BY FS_Subset DEF Recent, Past
<1>3. Past(Recent(cap, es, n), n) /\ Cardinality(Recent(cap, es, n)) \in Nat
  BY <1>2, FS_CardinalityType DEF Past
<1>4. ASSUME Cardinality(Recent(cap, es, n)) >= cap.limit, cap.limit # 0
      PROVE  Recent(cap, es, n) # {}
  BY <1>1, <1>4, FS_EmptySet
<1>5. CapAt(cap, es, n) \in Nat
  <2>1. CASE cap.limit = 0 \/ Cardinality(Recent(cap, es, n)) < cap.limit
    BY <1>1, <2>1 DEF CapAt
  <2>2. CASE ~(cap.limit = 0 \/ Cardinality(Recent(cap, es, n)) < cap.limit)
    <3>1. Oldest(Recent(cap, es, n)) \in 0..n
      BY <1>1, <1>3, <1>4, <2>2, OldestIs
    <3>2. CapAt(cap, es, n) = Oldest(Recent(cap, es, n)) + cap.window
      BY <2>2 DEF CapAt
    <3>3. QED
      BY <1>1, <3>1, <3>2
  <2>3. QED
    BY <2>1, <2>2
<1>6. QED
  BY <1>1, <1>2, <1>3, <1>4, <1>5

(* A cap that does not block has room for one more, wherever its window is *)
(* laid; what the manager has forgotten is out of the window by then.      *)
LEMMA OneMore ==
    ASSUME NEW cap \in Cap, NEW es, NEW kept \in SUBSET es, NEW n \in Nat, Past(es, n),
           Recent(cap, es, n) \subseteq kept,
           AlwaysCapped(cap, es), CapAt(cap, kept, n) <= n,
           NEW x, x.at = n
    PROVE  AlwaysCapped(cap, es \cup {x})
<1> SUFFICES ASSUME NEW t \in Nat
             PROVE  Cardinality({e \in es \cup {x} : e.at \in t..t + cap.window - 1}) <= cap.limit
  BY DEF AlwaysCapped
<1> DEFINE In(s) == {e \in s : e.at \in t..t + cap.window - 1}
<1>1. /\ cap.limit \in Nat /\ cap.window \in Nat /\ Past(kept, n)
      /\ IsFiniteSet(In(es)) /\ Cardinality(In(es)) \in Nat /\ Cardinality(In(es)) <= cap.limit
  <2>1. IsFiniteSet(In(es)) /\ IsFiniteSet(kept)
    BY FS_Subset DEF Past
  <2>2. QED
    BY <2>1, RecentIs, FS_CardinalityType DEF Past, AlwaysCapped
<1>2. CASE n \notin t..t + cap.window - 1
  <2>1. In(es \cup {x}) = In(es)
    BY <1>2
  <2>2. QED
    BY <1>1, <2>1
<1>3. CASE n \in t..t + cap.window - 1
  <2>1. t <= n /\ n - cap.window < t /\ cap.window # 0
    BY <1>1, <1>3
  <2>2. In(es) \subseteq Recent(cap, kept, n)
    <3>1. In(es) \subseteq Recent(cap, es, n)
      BY <1>1, <2>1 DEF Recent, Past
    <3>2. QED
      BY <3>1 DEF Recent
  <2>3. cap.limit # 0
    BY <1>1, <2>1 DEF CapAt
  <2>4. Cardinality(Recent(cap, kept, n)) < cap.limit
    <3> SUFFICES ASSUME ~(Cardinality(Recent(cap, kept, n)) < cap.limit) PROVE FALSE
      OBVIOUS
    <3>1. Recent(cap, kept, n) # {} /\ Past(Recent(cap, kept, n), n)
          /\ Cardinality(Recent(cap, kept, n)) \in Nat
      BY <1>1, <2>3, RecentIs
    <3>2. PICK e \in Recent(cap, kept, n) : e.at = Oldest(Recent(cap, kept, n))
      BY <3>1, OldestIs
    <3>3. CapAt(cap, kept, n) = e.at + cap.window
      BY <1>1, <2>3, <3>1, <3>2 DEF CapAt
    <3>4. e.at > n - cap.window /\ e.at \in Nat
      BY <1>1, <3>2 DEF Recent, Past
    <3>5. QED
      BY <1>1, <3>3, <3>4
  <2>5. /\ Cardinality(In(es)) <= Cardinality(Recent(cap, kept, n))
        /\ Cardinality(Recent(cap, kept, n)) \in Nat
    <3>1. IsFiniteSet(Recent(cap, kept, n))
      BY <1>1, RecentIs DEF Past
    <3>2. QED
      BY <3>1, <2>2, FS_Subset, FS_CardinalityType
  <2>6. In(es \cup {x}) \subseteq In(es) \cup {x}
    OBVIOUS
  <2>7. /\ IsFiniteSet(In(es) \cup {x})
        /\ Cardinality(In(es) \cup {x}) <= Cardinality(In(es)) + 1
        /\ Cardinality(In(es) \cup {x}) \in Nat
    <3> DEFINE mine == In(es)
    <3>1. IsFiniteSet(mine) /\ Cardinality(mine) \in Nat
      BY <1>1
    <3> HIDE DEF mine
    <3>2. /\ IsFiniteSet(mine \cup {x})
          /\ Cardinality(mine \cup {x}) = IF x \in mine THEN Cardinality(mine) ELSE Cardinality(mine) + 1
      BY <3>1, FS_AddElement
    <3>3. /\ Cardinality(mine \cup {x}) <= Cardinality(mine) + 1
          /\ Cardinality(mine \cup {x}) \in Nat
      BY <3>1, <3>2
    <3>4. QED
      BY <3>2, <3>3 DEF mine
  <2>8. Cardinality(In(es \cup {x})) <= Cardinality(In(es) \cup {x})
        /\ Cardinality(In(es \cup {x})) \in Nat
    BY <2>6, <2>7, FS_Subset, FS_CardinalityType
  <2>9. QED
    BY <1>1, <2>4, <2>5, <2>7, <2>8
<1>4. QED
  BY <1>2, <1>3

(* Until the time comes that a cap has blocked to, it goes on blocking to  *)
(* that time or a later one, whatever is emitted and forgotten meanwhile.  *)
LEMMA CapHolds ==
    ASSUME NEW cap \in Cap, NEW es, NEW n \in Nat, Past(es, n),
           NEW es2, NEW n2 \in Nat, Past(es2, n2), n <= n2,
           Recent(cap, es, n) \subseteq es2,
           \A e \in es2 : e \in es \/ e.at >= n,
           NEW u \in Nat, u > n2, CapAt(cap, es, n) >= u
    PROVE  CapAt(cap, es2, n2) >= u
<1> DEFINE old == Recent(cap, es, n)
           new == Recent(cap, es2, n2)
<1>1. cap.limit \in Nat /\ cap.window \in Nat
  BY DEF Cap
<1>2. CASE cap.limit = 0
  BY <1>1, <1>2 DEF CapAt
<1>3. CASE cap.limit # 0
  <2>1. /\ Past(old, n) /\ Past(new, n2) /\ Cardinality(old) \in Nat /\ Cardinality(new) \in Nat
    BY RecentIs
  <2>2. Cardinality(old) >= cap.limit
    BY <1>1, <1>3, <2>1 DEF CapAt
  <2>3. old # {} /\ CapAt(cap, es, n) = Oldest(old) + cap.window
    BY <1>1, <1>3, <2>1, <2>2, RecentIs DEF CapAt
  <2>4. /\ Oldest(old) \in 0..n /\ \A e \in old : Oldest(old) <= e.at
    BY <2>1, <2>3, OldestIs
  <2>5. n2 - cap.window < Oldest(old)
    BY <1>1, <2>3, <2>4
  <2>6. old \subseteq new
    BY <1>1, <2>1, <2>4, <2>5 DEF Recent, Past
  <2>7. Cardinality(new) >= cap.limit /\ new # {}
    <3>1. IsFiniteSet(new)
      BY <2>1 DEF Past
    <3>2. Cardinality(old) <= Cardinality(new)
      BY <3>1, <2>6, FS_Subset
    <3>3. QED
      BY <1>1, <2>1, <2>2, <2>3, <2>6, <3>2
  <2>8. /\ CapAt(cap, es2, n2) = Oldest(new) + cap.window
        /\ Oldest(new) \in 0..n2 /\ \E e \in new : e.at = Oldest(new)
    BY <1>1, <1>3, <2>1, <2>7, OldestIs DEF CapAt
  <2>9. \A e \in new : Oldest(old) <= e.at
    <3> SUFFICES ASSUME NEW e \in new PROVE Oldest(old) <= e.at
      OBVIOUS
    <3>1. e \in es2 /\ e.at > n2 - cap.window /\ e.at \in Nat
      BY <2>1 DEF Recent, Past
    <3>2. CASE e \in es
      BY <1>1, <2>4, <3>1, <3>2 DEF Recent
    <3>3. CASE e.at >= n
      BY <2>4, <3>1, <3>3
    <3>4. QED
      BY <3>1, <3>2, <3>3
  <2> HIDE DEF old, new
  <2>10. QED
    BY <1>1, <2>3, <2>4, <2>8, <2>9
<1>4. QED
  BY <1>2, <1>3

-----------------------------------------------------------------------------
LEMMA ConstantsOfProactive ==
    /\ \A c \in Channels : Cooldowns[c] \in Nat /\ ChannelCaps[c] \in Cap
    /\ \A v \in DOMAIN EventCaps : EventCaps[v] \in Cap
    /\ Feedback \in Nat
    /\ \A c \in Channels : ChannelCaps[c].window \in Windows
    /\ \A v \in DOMAIN EventCaps : EventCaps[v].window \in Windows
    /\ \A w \in Windows : w \in Nat
BY ProactiveAssumption DEF ProactiveAssumption, Windows, Cap

(* What blocks is one of the four limits, and when nothing blocks none of  *)
(* them is still to come.                                                  *)
LEMMA BlockedFacts ==
    ASSUME NEW c, NEW v, NEW until \in Nat, now \in Nat, CooldownUntil(c, last) \in Nat,
           ChannelUntil(c, emissions) \in Nat, EventUntil(v, emissions) \in Nat
    PROVE  /\ BlockedUntil(c, v, until) <= now =>
                /\ until <= now /\ CooldownUntil(c, last) <= now
                /\ ChannelUntil(c, emissions) <= now /\ EventUntil(v, emissions) <= now
           /\ BlockedUntil(c, v, until) > now =>
                BlockedUntil(c, v, until) \in {until, CooldownUntil(c, last),
                                              ChannelUntil(c, emissions), EventUntil(v, emissions)}
<1> DEFINE limits == <<until, CooldownUntil(c, last), ChannelUntil(c, emissions), EventUntil(v, emissions)>>
           blocking == {i \in 1..4 : limits[i] > now}
           first == CHOOSE i \in blocking : \A j \in blocking : i <= j
<1>1. \A i \in 1..4 : limits[i] \in {until, CooldownUntil(c, last), ChannelUntil(c, emissions),
                                     EventUntil(v, emissions)}
  OBVIOUS
<1>2. limits[1] = until /\ limits[2] = CooldownUntil(c, last)
      /\ limits[3] = ChannelUntil(c, emissions) /\ limits[4] = EventUntil(v, emissions)
  OBVIOUS
<1>3. BlockedUntil(c, v, until) = IF blocking = {} THEN 0 ELSE limits[first]
  BY DEF BlockedUntil
<1> HIDE DEF limits
<1>4. ASSUME blocking # {} PROVE first \in 1..4 /\ limits[first] > now
  <2>1. \E i \in blocking : \A j \in blocking : i <= j
    BY <1>4, LeastNumber
  <2>2. first \in blocking
    BY <2>1
  <2>3. QED
    BY <2>2
<1>5. ASSUME blocking = {}
      PROVE  \A i \in 1..4 : ~(limits[i] > now)
  BY <1>5
<1>6. CASE blocking = {}
  <2>1. BlockedUntil(c, v, until) = 0
    BY <1>3, <1>6
  <2>2. ~(limits[1] > now) /\ ~(limits[2] > now) /\ ~(limits[3] > now) /\ ~(limits[4] > now)
    BY <1>5, <1>6
  <2>3. QED
    BY <1>2, <2>1, <2>2
<1>7. CASE blocking # {}
  <2>1. BlockedUntil(c, v, until) = limits[first] /\ limits[first] > now
        /\ limits[first] \in {until, CooldownUntil(c, last), ChannelUntil(c, emissions), EventUntil(v, emissions)}
    BY <1>1, <1>3, <1>4, <1>7
  <2> HIDE DEF first
  <2>2. QED
    BY <2>1
<1>8. QED
  BY <1>6, <1>7

-----------------------------------------------------------------------------
(* The invariant: the manager remembers all that any of its windows still  *)
(* holds, and one of the four limits stands behind what was announced.     *)
ProactiveTyped ==
    /\ now \in Nat /\ quiet \in Nat
    /\ DOMAIN last \subseteq Channels /\ \A c \in DOMAIN last : last[c] \in 0..now
    /\ emissions \subseteq emitted /\ Past(emitted, now)
    /\ \A e \in emitted : e.nth \in 1..Cardinality(emitted) /\ e.channel \in Channels
    /\ objected \in Int /\ objected <= now

Remembered ==
    /\ \A w \in Windows, e \in emitted : e.at > now - w => e \in emissions
    /\ \A e \in emitted : e.channel \in DOMAIN last /\ e.at <= last[e.channel]
    /\ quiet >= objected + Feedback

CapsKept ==
    /\ \A c \in Channels : AlwaysCapped(ChannelCaps[c], OnChannel(c, emitted))
    /\ \A v \in DOMAIN EventCaps : AlwaysCapped(EventCaps[v], OfEvent(v, emitted))
    /\ \A d, e \in emitted :
          d.nth < e.nth /\ d.channel = e.channel => e.at >= d.at + Cooldowns[d.channel]
    /\ \A e \in emitted : e.at <= objected \/ e.at >= objected + Feedback

(* One of the limits for that channel and type lasts until u.              *)
HeldUntil(c, v, u) ==
    \/ quiet >= u \/ CooldownUntil(c, last) >= u
    \/ ChannelAt(c, emissions, now) >= u \/ EventAt(v, emissions, now) >= u

Promised ==
    /\ announced.until \in Nat
    /\ announced.until > now => announced.channel \in Channels
                               /\ HeldUntil(announced.channel, announced.event, announced.until)

ProactiveInv == ProactiveTyped /\ Remembered /\ CapsKept /\ Promised

LEMMA InvStarts == ProactiveInit => ProactiveInv
<1> SUFFICES ASSUME ProactiveInit PROVE ProactiveInv
  OBVIOUS
<1>1. Feedback \in Nat
  BY ConstantsOfProactive
<1>2. ProactiveTyped /\ Remembered /\ Promised
  BY <1>1, FS_EmptySet DEF ProactiveInit, ProactiveTyped, Past, Remembered, Promised, Never, NoAnswer
<1>3. CapsKept
  <2>1. \A cap \in Cap : AlwaysCapped(cap, {})
    <3> SUFFICES ASSUME NEW cap \in Cap, NEW t \in Nat
                 PROVE  Cardinality({e \in {} : e.at \in t..t + cap.window - 1}) <= cap.limit
      BY DEF AlwaysCapped
    <3>1. {e \in {} : e.at \in t..t + cap.window - 1} = {} /\ cap.limit \in Nat
      BY DEF Cap
    <3>2. QED
      BY <3>1, FS_EmptySet
  <2>2. emitted = {} /\ (\A c : OnChannel(c, emitted) = {}) /\ (\A v : OfEvent(v, emitted) = {})
    BY DEF ProactiveInit, OnChannel, OfEvent
  <2>3. QED
    BY <2>1, <2>2, ConstantsOfProactive DEF CapsKept
<1>4. QED
  BY <1>2, <1>3 DEF ProactiveInv

(* What the invariant says of the limits.                                  *)
LEMMA LimitFacts ==
    ASSUME ProactiveInv, NEW c \in Channels, NEW v
    PROVE  /\ CooldownUntil(c, last) \in Nat
           /\ ChannelUntil(c, emissions) = ChannelAt(c, emissions, now)
           /\ EventUntil(v, emissions) = EventAt(v, emissions, now)
           /\ ChannelAt(c, emissions, now) \in Nat /\ EventAt(v, emissions, now) \in Nat
           /\ Past(OnChannel(c, emissions), now) /\ Past(OfEvent(v, emissions), now)
           /\ Past(OnChannel(c, emitted), now) /\ Past(OfEvent(v, emitted), now)
<1>1. /\ Past(OnChannel(c, emissions), now) /\ Past(OfEvent(v, emissions), now)
      /\ Past(OnChannel(c, emitted), now) /\ Past(OfEvent(v, emitted), now)
  <2>1. IsFiniteSet(emitted) /\ emissions \subseteq emitted /\ \A e \in emitted : e.at \in 0..now
    BY DEF ProactiveInv, ProactiveTyped, Past
  <2>2. \A es \in SUBSET emitted : Past(es, now)
    BY <2>1, FS_Subset DEF Past
  <2>3. QED
    BY <2>1, <2>2 DEF OnChannel, OfEvent
<1>2. now \in Nat /\ ChannelCaps[c] \in Cap /\ (v \in DOMAIN EventCaps => EventCaps[v] \in Cap)
      /\ Cooldowns[c] \in Nat
  BY ConstantsOfProactive DEF ProactiveInv, ProactiveTyped
<1>3. ChannelAt(c, emissions, now) \in Nat /\ EventAt(v, emissions, now) \in Nat
  BY <1>1, <1>2, RecentIs DEF ChannelAt, EventAt
<1>4. CooldownUntil(c, last) \in Nat
  BY <1>2 DEF CooldownUntil, ProactiveInv, ProactiveTyped
<1>5. QED
  BY <1>1, <1>3, <1>4, AsOfNow

(* What holds of the limits lasts through any step that forgets only what  *)
(* is out of all windows.                                                  *)
LEMMA HeldOn ==
    ASSUME ProactiveInv, now' \in Nat, now <= now', quiet' \in Nat, quiet <= quiet',
           \A c \in DOMAIN last : c \in DOMAIN last' /\ last'[c] \in Nat /\ last[c] <= last'[c],
           Past(emissions', now'),
           \A w \in Windows, e \in emissions : e.at > now - w => e \in emissions',
           \A e \in emissions' : e \in emissions \/ e.at >= now,
           NEW c \in Channels, NEW v, NEW u \in Nat, u > now', HeldUntil(c, v, u)
    PROVE  HeldUntil(c, v, u)'
<1>0. /\ now \in Nat /\ quiet \in Nat /\ Cooldowns[c] \in Nat /\ ChannelCaps[c] \in Cap
      /\ ChannelCaps[c].window \in Windows
      /\ v \in DOMAIN EventCaps => EventCaps[v] \in Cap /\ EventCaps[v].window \in Windows
  BY ConstantsOfProactive DEF ProactiveInv, ProactiveTyped
<1>1. CASE quiet >= u
  <2>1. quiet' >= u
    BY <1>0, <1>1
  <2>2. QED
    BY <2>1 DEF HeldUntil
<1>2. CASE CooldownUntil(c, last) >= u
  <2>1. c \in DOMAIN last /\ last[c] + Cooldowns[c] >= u /\ last[c] \in Nat
    BY <1>0, <1>2 DEF CooldownUntil, ProactiveInv, ProactiveTyped
  <2>2. CooldownUntil(c, last)' >= u
    BY <1>0, <2>1 DEF CooldownUntil
  <2>3. QED
    BY <2>2 DEF HeldUntil
<1>3. CASE ChannelAt(c, emissions, now) >= u
  <2> DEFINE es == OnChannel(c, emissions)
             es2 == OnChannel(c, emissions')
  <2>1. Past(es, now)
    BY LimitFacts
  <2>2. Past(es2, now')
    BY FS_Subset DEF Past, OnChannel
  <2>3. Recent(ChannelCaps[c], es, now) \subseteq es2 /\ \A e \in es2 : e \in es \/ e.at >= now
    BY <1>0 DEF Recent, OnChannel
  <2>4. CapAt(ChannelCaps[c], es, now) >= u
    BY <1>3 DEF ChannelAt
  <2> HIDE DEF es, es2
  <2>5. CapAt(ChannelCaps[c], es2, now') >= u
    BY <1>0, <2>1, <2>2, <2>3, <2>4, CapHolds
  <2>6. ChannelAt(c, emissions, now)' >= u
    BY <2>5 DEF ChannelAt, es2
  <2>7. QED
    BY <2>6 DEF HeldUntil
<1>4. CASE EventAt(v, emissions, now) >= u
  <2> DEFINE es == OfEvent(v, emissions)
             es2 == OfEvent(v, emissions')
  <2>0. v \in DOMAIN EventCaps
    BY <1>0, <1>4 DEF EventAt
  <2>1. Past(es, now)
    BY LimitFacts
  <2>2. Past(es2, now')
    BY FS_Subset DEF Past, OfEvent
  <2>3. Recent(EventCaps[v], es, now) \subseteq es2 /\ \A e \in es2 : e \in es \/ e.at >= now
    BY <1>0, <2>0 DEF Recent, OfEvent
  <2>4. CapAt(EventCaps[v], es, now) >= u
    BY <1>4, <2>0 DEF EventAt
  <2> HIDE DEF es, es2
  <2>5. CapAt(EventCaps[v], es2, now') >= u
    BY <1>0, <2>0, <2>1, <2>2, <2>3, <2>4, CapHolds
  <2>6. EventAt(v, emissions, now)' >= u
    BY <2>0, <2>5 DEF EventAt, es2
  <2>7. QED
    BY <2>6 DEF HeldUntil
<1>5. QED
  BY <1>1, <1>2, <1>3, <1>4 DEF HeldUntil

(* The time passes.                                                        *)
LEMMA PassKeeps ==
    ASSUME ProactiveInv, Pass
    PROVE  ProactiveInv'
<1>1. /\ now \in Nat /\ now' = now + 1
      /\ announced' = IF announced.until > now' THEN announced ELSE NoAnswer
      /\ UNCHANGED <<last, emissions, quiet, emitted, objected>>
  BY DEF Pass, ProactiveInv, ProactiveTyped
<1>2. ProactiveTyped'
  BY <1>1 DEF ProactiveInv, ProactiveTyped, Past
<1>3. Remembered'
  BY <1>1, <1>2, ConstantsOfProactive DEF ProactiveInv, Remembered, ProactiveTyped, Past
<1>4. CapsKept'
  BY <1>1 DEF ProactiveInv, CapsKept
<1>5. Promised'
  <2>1. CASE announced.until > now'
    <3>1. announced' = announced /\ announced.until \in Nat /\ announced.until > now
          /\ announced.channel \in Channels /\ HeldUntil(announced.channel, announced.event, announced.until)
      BY <1>1, <2>1 DEF ProactiveInv, Promised
    <3>2. PICK c \in Channels : c = announced.channel
      BY <3>1
    <3>3. PICK v : v = announced.event
      OBVIOUS
    <3>4. PICK u \in Nat : u = announced.until
      BY <3>1
    <3>5. Past(emissions', now') /\ quiet \in Nat
      BY <1>1, <1>2, FS_Subset DEF ProactiveTyped, Past, ProactiveInv
    <3>6. \A d \in DOMAIN last : d \in DOMAIN last' /\ last'[d] \in Nat /\ last[d] <= last'[d]
      BY <1>1 DEF ProactiveInv, ProactiveTyped
    <3>7. HeldUntil(c, v, u) /\ u > now'
      BY <2>1, <3>1, <3>2, <3>3, <3>4
    <3>8. HeldUntil(c, v, u)'
      BY <1>1, <3>5, <3>6, <3>7, HeldOn
    <3>9. announced'.channel = c /\ announced'.event = v /\ announced'.until = u
      BY <3>1, <3>2, <3>3, <3>4
    <3>10. QED
      BY <3>8, <3>9 DEF Promised, HeldUntil
  <2>2. CASE ~(announced.until > now')
    BY <1>1, <2>2 DEF Promised, NoAnswer
  <2>3. QED
    BY <2>1, <2>2
<1>6. QED
  BY <1>2, <1>3, <1>4, <1>5 DEF ProactiveInv

(* An objection is noted.                                                  *)
LEMMA Noted ==
    ASSUME ProactiveInv, NEW s, quiet' = Quiet(s), NotesObjection(s)
    PROVE  /\ quiet' \in Nat /\ quiet <= quiet'
           /\ objected' \in Int /\ objected <= objected' /\ objected' <= now
           /\ quiet' >= objected' + Feedback
           /\ objected' = objected \/ objected' = now
<1>1. Feedback \in Nat
  BY ConstantsOfProactive
<1>2. QED
  BY <1>1 DEF ProactiveInv, ProactiveTyped, Remembered, Quiet, NotesObjection, LaterOf

(* Nothing is done, and the answer of before or a limit is announced.      *)
LEMMA QuietlyKeeps ==
    ASSUME ProactiveInv, NEW s, quiet' = Quiet(s), NotesObjection(s),
           UNCHANGED <<now, last, emissions, emitted>>,
           \/ announced' = announced
           \/ /\ announced'.until \in Nat /\ announced'.channel \in Channels
              /\ \/ announced'.until = quiet'
                 \/ announced'.until = CooldownUntil(announced'.channel, last)
                 \/ announced'.until = ChannelAt(announced'.channel, emissions, now)
                 \/ announced'.until = EventAt(announced'.event, emissions, now)
    PROVE  ProactiveInv'
<1>1. /\ quiet' \in Nat /\ quiet <= quiet'
      /\ objected' \in Int /\ objected <= objected' /\ objected' <= now
      /\ quiet' >= objected' + Feedback
      /\ objected' = objected \/ objected' = now
  BY Noted
<1>2. ProactiveTyped'
  BY <1>1 DEF ProactiveInv, ProactiveTyped, Past
<1>3. Remembered'
  BY <1>1 DEF ProactiveInv, Remembered
<1>4. CapsKept'
  <2>1. \A e \in emitted' : e.at <= objected' \/ e.at >= objected' + Feedback
    BY <1>1 DEF ProactiveInv, CapsKept, ProactiveTyped, Past
  <2>2. QED
    BY <2>1 DEF ProactiveInv, CapsKept
<1>5. Promised'
  <2>1. CASE announced' = announced
    BY <1>1, <2>1 DEF ProactiveInv, Promised, HeldUntil, ProactiveTyped
  <2>2. CASE announced'.until = quiet' /\ announced'.until \in Nat /\ announced'.channel \in Channels
    BY <2>2 DEF Promised, HeldUntil
  <2>3. CASE announced'.until = CooldownUntil(announced'.channel, last) /\ announced'.until \in Nat
             /\ announced'.channel \in Channels
    <3>1. CooldownUntil(announced'.channel, last) = CooldownUntil(announced.channel, last)'
      BY DEF CooldownUntil
    <3>2. QED
      BY <2>3, <3>1 DEF Promised, HeldUntil
  <2>4. CASE announced'.until = ChannelAt(announced'.channel, emissions, now) /\ announced'.until \in Nat
             /\ announced'.channel \in Channels
    BY <2>4 DEF Promised, HeldUntil
  <2>5. CASE announced'.until = EventAt(announced'.event, emissions, now) /\ announced'.until \in Nat
             /\ announced'.channel \in Channels
    BY <2>5 DEF Promised, HeldUntil
  <2>6. QED
    BY <2>1, <2>2, <2>3, <2>4, <2>5
<1>6. QED
  BY <1>2, <1>3, <1>4, <1>5 DEF ProactiveInv

LEMMA WishIs == \A s : Wish(s) \in Channels \cup {"silent"}
BY DEF Wish, Channels

LEMMA RefuseKeeps ==
    ASSUME ProactiveInv, NEW s, Refuse(s)
    PROVE  ProactiveInv'
<1>1. PICK c : c = Wish(s)
  OBVIOUS
<1>2. PICK v : v = Reason(s)
  OBVIOUS
<1>3. /\ c \in Channels /\ BlockedUntil(c, v, Quiet(s)) > now
      /\ quiet' = Quiet(s) /\ NotesObjection(s) /\ UNCHANGED <<now, last, emissions, emitted>>
      /\ \/ announced' = announced
         \/ announced' = [channel |-> c, event |-> v, until |-> BlockedUntil(c, v, Quiet(s))]
  BY <1>1, <1>2, WishIs DEF Refuse, Announces
<1>4. Quiet(s) \in Nat /\ now \in Nat
  BY <1>3, Noted DEF ProactiveInv, ProactiveTyped
<1>5. /\ CooldownUntil(c, last) \in Nat
      /\ ChannelUntil(c, emissions) = ChannelAt(c, emissions, now)
      /\ EventUntil(v, emissions) = EventAt(v, emissions, now)
      /\ ChannelAt(c, emissions, now) \in Nat /\ EventAt(v, emissions, now) \in Nat
  BY <1>3, LimitFacts
<1>6. BlockedUntil(c, v, Quiet(s)) \in {quiet', CooldownUntil(c, last), ChannelAt(c, emissions, now),
                                       EventAt(v, emissions, now)}
  BY <1>3, <1>4, <1>5, BlockedFacts
<1>7. CASE announced' = announced
  BY <1>3, <1>7, QuietlyKeeps
<1>8. CASE announced' = [channel |-> c, event |-> v, until |-> BlockedUntil(c, v, Quiet(s))]
  <2>1. announced'.channel = c /\ announced'.event = v /\ announced'.until = BlockedUntil(c, v, Quiet(s))
    BY <1>8
  <2>2. announced'.until \in Nat
    BY <1>3, <1>4, <1>5, <1>6, <2>1
  <2>3. QED
    BY <1>3, <1>6, <2>1, <2>2, QuietlyKeeps
<1>9. QED
  BY <1>3, <1>7, <1>8

(* What an emission is, and that nothing blocked it.                       *)
EmitsAs(s, c, v, x) ==
    /\ x.nth = Cardinality(emitted) + 1 /\ x.at = now /\ x.channel = c /\ x.event = v
    /\ emitted' = emitted \cup {x}
    /\ emissions' = {e \in emissions \cup {x} : \E w \in Windows : e.at >= now - w}
    /\ last' = [d \in DOMAIN last \cup {c} |-> IF d = c THEN now ELSE last[d]]
    /\ now' = now /\ quiet' = Quiet(s) /\ NotesObjection(s)
    /\ quiet' <= now /\ CooldownUntil(c, last) <= now
    /\ ChannelAt(c, emissions, now) <= now /\ EventAt(v, emissions, now) <= now
    /\ \/ announced' = announced
       \/ announced' = [channel |-> c, event |-> v,
                        until |-> NextAllowed(c, v, quiet', last', emissions')]

LEMMA EmitFacts ==
    ASSUME ProactiveInv, NEW s, Emit(s)
    PROVE  \E c \in Channels : \E v, x : EmitsAs(s, c, v, x)
<1>1. PICK c : c = Wish(s)
  OBVIOUS
<1>2. PICK v : v = Reason(s)
  OBVIOUS
<1>3. PICK x : x = Emission(c, v)
  OBVIOUS
<1>4. /\ c \in Channels /\ BlockedUntil(c, v, Quiet(s)) <= now
      /\ quiet' = Quiet(s) /\ NotesObjection(s) /\ now' = now
      /\ last' = [d \in DOMAIN last \cup {c} |-> IF d = c THEN now ELSE last[d]]
      /\ emissions' = Remember(c, v) /\ emitted' = emitted \cup {x}
      /\ \/ announced' = announced
         \/ announced' = [channel |-> c, event |-> v,
                          until |-> NextAllowed(c, v, quiet', last', emissions')]
  BY <1>1, <1>2, <1>3, WishIs DEF Emit, Announces
<1>5. Quiet(s) \in Nat /\ now \in Nat
  BY <1>4, Noted DEF ProactiveInv, ProactiveTyped
<1>6. /\ CooldownUntil(c, last) \in Nat
      /\ ChannelUntil(c, emissions) = ChannelAt(c, emissions, now)
      /\ EventUntil(v, emissions) = EventAt(v, emissions, now)
      /\ ChannelAt(c, emissions, now) \in Nat /\ EventAt(v, emissions, now) \in Nat
  BY <1>4, LimitFacts
<1>7. /\ quiet' <= now /\ CooldownUntil(c, last) <= now
      /\ ChannelAt(c, emissions, now) <= now /\ EventAt(v, emissions, now) <= now
  BY <1>4, <1>5, <1>6, BlockedFacts
<1>8. x.nth = Cardinality(emitted) + 1 /\ x.at = now /\ x.channel = c /\ x.event = v
  BY <1>3 DEF Emission
<1>9. emissions' = {e \in emissions \cup {x} : \E w \in Windows : e.at >= now - w}
  BY <1>3, <1>4 DEF Remember
<1>10. QED
  BY <1>4, <1>7, <1>8, <1>9 DEF EmitsAs

LEMMA EmitKeeps ==
    ASSUME ProactiveInv, NEW s, Emit(s)
    PROVE  ProactiveInv'
<1>0. PICK c \in Channels : \E v, x : EmitsAs(s, c, v, x)
  BY EmitFacts
<1>a. PICK v, x : EmitsAs(s, c, v, x)
  BY <1>0
<1>1. /\ x.nth = Cardinality(emitted) + 1 /\ x.at = now /\ x.channel = c /\ x.event = v
      /\ emitted' = emitted \cup {x}
      /\ emissions' = {e \in emissions \cup {x} : \E w \in Windows : e.at >= now - w}
      /\ last' = [d \in DOMAIN last \cup {c} |-> IF d = c THEN now ELSE last[d]]
      /\ now' = now /\ quiet' = Quiet(s) /\ NotesObjection(s)
      /\ quiet' <= now /\ CooldownUntil(c, last) <= now
      /\ ChannelAt(c, emissions, now) <= now /\ EventAt(v, emissions, now) <= now
      /\ \/ announced' = announced
         \/ announced' = [channel |-> c, event |-> v,
                          until |-> NextAllowed(c, v, quiet', last', emissions')]
  BY <1>a DEF EmitsAs
<1>2. /\ quiet' \in Nat /\ quiet <= quiet'
      /\ objected' \in Int /\ objected <= objected' /\ objected' <= now
      /\ quiet' >= objected' + Feedback
      /\ objected' = objected \/ objected' = now
  BY <1>1, Noted
<1>3. /\ now \in Nat /\ DOMAIN last \subseteq Channels /\ \A d \in DOMAIN last : last[d] \in 0..now
      /\ emissions \subseteq emitted /\ IsFiniteSet(emitted)
      /\ Cardinality(emitted) \in Nat
      /\ \A e \in emitted : e.at \in 0..now /\ e.nth \in 1..Cardinality(emitted) /\ e.channel \in Channels
      /\ Feedback \in Nat
  BY ConstantsOfProactive, FS_CardinalityType DEF ProactiveInv, ProactiveTyped, Past
<1>4. x \notin emitted /\ IsFiniteSet(emitted') /\ Cardinality(emitted') = Cardinality(emitted) + 1
  <2>1. x \notin emitted
    BY <1>1, <1>3
  <2>2. QED
    BY <1>1, <1>3, <2>1, FS_AddElement
<1>5. ProactiveTyped'
  <2>1. emissions' \subseteq emitted'
    BY <1>1, <1>3
  <2>2. Past(emitted', now')
    BY <1>1, <1>3, <1>4 DEF Past
  <2>3. DOMAIN last' \subseteq Channels /\ \A d \in DOMAIN last' : last'[d] \in 0..now'
    BY <1>1, <1>3
  <2>4. \A e \in emitted' : e.nth \in 1..Cardinality(emitted') /\ e.channel \in Channels
    BY <1>1, <1>3, <1>4
  <2>5. QED
    BY <1>1, <1>2, <1>3, <2>1, <2>2, <2>3, <2>4 DEF ProactiveTyped
<1>6. \A w \in Windows, e \in emissions \cup {x} : e.at > now - w => e \in emissions'
  BY <1>1, <1>3, ConstantsOfProactive
<1>7. Remembered'
  <2>1. \A w \in Windows, e \in emitted' : e.at > now' - w => e \in emissions'
    BY <1>1, <1>6 DEF ProactiveInv, Remembered
  <2>2. \A e \in emitted' : e.channel \in DOMAIN last' /\ e.at <= last'[e.channel]
    BY <1>1, <1>3 DEF ProactiveInv, Remembered
  <2>3. QED
    BY <1>2, <2>1, <2>2 DEF Remembered
<1>8. CapsKept'
  <2>1. ASSUME NEW d \in Channels PROVE AlwaysCapped(ChannelCaps[d], OnChannel(d, emitted'))
    <3>1. CASE d = c
      <4>1. OnChannel(d, emitted') = OnChannel(d, emitted) \cup {x}
        BY <1>1, <3>1 DEF OnChannel
      <4>2. Past(OnChannel(d, emitted), now) /\ ChannelCaps[d] \in Cap /\ ChannelCaps[d].window \in Windows
        BY LimitFacts, ConstantsOfProactive
      <4>3. /\ OnChannel(d, emissions) \in SUBSET OnChannel(d, emitted)
            /\ Recent(ChannelCaps[d], OnChannel(d, emitted), now) \subseteq OnChannel(d, emissions)
        BY <1>3, <4>2 DEF OnChannel, Recent, ProactiveInv, Remembered
      <4>4. CapAt(ChannelCaps[d], OnChannel(d, emissions), now) <= now
        BY <1>1, <3>1 DEF ChannelAt
      <4>5. AlwaysCapped(ChannelCaps[d], OnChannel(d, emitted))
        BY DEF ProactiveInv, CapsKept
      <4>6. now \in Nat /\ x.at = now
        BY <1>1, <1>3
      <4>7. AlwaysCapped(ChannelCaps[d], OnChannel(d, emitted) \cup {x})
        BY <4>2, <4>3, <4>4, <4>5, <4>6, OneMore
      <4>8. QED
        BY <4>1, <4>7
    <3>2. CASE d # c
      <4>1. OnChannel(d, emitted') = OnChannel(d, emitted)
        BY <1>1, <3>2 DEF OnChannel
      <4>2. QED
        BY <4>1 DEF ProactiveInv, CapsKept
    <3>3. QED
      BY <3>1, <3>2
  <2>2. ASSUME NEW k \in DOMAIN EventCaps PROVE AlwaysCapped(EventCaps[k], OfEvent(k, emitted'))
    <3>1. CASE k = v
      <4>1. OfEvent(k, emitted') = OfEvent(k, emitted) \cup {x}
        BY <1>1, <3>1 DEF OfEvent
      <4>2. Past(OfEvent(k, emitted), now) /\ EventCaps[k] \in Cap /\ EventCaps[k].window \in Windows
        BY LimitFacts, ConstantsOfProactive
      <4>3. /\ OfEvent(k, emissions) \in SUBSET OfEvent(k, emitted)
            /\ Recent(EventCaps[k], OfEvent(k, emitted), now) \subseteq OfEvent(k, emissions)
        BY <1>3, <4>2 DEF OfEvent, Recent, ProactiveInv, Remembered
      <4>4. CapAt(EventCaps[k], OfEvent(k, emissions), now) <= now
        BY <1>1, <3>1 DEF EventAt
      <4>5. AlwaysCapped(EventCaps[k], OfEvent(k, emitted))
        BY DEF ProactiveInv, CapsKept
      <4>6. now \in Nat /\ x.at = now
        BY <1>1, <1>3
      <4>7. AlwaysCapped(EventCaps[k], OfEvent(k, emitted) \cup {x})
        BY <4>2, <4>3, <4>4, <4>5, <4>6, OneMore
      <4>8. QED
        BY <4>1, <4>7
    <3>2. CASE k # v
      <4>1. OfEvent(k, emitted') = OfEvent(k, emitted)
        BY <1>1, <3>2 DEF OfEvent
      <4>2. QED
        BY <4>1 DEF ProactiveInv, CapsKept
    <3>3. QED
      BY <3>1, <3>2
  <2>3. \A d, e \in emitted' :
          d.nth < e.nth /\ d.channel = e.channel => e.at >= d.at + Cooldowns[d.channel]
    <3> SUFFICES ASSUME NEW d \in emitted', NEW e \in emitted', d.nth < e.nth, d.channel = e.channel
                 PROVE  e.at >= d.at + Cooldowns[d.channel]
      OBVIOUS
    <3>1. CASE d \in emitted /\ e \in emitted
      BY <3>1 DEF ProactiveInv, CapsKept
    <3>2. CASE d = x
      BY <1>1, <1>3, <3>2
    <3>3. CASE d \in emitted /\ e = x
      <4>1. c \in DOMAIN last /\ d.at <= last[c] /\ d.channel = c /\ e.at = now
        BY <1>1, <3>3 DEF ProactiveInv, Remembered
      <4>2. last[c] + Cooldowns[c] <= now /\ Cooldowns[c] \in Nat /\ last[c] \in Nat /\ d.at \in Nat
        BY <1>1, <1>3, <3>3, <4>1, ConstantsOfProactive DEF CooldownUntil
      <4>3. QED
        BY <1>3, <4>1, <4>2
    <3>4. QED
      BY <1>1, <3>1, <3>2, <3>3
  <2>4. \A e \in emitted' : e.at <= objected' \/ e.at >= objected' + Feedback
    <3> SUFFICES ASSUME NEW e \in emitted' PROVE e.at <= objected' \/ e.at >= objected' + Feedback
      OBVIOUS
    <3>1. CASE e = x
      BY <1>1, <1>2, <1>3, <3>1
    <3>2. CASE e \in emitted
      BY <1>2, <1>3, <3>2 DEF ProactiveInv, CapsKept, ProactiveTyped
    <3>3. QED
      BY <1>1, <3>1, <3>2
  <2>5. QED
    BY <2>1, <2>2, <2>3, <2>4 DEF CapsKept
<1>9. Promised'
  <2>1. ASSUME announced' = announced, announced'.until > now'
        PROVE  announced'.channel \in Channels /\ HeldUntil(announced.channel, announced.event, announced.until)'
    <3>1. announced.until \in Nat /\ announced.until > now
          /\ announced.channel \in Channels /\ HeldUntil(announced.channel, announced.event, announced.until)
      BY <1>1, <2>1 DEF ProactiveInv, Promised
    <3>2. PICK b \in Channels : b = announced.channel
      BY <3>1
    <3>3. PICK k : k = announced.event
      OBVIOUS
    <3>4. PICK u \in Nat : u = announced.until
      BY <3>1
    <3>5. Past(emissions', now') /\ quiet \in Nat
      BY <1>5, FS_Subset DEF ProactiveTyped, Past, ProactiveInv
    <3>6. \A d \in DOMAIN last : d \in DOMAIN last' /\ last'[d] \in Nat /\ last[d] <= last'[d]
      BY <1>1, <1>3
    <3>7. HeldUntil(b, k, u) /\ u > now'
      BY <2>1, <3>1, <3>2, <3>3, <3>4
    <3>8. /\ \A w \in Windows, e \in emissions : e.at > now - w => e \in emissions'
          /\ \A e \in emissions' : e \in emissions \/ e.at >= now
      BY <1>1, <1>3, <1>6
    <3>9. HeldUntil(b, k, u)'
      BY <1>1, <1>2, <1>3, <3>5, <3>6, <3>7, <3>8, HeldOn
    <3>10. announced'.channel = b /\ announced'.event = k /\ announced'.until = u
      BY <2>1, <3>2, <3>3, <3>4
    <3>11. QED
      BY <3>9, <3>10 DEF HeldUntil
  <2>2. ASSUME announced' = [channel |-> c, event |-> v, until |-> NextAllowed(c, v, quiet', last', emissions')]
        PROVE  announced'.until \in Nat /\ announced'.channel \in Channels
               /\ HeldUntil(announced.channel, announced.event, announced.until)'
    <3> DEFINE cool == CooldownUntil(c, last')
               chan == ChannelAt(c, emissions', now')
               evnt == EventAt(v, emissions', now')
    <3>1. ChannelUntil(c, emissions') = chan /\ EventUntil(v, emissions') = evnt
      BY <1>1, AsOfNow
    <3>2. Past(OnChannel(c, emissions'), now') /\ Past(OfEvent(v, emissions'), now') /\ now' \in Nat
      BY <1>5, FS_Subset DEF ProactiveTyped, Past, OnChannel, OfEvent
    <3>3. cool \in Nat
      BY <1>5, ConstantsOfProactive DEF CooldownUntil, ProactiveTyped
    <3>4. chan \in Nat
      BY <3>2, ConstantsOfProactive, RecentIs DEF ChannelAt
    <3>5. evnt \in Nat
      BY <3>2, ConstantsOfProactive, RecentIs DEF EventAt
    <3>6. NextAllowed(c, v, quiet', last', emissions') = LaterOf(LaterOf(quiet', cool), LaterOf(chan, evnt))
      BY <3>1 DEF NextAllowed
    <3> HIDE DEF cool, chan, evnt
    <3>7. LaterOf(LaterOf(quiet', cool), LaterOf(chan, evnt)) \in {quiet', cool, chan, evnt}
      BY <1>2, <3>3, <3>4, <3>5 DEF LaterOf
    <3>8. announced'.channel = c /\ announced'.event = v /\ announced'.until \in {quiet', cool, chan, evnt}
      BY <2>2, <3>6, <3>7
    <3>9. announced'.until \in Nat
      BY <1>2, <3>3, <3>4, <3>5, <3>8
    <3>10. \/ quiet' >= announced'.until \/ CooldownUntil(c, last)' >= announced'.until
           \/ ChannelAt(c, emissions, now)' >= announced'.until \/ EventAt(v, emissions, now)' >= announced'.until
      <4>1. CooldownUntil(c, last)' = cool
        BY DEF cool, CooldownUntil
      <4>2. ChannelAt(c, emissions, now)' = chan /\ EventAt(v, emissions, now)' = evnt
        BY DEF chan, evnt
      <4>3. QED
        BY <1>2, <3>3, <3>4, <3>5, <3>8, <3>9, <4>1, <4>2
    <3>11. QED
      BY <3>8, <3>9, <3>10 DEF HeldUntil, CooldownUntil
  <2>3. QED
    BY <1>1, <2>1, <2>2 DEF Promised, ProactiveInv
<1>10. QED
  BY <1>5, <1>7, <1>8, <1>9 DEF ProactiveInv

LEMMA ProactiveKept == ProactiveInv /\ [ProactiveNext]_proactiveVars => ProactiveInv'
<1> SUFFICES ASSUME ProactiveInv, [ProactiveNext]_proactiveVars PROVE ProactiveInv'
  OBVIOUS
<1>1. CASE Pass
  BY <1>1, PassKeeps
<1>2. ASSUME NEW s \in Situations, Emit(s) PROVE ProactiveInv'
  BY <1>2, EmitKeeps
<1>3. ASSUME NEW s \in Situations, Refuse(s) PROVE ProactiveInv'
  BY <1>3, RefuseKeeps
<1>4. ASSUME NEW s \in Situations, KeepSilent(s) PROVE ProactiveInv'
  BY <1>4, QuietlyKeeps DEF KeepSilent
<1>5. CASE UNCHANGED proactiveVars
  BY <1>5 DEF proactiveVars, ProactiveInv, ProactiveTyped, Past, Remembered, CapsKept, Promised, HeldUntil, CooldownUntil
<1>6. QED
  BY <1>1, <1>2, <1>3, <1>4, <1>5 DEF ProactiveNext

(* For any caps, cooldowns and situations: all that the robot ever did on  *)
(* its own keeps to the caps, the cooldowns and the quiet time, though the *)
(* manager forgets (ProactiveActivityManager._rate_limit).                 *)
THEOREM LimitsKept == ProactiveSpec => []WithinLimits
<1>1. ProactiveInv => WithinLimits
  <2> SUFFICES ASSUME ProactiveInv PROVE WithinLimits
    OBVIOUS
  <2>1. \A t \in 0..now : t \in Nat
    BY DEF ProactiveInv, ProactiveTyped
  <2>2. QED
    BY <2>1 DEF ProactiveInv, CapsKept, WithinLimits, Capped, AlwaysCapped, OnChannel, OfEvent
<1>2. QED
  BY <1>1, InvStarts, ProactiveKept, PTL DEF ProactiveSpec

(* Nothing is done on one's own before the time that an answer announced   *)
(* for it, whatever was said, done and forgotten in between                *)
(* (ProactiveActivityManager._next_allowed_at).                            *)
THEOREM PromisesKept == ProactiveSpec => AnnouncedIsKept
<1>1. ProactiveInv /\ [ProactiveNext]_proactiveVars
      => [\A e \in emitted' \ emitted :
            e.channel = announced.channel /\ e.event = announced.event
            => now >= announced.until]_proactiveVars
  <2> SUFFICES ASSUME ProactiveInv, ProactiveNext,
                      NEW e \in emitted' \ emitted,
                      e.channel = announced.channel, e.event = announced.event
               PROVE  now >= announced.until
    OBVIOUS
  <2>1. PICK s \in Situations : Emit(s)
    BY DEF ProactiveNext, Pass, Refuse, KeepSilent
  <2>2. /\ CooldownUntil(e.channel, last) <= now /\ quiet' <= now /\ quiet <= quiet'
        /\ ChannelAt(e.channel, emissions, now) <= now /\ EventAt(e.event, emissions, now) <= now
        /\ e.channel \in Channels /\ quiet' \in Nat
    BY <2>1, EmitFacts, Noted, ZenonT(30) DEF EmitsAs
  <2>3. /\ CooldownUntil(e.channel, last) \in Nat /\ ChannelAt(e.channel, emissions, now) \in Nat
        /\ EventAt(e.event, emissions, now) \in Nat
    BY <2>2, LimitFacts
  <2>4. now \in Nat /\ quiet \in Nat /\ announced.until \in Nat
    BY DEF ProactiveInv, ProactiveTyped, Promised
  <2>5. QED
    BY <2>2, <2>3, <2>4 DEF ProactiveInv, Promised, HeldUntil
<1>2. QED
  BY <1>1, InvStarts, ProactiveKept, PTL DEF ProactiveSpec, AnnouncedIsKept

-----------------------------------------------------------------------------
(* Tracks keep their objects: SceneTracks *)

LEMMA ConstantsOfScene ==
    /\ Objects \subseteq Nat /\ IsFiniteSet(Objects) /\ Places \subseteq Int
    /\ MatchDistance \in Nat /\ MaxMissing \in Nat /\ Cooldown \in Nat
BY SceneAssumption DEF SceneAssumption

LEMMA GapFacts ==
    ASSUME NEW a \in Int, NEW b \in Int, NEW c \in Int
    PROVE  /\ Gap(a, b) \in Nat /\ Gap(a, b) = Gap(b, a)
           /\ Gap(a, c) <= Gap(a, b) + Gap(b, c)
BY DEF Gap

(* What is within missing + 1 slow steps is within reach.                  *)
LEMMA InReach ==
    ASSUME NEW g \in Nat, NEW n \in Nat, NEW missing \in Nat, NEW reach \in Nat,
           n # 0, missing <= n, g * n <= missing * reach
    PROVE  g <= reach
<1> SUFFICES ASSUME g > reach PROVE FALSE
  OBVIOUS
<1>1. g * n >= (reach + 1) * n
  BY Z3
<1>2. (reach + 1) * n = reach * n + n
  OBVIOUS
<1>3. reach * n >= reach * missing
  BY Z3
<1>4. reach * missing = missing * reach
  OBVIOUS
<1>5. QED
  BY <1>1, <1>2, <1>3, <1>4

LEMMA StepAdds ==
    ASSUME NEW g \in Nat, NEW h \in Nat, NEW k \in Nat, NEW n \in Nat, NEW missing \in Nat,
           NEW reach \in Nat, g <= h + k, h * n <= missing * reach, k * n <= reach
    PROVE  g * n <= (missing + 1) * reach
<1>1. g * n <= (h + k) * n
  BY Z3
<1>2. (h + k) * n = h * n + k * n /\ (missing + 1) * reach = missing * reach + reach
  OBVIOUS
<1>3. g * n \in Nat /\ (h + k) * n \in Nat /\ h * n \in Nat /\ k * n \in Nat /\ missing * reach \in Nat
  OBVIOUS
<1>4. QED
  BY <1>1, <1>2, <1>3

-----------------------------------------------------------------------------
(* Where every track is within reach of its own object and of no other:    *)
(* of the objects, at[o] is where each will be.                            *)
OnlyOwn(at) ==
    /\ \A t \in DOMAIN tracks : t \in Nat /\ tracks[t].of \in Objects
                              /\ Gap(at[tracks[t].of], tracks[t].place) <= MatchDistance
    /\ \A t \in DOMAIN tracks, o \in Objects :
          o # tracks[t].of => ~(Gap(at[o], tracks[t].place) <= MatchDistance)
    /\ \A t, u \in DOMAIN tracks : tracks[t].of = tracks[u].of => t = u

(* Then the pairs do not compete, and all of them match.                   *)
LEMMA MatchingIsPairs ==
    ASSUME NEW seen \in SUBSET Objects, NEW at, OnlyOwn(at)
    PROVE  /\ Matching(seen, at) = Pairs(seen, at)
           /\ \A c \in Pairs(seen, at) : /\ c.track \in DOMAIN tracks /\ c.object = tracks[c.track].of
                                         /\ c.object \in seen
           /\ \A t \in DOMAIN tracks : tracks[t].of \in seen =>
                 [object |-> tracks[t].of, track |-> t] \in Pairs(seen, at)
<1> DEFINE cs == Pairs(seen, at)
           Meet(c, d) == c.object = d.object \/ c.track = d.track
           IsMatching(m) == /\ \A c, d \in m : c = d \/ ~ Meet(c, d)
                            /\ \A c \in cs : \E d \in m : Meet(c, d) /\ Sooner(d, c, at)
<1>1. \A c \in cs : /\ c.track \in DOMAIN tracks /\ c.object \in seen /\ c.object = tracks[c.track].of
                    /\ c = [object |-> c.object, track |-> c.track]
                    /\ Gap(at[c.object], tracks[c.track].place) <= MatchDistance
  BY DEF Pairs, OnlyOwn
<1>2. \A c, d \in cs : Meet(c, d) => c = d
  <2> SUFFICES ASSUME NEW c \in cs, NEW d \in cs, Meet(c, d) PROVE c = d
    OBVIOUS
  <2>1. c.track = d.track /\ c.object = d.object
    BY <1>1 DEF OnlyOwn
  <2>2. QED
    BY <1>1, <2>1
<1>3. IsMatching(cs)
  <2>1. \A c \in cs : Meet(c, c) /\ Sooner(c, c, at)
    BY <1>1 DEF Sooner, OnlyOwn
  <2>2. QED
    BY <1>2, <2>1
<1>4. Matching(seen, at) = CHOOSE m \in SUBSET cs : IsMatching(m)
  BY DEF Matching
<1>5. Matching(seen, at) \in SUBSET cs /\ IsMatching(Matching(seen, at))
  <2> HIDE DEF cs, IsMatching
  <2>1. QED
    BY <1>3, <1>4
<1>6. cs \subseteq Matching(seen, at)
  <2> SUFFICES ASSUME NEW c \in cs PROVE c \in Matching(seen, at)
    OBVIOUS
  <2>1. PICK d \in Matching(seen, at) : Meet(c, d)
    BY <1>5
  <2>2. QED
    BY <1>2, <1>5, <2>1
<1>7. \A t \in DOMAIN tracks : tracks[t].of \in seen => [object |-> tracks[t].of, track |-> t] \in cs
  BY DEF Pairs, OnlyOwn
<1>8. QED
  BY <1>1, <1>5, <1>6, <1>7

(* New tracks get numbers of their own, above all there were.              *)
LEMMA NewIds ==
    ASSUME NEW new \in SUBSET Objects, made \in Nat, NEW o \in new
    PROVE  NewId(o, new) \in Nat /\ NewId(o, new) > made /\ NewId(o, new) <= made + Cardinality(new)
           /\ Cardinality(new) \in Nat
<1> DEFINE below == {p \in new : p <= o}
<1>1. IsFiniteSet(new) /\ below \subseteq new /\ o \in below
  <2>1. o \in Nat /\ IsFiniteSet(new)
    BY ConstantsOfScene, FS_Subset
  <2>2. QED
    BY <2>1
<1>2. IsFiniteSet(below) /\ Cardinality(below) \in Nat /\ Cardinality(below) <= Cardinality(new)
      /\ Cardinality(new) \in Nat /\ Cardinality(below) # 0
  BY <1>1, FS_Subset, FS_CardinalityType, FS_EmptySet
<1>3. NewId(o, new) = made + Cardinality(below)
  BY DEF NewId
<1> HIDE DEF below
<1>4. QED
  BY <1>2, <1>3

-----------------------------------------------------------------------------
(* The invariant.  Of the tracks made while the objects were not steady    *)
(* nothing is known; it begins anew when none of them is left.             *)
TrackType == [place : Places, missing : 0..MaxMissing, of : Objects, last : Objects]

Steady ==
    /\ \A t \in DOMAIN tracks :
          /\ t <= made /\ tracks[t] \in TrackType /\ tracks[t].last = tracks[t].of
          /\ Gap(where[tracks[t].of], tracks[t].place) * (MaxMissing + 1) <= tracks[t].missing * MatchDistance
    /\ \A t, u \in DOMAIN tracks : tracks[t].of = tracks[u].of => t = u

SceneTyped ==
    /\ where \in [Objects -> Places] /\ made \in Nat
    /\ DOMAIN tracks \subseteq Nat \ {0}

SceneInv == SceneTyped /\ (steady => Steady)

LEMMA SceneInvStarts == SceneInit => SceneInv
BY DEF SceneInit, SceneInv, SceneTyped, Steady

(* Objects that keep apart and move slowly meet no track but their own.    *)
LEMMA SteadyIsOwn ==
    ASSUME SceneTyped, Steady, NEW at \in [Objects -> Places], Apart(at), Slow(at)
    PROVE  /\ OnlyOwn(at)
           /\ \A t \in DOMAIN tracks :
                 Gap(at[tracks[t].of], tracks[t].place) * (MaxMissing + 1)
                    <= (tracks[t].missing + 1) * MatchDistance
<1>1. /\ MatchDistance \in Nat /\ MaxMissing \in Nat /\ Places \subseteq Int
      /\ \A o \in Objects : at[o] \in Int /\ where[o] \in Int
      /\ \A t \in DOMAIN tracks : /\ tracks[t].of \in Objects /\ tracks[t].place \in Int
                                 /\ tracks[t].missing \in 0..MaxMissing /\ t \in Nat
  BY ConstantsOfScene DEF SceneTyped, Steady, TrackType
<1>2. ASSUME NEW t \in DOMAIN tracks
      PROVE  /\ Gap(at[tracks[t].of], tracks[t].place) * (MaxMissing + 1)
                    <= (tracks[t].missing + 1) * MatchDistance
             /\ Gap(at[tracks[t].of], tracks[t].place) <= MatchDistance
  <2> DEFINE g == Gap(at[tracks[t].of], tracks[t].place)
             h == Gap(where[tracks[t].of], tracks[t].place)
             k == Gap(at[tracks[t].of], where[tracks[t].of])
  <2>1. g \in Nat /\ h \in Nat /\ k \in Nat /\ g <= h + k
    <3>1. g \in Nat /\ h \in Nat /\ k \in Nat /\ g <= k + h
      BY <1>1, GapFacts
    <3> HIDE DEF g, h, k
    <3>2. QED
      BY <3>1
  <2>2. h * (MaxMissing + 1) <= tracks[t].missing * MatchDistance
    BY DEF Steady
  <2>3. k * (MaxMissing + 1) <= MatchDistance
    BY <1>1 DEF Slow
  <2>4. tracks[t].missing \in Nat /\ tracks[t].missing + 1 <= MaxMissing + 1 /\ MaxMissing + 1 \in Nat
        /\ MaxMissing + 1 # 0 /\ tracks[t].missing + 1 \in Nat
    BY <1>1
  <2> HIDE DEF g, h, k
  <2>5. g * (MaxMissing + 1) <= (tracks[t].missing + 1) * MatchDistance
    BY <1>1, <2>1, <2>2, <2>3, <2>4, StepAdds
  <2>6. g <= MatchDistance
    BY <1>1, <2>1, <2>4, <2>5, InReach
  <2>7. QED
    BY <2>5, <2>6 DEF g
<1>3. ASSUME NEW t \in DOMAIN tracks, NEW o \in Objects, o # tracks[t].of,
             Gap(at[o], tracks[t].place) <= MatchDistance
      PROVE  FALSE
  <2> DEFINE g == Gap(at[tracks[t].of], tracks[t].place)
             h == Gap(at[o], tracks[t].place)
             k == Gap(at[o], at[tracks[t].of])
  <2>1. g \in Nat /\ h \in Nat /\ k \in Nat /\ k <= h + g
    <3>1. /\ g \in Nat /\ h \in Nat /\ k \in Nat /\ Gap(tracks[t].place, at[tracks[t].of]) = g
          /\ k <= h + Gap(tracks[t].place, at[tracks[t].of])
      BY <1>1, GapFacts
    <3> HIDE DEF g, h, k
    <3>2. QED
      BY <3>1
  <2>2. g <= MatchDistance /\ h <= MatchDistance /\ k > 2 * MatchDistance
    BY <1>1, <1>2, <1>3 DEF Apart
  <2> HIDE DEF g, h, k
  <2>3. QED
    BY <1>1, <2>1, <2>2
<1>4. QED
  BY <1>1, <1>2, <1>3 DEF OnlyOwn, Steady

Unmatched(seen, m) == {o \in seen : \A c \in m : c.object # o}

(* The tracks of a frame: new ones, tracks seen again, and missing ones.   *)
LEMMA FrameTracks ==
    ASSUME made \in Nat, \A t \in DOMAIN tracks : tracks[t] \in TrackType /\ t \in Nat /\ t <= made,
           NEW seen \in SUBSET Objects, NEW at \in [Objects -> Places], OnlyOwn(at),
           NEW m, m = Matching(seen, at), NEW new, new = Unmatched(seen, m),
           NEW ts, ts = NextTracks(m, new, at), NEW t \in DOMAIN ts
    PROVE  \/ /\ ts[t].of \in new /\ t = NewId(ts[t].of, new)
              /\ ts[t] = [place |-> at[ts[t].of], missing |-> 0, of |-> ts[t].of, last |-> ts[t].of]
           \/ /\ t \in DOMAIN tracks /\ tracks[t].of \in seen
              /\ ts[t] = [place |-> at[tracks[t].of], missing |-> 0, of |-> tracks[t].of, last |-> tracks[t].of]
           \/ /\ t \in DOMAIN tracks /\ tracks[t].missing + 1 <= MaxMissing /\ tracks[t].of \notin new
              /\ ts[t] = [place |-> tracks[t].place, missing |-> tracks[t].missing + 1, of |-> tracks[t].of,
                          last |-> tracks[t].last]
<1> DEFINE ids == {NewId(o, new) : o \in new}
           alive == {u \in DOMAIN tracks : Matched(u, m) \/ Kept(u)}
<1>1. /\ m = Pairs(seen, at)
      /\ \A c \in m : c.track \in DOMAIN tracks /\ c.object = tracks[c.track].of /\ c.object \in seen
      /\ \A u \in DOMAIN tracks : tracks[u].of \in seen => [object |-> tracks[u].of, track |-> u] \in m
  BY MatchingIsPairs
<1>2. /\ DOMAIN ts = alive \cup ids
      /\ ts[t] = IF t \in ids
                 THEN LET o == CHOOSE o \in new : NewId(o, new) = t
                      IN  [place |-> at[o], missing |-> 0, of |-> o, last |-> o]
                 ELSE IF Matched(t, m) THEN Renewed(t, m, at)
                      ELSE [tracks[t] EXCEPT !.missing = @ + 1]
  BY DEF NextTracks
<1>3. CASE t \in ids
  <2> DEFINE o == CHOOSE p \in new : NewId(p, new) = t
  <2>1. o \in new /\ NewId(o, new) = t
    BY <1>3
  <2>2. ts[t] = [place |-> at[o], missing |-> 0, of |-> o, last |-> o]
    BY <1>2, <1>3
  <2> HIDE DEF o
  <2>3. ts[t].of = o
    BY <2>2
  <2> HIDE DEF ids, alive
  <2>4. QED
    BY <2>1, <2>2, <2>3
<1>4. CASE t \notin ids /\ Matched(t, m)
  <2> DEFINE c == CHOOSE d \in m : d.track = t
  <2>1. c \in m /\ c.track = t
    BY <1>4 DEF Matched
  <2>2. t \in DOMAIN tracks /\ c.object = tracks[t].of /\ tracks[t].of \in seen
    BY <1>1, <2>1
  <2>3. ts[t] = [tracks[t] EXCEPT !.place = at[c.object], !.missing = 0, !.last = c.object]
    BY <1>2, <1>4 DEF Renewed
  <2> HIDE DEF c
  <2>4. tracks[t] \in TrackType
    BY <2>2
  <2>5. ts[t] = [place |-> at[tracks[t].of], missing |-> 0, of |-> tracks[t].of, last |-> tracks[t].of]
    BY <2>2, <2>3, <2>4, ZenonT(30) DEF TrackType
  <2>6. QED
    BY <2>2, <2>5
<1>5. CASE t \notin ids /\ ~Matched(t, m)
  <2>1. t \in DOMAIN tracks /\ Kept(t)
    BY <1>2, <1>5
  <2>2. ts[t] = [tracks[t] EXCEPT !.missing = @ + 1]
    BY <1>2, <1>5
  <2>3. tracks[t] \in TrackType
    BY <2>1
  <2>4. ts[t] = [place |-> tracks[t].place, missing |-> tracks[t].missing + 1, of |-> tracks[t].of,
                 last |-> tracks[t].last]
    BY <2>2, <2>3 DEF TrackType
  <2>5. tracks[t].of \notin new
    <3> SUFFICES ASSUME tracks[t].of \in seen PROVE FALSE
      BY DEF Unmatched
    <3>1. [object |-> tracks[t].of, track |-> t] \in m
      BY <1>1, <2>1
    <3>2. QED
      BY <1>5, <3>1 DEF Matched
  <2>6. QED
    BY <2>1, <2>4, <2>5 DEF Kept
<1>6. QED
  BY <1>3, <1>4, <1>5

LEMMA FrameKeepsSteady ==
    ASSUME SceneInv, NEW seen \in SUBSET Objects, NEW at \in [Objects -> Places], SceneFrame(seen, at),
           steady'
    PROVE  Steady'
<1>0. PICK m, new, ts :
         /\ m = Matching(seen, at) /\ new = Unmatched(seen, m)
         /\ ts = NextTracks(m, new, at)
         /\ where' = at /\ tracks' = ts /\ made' = made + Cardinality(new)
         /\ steady' = (Apart(at) /\ (DOMAIN tracks = {} \/ (steady /\ Slow(at))))
  BY Zenon DEF SceneFrame, Unmatched
<1>1. /\ where' = at /\ tracks' = ts /\ made' = made + Cardinality(new)
      /\ Apart(at) /\ (DOMAIN tracks = {} \/ (steady /\ Slow(at)))
  BY <1>0
<1>2. /\ made \in Nat /\ MatchDistance \in Nat /\ MaxMissing \in Nat
      /\ Places \subseteq Int /\ new \in SUBSET Objects /\ \A o \in Objects : at[o] \in Int
  BY <1>0, ConstantsOfScene DEF SceneInv, SceneTyped, Unmatched
<1>3. /\ OnlyOwn(at)
      /\ \A t \in DOMAIN tracks :
           /\ t <= made /\ t \in Nat /\ tracks[t] \in TrackType /\ tracks[t].last = tracks[t].of
           /\ Gap(at[tracks[t].of], tracks[t].place) * (MaxMissing + 1)
                    <= (tracks[t].missing + 1) * MatchDistance
      /\ \A t, u \in DOMAIN tracks : tracks[t].of = tracks[u].of => t = u
  <2>1. CASE DOMAIN tracks = {}
    BY <2>1 DEF OnlyOwn
  <2>2. CASE steady /\ Slow(at)
    <3>1. SceneTyped /\ Steady
      BY <2>2 DEF SceneInv
    <3>2. OnlyOwn(at) /\ \A t \in DOMAIN tracks :
                           Gap(at[tracks[t].of], tracks[t].place) * (MaxMissing + 1)
                              <= (tracks[t].missing + 1) * MatchDistance
      BY <1>1, <2>2, <3>1, SteadyIsOwn
    <3>3. QED
      BY <3>1, <3>2 DEF Steady, SceneTyped
  <2>3. QED
    BY <1>1, <2>1, <2>2
<1>own. OnlyOwn(at) /\ m = Matching(seen, at)
  BY <1>0, <1>3
<1>pairs. Pairs(seen, at) = m
  BY <1>own, MatchingIsPairs
<1> DEFINE Fresh(t) == /\ ts[t].of \in new /\ t = NewId(ts[t].of, new)
                       /\ ts[t] = [place |-> at[ts[t].of], missing |-> 0, of |-> ts[t].of, last |-> ts[t].of]
           Again(t) == /\ t \in DOMAIN tracks /\ tracks[t].of \in seen
                       /\ ts[t] = [place |-> at[tracks[t].of], missing |-> 0, of |-> tracks[t].of,
                                   last |-> tracks[t].last]
           Gone(t) == /\ t \in DOMAIN tracks /\ tracks[t].missing + 1 <= MaxMissing /\ tracks[t].of \notin new
                      /\ ts[t] = [place |-> tracks[t].place, missing |-> tracks[t].missing + 1,
                                  of |-> tracks[t].of, last |-> tracks[t].last]
<1>4. \A t \in DOMAIN ts : Fresh(t) \/ Again(t) \/ Gone(t)
  <2> SUFFICES ASSUME NEW t \in DOMAIN ts PROVE Fresh(t) \/ Again(t) \/ Gone(t)
    OBVIOUS
  <2>1. \/ Fresh(t)
        \/ /\ t \in DOMAIN tracks /\ tracks[t].of \in seen
           /\ ts[t] = [place |-> at[tracks[t].of], missing |-> 0, of |-> tracks[t].of, last |-> tracks[t].of]
        \/ Gone(t)
    <3>1. \A u \in DOMAIN tracks : tracks[u] \in TrackType /\ u \in Nat /\ u <= made
      BY <1>3
    <3>2. seen \in SUBSET Objects /\ at \in [Objects -> Places] /\ OnlyOwn(at) /\ made \in Nat
      BY <1>2, <1>3
    <3>3. /\ m = Matching(seen, at) /\ new = Unmatched(seen, m)
          /\ ts = NextTracks(m, new, at)
      BY <1>0
    <3>4. t \in DOMAIN ts
      OBVIOUS
    <3> HIDE DEF Fresh, Again, Gone
    <3>5. \/ /\ ts[t].of \in new /\ t = NewId(ts[t].of, new)
             /\ ts[t] = [place |-> at[ts[t].of], missing |-> 0, of |-> ts[t].of, last |-> ts[t].of]
          \/ /\ t \in DOMAIN tracks /\ tracks[t].of \in seen
             /\ ts[t] = [place |-> at[tracks[t].of], missing |-> 0, of |-> tracks[t].of, last |-> tracks[t].of]
          \/ /\ t \in DOMAIN tracks /\ tracks[t].missing + 1 <= MaxMissing /\ tracks[t].of \notin new
             /\ ts[t] = [place |-> tracks[t].place, missing |-> tracks[t].missing + 1, of |-> tracks[t].of,
                         last |-> tracks[t].last]
      BY <3>1, <3>2, <3>3, <3>4, FrameTracks
    <3>6. QED
      BY <3>5 DEF Fresh, Gone
  <2>2. QED
    BY <1>3, <2>1
(* A track that was there is not of an object that gets a new one.         *)
<1>5. \A t \in DOMAIN ts : Again(t) => ts[t].of \notin new
  <2> SUFFICES ASSUME NEW t \in DOMAIN ts, Again(t), ts[t].of \in new PROVE FALSE
    OBVIOUS
  <2>1. [object |-> tracks[t].of, track |-> t] \in m /\ t \in DOMAIN tracks
    <3>1. t \in DOMAIN tracks /\ tracks[t].of \in seen
      OBVIOUS
    <3>2. QED
      BY <1>own, <1>pairs, <3>1, MatchingIsPairs
  <2>2. ts[t].of = tracks[t].of
    <3>1. QED
      OBVIOUS
  <2>3. QED
    BY <1>0, <2>1, <2>2 DEF Unmatched
<1>6. \A o \in new : NewId(o, new) \in Nat /\ NewId(o, new) > made /\ NewId(o, new) <= made'
                     /\ made' \in Nat /\ made <= made'
  <2>1. new \in SUBSET Objects /\ made' = made + Cardinality(new)
    BY <1>1, <1>2
  <2>2. QED
    BY <1>2, <2>1, NewIds
<1>7. made' \in Nat /\ made <= made'
  <2>1. Cardinality(new) \in Nat
    BY <1>2, ConstantsOfScene, FS_Subset, FS_CardinalityType
  <2>2. QED
    BY <1>1, <1>2, <2>1
<1>8. ASSUME NEW t \in DOMAIN ts
      PROVE  /\ t <= made' /\ ts[t] \in TrackType /\ ts[t].last = ts[t].of
             /\ Gap(at[ts[t].of], ts[t].place) * (MaxMissing + 1) <= ts[t].missing * MatchDistance
  <2>0. \A o \in Objects : Gap(at[o], at[o]) = 0
    BY <1>2 DEF Gap
  <2>1. CASE Fresh(t)
    <3>1. t <= made' /\ ts[t].of \in Objects /\ ts[t].missing = 0 /\ ts[t].place = at[ts[t].of]
          /\ ts[t].last = ts[t].of
      BY <1>2, <1>6, <2>1
    <3>2. ts[t] \in TrackType
      BY <1>2, <2>1, <3>1 DEF TrackType
    <3>3. QED
      BY <1>2, <2>0, <3>1, <3>2
  <2>2. CASE Again(t)
    <3>1. t \in DOMAIN tracks /\ tracks[t].of \in Objects /\ tracks[t].last = tracks[t].of /\ t <= made /\ t \in Nat
      BY <1>3, <2>2 DEF TrackType
    <3>2. ts[t].of = tracks[t].of /\ ts[t].missing = 0 /\ ts[t].place = at[tracks[t].of]
          /\ ts[t].last = tracks[t].of
      BY <2>2, <3>1
    <3>3. ts[t] \in TrackType
      BY <1>2, <2>2, <3>1 DEF TrackType
    <3>4. QED
      BY <1>2, <1>7, <2>0, <3>1, <3>2, <3>3
  <2>3. CASE Gone(t)
    <3>1. t \in DOMAIN tracks /\ tracks[t].of \in Objects /\ tracks[t].last = tracks[t].of /\ t <= made /\ t \in Nat
          /\ tracks[t].missing \in Nat /\ tracks[t].place \in Places
      BY <1>2, <1>3, <2>3 DEF TrackType
    <3>2. ts[t].of = tracks[t].of /\ ts[t].missing = tracks[t].missing + 1 /\ ts[t].place = tracks[t].place
          /\ ts[t].last = tracks[t].of
      BY <2>3, <3>1
    <3>3. ts[t] \in TrackType
      BY <1>2, <2>3, <3>1 DEF TrackType
    <3>4. Gap(at[ts[t].of], ts[t].place) * (MaxMissing + 1) <= ts[t].missing * MatchDistance
      BY <1>3, <3>1, <3>2
    <3>5. QED
      BY <1>2, <1>7, <3>1, <3>2, <3>3, <3>4
  <2>4. QED
    BY <1>4, <2>1, <2>2, <2>3
<1>9. \A t, u \in DOMAIN ts : ts[t].of = ts[u].of => t = u
  <2> SUFFICES ASSUME NEW t \in DOMAIN ts, NEW u \in DOMAIN ts, ts[t].of = ts[u].of PROVE t = u
    OBVIOUS
  <2>1. /\ Gone(t) => ts[t].of = tracks[t].of /\ tracks[t].of \notin new
        /\ Again(t) => ts[t].of = tracks[t].of /\ ts[t].of \notin new
        /\ Gone(u) => ts[u].of = tracks[u].of /\ tracks[u].of \notin new
        /\ Again(u) => ts[u].of = tracks[u].of /\ ts[u].of \notin new
    BY <1>5
  <2>2. CASE Fresh(t) /\ Fresh(u)
    <3>1. t = NewId(ts[t].of, new) /\ u = NewId(ts[u].of, new)
      BY <2>2
    <3>2. QED
      BY <3>1
  <2>3. CASE (Again(t) \/ Gone(t)) /\ (Again(u) \/ Gone(u))
    BY <1>3, <2>1, <2>3
  <2>4. CASE Fresh(t) /\ (Again(u) \/ Gone(u))
    BY <2>1, <2>4
  <2>5. CASE Fresh(u) /\ (Again(t) \/ Gone(t))
    BY <2>1, <2>5
  <2>6. QED
    BY <1>4, <2>2, <2>3, <2>4, <2>5
<1>10. QED
  BY <1>1, <1>8, <1>9 DEF Steady

(* The tracks of any frame have numbers of their own, if not what they are *)
(* of.                                                                     *)
LEMMA FrameTyped ==
    ASSUME SceneTyped, NEW seen \in SUBSET Objects, NEW at \in [Objects -> Places], SceneFrame(seen, at)
    PROVE  SceneTyped'
<1>1. PICK m, new, ts :
         /\ new = Unmatched(seen, m) /\ ts = NextTracks(m, new, at)
         /\ where' = at /\ tracks' = ts /\ made' = made + Cardinality(new)
  BY Zenon DEF SceneFrame, Unmatched
<1>2. new \in SUBSET Objects /\ made \in Nat
  BY <1>1 DEF Unmatched, SceneTyped
<1>3. Cardinality(new) \in Nat
  BY <1>2, ConstantsOfScene, FS_Subset, FS_CardinalityType
<1>4. DOMAIN ts \subseteq DOMAIN tracks \cup {NewId(o, new) : o \in new}
  BY <1>1 DEF NextTracks
<1>5. \A o \in new : NewId(o, new) \in Nat /\ NewId(o, new) > made
  BY <1>2, NewIds
<1>6. DOMAIN ts \subseteq Nat \ {0}
  BY <1>2, <1>4, <1>5 DEF SceneTyped
<1>7. QED
  BY <1>1, <1>2, <1>3, <1>6 DEF SceneTyped

LEMMA SceneInvKept == SceneInv /\ [SceneNext]_sceneVars => SceneInv'
<1> SUFFICES ASSUME SceneInv, [SceneNext]_sceneVars PROVE SceneInv'
  OBVIOUS
<1>1. ASSUME NEW seen \in SUBSET Objects, NEW at \in [Objects -> Places], SceneFrame(seen, at)
      PROVE  SceneInv'
  BY <1>1, FrameTyped, FrameKeepsSteady DEF SceneInv
<1>2. CASE UNCHANGED sceneVars
  BY <1>2 DEF sceneVars, SceneInv, SceneTyped, Steady
<1>3. QED
  BY <1>1, <1>2 DEF SceneNext

(* For any number of objects on a line, any match distance and any number  *)
(* of frames a track may be missing from: as long as the objects keep their*)
(* distance and move slowly, a track stays with its object and an object   *)
(* with its track (_match_detections).                                     *)
THEOREM TracksStick == SceneSpec => []IdentitiesStick
<1>1. SceneInv => IdentitiesStick
  BY DEF SceneInv, Steady, IdentitiesStick
<1>2. QED
  BY <1>1, SceneInvStarts, SceneInvKept, PTL DEF SceneSpec

-----------------------------------------------------------------------------
(* The candidate for the attention has beaten the track that has it in as  *)
(* many frames as it counts.                                               *)
CandidateCounts ==
    /\ \A t \in DOMAIN streak : streak[t] \in Nat
    /\ candidate.frames \in Nat
    /\ candidate.frames # 0 =>
          candidate.id \in DOMAIN streak /\ candidate.frames <= streak[candidate.id]

AttentionInv == SceneTyped /\ CandidateCounts

(* What a frame does to the attention.                                     *)
LEMMA AttendFacts ==
    ASSUME CandidateCounts, NEW ts, DOMAIN ts \subseteq Nat \ {0}, NEW salience, NEW best,
           Seen(ts) # {} => best \in Seen(ts),
           Attend(ts, best, salience), streak' = Streak(ts, salience)
    PROVE  /\ CandidateCounts'
           /\ attention' # attention /\ attention \in Seen(ts)
                 => attention' # 0 /\ streak'[attention'] >= Cooldown
<1>1. Cooldown \in Nat
  BY ConstantsOfScene
<1>2. /\ DOMAIN streak' = DOMAIN ts
      /\ \A t \in DOMAIN ts :
            streak'[t] = IF attention \in Seen(ts) /\ t \in Seen(ts) /\ Beats(ts, t, attention, salience)
                         THEN AtMost(Cooldown, 1 + (IF t \in DOMAIN streak THEN streak[t] ELSE 0))
                         ELSE 0
  BY DEF Streak
<1>3. \A t \in DOMAIN ts : streak'[t] \in Nat
  BY <1>1, <1>2 DEF AtMost, CandidateCounts
<1>4. Seen(ts) \subseteq DOMAIN ts
  BY DEF Seen
<1>5. CASE candidate' = Nobody /\ (attention' = attention \/ attention \notin Seen(ts))
  <2>1. CandidateCounts'
    BY <1>2, <1>3, <1>5 DEF CandidateCounts, Nobody
  <2>2. QED
    BY <1>5, <2>1
<1>6. CASE /\ Seen(ts) # {} /\ attention \in Seen(ts) /\ Beats(ts, best, attention, salience)
           /\ \/ CandidateNext(best).frames >= Cooldown /\ attention' = best /\ candidate' = Nobody
              \/ ~(CandidateNext(best).frames >= Cooldown)
                 /\ attention' = attention /\ candidate' = CandidateNext(best)
  <2> DEFINE n == CandidateNext(best).frames
  <2>1. best \in DOMAIN ts /\ best # 0 /\ best \in Seen(ts)
    BY <1>4, <1>6
  <2>2. /\ CandidateNext(best).id = best
        /\ n = IF candidate.id = best THEN candidate.frames + 1 ELSE 1
    BY DEF CandidateNext
  <2>3. streak'[best] = AtMost(Cooldown, 1 + (IF best \in DOMAIN streak THEN streak[best] ELSE 0))
    BY <1>2, <1>6, <2>1
  <2>4. PICK k \in Nat : k = IF best \in DOMAIN streak THEN streak[best] ELSE 0
    BY DEF CandidateCounts
  <2>5. n \in Nat /\ n <= k + 1 /\ n # 0
    BY <2>2, <2>4 DEF CandidateCounts
  <2>6. streak'[best] = IF Cooldown < k + 1 THEN Cooldown ELSE k + 1
    BY <1>1, <2>3, <2>4 DEF AtMost
  <2> HIDE DEF n
  <2>7. CASE n >= Cooldown
    <3>1. streak'[best] >= Cooldown
      BY <1>1, <2>4, <2>5, <2>6, <2>7
    <3>2. attention' = best /\ candidate' = Nobody
      BY <1>6, <2>7 DEF n
    <3>3. CandidateCounts'
      BY <1>2, <1>3, <3>2 DEF CandidateCounts, Nobody
    <3>4. QED
      BY <2>1, <3>1, <3>2, <3>3
  <2>8. CASE ~(n >= Cooldown)
    <3>1. streak'[best] >= n
      BY <1>1, <2>4, <2>5, <2>6, <2>8
    <3>2. attention' = attention /\ candidate'.id = best /\ candidate'.frames = n
      BY <1>6, <2>2, <2>8 DEF n
    <3>3. CandidateCounts'
      BY <1>2, <1>3, <2>1, <2>5, <3>1, <3>2 DEF CandidateCounts
    <3>4. QED
      BY <3>2, <3>3
  <2>9. QED
    BY <2>7, <2>8
<1>7. QED
  BY <1>5, <1>6 DEF Attend

LEMMA AttentionStep ==
    ASSUME AttentionInv, NEW seen \in SUBSET Objects, NEW at \in [Objects -> Places], SceneFrame(seen, at)
    PROVE  /\ AttentionInv'
           /\ attention' # attention /\ attention \in Seen(tracks')
                 => attention' # 0 /\ streak'[attention'] >= Cooldown
<1>1. SceneTyped'
  BY FrameTyped DEF AttentionInv
<1>2. PICK ts, salience, best :
         /\ tracks' = ts /\ streak' = Streak(ts, salience) /\ Attend(ts, best, salience)
         /\ Seen(ts) # {} => best \in Seen(ts)
  <2>1. PICK ts, salience :
           /\ tracks' = ts /\ streak' = Streak(ts, salience)
           /\ IF Seen(ts) = {} THEN Attend(ts, 0, salience)
              ELSE \E best \in Best(ts, salience) : Attend(ts, best, salience)
    BY Zenon DEF SceneFrame
  <2>2. CASE Seen(ts) = {}
    BY <2>1, <2>2
  <2>3. CASE Seen(ts) # {}
    <3>1. PICK best \in Best(ts, salience) : Attend(ts, best, salience)
      BY <2>1, <2>3
    <3>2. best \in Seen(ts)
      BY DEF Best
    <3>3. QED
      BY <2>1, <3>1, <3>2
  <2>4. QED
    BY <2>2, <2>3
<1>3. DOMAIN ts \subseteq Nat \ {0}
  BY <1>1, <1>2 DEF SceneTyped
<1>4. /\ CandidateCounts'
      /\ attention' # attention /\ attention \in Seen(ts)
            => attention' # 0 /\ streak'[attention'] >= Cooldown
  BY <1>2, <1>3, AttendFacts DEF AttentionInv
<1>5. Seen(tracks') = Seen(ts)
  BY <1>2
<1>6. QED
  BY <1>1, <1>4, <1>5 DEF AttentionInv

(* For any objects and saliences and any cooldown: a track that is still   *)
(* seen loses the attention only to one that has beaten it in each of the  *)
(* last cooldown frames (_attention_track).                                *)
THEOREM AttentionEarned == SceneSpec => AttentionIsEarned
<1>1. SceneInit => AttentionInv
  BY DEF SceneInit, AttentionInv, SceneTyped, CandidateCounts, Nobody
<1>2. AttentionInv /\ [SceneNext]_sceneVars => AttentionInv'
  <2>1. ASSUME AttentionInv, SceneNext PROVE AttentionInv'
    BY <2>1, AttentionStep DEF SceneNext
  <2>2. ASSUME AttentionInv, UNCHANGED sceneVars PROVE AttentionInv'
    BY <2>2 DEF sceneVars, AttentionInv, SceneTyped, CandidateCounts
  <2>3. QED
    BY <2>1, <2>2
<1>3. AttentionInv /\ [SceneNext]_sceneVars
      => [attention # 0 /\ attention' # attention /\ attention \in Seen(tracks')
          => attention' # 0 /\ streak'[attention'] >= Cooldown]_sceneVars
  BY AttentionStep DEF SceneNext
<1>4. QED
  BY <1>1, <1>2, <1>3, PTL DEF SceneSpec, AttentionIsEarned

-----------------------------------------------------------------------------
(* Nothing that is spoken is lost: VadCapture *)

Ascending(list) == \A k, l \in DOMAIN list : k < l => list[k] < list[l]
Burst(heard, from) == \A j \in from..from + MinVoice - 1 : heard[j] = "voice"
(* No burst that is long enough ends by the n-th frame.                    *)
QuietUpTo(heard, n) == \A from \in 1..n : from + MinVoice - 1 <= n => ~ Burst(heard, from)

VadTyped ==
    /\ policy \in [on : BOOLEAN, voice : Nat, silence : Nat, triggered : BOOLEAN]
    /\ sound \in Seq(Levels) /\ Len(sound) <= MaxFrames
    /\ preRoll \in Seq(Nat) /\ pending \in Seq(Nat) /\ captured \in Seq(Nat)
    /\ triggered \in BOOLEAN /\ done \in BOOLEAN /\ voice \in Nat

(* The detector has not triggered: the frames of the burst so far are      *)
(* pending, and what is before them is older.                              *)
WaitsWell ==
    /\ voice < MinVoice /\ voice <= Len(sound)
    /\ policy.on => voice <= policy.voice /\ policy.voice < MinVoice
    /\ Len(pending) = voice
    /\ \A k \in 1..voice : pending[k] = Len(sound) - voice + k
    /\ \A j \in Len(sound) - voice + 1..Len(sound) : sound[j] = "voice"
    /\ voice < Len(sound) => sound[Len(sound) - voice] # "voice"
    /\ Ascending(preRoll)
    /\ \A k \in DOMAIN preRoll : preRoll[k] <= Len(sound) - voice
    /\ QuietUpTo(sound, Len(sound))

(* It has, for a burst that began at s: nothing since then is lost.        *)
KeptFrom(s) ==
    /\ s = 1 \/ sound[s - 1] # "voice"
    /\ QuietUpTo(sound, s - 1)
    /\ \A i \in s..Len(sound) : \E k \in DOMAIN captured : captured[k] = i

VadInv ==
    /\ VadTyped
    /\ policy.on /\ ~ done => triggered = policy.triggered
    /\ ~ triggered =>
        /\ captured = << >>
        /\ ~ done => WaitsWell
        /\ done => QuietUpTo(sound, Len(sound)) \/ (policy.on /\ Len(sound) = MaxFrames)
    /\ triggered => \E s \in 1..Len(sound) : KeptFrom(s)
    /\ Ascending(captured)
    /\ \A k \in DOMAIN captured : captured[k] <= Len(sound)

-----------------------------------------------------------------------------
(* Lists of frames                                                         *)

(* A later frame at the end leaves a list in the order of the frames.      *)
LEMMA LaterFrame ==
    ASSUME NEW list \in Seq(Nat), NEW n \in Nat, Ascending(list),
           \A k \in DOMAIN list : list[k] < n
    PROVE  /\ Append(list, n) \in Seq(Nat) /\ Ascending(Append(list, n))
           /\ \A k \in DOMAIN Append(list, n) : Append(list, n)[k] <= n
           /\ \A i : (\E k \in DOMAIN list : list[k] = i) \/ i = n
                       => \E k \in DOMAIN Append(list, n) : Append(list, n)[k] = i
<1>1. /\ Append(list, n) \in Seq(Nat) /\ Len(Append(list, n)) = Len(list) + 1
      /\ Append(list, n)[Len(list) + 1] = n
      /\ \A k \in 1..Len(list) : Append(list, n)[k] = list[k]
      /\ DOMAIN list = 1..Len(list) /\ Len(list) \in Nat
      /\ DOMAIN Append(list, n) = 1..Len(list) + 1
  OBVIOUS
<1>2. \A k \in 1..Len(list) : list[k] \in Nat
  BY <1>1
<1> DEFINE longer == Append(list, n)
<1> HIDE DEF longer
<1>3. \A k \in 1..Len(list) + 1 : k \in 1..Len(list) \/ k = Len(list) + 1
  BY <1>1
<1>4. Ascending(longer)
  BY <1>1, <1>2, <1>3 DEF Ascending, longer
<1>5. \A k \in DOMAIN longer : longer[k] <= n
  BY <1>1, <1>2, <1>3 DEF longer
<1>6. \A i : (\E k \in DOMAIN list : list[k] = i) \/ i = n => \E k \in DOMAIN longer : longer[k] = i
  <2>1. \A k \in 1..Len(list) : k \in 1..Len(list) + 1
    BY <1>1
  <2>2. Len(list) + 1 \in 1..Len(list) + 1
    BY <1>1
  <2>3. QED
    BY <1>1, <2>1, <2>2, Zenon DEF longer
<1>7. QED
  BY <1>1, <1>4, <1>5, <1>6 DEF longer

(* So does the list of later frames.                                       *)
LEMMA LaterFrames ==
    ASSUME NEW a \in Seq(Nat), NEW b \in Seq(Nat), Ascending(a), Ascending(b),
           \A k \in DOMAIN a : \A l \in DOMAIN b : a[k] < b[l]
    PROVE  /\ a \o b \in Seq(Nat) /\ Ascending(a \o b)
           /\ \A k \in DOMAIN (a \o b) : (\E l \in DOMAIN a : (a \o b)[k] = a[l])
                                           \/ (\E l \in DOMAIN b : (a \o b)[k] = b[l])
           /\ \A l \in DOMAIN b : \E k \in DOMAIN (a \o b) : (a \o b)[k] = b[l]
<1> DEFINE ab == a \o b
<1>1. /\ ab \in Seq(Nat) /\ Len(ab) = Len(a) + Len(b) /\ DOMAIN ab = 1..Len(a) + Len(b)
      /\ \A k \in 1..Len(a) : ab[k] = a[k]
      /\ \A k \in Len(a) + 1..Len(a) + Len(b) : ab[k] = b[k - Len(a)]
      /\ DOMAIN a = 1..Len(a) /\ DOMAIN b = 1..Len(b) /\ Len(a) \in Nat /\ Len(b) \in Nat
  OBVIOUS
<1> HIDE DEF ab
<1>2. \A k \in 1..Len(a) + Len(b) :
          k \in 1..Len(a) \/ (k \in Len(a) + 1..Len(a) + Len(b) /\ k - Len(a) \in 1..Len(b))
  BY <1>1
<1>3. Ascending(ab)
  <2> SUFFICES ASSUME NEW k \in 1..Len(a) + Len(b), NEW l \in 1..Len(a) + Len(b), k < l
               PROVE  ab[k] < ab[l]
    BY <1>1 DEF Ascending
  <2>1. CASE k \in 1..Len(a) /\ l \in 1..Len(a)
    BY <1>1, <2>1 DEF Ascending
  <2>2. CASE k \in 1..Len(a) /\ l \notin 1..Len(a)
    BY <1>1, <1>2, <2>2
  <2>3. CASE k \notin 1..Len(a)
    <3>1. k \in Len(a) + 1..Len(a) + Len(b) /\ l \in Len(a) + 1..Len(a) + Len(b)
      <4>1. k \in Nat /\ l \in Nat /\ Len(a) < k /\ k < l /\ l <= Len(a) + Len(b)
        BY <1>1, <2>3
      <4>2. QED
        BY <1>1, <4>1
    <3>2. k - Len(a) \in 1..Len(b) /\ l - Len(a) \in 1..Len(b) /\ k - Len(a) < l - Len(a)
      BY <1>1, <3>1
    <3>3. QED
      BY <1>1, <3>1, <3>2 DEF Ascending
  <2>4. QED
    BY <2>1, <2>2, <2>3
<1>4. \A k \in DOMAIN ab : (\E l \in DOMAIN a : ab[k] = a[l]) \/ (\E l \in DOMAIN b : ab[k] = b[l])
  BY <1>1, <1>2
<1>5. ASSUME NEW l \in DOMAIN b
      PROVE  \E k \in DOMAIN ab : ab[k] = b[l]
  <2>1. Len(a) + l \in DOMAIN ab /\ ab[Len(a) + l] = b[l]
    <3>1. Len(a) + l \in Len(a) + 1..Len(a) + Len(b) /\ (Len(a) + l) - Len(a) = l
      BY <1>1, SMTT(30)
    <3>2. QED
      BY <1>1, <3>1
  <2>2. QED
    BY <2>1
<1>6. QED
  BY <1>1, <1>3, <1>4, <1>5, Zenon DEF ab

(* And dropping the oldest.                                                *)
LEMMA WithoutOldest ==
    ASSUME NEW list \in Seq(Nat), Ascending(list), NEW from \in {1, 2}, list # << >>
    PROVE  LET rest == SubSeq(list, from, Len(list))
           IN  /\ rest \in Seq(Nat) /\ Ascending(rest)
               /\ \A k \in DOMAIN rest : \E l \in DOMAIN list : rest[k] = list[l]
<1> DEFINE rest == SubSeq(list, from, Len(list))
<1>1. DOMAIN list = 1..Len(list) /\ Len(list) \in Nat /\ Len(list) >= 1
  OBVIOUS
<1>2. /\ rest \in Seq(Nat) /\ DOMAIN rest = 1..Len(list) - from + 1
      /\ \A k \in 1..Len(list) - from + 1 : rest[k] = list[k + from - 1]
  <2>1. CASE from = 1
    BY <1>1, <2>1
  <2>2. CASE from = 2
    BY <1>1, <2>2
  <2>3. QED
    BY <2>1, <2>2
<1> HIDE DEF rest
<1>3. \A k \in 1..Len(list) - from + 1 : k + from - 1 \in 1..Len(list)
  BY <1>1
<1>4. Ascending(rest)
  <2> SUFFICES ASSUME NEW k \in 1..Len(list) - from + 1, NEW l \in 1..Len(list) - from + 1, k < l
               PROVE  rest[k] < rest[l]
    BY <1>2 DEF Ascending
  <2>1. k + from - 1 < l + from - 1
    BY <1>1
  <2>2. QED
    BY <1>1, <1>2, <1>3, <2>1 DEF Ascending
<1>5. QED
  BY <1>1, <1>2, <1>3, <1>4 DEF rest

-----------------------------------------------------------------------------
(* Bursts                                                                  *)

(* What was quiet stays quiet when more is heard.                          *)
LEMMA SameQuiet ==
    ASSUME NEW a, NEW b, NEW n \in Nat, VadAssumption, QuietUpTo(a, n), \A j \in 1..n : a[j] = b[j]
    PROVE  QuietUpTo(b, n)
<1> SUFFICES ASSUME NEW from \in 1..n, from + MinVoice - 1 <= n, Burst(b, from)
             PROVE  FALSE
  BY DEF QuietUpTo
<1>1. \A j \in from..from + MinVoice - 1 : j \in 1..n
  BY DEF VadAssumption
<1>2. Burst(a, from)
  BY <1>1 DEF Burst
<1>3. QED
  BY <1>2 DEF QuietUpTo

(* A frame that is not a voice keeps the burst after it from being long enough. *)
LEMMA QuietLonger ==
    ASSUME NEW h, NEW n \in Nat, NEW j \in Nat, VadAssumption, QuietUpTo(h, n),
           j <= n + 1, n + 1 - j < MinVoice, h[j] # "voice"
    PROVE  QuietUpTo(h, n + 1)
<1> SUFFICES ASSUME NEW from \in 1..n + 1, from + MinVoice - 1 <= n + 1, Burst(h, from)
             PROVE  FALSE
  BY DEF QuietUpTo
<1>1. MinVoice \in Nat /\ MinVoice >= 1
  BY DEF VadAssumption
<1>2. ~ (from + MinVoice - 1 <= n)
  <2>1. SUFFICES ASSUME from + MinVoice - 1 <= n PROVE FALSE
    OBVIOUS
  <2>2. from \in 1..n
    BY <1>1, <2>1
  <2>3. QED
    BY <2>1, <2>2 DEF QuietUpTo
<1>3. j \in from..from + MinVoice - 1
  BY <1>1, <1>2
<1>4. QED
  BY <1>3 DEF Burst

-----------------------------------------------------------------------------
(* One frame more                                                          *)

(* What the policy makes of a frame.                                       *)
LEMMA Observes ==
    ASSUME VadAssumption, VadTyped, NEW level \in Levels
    PROVE  /\ Observed(level) \in [on : BOOLEAN, voice : Nat, silence : Nat, triggered : BOOLEAN]
           /\ Observed(level).on = policy.on
           /\ Observed(level).triggered <=> policy.triggered \/ Observed(level).voice >= MinVoice
           /\ level = "voice" => Observed(level).voice = policy.voice + 1
           /\ level # "voice" => Observed(level).voice = policy.voice
<1> DEFINE heard == policy.voice + (IF level = "voice" THEN 1 ELSE 0)
           hush == IF level = "voice" THEN 0
                    ELSE IF policy.triggered THEN policy.silence + 1 ELSE policy.silence
           known == policy.triggered \/ heard >= MinVoice
<1>1. policy \in [on : BOOLEAN, voice : Nat, silence : Nat, triggered : BOOLEAN]
  BY DEF VadTyped
<1>2. heard \in Nat /\ hush \in Nat /\ known \in BOOLEAN
  BY <1>1
<1>3. Observed(level) = [policy EXCEPT !.voice = heard, !.silence = hush, !.triggered = known]
  BY DEF Observed
<1> HIDE DEF heard, hush, known
<1>4. /\ Observed(level) \in [on : BOOLEAN, voice : Nat, silence : Nat, triggered : BOOLEAN]
      /\ Observed(level).on = policy.on /\ Observed(level).voice = heard
      /\ Observed(level).triggered = known
  BY <1>1, <1>2, <1>3
<1>5. known <=> policy.triggered \/ heard >= MinVoice
  BY DEF known
<1>6. (level = "voice" => heard = policy.voice + 1) /\ (level # "voice" => heard = policy.voice)
  BY <1>1 DEF heard
<1>7. QED
  BY <1>4, <1>5, <1>6

(* The frame that is new, and those before it.                             *)
LEMMA FrameMore ==
    ASSUME VadTyped, NEW level \in Levels, NEW heard, heard = Append(sound, level)
    PROVE  /\ heard \in Seq(Levels) /\ Len(sound) \in Nat
           /\ Len(heard) = Len(sound) + 1 /\ heard[Len(sound) + 1] = level
           /\ \A j \in 1..Len(sound) : heard[j] = sound[j]
BY DEF VadTyped

LEMMA StillQuiet ==
    ASSUME VadAssumption, VadTyped, NEW level \in Levels, NEW heard, heard = Append(sound, level),
           NEW n \in Nat, n <= Len(sound), QuietUpTo(sound, n)
    PROVE  QuietUpTo(heard, n)
<1>1. \A j \in 1..n : sound[j] = heard[j]
  BY FrameMore
<1>2. QED
  BY <1>1, SameQuiet

(* What a frame does before it is decided what happens to it.              *)
Arrives(level, heard, p) ==
    /\ level \in Levels /\ heard = Append(sound, level) /\ sound' = heard /\ policy' = p
    /\ ~ done /\ Len(sound) < MaxFrames
    /\ p \in [on : BOOLEAN, voice : Nat, silence : Nat, triggered : BOOLEAN]
    /\ p.on <=> policy.on
    /\ policy.on => /\ p.triggered <=> policy.triggered \/ p.voice >= MinVoice
                    /\ level = "voice" => p.voice = policy.voice + 1
                    /\ level # "voice" => p.voice = policy.voice
                    /\ policy.triggered <=> triggered

(* What a list of frames has to satisfy, as a fact about lists.            *)
FramesInOrder(list, n) ==
    list \in Seq(Nat) /\ Ascending(list) /\ \A k \in DOMAIN list : list[k] <= n

(* As long as nothing is captured there is nothing more to show.           *)
LEMMA Settled ==
    ASSUME NEW level, NEW heard, NEW p, Arrives(level, heard, p), VadTyped', WaitsWell', done' = FALSE,
           ~ triggered, triggered' = triggered, captured = << >>, captured' = captured,
           policy.on => ~ p.triggered
    PROVE  VadInv'
<1>1. p.triggered \in BOOLEAN /\ policy' = p /\ (p.on => policy.on)
  BY DEF Arrives
<1>2. triggered' \in BOOLEAN
  BY DEF VadTyped
<1>3. policy'.on /\ ~ done' => triggered' = policy'.triggered
  <2>1. ASSUME policy'.on
        PROVE  triggered' = FALSE /\ policy'.triggered = FALSE
    <3>1. ~ p.triggered /\ p.triggered \in BOOLEAN
      BY <1>1, <2>1
    <3>2. QED
      BY <1>1, <1>2, <3>1
  <2>2. QED
    BY <2>1
<1>4. captured' = << >>
  OBVIOUS
<1>5. Ascending(captured)' /\ (\A k \in DOMAIN captured : captured[k] <= Len(sound))'
  <2>1. DOMAIN (<< >>) = {}
    OBVIOUS
  <2>2. QED
    BY <1>4, <2>1 DEF Ascending
<1>6. QED
  BY <1>3, <1>4, <1>5 DEF VadInv

LEMMA Waits ==
    ASSUME VadAssumption, VadInv, NEW level, NEW heard, NEW p, Arrives(level, heard, p),
           ~ triggered, Waiting(heard),
           level = "voice" => IF policy.on THEN ~ p.triggered ELSE ~ (voice + 1 >= MinVoice)
    PROVE  VadInv'
<1>1. /\ VadTyped /\ WaitsWell /\ captured = << >>
      /\ heard \in Seq(Levels) /\ Len(sound) \in Nat /\ level \in Levels
      /\ Len(heard) = Len(sound) + 1 /\ heard[Len(sound) + 1] = level
      /\ \A j \in 1..Len(sound) : heard[j] = sound[j]
  <2>1. VadTyped /\ WaitsWell /\ captured = << >> /\ level \in Levels /\ heard = Append(sound, level)
    BY DEF VadInv, Arrives
  <2>2. sound \in Seq(Levels)
    BY <2>1 DEF VadTyped
  <2>3. QED
    BY <2>1, <2>2
<1>2. IsVoice(heard) <=> level = "voice"
  BY <1>1 DEF IsVoice
<1>3. MinVoice \in Nat /\ MinVoice >= 1 /\ voice \in Nat /\ voice <= Len(sound) /\ voice < MinVoice
  BY <1>1 DEF VadAssumption, VadTyped, WaitsWell
<1>4. /\ pending \in Seq(Nat) /\ Len(pending) = voice /\ DOMAIN pending = 1..voice
      /\ \A k \in 1..voice : pending[k] = Len(sound) - voice + k
  BY <1>1 DEF VadTyped, WaitsWell
<1>5. preRoll \in Seq(Nat) /\ Ascending(preRoll) /\ \A k \in DOMAIN preRoll : preRoll[k] <= Len(sound) - voice
  BY <1>1 DEF VadTyped, WaitsWell
<1>6. CASE level = "voice"
  <2>1. /\ preRoll' = preRoll /\ pending' = Append(pending, Len(sound) + 1)
        /\ voice' = voice + 1 /\ UNCHANGED <<captured, triggered, done>>
    BY <1>1, <1>2, <1>6 DEF Waiting
  <2>2. voice + 1 < MinVoice /\ (p.on => voice + 1 <= p.voice /\ p.voice < MinVoice)
    <3>1. CASE policy.on
      <4>1. voice <= policy.voice /\ policy.voice \in Nat /\ p.voice = policy.voice + 1
        BY <1>1, <1>6, <3>1 DEF WaitsWell, VadTyped, Arrives
      <4>2. ~ p.triggered
        BY <1>6, <3>1
      <4>3. ~ (p.voice >= MinVoice)
        BY <3>1, <4>2 DEF Arrives
      <4>4. QED
        BY <1>3, <4>1, <4>3
    <3>2. CASE ~ policy.on
      <4>1. ~ (voice + 1 >= MinVoice) /\ ~ p.on
        BY <1>6, <3>2 DEF Arrives
      <4>2. QED
        BY <1>3, <4>1
    <3>3. QED
      BY <3>1, <3>2
  <2>3. Len(pending') = voice + 1 /\ \A k \in 1..voice + 1 : pending'[k] = Len(sound) - voice + k
    BY <1>1, <1>3, <1>4, <2>1
  <2>4. /\ \A j \in Len(sound) - voice + 1..Len(sound) + 1 : heard[j] = "voice"
        /\ voice < Len(sound) => heard[Len(sound) - voice] # "voice"
    <3>1. /\ \A j \in Len(sound) - voice + 1..Len(sound) : sound[j] = "voice"
          /\ voice < Len(sound) => sound[Len(sound) - voice] # "voice"
      BY <1>1 DEF WaitsWell
    <3>2. \A j \in Len(sound) - voice + 1..Len(sound) + 1 :
              j = Len(sound) + 1 \/ (j \in 1..Len(sound) /\ j \in Len(sound) - voice + 1..Len(sound))
      BY <1>1, <1>3
    <3>3. \A j \in Len(sound) - voice + 1..Len(sound) + 1 : heard[j] = "voice"
      BY <1>1, <1>6, <3>1, <3>2
    <3>4. voice < Len(sound) => Len(sound) - voice \in 1..Len(sound)
      BY <1>1, <1>3
    <3>5. QED
      BY <1>1, <3>1, <3>3, <3>4
  <2>5. QuietUpTo(heard, Len(sound) + 1)
    <3>1. QuietUpTo(heard, Len(sound))
      <4>1. QuietUpTo(sound, Len(sound)) /\ \A j \in 1..Len(sound) : sound[j] = heard[j]
        BY <1>1 DEF WaitsWell
      <4>2. QED
        BY <1>1, <4>1, SameQuiet
    <3>2. CASE voice < Len(sound)
      <4>1. /\ Len(sound) - voice \in Nat /\ Len(sound) - voice <= Len(sound) + 1
            /\ Len(sound) + 1 - (Len(sound) - voice) < MinVoice
            /\ heard[Len(sound) - voice] # "voice"
        BY <1>1, <1>3, <2>2, <2>4, <3>2
      <4>2. QED
        BY <1>1, <3>1, <4>1, QuietLonger
    <3>3. CASE voice = Len(sound)
      BY <1>1, <1>3, <2>2, <3>3 DEF QuietUpTo
    <3>4. QED
      BY <1>1, <1>3, <3>2, <3>3
  <2>6. WaitsWell'
    <3>1. /\ sound' = heard /\ policy' = p /\ preRoll' = preRoll /\ voice' = voice + 1
          /\ Len(heard) = Len(sound) + 1
          /\ Len(heard) - (voice + 1) = Len(sound) - voice /\ (voice + 1 < Len(heard) => voice < Len(sound))
          /\ voice + 1 <= Len(heard)
      BY <1>1, <1>3, <2>1 DEF Arrives
    <3>2. Ascending(preRoll') /\ \A k \in DOMAIN preRoll' : preRoll'[k] <= Len(sound) - voice
      BY <1>5, <3>1
    <3>3. WaitsWell'
      BY <2>2, <2>3, <2>4, <2>5, <3>1, <3>2 DEF WaitsWell, Ascending
    <3>4. QED
      BY <3>3
  <2>7. VadTyped'
    <3>1. pending' \in Seq(Nat)
      BY <1>1, <1>4, <2>1
    <3>2. Len(sound) < MaxFrames /\ MaxFrames \in Nat /\ sound' = heard /\ policy' = p
          /\ p \in [on : BOOLEAN, voice : Nat, silence : Nat, triggered : BOOLEAN]
      BY DEF Arrives, VadAssumption
    <3>3. QED
      BY <1>1, <2>1, <3>1, <3>2 DEF VadTyped
  <2>8. QED
    <3>1. done' = FALSE /\ triggered' = triggered /\ captured' = captured
      BY <1>1, <2>1 DEF Arrives, VadTyped
    <3>2. policy.on => ~ p.triggered
      BY <1>6
    <3>3. QED
      BY <1>1, <2>6, <2>7, <3>1, <3>2, Settled
<1>7. CASE level # "voice"
  <2> DEFINE all == Append(preRoll, Len(sound) + 1)
             from == IF Len(all) > PreRoll THEN 2 ELSE 1
             rest == SubSeq(all, from, Len(all))
  <2>1. /\ preRoll' = rest /\ pending' = << >> /\ voice' = 0
        /\ UNCHANGED <<captured, triggered, done>>
    BY <1>1, <1>2, <1>7 DEF Waiting
  <2>2. FramesInOrder(all, Len(sound) + 1)
    <3>1. \A k \in DOMAIN preRoll : preRoll[k] < Len(sound) + 1
      <4>1. \A k \in DOMAIN preRoll : preRoll[k] \in Nat
        BY <1>5
      <4>2. QED
        BY <1>1, <1>3, <1>5, <4>1
    <3>2. QED
      BY <1>1, <1>5, <3>1, LaterFrame DEF FramesInOrder
  <2>3. from \in {1, 2} /\ all # << >>
    BY <1>1, <1>5, SMTT(30)
  <2> HIDE DEF all, from
  <2>4. FramesInOrder(rest, Len(sound) + 1)
    <3>1. /\ rest \in Seq(Nat) /\ Ascending(rest)
          /\ \A k \in DOMAIN rest : \E l \in DOMAIN all : rest[k] = all[l]
      <4>1. all \in Seq(Nat) /\ Ascending(all)
        BY <2>2 DEF FramesInOrder
      <4>2. QED
        BY <2>3, <4>1, WithoutOldest
    <3> HIDE DEF rest
    <3>2. QED
      BY <2>2, <3>1 DEF FramesInOrder
  <2> HIDE DEF rest
  <2>5. QuietUpTo(heard, Len(sound) + 1)
    <3>1. QuietUpTo(sound, Len(sound)) /\ \A j \in 1..Len(sound) : sound[j] = heard[j]
      BY <1>1 DEF WaitsWell
    <3>2. QuietUpTo(heard, Len(sound))
      BY <1>1, <3>1, SameQuiet
    <3>3. /\ Len(sound) + 1 \in Nat /\ Len(sound) + 1 <= Len(sound) + 1
          /\ Len(sound) + 1 - (Len(sound) + 1) < MinVoice /\ heard[Len(sound) + 1] # "voice"
      BY <1>1, <1>3, <1>7
    <3>4. QED
      BY <1>1, <3>2, <3>3, QuietLonger
  <2>6. p.on => p.voice \in Nat /\ p.voice < MinVoice /\ ~ p.triggered
    <3>1. SUFFICES ASSUME policy.on
                   PROVE  p.voice \in Nat /\ p.voice < MinVoice /\ ~ p.triggered
      BY DEF Arrives
    <3>2. policy.voice \in Nat /\ policy.voice < MinVoice /\ p.voice = policy.voice
      BY <1>1, <1>7, <3>1 DEF WaitsWell, VadTyped, Arrives
    <3>3. p.triggered <=> policy.triggered \/ p.voice >= MinVoice
      BY <3>1 DEF Arrives
    <3>4. ~ policy.triggered
      BY <3>1 DEF Arrives
    <3>5. ~ (p.voice >= MinVoice)
      BY <1>3, <3>2
    <3>6. QED
      BY <3>2, <3>3, <3>4, <3>5
  <2>7. WaitsWell'
    <3>1. /\ sound' = heard /\ policy' = p /\ Len(heard) = Len(sound) + 1
          /\ heard[Len(heard)] # "voice"
      BY <1>1, <1>7 DEF Arrives
    <3>2. voice' < MinVoice /\ voice' <= Len(heard) /\ (p.on => voice' <= p.voice /\ p.voice < MinVoice)
      BY <1>1, <1>3, <2>1, <2>6, <3>1
    <3>3. Len(pending') = 0 /\ \A k \in 1..voice' : FALSE
      BY <2>1
    <3>4. \A j \in Len(heard) - voice' + 1..Len(heard) : FALSE
      BY <1>1, <2>1, <3>1
    <3>5. Ascending(preRoll') /\ \A k \in DOMAIN preRoll' : preRoll'[k] <= Len(heard) - voice'
      BY <1>1, <2>1, <2>4, <3>1 DEF FramesInOrder
    <3>6. Len(heard) - voice' = Len(heard)
      BY <1>1, <2>1, <3>1
    <3>7. QuietUpTo(heard, Len(heard))
      BY <2>5, <3>1
    <3>8. QED
      BY <2>1, <3>1, <3>2, <3>3, <3>4, <3>5, <3>6, <3>7 DEF WaitsWell, Ascending
  <2>8. VadTyped'
    <3>1. preRoll' \in Seq(Nat) /\ pending' \in Seq(Nat) /\ voice' \in Nat
      BY <2>1, <2>4 DEF FramesInOrder
    <3>2. Len(sound) < MaxFrames /\ MaxFrames \in Nat /\ sound' = heard /\ policy' = p
          /\ p \in [on : BOOLEAN, voice : Nat, silence : Nat, triggered : BOOLEAN]
      BY DEF Arrives, VadAssumption
    <3>3. QED
      BY <1>1, <2>1, <3>1, <3>2 DEF VadTyped
  <2>9. QED
    <3>1. done' = FALSE /\ triggered' = triggered /\ captured' = captured
      BY <1>1, <2>1 DEF Arrives, VadTyped
    <3>2. policy.on => ~ p.triggered
      BY <2>6 DEF Arrives
    <3>3. QED
      BY <1>1, <2>7, <2>8, <3>1, <3>2, Settled
<1>8. QED
  BY <1>6, <1>7

(* And once something is, nothing of it is lost.                           *)
LEMMA CaptureKeeps ==
    ASSUME NEW s \in 1..Len(sound'), KeptFrom(s)', VadTyped', triggered' = TRUE, Ascending(captured'),
           \A k \in DOMAIN captured' : captured'[k] <= Len(sound'), policy'.on => policy'.triggered
    PROVE  VadInv'
<1>1. policy'.on /\ ~ done' => triggered' = policy'.triggered
  <2>1. policy'.triggered \in BOOLEAN
    BY DEF VadTyped
  <2>2. ASSUME policy'.on
        PROVE  triggered' = policy'.triggered
    <3>1. policy'.triggered /\ policy'.triggered \in BOOLEAN
      BY <2>1, <2>2
    <3>2. QED
      BY <3>1
  <2>3. QED
    BY <2>2
<1>2. QED
  BY <1>1 DEF VadInv, Ascending

LEMMA Triggers ==
    ASSUME VadAssumption, VadInv, NEW level, NEW heard, NEW p, Arrives(level, heard, p),
           ~ triggered, Trigger(heard), level = "voice", policy.on => p.triggered
    PROVE  VadInv'
<1> DEFINE burst == Append(pending, Len(sound) + 1)
<1>1. /\ VadTyped /\ WaitsWell
      /\ heard \in Seq(Levels) /\ Len(sound) \in Nat /\ level \in Levels
      /\ Len(heard) = Len(sound) + 1 /\ heard[Len(sound) + 1] = level
      /\ \A j \in 1..Len(sound) : heard[j] = sound[j]
  <2>1. VadTyped /\ WaitsWell /\ level \in Levels /\ heard = Append(sound, level)
    BY DEF VadInv, Arrives
  <2>2. sound \in Seq(Levels)
    BY <2>1 DEF VadTyped
  <2>3. QED
    BY <2>1, <2>2
<1>2. /\ triggered' = TRUE /\ captured' = preRoll \o burst /\ voice' = voice + 1
      /\ pending' = << >> /\ preRoll' = preRoll /\ done' = done
      /\ sound' = heard /\ policy' = p
  BY <1>1 DEF Trigger, Arrives
<1>0. PICK s \in Int : s = Len(sound) - voice + 1
  <2>1. Len(sound) \in Nat /\ voice \in Nat
    BY <1>1 DEF VadTyped
  <2>2. QED
    BY <2>1
<1>3. voice \in Nat /\ voice <= Len(sound) /\ s \in 1..Len(sound) + 1
  BY <1>0, <1>1 DEF VadTyped, WaitsWell
<1>4. /\ pending \in Seq(Nat) /\ Len(pending) = voice /\ DOMAIN pending = 1..voice
      /\ \A k \in 1..voice : pending[k] = Len(sound) - voice + k
  BY <1>1 DEF VadTyped, WaitsWell
<1>5. /\ burst \in Seq(Nat) /\ DOMAIN burst = 1..voice + 1
      /\ \A k \in 1..voice + 1 : burst[k] = Len(sound) - voice + k
  <2>1. /\ burst \in Seq(Nat) /\ DOMAIN burst = 1..voice + 1 /\ burst[voice + 1] = Len(sound) + 1
        /\ \A k \in 1..voice : burst[k] = pending[k]
    BY <1>1, <1>3, <1>4, SMTT(30)
  <2>2. Len(sound) + 1 = Len(sound) - voice + (voice + 1)
    BY <1>1, <1>3
  <2>3. \A k \in 1..voice + 1 : k \in 1..voice \/ k = voice + 1
    BY <1>3
  <2> HIDE DEF burst
  <2>4. QED
    BY <1>4, <2>1, <2>2, <2>3
<1> HIDE DEF burst
<1>6. preRoll \in Seq(Nat) /\ Ascending(preRoll) /\ \A k \in DOMAIN preRoll : preRoll[k] <= Len(sound) - voice
  BY <1>1 DEF VadTyped, WaitsWell
<1>7. Ascending(burst)
  BY <1>1, <1>3, <1>5 DEF Ascending
<1>8. \A k \in DOMAIN preRoll : \A l \in DOMAIN burst : preRoll[k] < burst[l]
  <2>1. \A k \in DOMAIN preRoll : preRoll[k] \in Nat
    BY <1>6
  <2>2. \A l \in DOMAIN burst : burst[l] \in Nat /\ Len(sound) - voice < burst[l] /\ burst[l] <= Len(sound) + 1
    BY <1>1, <1>3, <1>5, SMTT(30)
  <2>3. Len(sound) - voice \in Nat
    BY <1>1, <1>3
  <2>4. QED
    BY <1>6, <2>1, <2>2, <2>3
<1>9. /\ captured' \in Seq(Nat) /\ Ascending(captured')
      /\ \A k \in DOMAIN captured' : (\E l \in DOMAIN preRoll : captured'[k] = preRoll[l])
                                     \/ (\E l \in DOMAIN burst : captured'[k] = burst[l])
      /\ \A l \in DOMAIN burst : \E k \in DOMAIN captured' : captured'[k] = burst[l]
  <2>1. /\ preRoll \o burst \in Seq(Nat) /\ Ascending(preRoll \o burst)
        /\ \A k \in DOMAIN (preRoll \o burst) : (\E l \in DOMAIN preRoll : (preRoll \o burst)[k] = preRoll[l])
                                     \/ (\E l \in DOMAIN burst : (preRoll \o burst)[k] = burst[l])
        /\ \A l \in DOMAIN burst : \E k \in DOMAIN (preRoll \o burst) : (preRoll \o burst)[k] = burst[l]
    BY <1>5, <1>6, <1>7, <1>8, LaterFrames
  <2>2. QED
    BY <1>2, <2>1, Zenon
<1>10. \A k \in DOMAIN captured' : captured'[k] <= Len(sound')
  <2>1. \A l \in DOMAIN preRoll : preRoll[l] \in Nat /\ preRoll[l] <= Len(sound) + 1
    <3>1. \A l \in DOMAIN preRoll : preRoll[l] \in Nat
      BY <1>6
    <3>2. QED
      BY <1>1, <1>3, <1>6, <3>1
  <2>2. \A l \in DOMAIN burst : burst[l] <= Len(sound) + 1
    BY <1>1, <1>3, <1>5
  <2>3. Len(sound') = Len(sound) + 1
    BY <1>1, <1>2
  <2>4. QED
    BY <1>9, <2>1, <2>2, <2>3
<1>11. KeptFrom(s)' /\ s \in 1..Len(sound')
  <2>1. s = 1 \/ heard[s - 1] # "voice"
    <3>1. voice < Len(sound) => sound[Len(sound) - voice] # "voice" /\ Len(sound) - voice \in 1..Len(sound)
      BY <1>1, <1>3 DEF WaitsWell
    <3>2. QED
      BY <1>0, <1>1, <1>3, <3>1, SMTT(30)
  <2>2. QuietUpTo(heard, s - 1)
    <3>1. QuietUpTo(sound, Len(sound))
      BY <1>1 DEF WaitsWell
    <3>2. s - 1 \in Nat /\ s - 1 <= Len(sound) /\ \A j \in 1..s - 1 : sound[j] = heard[j]
      BY <1>0, <1>1, <1>3
    <3>3. QuietUpTo(sound, s - 1)
      <4>1. \A from \in 1..s - 1 : from + MinVoice - 1 <= s - 1
                => from \in 1..Len(sound) /\ from + MinVoice - 1 <= Len(sound)
        BY <1>1, <3>2 DEF VadAssumption
      <4>2. QED
        BY <3>1, <4>1 DEF QuietUpTo
    <3>4. QED
      BY <3>2, <3>3, SameQuiet
  <2>3. \A i \in s..Len(sound) + 1 : \E k \in DOMAIN captured' : captured'[k] = i
    <3> SUFFICES ASSUME NEW i \in s..Len(sound) + 1
                 PROVE  \E k \in DOMAIN captured' : captured'[k] = i
      OBVIOUS
    <3>1. i - s + 1 \in DOMAIN burst /\ burst[i - s + 1] = i
      BY <1>0, <1>1, <1>3, <1>5, SMTT(30)
    <3>2. QED
      BY <1>9, <3>1
  <2>4. QED
    <3>1. Len(sound') = Len(sound) + 1 /\ s \in 1..Len(sound')
      BY <1>1, <1>2, <1>3
    <3>2. QED
      BY <1>2, <2>1, <2>2, <2>3, <3>1 DEF KeptFrom, QuietUpTo, Burst
<1>12. VadTyped'
  <2>1. pending' \in Seq(Nat) /\ voice' \in Nat /\ preRoll' \in Seq(Nat)
    BY <1>2, <1>3, <1>6
  <2>2. Len(sound) < MaxFrames /\ MaxFrames \in Nat
        /\ p \in [on : BOOLEAN, voice : Nat, silence : Nat, triggered : BOOLEAN]
    BY DEF Arrives, VadAssumption
  <2>3. QED
    BY <1>1, <1>2, <1>9, <2>1, <2>2, SMTT(30) DEF VadTyped
<1>13. p.on => p.triggered
  BY DEF Arrives
<1>14. QED
  BY <1>2, <1>9, <1>10, <1>11, <1>12, <1>13, CaptureKeeps

LEMMA Captures ==
    ASSUME VadAssumption, VadInv, NEW level, NEW heard, NEW p, NEW stop, Arrives(level, heard, p),
           stop \in BOOLEAN, triggered, Capturing(heard, stop)
    PROVE  VadInv'
<1>1. /\ VadTyped /\ triggered = TRUE /\ sound' = heard /\ policy' = p
      /\ heard \in Seq(Levels) /\ Len(sound) \in Nat
      /\ Len(heard) = Len(sound) + 1 /\ \A j \in 1..Len(sound) : heard[j] = sound[j]
  <2>1. VadTyped /\ level \in Levels /\ heard = Append(sound, level) /\ sound' = heard /\ policy' = p
    BY DEF VadInv, Arrives
  <2>2. sound \in Seq(Levels) /\ triggered = TRUE
    BY <2>1 DEF VadTyped
  <2>3. QED
    BY <2>1, <2>2
<1>2. PICK s \in 1..Len(sound) : KeptFrom(s)
  BY DEF VadInv
<1>3. /\ captured \in Seq(Nat) /\ Ascending(captured)
      /\ \A k \in DOMAIN captured : captured[k] < Len(sound) + 1
  <2>1. captured \in Seq(Nat) /\ Ascending(captured) /\ \A k \in DOMAIN captured : captured[k] <= Len(sound)
    BY DEF VadInv, VadTyped
  <2>2. \A k \in DOMAIN captured : captured[k] \in Nat
    BY <2>1
  <2>3. QED
    BY <1>1, <2>1, <2>2
<1>4. /\ captured' = Append(captured, Len(sound) + 1) /\ triggered' = TRUE /\ done' \in BOOLEAN
      /\ voice' \in Nat /\ preRoll' = preRoll /\ pending' = pending
  <2>1. voice \in Nat
    BY <1>1 DEF VadTyped
  <2>2. done' \in BOOLEAN
    BY Zenon DEF Capturing, Enough
  <2>3. QED
    BY <1>1, <2>1, <2>2 DEF Capturing
<1>5. /\ captured' \in Seq(Nat) /\ Ascending(captured')
      /\ \A k \in DOMAIN captured' : captured'[k] <= Len(sound) + 1
      /\ \A i : (\E k \in DOMAIN captured : captured[k] = i) \/ i = Len(sound) + 1
                  => \E k \in DOMAIN captured' : captured'[k] = i
  <2>1. Len(sound) + 1 \in Nat
    BY <1>1
  <2> DEFINE longer == Append(captured, Len(sound) + 1)
  <2>2. /\ longer \in Seq(Nat) /\ Ascending(longer) /\ \A k \in DOMAIN longer : longer[k] <= Len(sound) + 1
        /\ \A i : (\E k \in DOMAIN captured : captured[k] = i) \/ i = Len(sound) + 1
                    => \E k \in DOMAIN longer : longer[k] = i
    BY <1>3, <2>1, LaterFrame
  <2>3. captured' = longer
    BY <1>4
  <2>4. QED
    BY <2>2, <2>3, Zenon
<1>6. VadTyped'
  <2>1. Len(sound) < MaxFrames /\ MaxFrames \in Nat
        /\ p \in [on : BOOLEAN, voice : Nat, silence : Nat, triggered : BOOLEAN]
    BY DEF Arrives, VadAssumption
  <2>2. QED
    BY <1>1, <1>4, <1>5, <2>1 DEF VadTyped
<1>7. KeptFrom(s)'
  <2>1. s = 1 \/ heard[s - 1] # "voice"
    <3>1. s # 1 => s - 1 \in 1..Len(sound)
      BY <1>1
    <3>2. QED
      BY <1>1, <1>2, <3>1 DEF KeptFrom
  <2>2. QuietUpTo(heard, s - 1)
    <3>1. QuietUpTo(sound, s - 1)
      BY <1>2 DEF KeptFrom
    <3>2. s - 1 \in Nat /\ \A j \in 1..s - 1 : sound[j] = heard[j]
      BY <1>1
    <3>3. QED
      BY <3>1, <3>2, SameQuiet
  <2>3. \A i \in s..Len(sound) + 1 : \E k \in DOMAIN captured' : captured'[k] = i
    <3>1. \A i \in s..Len(sound) + 1 : i \in s..Len(sound) \/ i = Len(sound) + 1
      BY <1>1
    <3>2. \A i \in s..Len(sound) : \E k \in DOMAIN captured : captured[k] = i
      BY <1>2 DEF KeptFrom
    <3>3. QED
      BY <1>5, <3>1, <3>2
  <2>4. Len(sound') = Len(sound) + 1
    BY <1>1
  <2>5. QED
    BY <1>1, <2>1, <2>2, <2>3, <2>4 DEF KeptFrom, QuietUpTo, Burst
<1>8. p.on => p.triggered
  BY DEF Arrives
<1>9. s \in 1..Len(sound')
  BY <1>1
<1>10. QED
  BY <1>1, <1>4, <1>5, <1>6, <1>7, <1>8, <1>9, CaptureKeeps

(* The window ends on the frame that the policy would have started with.   *)
LEMMA Misses ==
    ASSUME VadAssumption, VadInv, NEW level, NEW heard, NEW p, Arrives(level, heard, p),
           ~ triggered, policy.on, Len(heard) >= MaxFrames, done' = TRUE,
           UNCHANGED <<preRoll, pending, captured, triggered, voice, silence>>
    PROVE  VadInv'
<1>1. VadTyped /\ captured = << >> /\ captured' = << >> /\ triggered' = triggered
  BY DEF VadInv
<1>2. /\ heard \in Seq(Levels) /\ Len(heard) <= MaxFrames /\ Len(heard) = MaxFrames
      /\ sound' = heard /\ policy' = p
      /\ p \in [on : BOOLEAN, voice : Nat, silence : Nat, triggered : BOOLEAN] /\ p.on
  <2>1. /\ Len(sound) < MaxFrames /\ MaxFrames \in Nat /\ sound \in Seq(Levels) /\ level \in Levels
        /\ heard = Append(sound, level)
    BY <1>1 DEF VadTyped, Arrives, VadAssumption
  <2>2. /\ sound' = heard /\ policy' = p /\ p.on
        /\ p \in [on : BOOLEAN, voice : Nat, silence : Nat, triggered : BOOLEAN]
    BY DEF Arrives
  <2>3. QED
    BY <2>1, <2>2
<1>3. VadTyped'
  BY <1>1, <1>2 DEF VadTyped
<1>4. Ascending(captured)' /\ (\A k \in DOMAIN captured : captured[k] <= Len(sound))'
  <2>1. DOMAIN (<< >>) = {}
    OBVIOUS
  <2>2. QED
    BY <1>1, <2>1 DEF Ascending
<1>5. QED
  BY <1>1, <1>2, <1>3, <1>4 DEF VadInv

-----------------------------------------------------------------------------
(* The detector                                                            *)

LEMMA FrameKeeps ==
    ASSUME VadAssumption, VadInv, Frame
    PROVE  VadInv'
<1>1. PICK level \in Levels :
         \E heard \in {Append(sound, level)} : \E p \in {IF policy.on THEN Observed(level) ELSE policy} :
            /\ sound' = heard /\ policy' = p
            /\ IF ~ triggered /\ policy.on /\ ShouldForceDecode(p, heard)
               THEN /\ done' = TRUE
                    /\ UNCHANGED <<preRoll, pending, captured, triggered, voice, silence>>
               ELSE IF triggered
               THEN Capturing(heard, ShouldStop(p, heard) \/ ShouldForceDecode(p, heard))
               ELSE IF level = "voice" /\ (IF policy.on THEN ShouldStart(p)
                                           ELSE voice + 1 >= MinVoice)
               THEN Trigger(heard)
               ELSE Waiting(heard)
  BY Zenon DEF Frame
<1> DEFINE heard == Append(sound, level)
           p == IF policy.on THEN Observed(level) ELSE policy
<1>2. /\ sound' = heard /\ policy' = p
      /\ IF ~ triggered /\ policy.on /\ ShouldForceDecode(p, heard)
         THEN /\ done' = TRUE
              /\ UNCHANGED <<preRoll, pending, captured, triggered, voice, silence>>
         ELSE IF triggered
         THEN Capturing(heard, ShouldStop(p, heard) \/ ShouldForceDecode(p, heard))
         ELSE IF level = "voice" /\ (IF policy.on THEN ShouldStart(p)
                                     ELSE voice + 1 >= MinVoice)
         THEN Trigger(heard)
         ELSE Waiting(heard)
  BY <1>1, Zenon
<1>3. VadTyped /\ ~ done /\ Len(sound) < MaxFrames
  BY DEF VadInv, Frame
<1>4. policy.on => (policy.triggered <=> triggered)
  BY <1>3, Zenon DEF VadInv
<1>5. Arrives(level, heard, p)
  <2>1. CASE policy.on
    BY <1>2, <1>3, <1>4, <2>1, Observes DEF Arrives
  <2>2. CASE ~ policy.on
    BY <1>2, <1>3, <2>2 DEF Arrives, VadTyped
  <2>3. QED
    BY <2>1, <2>2
<1> HIDE DEF heard, p
<1>6. CASE ~ triggered /\ policy.on /\ ShouldForceDecode(p, heard)
  BY <1>2, <1>5, <1>6, Misses DEF ShouldForceDecode
<1>7. CASE triggered
  <2>1. (ShouldStop(p, heard) \/ ShouldForceDecode(p, heard)) \in BOOLEAN
    OBVIOUS
  <2>2. QED
    BY <1>2, <1>5, <1>7, <2>1, Captures, Zenon
<1>8. CASE /\ ~ triggered /\ ~ (~ triggered /\ policy.on /\ ShouldForceDecode(p, heard))
           /\ level = "voice" /\ IF policy.on THEN ShouldStart(p) ELSE voice + 1 >= MinVoice
  <2>1. Trigger(heard)
    BY <1>2, <1>8, Zenon
  <2>2. policy.on => p.triggered
    BY <1>8 DEF ShouldStart
  <2>3. QED
    BY <1>5, <1>8, <2>1, <2>2, Triggers
<1>9. CASE /\ ~ triggered /\ ~ (~ triggered /\ policy.on /\ ShouldForceDecode(p, heard))
           /\ ~ (level = "voice" /\ IF policy.on THEN ShouldStart(p) ELSE voice + 1 >= MinVoice)
  <2>1. Waiting(heard)
    BY <1>2, <1>9, Zenon
  <2>2. level = "voice" => IF policy.on THEN ~ p.triggered ELSE ~ (voice + 1 >= MinVoice)
    BY <1>4, <1>9 DEF ShouldStart
  <2>3. QED
    BY <1>5, <1>9, <2>1, <2>2, Waits
<1>10. QED
  BY <1>6, <1>7, <1>8, <1>9, Zenon

LEMMA VadStarts ==
    ASSUME VadAssumption, VadInit
    PROVE  VadInv
<1>1. /\ sound = << >> /\ preRoll = << >> /\ pending = << >> /\ captured = << >>
      /\ triggered = FALSE /\ voice = 0 /\ done = FALSE
      /\ policy \in [on : BOOLEAN, voice : Nat, silence : Nat, triggered : BOOLEAN]
      /\ policy.voice = 0 /\ policy.triggered = FALSE
  BY DEF VadInit
<1>2. MinVoice \in Nat /\ MinVoice > 0 /\ MaxFrames \in Nat
  BY DEF VadAssumption
<1>3. Len(<< >>) = 0 /\ << >> \in Seq(Levels) /\ << >> \in Seq(Nat) /\ DOMAIN (<< >>) = {}
  OBVIOUS
<1>4. VadTyped
  <2>1. Len(sound) <= MaxFrames /\ voice \in Nat /\ triggered \in BOOLEAN /\ done \in BOOLEAN
    <3>1. triggered \in BOOLEAN /\ done \in BOOLEAN
      BY <1>1, Zenon
    <3>2. Len(sound) = 0
      BY <1>1, <1>3, Zenon
    <3>3. QED
      BY <1>1, <1>2, <3>1, <3>2
  <2>2. sound \in Seq(Levels) /\ preRoll \in Seq(Nat) /\ pending \in Seq(Nat) /\ captured \in Seq(Nat)
    BY <1>1, <1>3, Zenon
  <2>3. QED
    BY <1>1, <2>1, <2>2 DEF VadTyped
<1>5. WaitsWell
  BY <1>1, <1>2, <1>3 DEF WaitsWell, Ascending, QuietUpTo
<1>6. Ascending(captured) /\ \A k \in DOMAIN captured : captured[k] <= Len(sound)
  BY <1>1, <1>3 DEF Ascending
<1>7. QED
  BY <1>1, <1>4, <1>5, <1>6 DEF VadInv

(* What the decoder does leaves the lists as they are, and so does the end *)
(* of the window.                                                          *)
LEMMA VadSteps ==
    ASSUME VadAssumption, VadInv, [VadNext]_vadVars
    PROVE  VadInv'
<1>1. CASE Frame
  BY <1>1, FrameKeeps
<1>2. CASE Over
  <2>1. UNCHANGED <<policy, sound, preRoll, pending, captured, triggered, voice>> /\ done' = TRUE /\ ~ done
    BY <1>2 DEF Over
  <2>2. VadTyped'
    BY <2>1 DEF VadInv, VadTyped
  <2>3. (triggered => \E s \in 1..Len(sound) : KeptFrom(s))'
    BY <2>1, SMTT(30) DEF VadInv, KeptFrom
  <2>4. (~ triggered => /\ captured = << >>
                        /\ done => QuietUpTo(sound, Len(sound)) \/ (policy.on /\ Len(sound) = MaxFrames))'
    BY <2>1 DEF VadInv, WaitsWell
  <2>5. (Ascending(captured) /\ \A k \in DOMAIN captured : captured[k] <= Len(sound))'
    BY <2>1 DEF VadInv
  <2>6. QED
    BY <2>1, <2>2, <2>3, <2>4, <2>5 DEF VadInv
<1>3. CASE UNCHANGED <<policy, sound, preRoll, pending, captured, triggered, voice, silence, done>>
  BY <1>3 DEF VadInv, VadTyped, WaitsWell, KeptFrom
<1>4. QED
  BY <1>1, <1>2, <1>3 DEF VadNext, Decode, vadVars

(* Whatever the lengths that are configured, a burst that is long enough   *)
(* reaches the recogniser whole and in order.                              *)
THEOREM NothingSpokenIsLost == VadSpec => []SpeechIsKept
<1>1. VadInit => VadInv
  BY VadStarts, VadAssumption
<1>2. VadInv /\ [VadNext]_vadVars => VadInv'
  BY VadSteps, VadAssumption
<1>3. VadInv => SpeechIsKept
  <2> SUFFICES ASSUME VadInv PROVE SpeechIsKept
    OBVIOUS
  <2>1. ASSUME NEW i \in Frames, Spoken(i)
        PROVE  \/ \E k \in DOMAIN captured : captured[k] = i
               \/ policy.on /\ ~ triggered /\ Len(sound) = MaxFrames
    <3>1. PICK from \in Frames : /\ i \in from..from + MinVoice - 1 /\ from + MinVoice - 1 \in Frames
                                 /\ Burst(sound, from)
      BY <2>1 DEF Spoken, Burst
    <3>2. Len(sound) \in Nat /\ MinVoice \in Nat /\ from \in Nat /\ i \in Nat
      BY <3>1, VadAssumption DEF VadInv, VadTyped, VadAssumption, Frames
    <3>3. ~ QuietUpTo(sound, Len(sound))
      BY <3>1 DEF QuietUpTo, Frames
    <3>4. CASE ~ triggered
      BY <3>3, <3>4 DEF VadInv, WaitsWell
    <3>5. CASE triggered
      <4>1. PICK s \in 1..Len(sound) : KeptFrom(s)
        BY <3>5 DEF VadInv
      <4>2. ~ (from + MinVoice - 1 <= s - 1)
        <5>1. SUFFICES ASSUME from + MinVoice - 1 <= s - 1 PROVE FALSE
          OBVIOUS
        <5>2. from \in 1..s - 1
          BY <3>1, <3>2, <5>1 DEF Frames
        <5>3. QED
          BY <3>1, <4>1, <5>1, <5>2 DEF KeptFrom, QuietUpTo
      <4>3. from >= s
        <5>1. SUFFICES ASSUME from < s PROVE FALSE
          BY <3>2
        <5>2. s - 1 \in from..from + MinVoice - 1 /\ s # 1
          BY <3>1, <3>2, <4>2, <5>1 DEF Frames
        <5>3. QED
          BY <3>1, <4>1, <5>2 DEF KeptFrom, Burst
      <4>4. i \in s..Len(sound)
        BY <3>1, <3>2, <4>3 DEF Frames
      <4>5. QED
        BY <4>1, <4>4 DEF KeptFrom
    <3>6. QED
      BY <3>4, <3>5
  <2>2. QED
    BY <2>1 DEF SpeechIsKept, VadInv, Ascending
<1>4. QED
  BY <1>1, <1>2, <1>3, PTL DEF VadSpec
=============================================================================
