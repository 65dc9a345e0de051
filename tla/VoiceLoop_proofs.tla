-------------------------- MODULE VoiceLoop_proofs ---------------------------
(***************************************************************************)
(* Four parts of the voice loop, each for every value of its constants:    *)
(* its thread against an interrupt (StaleRounds), its lives between start()*)
(* and stop() (LoopLives), the engagement file (Engagement), and what a    *)
(* turn of it tells of its memories (Recalls).  They share no state; each  *)
(* part of this module is about one of them.                               *)
(***************************************************************************)
EXTENDS StaleRounds, LoopLives, Engagement, Recalls, FiniteSetTheorems, TLAPS

(***************************************************************************)
(* StaleRounds.  What a decision may land on depends on which round is     *)
(* current while decide() writes, and that on how far the interrupt is:    *)
(* the invariant says so for each place of both threads.                   *)
(***************************************************************************)

(* A turn without the bound on the numbers of the rounds.                  *)
AnyTurn == [state     : {"active", "completed", "interrupted"},
            cancelled : BOOLEAN,
            why       : {"listening", "interrupt", "decide"},
            decisions : SUBSET Nat,
            plan      : {"none", "ready", "cancelled"},
            verdict   : {"none", "approved", "blocked"}]

Places == 1..Len(turns)

LoopPlaces == {"idle", "listen", "think", "decide", "start", "install", "reject", "commit",
               "append", "plan", "alias", "verdict", "gate", "gateplan", "arbiter", "check",
               "dispatch"}

LoopLocals == [pc : LoopPlaces, mine : Nat, seen : Nat, plan : {"none", "ready"}]

UserPlaces == {"idle", "mark", "cancel", "start", "install", "cancelplan", "release", "stop"}
UserLocals == [pc : UserPlaces, old : Nat, new : Nat]

WellFormed ==
    /\ turns \in Seq(AnyTurn)
    /\ current \in 0..Len(turns)
    /\ lock \in {"free", "user"}
    /\ loop \in LoopLocals
    /\ user \in UserLocals
    /\ loop.mine <= Len(turns) /\ loop.seen <= Len(turns)
    /\ user.old <= Len(turns) /\ user.new <= Len(turns)

Empty(t) == turns[t].decisions = {} /\ turns[t].plan = "none"

Writing == {"commit", "append", "plan", "alias", "verdict"}

(* Who holds the lock, and what each thread's own variables refer to.      *)
LocalsInOrder ==
    /\ user.pc \in {"mark", "cancel", "start", "install", "cancelplan", "release"} => lock = "user"
    /\ loop.pc # "idle" => loop.mine # None
    /\ loop.mine # None => current # None /\ turns[loop.mine].why = "listening"
    /\ user.pc \in {"mark", "cancel", "cancelplan"} => user.old # None
    /\ loop.pc \in Writing => loop.seen = loop.mine
    /\ loop.pc = "reject" => loop.seen # None /\ (current = loop.mine => loop.seen = loop.mine)

(* A round of the loop is live only as long as it is current, and a round  *)
(* that decide() had to start is never written to.                         *)
Strays ==
    /\ \A t \in Places :
        /\ turns[t].why # "interrupt" => turns[t].decisions \subseteq {t}
        /\ \A r, q \in turns[t].decisions : r = q
        /\ turns[t].why = "decide" => Empty(t)
        /\ Live(t) /\ t # current => turns[t].why # "listening" /\ Empty(t)

(* Between the start of a round and its becoming current, the round that is*)
(* current has been closed, unless it is another such round, and empty.    *)
Installs ==
    /\ user.pc = "install" =>
        /\ user.new \in Places /\ user.new # current
        /\ turns[user.new].why = "interrupt" /\ Empty(user.new)
        /\ current # None /\ Live(current) => Empty(current) /\ turns[current].why = "decide"
    /\ loop.pc = "install" =>
        /\ loop.seen \in Places /\ loop.seen # current
        /\ turns[loop.seen].why = "decide"
        /\ Live(current) => Empty(current) /\ turns[current].why = "interrupt"
    /\ loop.pc = "append" =>
        current = loop.mine \/ (turns[current].why = "interrupt" /\ turns[current].decisions = {})
    /\ loop.pc = "plan" => current = loop.mine \/ turns[current].why = "interrupt"

(* What may become approved holds its own decision.                        *)
Approvals ==
    /\ ApprovedHasItsDecision
    /\ loop.pc \in {"plan", "alias", "verdict", "gate", "gateplan", "arbiter"} =>
        (IsCurrent(loop.mine) => loop.mine \in turns[loop.mine].decisions)

RaceInv == WellFormed /\ LocalsInOrder /\ Strays /\ Installs /\ Approvals

-----------------------------------------------------------------------------
(* A turn that is written to, and the turns after a start_round.           *)
LEMMA WriteIs ==
    ASSUME NEW s \in Seq(AnyTurn), NEW i \in 1..Len(s), NEW r \in AnyTurn
    PROVE  LET w == [s EXCEPT ![i] = r]
           IN /\ w \in Seq(AnyTurn) /\ Len(w) = Len(s)
              /\ w[i] = r
              /\ \A t \in 1..Len(s) : t # i => w[t] = s[t]
  OBVIOUS

(* The round that is current is closed, the others stay, and one is added. *)
LEMMA StartedIs ==
    ASSUME WellFormed, NEW why \in {"listening", "interrupt", "decide"}
    PROVE  /\ Started(why) \in Seq(AnyTurn)
           /\ Len(Started(why)) = Len(turns) + 1
           /\ Started(why)[Len(turns) + 1] = Fresh(why)
           /\ \A t \in Places : t # current => Started(why)[t] = turns[t]
           /\ current # None =>
                /\ Started(why)[current].state \in {"completed", "interrupted"}
                /\ \A f \in {"why", "decisions", "plan", "verdict"} :
                      Started(why)[current][f] = turns[current][f]
<1> DEFINE closed == [t \in 1..Len(turns) |-> IF t = current THEN Close(turns[t]) ELSE turns[t]]
<1>0. turns \in Seq(AnyTurn) /\ Len(turns) \in Nat
  BY DEF WellFormed
<1>1. \A t \in Places : turns[t] \in AnyTurn /\ Close(turns[t]) \in AnyTurn
  <2> SUFFICES ASSUME NEW t \in Places
               PROVE  turns[t] \in AnyTurn /\ Close(turns[t]) \in AnyTurn
    OBVIOUS
  <2>1. turns[t] \in AnyTurn
    BY <1>0 DEF Places
  <2>2. [turns[t] EXCEPT !.state = "completed", !.cancelled = TRUE] \in AnyTurn
    BY <2>1 DEF AnyTurn
  <2> QED BY <2>1, <2>2 DEF Close
<1>2. closed \in Seq(AnyTurn) /\ Len(closed) = Len(turns)
  BY <1>0, <1>1 DEF Places
<1>3. Fresh(why) \in AnyTurn
  BY DEF Fresh, AnyTurn
<1>4. Started(why) = Append(closed, Fresh(why))
  BY DEF Started
<1> HIDE DEF closed
<1>5. /\ Started(why) \in Seq(AnyTurn) /\ Len(Started(why)) = Len(turns) + 1
      /\ Started(why)[Len(turns) + 1] = Fresh(why)
      /\ \A t \in Places : Started(why)[t] = closed[t]
  BY <1>0, <1>2, <1>3, <1>4 DEF Places
<1>6. \A t \in Places : closed[t] = IF t = current THEN Close(turns[t]) ELSE turns[t]
  BY DEF closed, Places
<1>7. ASSUME current # None
      PROVE  /\ Started(why)[current].state \in {"completed", "interrupted"}
             /\ \A f \in {"why", "decisions", "plan", "verdict"} :
                   Started(why)[current][f] = turns[current][f]
  <2>1. current \in Places
    BY <1>0, <1>7 DEF WellFormed, Places, None
  <2>2. Started(why)[current] = Close(turns[current]) /\ turns[current] \in AnyTurn
    BY <1>1, <1>5, <1>6, <2>1
  <2> QED BY <2>2 DEF Close, AnyTurn
<1> QED BY <1>5, <1>6, <1>7

-----------------------------------------------------------------------------
(* The invariant holds before the first turn.  Of a step, what it does to  *)
(* turns comes first; the parts of the invariant follow from that.         *)
LEMMA RaceInvHolds == Init => RaceInv
<1> SUFFICES ASSUME Init PROVE RaceInv
  OBVIOUS
<1>1. turns = << >> /\ Len(turns) = 0 /\ Places = {}
  BY DEF Init, Places
<1>2. WellFormed
  BY <1>1 DEF Init, WellFormed, LoopPlaces, LoopLocals, UserPlaces, UserLocals, None
<1>3. LocalsInOrder /\ Installs /\ Approvals
  BY <1>1 DEF Init, LocalsInOrder, Installs, Approvals, ApprovedHasItsDecision, None, Writing
<1>4. Strays
  BY <1>1 DEF Strays
<1> QED
  BY <1>2, <1>3, <1>4 DEF RaceInv

(* A new round of the loop: the one before it is closed.                   *)
LEMMA StartRoundKeeps == RaceInv /\ StartRound => RaceInv'
<1> SUFFICES ASSUME RaceInv, StartRound PROVE RaceInv'
  OBVIOUS
<1> USE DEF None
<1>0. WellFormed /\ LocalsInOrder /\ Strays /\ Installs /\ Approvals
  BY DEF RaceInv
<1>1. turns' = Started("listening") /\ current' = Len(turns) + 1
      /\ loop' = [loop EXCEPT !.pc = "listen", !.mine = Len(turns) + 1]
      /\ user' = user /\ lock' = lock /\ loop.pc = "idle" /\ lock = "free"
  BY DEF StartRound
<1>2. Len(turns) \in Nat /\ turns' \in Seq(AnyTurn) /\ Len(turns') = Len(turns) + 1
  BY <1>0, <1>1, StartedIs DEF WellFormed
<1>3. turns'[Len(turns) + 1] = Fresh("listening")
  BY <1>0, <1>1, StartedIs
<1>4. \A t \in Places : t # current => turns'[t] = turns[t]
  BY <1>0, <1>1, StartedIs
<1>5. current # None =>
         /\ turns'[current].state # "active"
         /\ turns'[current].why = turns[current].why
         /\ turns'[current].decisions = turns[current].decisions
         /\ turns'[current].plan = turns[current].plan
         /\ turns'[current].verdict = turns[current].verdict
  BY <1>0, <1>1, StartedIs
<1>6. loop' \in LoopLocals /\ loop'.pc = "listen" /\ loop'.mine = Len(turns) + 1
      /\ loop'.seen = loop.seen
  <2>1. loop \in LoopLocals /\ "listen" \in LoopPlaces /\ Len(turns) + 1 \in Nat
    BY <1>0, <1>2 DEF WellFormed, LoopPlaces
  <2> QED
    BY <2>1, <1>1 DEF LoopLocals
<1>7. Places' = 1..(Len(turns) + 1) /\ Places = 1..Len(turns)
  BY <1>2 DEF Places
<1>12. WellFormed'
  BY <1>0, <1>1, <1>2, <1>6 DEF WellFormed, LoopLocals, UserLocals
<1>8. LocalsInOrder'
  BY <1>0, <1>1, <1>2, <1>6, <1>3 DEF LocalsInOrder, WellFormed, Fresh, Writing
<1>9. Strays'
  BY <1>0, <1>1, <1>2, <1>3, <1>4, <1>5, <1>7 DEF Strays, WellFormed, Fresh, Live, Empty
<1>10. Installs'
  BY <1>0, <1>1, <1>6 DEF Installs, LocalsInOrder, WellFormed
<1>11. Approvals'
  BY <1>0, <1>1, <1>2, <1>3, <1>4, <1>5, <1>6, <1>7 DEF Approvals, ApprovedHasItsDecision, WellFormed, Fresh
<1> QED BY <1>12, <1>8, <1>9, <1>10, <1>11 DEF RaceInv

(* The loop's steps that only read and go on.                              *)
LEMMA FinalizeKeeps == \A worth \in BOOLEAN : RaceInv /\ Finalize(worth) => RaceInv'
<1> SUFFICES ASSUME NEW worth \in BOOLEAN, RaceInv, Finalize(worth) PROVE RaceInv'
  OBVIOUS
<1> USE DEF None
<1>0. WellFormed /\ LocalsInOrder /\ Strays /\ Installs /\ Approvals
  BY DEF RaceInv
<1>1. turns' = turns /\ current' = current /\ user' = user /\ lock' = lock
  BY DEF Finalize
<1>2. loop.pc = "listen" /\ loop' \in LoopLocals
      /\ loop'.mine = loop.mine /\ loop'.seen = loop.seen
      /\ loop'.pc \in {"think", "idle"}
  <2>1. loop \in LoopLocals
    BY <1>0 DEF WellFormed
  <2> QED
    BY <2>1, <1>0 DEF Finalize, LoopAt, LoopLocals, LoopPlaces
<1>3. WellFormed'
  BY <1>0, <1>1, <1>2 DEF WellFormed, LoopLocals
<1>4. LocalsInOrder'
  BY <1>0, <1>1, <1>2 DEF LocalsInOrder, WellFormed, LoopLocals, Writing, IsCurrent
<1>5. Strays'
  BY <1>0, <1>1 DEF Strays, Live, Empty, Places
<1>6. Installs'
  BY <1>0, <1>1, <1>2 DEF Installs, Live, Empty, Places, IsCurrent
<1>7. Approvals'
  BY <1>0, <1>1, <1>2 DEF Approvals, ApprovedHasItsDecision, IsCurrent, Live
<1> QED BY <1>3, <1>4, <1>5, <1>6, <1>7 DEF RaceInv

(* Cognition is entered only for a round that is current.                  *)
LEMMA ThinkKeeps == RaceInv /\ Think => RaceInv'
<1> SUFFICES ASSUME RaceInv, Think PROVE RaceInv'
  OBVIOUS
<1> USE DEF None
<1>0. WellFormed /\ LocalsInOrder /\ Strays /\ Installs /\ Approvals
  BY DEF RaceInv
<1>1. turns' = turns /\ current' = current /\ user' = user /\ lock' = lock
  BY DEF Think
<1>2. loop.pc = "think" /\ loop' \in LoopLocals
      /\ loop'.mine = loop.mine /\ loop'.seen = loop.seen
      /\ loop'.pc \in {"decide", "idle"}
  <2>1. loop \in LoopLocals
    BY <1>0 DEF WellFormed
  <2> QED
    BY <2>1, <1>0 DEF Think, LoopAt, LoopLocals, LoopPlaces
<1>3. WellFormed'
  BY <1>0, <1>1, <1>2 DEF WellFormed, LoopLocals
<1>4. LocalsInOrder'
  BY <1>0, <1>1, <1>2 DEF LocalsInOrder, WellFormed, LoopLocals, Writing, IsCurrent
<1>5. Strays'
  BY <1>0, <1>1 DEF Strays, Live, Empty, Places
<1>6. Installs'
  BY <1>0, <1>1, <1>2 DEF Installs, Live, Empty, Places, IsCurrent
<1>7. Approvals'
  BY <1>0, <1>1, <1>2 DEF Approvals, ApprovedHasItsDecision, IsCurrent, Live
<1> QED BY <1>3, <1>4, <1>5, <1>6, <1>7 DEF RaceInv

(* decide() reads the current turn; it need not be its own.                *)
LEMMA DecideEnterKeeps == RaceInv /\ DecideEnter => RaceInv'
<1> SUFFICES ASSUME RaceInv, DecideEnter PROVE RaceInv'
  OBVIOUS
<1> USE DEF None
<1>0. WellFormed /\ LocalsInOrder /\ Strays /\ Installs /\ Approvals
  BY DEF RaceInv
<1>1. turns' = turns /\ current' = current /\ user' = user /\ lock' = lock
  BY DEF DecideEnter
<1>2. loop.pc = "decide" /\ loop' \in LoopLocals
      /\ loop'.mine = loop.mine
      /\ loop'.seen = current
      /\ loop'.pc \in {"reject", "start"}
  <2>1. loop \in LoopLocals
    BY <1>0 DEF WellFormed
  <2>2. current \in Nat
    BY <1>0 DEF WellFormed
  <2> QED
    BY <2>1, <2>2 DEF DecideEnter, LoopLocals, LoopPlaces
<1>3. WellFormed'
  BY <1>0, <1>1, <1>2 DEF WellFormed, LoopLocals
<1>4. LocalsInOrder'
  BY <1>0, <1>1, <1>2 DEF LocalsInOrder, WellFormed, LoopLocals, Writing, IsCurrent
<1>5. Strays'
  BY <1>0, <1>1 DEF Strays, Live, Empty, Places
<1>6. Installs'
  BY <1>0, <1>1, <1>2 DEF Installs, Live, Empty, Places, IsCurrent
<1>7. Approvals'
  BY <1>0, <1>1, <1>2 DEF Approvals, ApprovedHasItsDecision, IsCurrent, Live
<1> QED BY <1>3, <1>4, <1>5, <1>6, <1>7 DEF RaceInv

(* What passes the check of decide() had read its own turn.                *)
LEMMA DecideRejectKeeps == RaceInv /\ DecideReject => RaceInv'
<1> SUFFICES ASSUME RaceInv, DecideReject PROVE RaceInv'
  OBVIOUS
<1> USE DEF None
<1>0. WellFormed /\ LocalsInOrder /\ Strays /\ Installs /\ Approvals
  BY DEF RaceInv
<1>1. turns' = turns /\ current' = current /\ user' = user /\ lock' = lock
  BY DEF DecideReject
<1>2. loop.pc = "reject" /\ loop' \in LoopLocals
      /\ loop'.mine = loop.mine /\ loop'.seen = loop.seen
      /\ loop'.pc = IF IsCurrent(loop.mine) THEN "commit" ELSE "gate"
  <2>1. loop \in LoopLocals
    BY <1>0 DEF WellFormed
  <2> QED
    BY <2>1, <1>0 DEF DecideReject, LoopAt, LoopLocals, LoopPlaces
<1>3. WellFormed'
  BY <1>0, <1>1, <1>2 DEF WellFormed, LoopLocals
<1>4. LocalsInOrder'
  BY <1>0, <1>1, <1>2 DEF LocalsInOrder, WellFormed, LoopLocals, Writing, IsCurrent
<1>5. Strays'
  BY <1>0, <1>1 DEF Strays, Live, Empty, Places
<1>6. Installs'
  BY <1>0, <1>1, <1>2 DEF Installs, Live, Empty, Places, IsCurrent
<1>7. Approvals'
  BY <1>0, <1>1, <1>2 DEF Approvals, ApprovedHasItsDecision, IsCurrent, Live
<1> QED BY <1>3, <1>4, <1>5, <1>6, <1>7 DEF RaceInv

(* The check before the commit: the round is current here, at least.       *)
LEMMA CommitCheckKeeps == \A plan \in {"none", "ready"} : RaceInv /\ CommitCheck(plan) => RaceInv'
<1> SUFFICES ASSUME NEW plan \in {"none", "ready"}, RaceInv, CommitCheck(plan) PROVE RaceInv'
  OBVIOUS
<1> USE DEF None
<1>0. WellFormed /\ LocalsInOrder /\ Strays /\ Installs /\ Approvals
  BY DEF RaceInv
<1>1. turns' = turns /\ current' = current /\ user' = user /\ lock' = lock
  BY DEF CommitCheck
<1>2. loop.pc = "commit" /\ loop' \in LoopLocals
      /\ loop'.mine = loop.mine /\ loop'.seen = loop.seen
      /\ loop'.pc = IF IsCurrent(loop.mine) THEN "append" ELSE "gate"
  <2>1. loop \in LoopLocals
    BY <1>0 DEF WellFormed
  <2> QED
    BY <2>1, <1>0 DEF CommitCheck, LoopAt, LoopLocals, LoopPlaces
<1>3. WellFormed'
  BY <1>0, <1>1, <1>2 DEF WellFormed, LoopLocals
<1>4. LocalsInOrder'
  BY <1>0, <1>1, <1>2 DEF LocalsInOrder, WellFormed, LoopLocals, Writing, IsCurrent
<1>5. Strays'
  BY <1>0, <1>1 DEF Strays, Live, Empty, Places
<1>6. Installs'
  BY <1>0, <1>1, <1>2 DEF Installs, Live, Empty, Places, IsCurrent
<1>7. Approvals'
  BY <1>0, <1>1, <1>2 DEF Approvals, ApprovedHasItsDecision, IsCurrent, Live
<1> QED BY <1>3, <1>4, <1>5, <1>6, <1>7 DEF RaceInv

(* The check of the gate.                                                  *)
LEMMA GateCheckKeeps == \A result \in {"reply", "actions", "nothing"} : RaceInv /\ GateCheck(result) => RaceInv'
<1> SUFFICES ASSUME NEW result \in {"reply", "actions", "nothing"}, RaceInv, GateCheck(result) PROVE RaceInv'
  OBVIOUS
<1> USE DEF None
<1>0. WellFormed /\ LocalsInOrder /\ Strays /\ Installs /\ Approvals
  BY DEF RaceInv
<1>1. turns' = turns /\ current' = current /\ user' = user /\ lock' = lock
  BY DEF GateCheck
<1>2. loop.pc = "gate" /\ loop' \in LoopLocals
      /\ loop'.mine = loop.mine /\ loop'.seen = loop.seen
      /\ loop'.pc \in {"idle", "gateplan", "check"}
  <2>1. loop \in LoopLocals
    BY <1>0 DEF WellFormed
  <2> QED
    BY <2>1, <1>0 DEF GateCheck, LoopAt, LoopLocals, LoopPlaces
<1>3. WellFormed'
  BY <1>0, <1>1, <1>2 DEF WellFormed, LoopLocals
<1>4. LocalsInOrder'
  BY <1>0, <1>1, <1>2 DEF LocalsInOrder, WellFormed, LoopLocals, Writing, IsCurrent
<1>5. Strays'
  BY <1>0, <1>1 DEF Strays, Live, Empty, Places
<1>6. Installs'
  BY <1>0, <1>1, <1>2 DEF Installs, Live, Empty, Places, IsCurrent
<1>7. Approvals'
  BY <1>0, <1>1, <1>2 DEF Approvals, ApprovedHasItsDecision, IsCurrent, Live
<1> QED BY <1>3, <1>4, <1>5, <1>6, <1>7 DEF RaceInv

(* The check before the dispatch.                                          *)
LEMMA LastCheckKeeps == RaceInv /\ LastCheck => RaceInv'
<1> SUFFICES ASSUME RaceInv, LastCheck PROVE RaceInv'
  OBVIOUS
<1> USE DEF None
<1>0. WellFormed /\ LocalsInOrder /\ Strays /\ Installs /\ Approvals
  BY DEF RaceInv
<1>1. turns' = turns /\ current' = current /\ user' = user /\ lock' = lock
  BY DEF LastCheck
<1>2. loop.pc = "check" /\ loop' \in LoopLocals
      /\ loop'.mine = loop.mine /\ loop'.seen = loop.seen
      /\ loop'.pc \in {"dispatch", "idle"}
  <2>1. loop \in LoopLocals
    BY <1>0 DEF WellFormed
  <2> QED
    BY <2>1, <1>0 DEF LastCheck, LoopAt, LoopLocals, LoopPlaces
<1>3. WellFormed'
  BY <1>0, <1>1, <1>2 DEF WellFormed, LoopLocals
<1>4. LocalsInOrder'
  BY <1>0, <1>1, <1>2 DEF LocalsInOrder, WellFormed, LoopLocals, Writing, IsCurrent
<1>5. Strays'
  BY <1>0, <1>1 DEF Strays, Live, Empty, Places
<1>6. Installs'
  BY <1>0, <1>1, <1>2 DEF Installs, Live, Empty, Places, IsCurrent
<1>7. Approvals'
  BY <1>0, <1>1, <1>2 DEF Approvals, ApprovedHasItsDecision, IsCurrent, Live
<1> QED BY <1>3, <1>4, <1>5, <1>6, <1>7 DEF RaceInv

(* The dispatch writes to no turn.                                         *)
LEMMA DispatchKeeps == RaceInv /\ Dispatch => RaceInv'
<1> SUFFICES ASSUME RaceInv, Dispatch PROVE RaceInv'
  OBVIOUS
<1> USE DEF None
<1>0. WellFormed /\ LocalsInOrder /\ Strays /\ Installs /\ Approvals
  BY DEF RaceInv
<1>1. turns' = turns /\ current' = current /\ user' = user /\ lock' = lock
  BY DEF Dispatch
<1>2. loop.pc = "dispatch" /\ loop' \in LoopLocals
      /\ loop'.mine = loop.mine /\ loop'.seen = loop.seen
      /\ loop'.pc = "idle"
  <2>1. loop \in LoopLocals
    BY <1>0 DEF WellFormed
  <2> QED
    BY <2>1, <1>0 DEF Dispatch, LoopAt, LoopLocals, LoopPlaces
<1>3. WellFormed'
  BY <1>0, <1>1, <1>2 DEF WellFormed, LoopLocals
<1>4. LocalsInOrder'
  BY <1>0, <1>1, <1>2 DEF LocalsInOrder, WellFormed, LoopLocals, Writing, IsCurrent
<1>5. Strays'
  BY <1>0, <1>1 DEF Strays, Live, Empty, Places
<1>6. Installs'
  BY <1>0, <1>1, <1>2 DEF Installs, Live, Empty, Places, IsCurrent
<1>7. Approvals'
  BY <1>0, <1>1, <1>2 DEF Approvals, ApprovedHasItsDecision, IsCurrent, Live
<1> QED BY <1>3, <1>4, <1>5, <1>6, <1>7 DEF RaceInv

(* The loop's writes to a turn; each lands on a turn that is known.        *)
LEMMA CommitAppendKeeps == RaceInv /\ CommitAppend => RaceInv'
<1> SUFFICES ASSUME RaceInv, CommitAppend PROVE RaceInv'
  OBVIOUS
<1> USE DEF None
<1>0. WellFormed /\ LocalsInOrder /\ Strays /\ Installs /\ Approvals
  BY DEF RaceInv
<1>1. current' = current /\ user' = user /\ lock' = lock
  BY DEF CommitAppend
<1>2. loop.pc = "append" /\ loop' \in LoopLocals
      /\ loop'.mine = loop.mine /\ loop'.seen = loop.seen
      /\ loop'.pc = "plan"
  <2>1. loop \in LoopLocals
    BY <1>0 DEF WellFormed
  <2> QED
    BY <2>1 DEF CommitAppend, LoopAt, LoopLocals, LoopPlaces
<1> DEFINE at == current
           r == [turns[at] EXCEPT !.decisions = turns[current].decisions \cup {loop.mine}]
<1>3. at \in Places /\ Places = 1..Len(turns) /\ Len(turns) \in Nat /\ turns[at] \in AnyTurn
  <2>1. current \in Places /\ turns \in Seq(AnyTurn) /\ Len(turns) \in Nat
    BY <1>0, <1>2 DEF LocalsInOrder, WellFormed, Places
  <2> QED
    BY <2>1 DEF Places
<1>4. r \in AnyTurn
  BY <1>0, <1>3 DEF AnyTurn, WellFormed, LoopLocals, Verdict
<1>5. turns' = [turns EXCEPT ![at] = r]
  BY DEF CommitAppend
<1>6. /\ turns' \in Seq(AnyTurn) /\ Len(turns') = Len(turns) /\ turns'[at] = r
      /\ \A t \in Places : t # at => turns'[t] = turns[t]
  <2> HIDE DEF r, at
  <2>1. turns \in Seq(AnyTurn)
    BY <1>0 DEF WellFormed
  <2> QED
    BY <1>3, <1>4, <1>5, <2>1, WriteIs
<1>7. /\ turns'[at].decisions = turns[current].decisions \cup {loop.mine}
      /\ turns'[at].state = turns[at].state /\ turns'[at].cancelled = turns[at].cancelled
      /\ turns'[at].why = turns[at].why /\ turns'[at].plan = turns[at].plan /\ turns'[at].verdict = turns[at].verdict
  BY <1>3, <1>6 DEF AnyTurn
<1> HIDE DEF r
<1>8. Places' = Places
  BY <1>6 DEF Places
<1>9. WellFormed'
  BY <1>0, <1>1, <1>2, <1>6 DEF WellFormed, LoopLocals
<1>10. LocalsInOrder'
  BY <1>0, <1>1, <1>2, <1>3, <1>6, <1>7 DEF LocalsInOrder, WellFormed, LoopLocals, Writing
<1>11. Strays'
  BY <1>0, <1>1, <1>2, <1>3, <1>6, <1>7, <1>8, SMTT(30)
     DEF Strays, Live, Empty, LocalsInOrder, Installs, Writing, WellFormed, LoopLocals
<1>12. Installs'
  BY <1>0, <1>1, <1>2, <1>3, <1>6, <1>7, <1>8
     DEF Installs, Live, Empty, Strays, LocalsInOrder, Writing, WellFormed, LoopLocals
<1>13. Approvals'
  <2>1. ASSUME NEW t \in Places
        PROVE  turns'[t].verdict = turns[t].verdict /\ turns[t].decisions \subseteq turns'[t].decisions
    <3>1. CASE t = at
      BY <1>7, <3>1
    <3>2. CASE t # at
      BY <1>6, <3>2
    <3> QED
      BY <3>1, <3>2
  <2>2. ApprovedHasItsDecision'
    BY <1>0, <1>6, <2>1 DEF Approvals, ApprovedHasItsDecision, Places
  <2>3. current = loop.mine => loop.mine \in turns'[loop.mine].decisions
    BY <1>7
  <2> QED
    BY <1>1, <1>2, <2>2, <2>3 DEF Approvals, IsCurrent
<1> QED BY <1>9, <1>10, <1>11, <1>12, <1>13 DEF RaceInv

(* A plan may land on the round an interrupt has started, never elsewhere. *)
LEMMA CommitPlanKeeps == RaceInv /\ CommitPlan => RaceInv'
<1> SUFFICES ASSUME RaceInv, CommitPlan PROVE RaceInv'
  OBVIOUS
<1> USE DEF None
<1>0. WellFormed /\ LocalsInOrder /\ Strays /\ Installs /\ Approvals
  BY DEF RaceInv
<1>1. current' = current /\ user' = user /\ lock' = lock
  BY DEF CommitPlan
<1>2. loop.pc = "plan" /\ loop' \in LoopLocals
      /\ loop'.mine = loop.mine /\ loop'.seen = loop.seen
      /\ loop'.pc = "alias"
  <2>1. loop \in LoopLocals
    BY <1>0 DEF WellFormed
  <2> QED
    BY <2>1 DEF CommitPlan, LoopAt, LoopLocals, LoopPlaces
<1> DEFINE at == current
           r == [turns[at] EXCEPT !.plan = loop.plan]
<1>3. at \in Places /\ Places = 1..Len(turns) /\ Len(turns) \in Nat /\ turns[at] \in AnyTurn
  <2>1. current \in Places /\ turns \in Seq(AnyTurn) /\ Len(turns) \in Nat
    BY <1>0, <1>2 DEF LocalsInOrder, WellFormed, Places
  <2> QED
    BY <2>1 DEF Places
<1>4. r \in AnyTurn
  BY <1>0, <1>3 DEF AnyTurn, WellFormed, LoopLocals, Verdict
<1>5. turns' = [turns EXCEPT ![at] = r]
  BY DEF CommitPlan
<1>6. /\ turns' \in Seq(AnyTurn) /\ Len(turns') = Len(turns) /\ turns'[at] = r
      /\ \A t \in Places : t # at => turns'[t] = turns[t]
  <2> HIDE DEF r, at
  <2>1. turns \in Seq(AnyTurn)
    BY <1>0 DEF WellFormed
  <2> QED
    BY <1>3, <1>4, <1>5, <2>1, WriteIs
<1>7. /\ turns'[at].plan = loop.plan
      /\ turns'[at].state = turns[at].state /\ turns'[at].cancelled = turns[at].cancelled
      /\ turns'[at].why = turns[at].why /\ turns'[at].decisions = turns[at].decisions /\ turns'[at].verdict = turns[at].verdict
  BY <1>3, <1>6 DEF AnyTurn
<1> HIDE DEF r
<1>8. Places' = Places
  BY <1>6 DEF Places
<1>9. WellFormed'
  BY <1>0, <1>1, <1>2, <1>6 DEF WellFormed, LoopLocals
<1>10. LocalsInOrder'
  BY <1>0, <1>1, <1>2, <1>3, <1>6, <1>7 DEF LocalsInOrder, WellFormed, LoopLocals, Writing
<1>11. Strays'
  BY <1>0, <1>1, <1>2, <1>3, <1>6, <1>7, <1>8
     DEF Strays, Live, Empty, LocalsInOrder, Installs, Writing, WellFormed, LoopLocals
<1>12. Installs'
  BY <1>0, <1>1, <1>2, <1>3, <1>6, <1>7, <1>8
     DEF Installs, Live, Empty, Strays, LocalsInOrder, Writing, WellFormed, LoopLocals
<1>13. Approvals'
  BY <1>0, <1>1, <1>2, <1>3, <1>6, <1>7, <1>8
     DEF Approvals, ApprovedHasItsDecision, IsCurrent, Live, LocalsInOrder, Installs, Writing,
         WellFormed, LoopLocals, Places, Verdict
<1> QED BY <1>9, <1>10, <1>11, <1>12, <1>13 DEF RaceInv

(* decide()'s own write of the plan is on its own turn.                    *)
LEMMA DecidePlanKeeps == RaceInv /\ DecidePlan => RaceInv'
<1> SUFFICES ASSUME RaceInv, DecidePlan PROVE RaceInv'
  OBVIOUS
<1> USE DEF None
<1>0. WellFormed /\ LocalsInOrder /\ Strays /\ Installs /\ Approvals
  BY DEF RaceInv
<1>1. current' = current /\ user' = user /\ lock' = lock
  BY DEF DecidePlan
<1>2. loop.pc = "alias" /\ loop' \in LoopLocals
      /\ loop'.mine = loop.mine /\ loop'.seen = loop.seen
      /\ loop'.pc = "verdict"
  <2>1. loop \in LoopLocals
    BY <1>0 DEF WellFormed
  <2> QED
    BY <2>1 DEF DecidePlan, LoopAt, LoopLocals, LoopPlaces
<1> DEFINE at == loop.seen
           r == [turns[at] EXCEPT !.plan = loop.plan]
<1>3. at \in Places /\ Places = 1..Len(turns) /\ Len(turns) \in Nat /\ turns[at] \in AnyTurn
  <2>1. loop.seen \in Places /\ turns \in Seq(AnyTurn) /\ Len(turns) \in Nat
    BY <1>0, <1>2 DEF LocalsInOrder, WellFormed, LoopLocals, Places, Writing
  <2> QED
    BY <2>1 DEF Places
<1>4. r \in AnyTurn
  BY <1>0, <1>3 DEF AnyTurn, WellFormed, LoopLocals, Verdict
<1>5. turns' = [turns EXCEPT ![at] = r]
  BY DEF DecidePlan
<1>6. /\ turns' \in Seq(AnyTurn) /\ Len(turns') = Len(turns) /\ turns'[at] = r
      /\ \A t \in Places : t # at => turns'[t] = turns[t]
  <2> HIDE DEF r, at
  <2>1. turns \in Seq(AnyTurn)
    BY <1>0 DEF WellFormed
  <2> QED
    BY <1>3, <1>4, <1>5, <2>1, WriteIs
<1>7. /\ turns'[at].plan = loop.plan
      /\ turns'[at].state = turns[at].state /\ turns'[at].cancelled = turns[at].cancelled
      /\ turns'[at].why = turns[at].why /\ turns'[at].decisions = turns[at].decisions /\ turns'[at].verdict = turns[at].verdict
  BY <1>3, <1>6 DEF AnyTurn
<1> HIDE DEF r
<1>8. Places' = Places
  BY <1>6 DEF Places
<1>9. WellFormed'
  BY <1>0, <1>1, <1>2, <1>6 DEF WellFormed, LoopLocals
<1>10. LocalsInOrder'
  BY <1>0, <1>1, <1>2, <1>3, <1>6, <1>7 DEF LocalsInOrder, WellFormed, LoopLocals, Writing
<1>11. Strays'
  BY <1>0, <1>1, <1>2, <1>3, <1>6, <1>7, <1>8
     DEF Strays, Live, Empty, LocalsInOrder, Installs, Writing, WellFormed, LoopLocals
<1>12. Installs'
  BY <1>0, <1>1, <1>2, <1>3, <1>6, <1>7, <1>8
     DEF Installs, Live, Empty, Strays, LocalsInOrder, Writing, WellFormed, LoopLocals
<1>13. Approvals'
  <2>1. \A t \in Places : /\ turns'[t].verdict = turns[t].verdict
                          /\ turns'[t].decisions = turns[t].decisions
                          /\ Live(t)' <=> Live(t)
    BY <1>3, <1>6, <1>7 DEF Live
  <2>2. loop.mine \in Places
    BY <1>0, <1>2 DEF LocalsInOrder, WellFormed, LoopLocals, Places
  <2> QED
    BY <1>0, <1>1, <1>2, <1>8, <2>1, <2>2
       DEF Approvals, ApprovedHasItsDecision, IsCurrent, Places
<1> QED BY <1>9, <1>10, <1>11, <1>12, <1>13 DEF RaceInv

(* An approval is given to a current round, which holds its decision.      *)
LEMMA DecideVerdictKeeps == RaceInv /\ DecideVerdict => RaceInv'
<1> SUFFICES ASSUME RaceInv, DecideVerdict PROVE RaceInv'
  OBVIOUS
<1> USE DEF None
<1>0. WellFormed /\ LocalsInOrder /\ Strays /\ Installs /\ Approvals
  BY DEF RaceInv
<1>1. current' = current /\ user' = user /\ lock' = lock
  BY DEF DecideVerdict
<1>2. loop.pc = "verdict" /\ loop' \in LoopLocals
      /\ loop'.mine = loop.mine /\ loop'.seen = loop.seen
      /\ loop'.pc = "gate"
  <2>1. loop \in LoopLocals
    BY <1>0 DEF WellFormed
  <2> QED
    BY <2>1 DEF DecideVerdict, LoopAt, LoopLocals, LoopPlaces
<1> DEFINE at == loop.seen
           r == [turns[at] EXCEPT !.verdict = Verdict(loop.seen)]
<1>3. at \in Places /\ Places = 1..Len(turns) /\ Len(turns) \in Nat /\ turns[at] \in AnyTurn
  <2>1. loop.seen \in Places /\ turns \in Seq(AnyTurn) /\ Len(turns) \in Nat
    BY <1>0, <1>2 DEF LocalsInOrder, WellFormed, LoopLocals, Places, Writing
  <2> QED
    BY <2>1 DEF Places
<1>4. r \in AnyTurn
  BY <1>0, <1>3 DEF AnyTurn, WellFormed, LoopLocals, Verdict
<1>5. turns' = [turns EXCEPT ![at] = r]
  BY DEF DecideVerdict
<1>6. /\ turns' \in Seq(AnyTurn) /\ Len(turns') = Len(turns) /\ turns'[at] = r
      /\ \A t \in Places : t # at => turns'[t] = turns[t]
  <2> HIDE DEF r, at
  <2>1. turns \in Seq(AnyTurn)
    BY <1>0 DEF WellFormed
  <2> QED
    BY <1>3, <1>4, <1>5, <2>1, WriteIs
<1>7. /\ turns'[at].verdict = Verdict(loop.seen)
      /\ turns'[at].state = turns[at].state /\ turns'[at].cancelled = turns[at].cancelled
      /\ turns'[at].why = turns[at].why /\ turns'[at].decisions = turns[at].decisions /\ turns'[at].plan = turns[at].plan
  BY <1>3, <1>6 DEF AnyTurn
<1> HIDE DEF r
<1>8. Places' = Places
  BY <1>6 DEF Places
<1>9. WellFormed'
  BY <1>0, <1>1, <1>2, <1>6 DEF WellFormed, LoopLocals
<1>10. LocalsInOrder'
  BY <1>0, <1>1, <1>2, <1>3, <1>6, <1>7 DEF LocalsInOrder, WellFormed, LoopLocals, Writing
<1>11. Strays'
  BY <1>0, <1>1, <1>2, <1>3, <1>6, <1>7, <1>8
     DEF Strays, Live, Empty, LocalsInOrder, Installs, Writing, WellFormed, LoopLocals
<1>12. Installs'
  BY <1>0, <1>1, <1>2, <1>3, <1>6, <1>7, <1>8
     DEF Installs, Live, Empty, Strays, LocalsInOrder, Writing, WellFormed, LoopLocals
<1>13. Approvals'
  BY <1>0, <1>1, <1>2, <1>3, <1>6, <1>7, <1>8
     DEF Approvals, ApprovedHasItsDecision, IsCurrent, Live, LocalsInOrder, Installs, Writing,
         WellFormed, LoopLocals, Places, Verdict
<1> QED BY <1>9, <1>10, <1>11, <1>12, <1>13 DEF RaceInv

(* The reply's plan is on the loop's own turn.                             *)
LEMMA GatePlanKeeps == RaceInv /\ GatePlan => RaceInv'
<1> SUFFICES ASSUME RaceInv, GatePlan PROVE RaceInv'
  OBVIOUS
<1> USE DEF None
<1>0. WellFormed /\ LocalsInOrder /\ Strays /\ Installs /\ Approvals
  BY DEF RaceInv
<1>1. current' = current /\ user' = user /\ lock' = lock
  BY DEF GatePlan
<1>2. loop.pc = "gateplan" /\ loop' \in LoopLocals
      /\ loop'.mine = loop.mine /\ loop'.seen = loop.seen
      /\ loop'.pc = "arbiter"
  <2>1. loop \in LoopLocals
    BY <1>0 DEF WellFormed
  <2> QED
    BY <2>1 DEF GatePlan, LoopAt, LoopLocals, LoopPlaces
<1> DEFINE at == loop.mine
           r == [turns[at] EXCEPT !.plan = "ready"]
<1>3. at \in Places /\ Places = 1..Len(turns) /\ Len(turns) \in Nat /\ turns[at] \in AnyTurn
  <2>1. loop.mine \in Places /\ turns \in Seq(AnyTurn) /\ Len(turns) \in Nat
    BY <1>0, <1>2 DEF LocalsInOrder, WellFormed, LoopLocals, Places, Writing
  <2> QED
    BY <2>1 DEF Places
<1>4. r \in AnyTurn
  BY <1>0, <1>3 DEF AnyTurn, WellFormed, LoopLocals, Verdict
<1>5. turns' = [turns EXCEPT ![at] = r]
  BY DEF GatePlan
<1>6. /\ turns' \in Seq(AnyTurn) /\ Len(turns') = Len(turns) /\ turns'[at] = r
      /\ \A t \in Places : t # at => turns'[t] = turns[t]
  <2> HIDE DEF r, at
  <2>1. turns \in Seq(AnyTurn)
    BY <1>0 DEF WellFormed
  <2> QED
    BY <1>3, <1>4, <1>5, <2>1, WriteIs
<1>7. /\ turns'[at].plan = "ready"
      /\ turns'[at].state = turns[at].state /\ turns'[at].cancelled = turns[at].cancelled
      /\ turns'[at].why = turns[at].why /\ turns'[at].decisions = turns[at].decisions /\ turns'[at].verdict = turns[at].verdict
  BY <1>3, <1>6 DEF AnyTurn
<1> HIDE DEF r
<1>8. Places' = Places
  BY <1>6 DEF Places
<1>9. WellFormed'
  BY <1>0, <1>1, <1>2, <1>6 DEF WellFormed, LoopLocals
<1>10. LocalsInOrder'
  BY <1>0, <1>1, <1>2, <1>3, <1>6, <1>7 DEF LocalsInOrder, WellFormed, LoopLocals, Writing
<1>11. Strays'
  BY <1>0, <1>1, <1>2, <1>3, <1>6, <1>7, <1>8
     DEF Strays, Live, Empty, LocalsInOrder, Installs, Writing, WellFormed, LoopLocals
<1>12. Installs'
  BY <1>0, <1>1, <1>2, <1>3, <1>6, <1>7, <1>8, SMTT(30)
     DEF Installs, Live, Empty, Strays, LocalsInOrder, Writing, WellFormed, LoopLocals
<1>13. Approvals'
  BY <1>0, <1>1, <1>2, <1>3, <1>6, <1>7, <1>8
     DEF Approvals, ApprovedHasItsDecision, IsCurrent, Live, LocalsInOrder, Installs, Writing,
         WellFormed, LoopLocals, Places, Verdict
<1> QED BY <1>9, <1>10, <1>11, <1>12, <1>13 DEF RaceInv

(* The gate's approval is given to a round that is still current.          *)
LEMMA GateArbiterKeeps == RaceInv /\ GateArbiter => RaceInv'
<1> SUFFICES ASSUME RaceInv, GateArbiter PROVE RaceInv'
  OBVIOUS
<1> USE DEF None
<1>0. WellFormed /\ LocalsInOrder /\ Strays /\ Installs /\ Approvals
  BY DEF RaceInv
<1>1. current' = current /\ user' = user /\ lock' = lock
  BY DEF GateArbiter
<1>2. loop.pc = "arbiter" /\ loop' \in LoopLocals
      /\ loop'.mine = loop.mine /\ loop'.seen = loop.seen
      /\ loop'.pc \in {"check", "idle"}
  <2>1. loop \in LoopLocals
    BY <1>0 DEF WellFormed
  <2> QED
    BY <2>1 DEF GateArbiter, LoopAt, LoopLocals, LoopPlaces
<1> DEFINE at == loop.mine
           r == [turns[at] EXCEPT !.verdict = Verdict(loop.mine)]
<1>3. at \in Places /\ Places = 1..Len(turns) /\ Len(turns) \in Nat /\ turns[at] \in AnyTurn
  <2>1. loop.mine \in Places /\ turns \in Seq(AnyTurn) /\ Len(turns) \in Nat
    BY <1>0, <1>2 DEF LocalsInOrder, WellFormed, LoopLocals, Places, Writing
  <2> QED
    BY <2>1 DEF Places
<1>4. r \in AnyTurn
  BY <1>0, <1>3 DEF AnyTurn, WellFormed, LoopLocals, Verdict
<1>5. turns' = [turns EXCEPT ![at] = r]
  BY DEF GateArbiter
<1>6. /\ turns' \in Seq(AnyTurn) /\ Len(turns') = Len(turns) /\ turns'[at] = r
      /\ \A t \in Places : t # at => turns'[t] = turns[t]
  <2> HIDE DEF r, at
  <2>1. turns \in Seq(AnyTurn)
    BY <1>0 DEF WellFormed
  <2> QED
    BY <1>3, <1>4, <1>5, <2>1, WriteIs
<1>7. /\ turns'[at].verdict = Verdict(loop.mine)
      /\ turns'[at].state = turns[at].state /\ turns'[at].cancelled = turns[at].cancelled
      /\ turns'[at].why = turns[at].why /\ turns'[at].decisions = turns[at].decisions /\ turns'[at].plan = turns[at].plan
  BY <1>3, <1>6 DEF AnyTurn
<1> HIDE DEF r
<1>8. Places' = Places
  BY <1>6 DEF Places
<1>9. WellFormed'
  BY <1>0, <1>1, <1>2, <1>6 DEF WellFormed, LoopLocals
<1>10. LocalsInOrder'
  BY <1>0, <1>1, <1>2, <1>3, <1>6, <1>7 DEF LocalsInOrder, WellFormed, LoopLocals, Writing
<1>11. Strays'
  BY <1>0, <1>1, <1>2, <1>3, <1>6, <1>7, <1>8
     DEF Strays, Live, Empty, LocalsInOrder, Installs, Writing, WellFormed, LoopLocals
<1>12. Installs'
  <2>1. \A t \in Places : /\ turns'[t].why = turns[t].why
                          /\ Empty(t)' <=> Empty(t)
                          /\ Live(t)' <=> Live(t)
    BY <1>3, <1>6, <1>7 DEF Live, Empty
  <2>2. current # None => current \in Places
    BY <1>0 DEF WellFormed, Places
  <2> QED
    BY <1>0, <1>1, <1>2, <1>8, <2>1, <2>2 DEF Installs
<1>13. Approvals'
  BY <1>0, <1>1, <1>2, <1>3, <1>6, <1>7, <1>8, ZenonT(30)
     DEF Approvals, ApprovedHasItsDecision, IsCurrent, Live, LocalsInOrder, Installs, Writing,
         WellFormed, LoopLocals, Places, Verdict
<1> QED BY <1>9, <1>10, <1>11, <1>12, <1>13 DEF RaceInv

(* The two halves of a start_round, of decide() and of an interrupt.       *)
LEMMA DecideStartKeeps == RaceInv /\ DecideStart => RaceInv'
<1> SUFFICES ASSUME RaceInv, DecideStart PROVE RaceInv'
  OBVIOUS
<1> USE DEF None
<1>0. WellFormed /\ LocalsInOrder /\ Strays /\ Installs /\ Approvals
  BY DEF RaceInv
<1>1. turns' = Started("decide") /\ current' = current /\ user' = user /\ lock' = lock
  BY DEF DecideStart
<1>2. loop.pc = "start" /\ loop' \in LoopLocals /\ loop'.mine = loop.mine
      /\ loop'.seen = Len(turns) + 1 /\ loop'.pc = "install"
  <2>1. loop \in LoopLocals /\ Len(turns) + 1 \in Nat
    BY <1>0 DEF WellFormed
  <2>2. loop.pc = "start" /\ loop' = [loop EXCEPT !.pc = "install", !.seen = Len(turns) + 1]
    BY DEF DecideStart
  <2>3. "install" \in LoopPlaces
    BY DEF LoopPlaces
  <2> QED
    BY <2>1, <2>2, <2>3 DEF LoopLocals
<1>3. /\ turns' \in Seq(AnyTurn) /\ Len(turns) \in Nat /\ Len(turns') = Len(turns) + 1
      /\ turns'[Len(turns) + 1] = Fresh("decide")
      /\ \A t \in Places : t # current => turns'[t] = turns[t]
  BY <1>0, <1>1, StartedIs DEF WellFormed
<1>4. current # None =>
         /\ turns'[current].state # "active"
         /\ turns'[current].why = turns[current].why
         /\ turns'[current].decisions = turns[current].decisions
         /\ turns'[current].plan = turns[current].plan
         /\ turns'[current].verdict = turns[current].verdict
  BY <1>0, <1>1, StartedIs
<1>5. Places' = 1..(Len(turns) + 1) /\ Places = 1..Len(turns)
  BY <1>3 DEF Places
<1>6. WellFormed'
  BY <1>0, <1>1, <1>2, <1>3 DEF WellFormed, LoopLocals, UserLocals
<1>7. LocalsInOrder'
  BY <1>0, <1>1, <1>2, <1>3, <1>4, <1>5 DEF LocalsInOrder, WellFormed, LoopLocals, UserLocals, Writing, Fresh, Places
<1>8. Strays'
  BY <1>0, <1>1, <1>2, <1>3, <1>4, <1>5 DEF Strays, WellFormed, Fresh, Live, Empty
<1>9. Installs'
  BY <1>0, <1>1, <1>2, <1>3, <1>4, <1>5, SMTT(30)
     DEF Installs, Live, Empty, Fresh, LocalsInOrder, Writing, WellFormed, LoopLocals, UserLocals
<1>10. Approvals'
  <2>1. \A t \in Places : /\ turns'[t].verdict = turns[t].verdict
                          /\ turns'[t].decisions = turns[t].decisions
                          /\ Live(t)' => Live(t)
    <3> SUFFICES ASSUME NEW t \in Places
                 PROVE  /\ turns'[t].verdict = turns[t].verdict
                        /\ turns'[t].decisions = turns[t].decisions
                        /\ Live(t)' => Live(t)
      OBVIOUS
    <3>1. CASE t = current
      BY <1>4, <1>5, <3>1 DEF Live
    <3>2. CASE t # current
      BY <1>3, <3>2 DEF Live
    <3> QED BY <3>1, <3>2
  <2>2. turns'[Len(turns) + 1].verdict = "none"
    BY <1>3 DEF Fresh
  <2>3. loop.mine # None => loop.mine \in Places
    BY <1>0, <1>5 DEF WellFormed, LoopLocals
  <2>4. ApprovedHasItsDecision'
    BY <1>0, <1>3, <1>5, <2>1, <2>2 DEF Approvals, ApprovedHasItsDecision
  <2> QED
    BY <1>0, <1>1, <1>2, <2>1, <2>3, <2>4 DEF Approvals, IsCurrent, LocalsInOrder
<1> QED BY <1>6, <1>7, <1>8, <1>9, <1>10 DEF RaceInv

(* The round an interrupt starts; what it closes is no longer written to.  *)
LEMMA NewTurnKeeps == RaceInv /\ NewTurn => RaceInv'
<1> SUFFICES ASSUME RaceInv, NewTurn PROVE RaceInv'
  OBVIOUS
<1> USE DEF None
<1>0. WellFormed /\ LocalsInOrder /\ Strays /\ Installs /\ Approvals
  BY DEF RaceInv
<1>1. turns' = Started("interrupt") /\ current' = current /\ loop' = loop /\ lock' = lock
  BY DEF NewTurn
<1>2. user.pc = "start" /\ user' \in UserLocals /\ user'.old = user.old
      /\ user'.new = Len(turns) + 1 /\ user'.pc = "install"
  <2>1. user \in UserLocals /\ Len(turns) + 1 \in Nat
    BY <1>0 DEF WellFormed
  <2>2. user.pc = "start" /\ user' = [user EXCEPT !.pc = "install", !.new = Len(turns) + 1]
    BY DEF NewTurn
  <2>3. "install" \in UserPlaces
    BY DEF UserPlaces
  <2> QED
    BY <2>1, <2>2, <2>3 DEF UserLocals
<1>3. /\ turns' \in Seq(AnyTurn) /\ Len(turns) \in Nat /\ Len(turns') = Len(turns) + 1
      /\ turns'[Len(turns) + 1] = Fresh("interrupt")
      /\ \A t \in Places : t # current => turns'[t] = turns[t]
  BY <1>0, <1>1, StartedIs DEF WellFormed
<1>4. current # None =>
         /\ turns'[current].state # "active"
         /\ turns'[current].why = turns[current].why
         /\ turns'[current].decisions = turns[current].decisions
         /\ turns'[current].plan = turns[current].plan
         /\ turns'[current].verdict = turns[current].verdict
  BY <1>0, <1>1, StartedIs
<1>5. Places' = 1..(Len(turns) + 1) /\ Places = 1..Len(turns)
  BY <1>3 DEF Places
<1>6. WellFormed'
  BY <1>0, <1>1, <1>2, <1>3 DEF WellFormed, LoopLocals, UserLocals
<1>7. LocalsInOrder'
  BY <1>0, <1>1, <1>2, <1>3, <1>4, <1>5, SMTT(30) DEF LocalsInOrder, WellFormed, LoopLocals, UserLocals, Writing, Fresh, Places
<1>8. Strays'
  BY <1>0, <1>1, <1>2, <1>3, <1>4, <1>5, SMTT(30) DEF Strays, WellFormed, Fresh, Live, Empty
<1>9. Installs'
  BY <1>0, <1>1, <1>2, <1>3, <1>4, <1>5, SMTT(30)
     DEF Installs, Live, Empty, Fresh, LocalsInOrder, Writing, WellFormed, LoopLocals, UserLocals
<1>10. Approvals'
  <2>1. \A t \in Places : /\ turns'[t].verdict = turns[t].verdict
                          /\ turns'[t].decisions = turns[t].decisions
                          /\ Live(t)' => Live(t)
    <3> SUFFICES ASSUME NEW t \in Places
                 PROVE  /\ turns'[t].verdict = turns[t].verdict
                        /\ turns'[t].decisions = turns[t].decisions
                        /\ Live(t)' => Live(t)
      OBVIOUS
    <3>1. CASE t = current
      BY <1>4, <1>5, <3>1 DEF Live
    <3>2. CASE t # current
      BY <1>3, <3>2 DEF Live
    <3> QED BY <3>1, <3>2
  <2>2. turns'[Len(turns) + 1].verdict = "none"
    BY <1>3 DEF Fresh
  <2>3. loop.mine # None => loop.mine \in Places
    BY <1>0, <1>5 DEF WellFormed, LoopLocals
  <2>4. ApprovedHasItsDecision'
    BY <1>0, <1>3, <1>5, <2>1, <2>2 DEF Approvals, ApprovedHasItsDecision
  <2> QED
    BY <1>0, <1>1, <1>2, <2>1, <2>3, <2>4 DEF Approvals, IsCurrent, LocalsInOrder
<1> QED BY <1>6, <1>7, <1>8, <1>9, <1>10 DEF RaceInv

(* The new round of decide() becomes current.                              *)
LEMMA DecideInstallKeeps == RaceInv /\ DecideInstall => RaceInv'
<1> SUFFICES ASSUME RaceInv, DecideInstall PROVE RaceInv'
  OBVIOUS
<1> USE DEF None
<1>0. WellFormed /\ LocalsInOrder /\ Strays /\ Installs /\ Approvals
  BY DEF RaceInv
<1>1. turns' = turns /\ current' = loop.seen /\ user' = user /\ lock' = lock
  BY DEF DecideInstall
<1>2. loop.pc = "install" /\ loop' \in LoopLocals /\ loop'.mine = loop.mine
      /\ loop'.seen = loop.seen /\ loop'.pc = "reject"
  <2>1. loop \in LoopLocals
    BY <1>0 DEF WellFormed
  <2> QED
    BY <2>1 DEF DecideInstall, LoopAt, LoopLocals, LoopPlaces
<1>3. Places' = Places /\ loop.seen \in Places /\ turns[loop.seen].why = "decide"
      /\ loop.mine \in Places /\ turns[loop.mine].why = "listening"
      /\ current \in Places
  BY <1>0, <1>1, <1>2 DEF Installs, Places, LocalsInOrder, WellFormed, LoopLocals
<1>4. WellFormed'
  BY <1>0, <1>1, <1>2, <1>3 DEF WellFormed, LoopLocals, Places
<1>5. LocalsInOrder'
  BY <1>0, <1>1, <1>2, <1>3 DEF LocalsInOrder, Writing, WellFormed, LoopLocals, Places
<1>6. Strays'
  BY <1>0, <1>1, <1>2, <1>3 DEF Strays, Live, Empty, Installs
<1>7. Installs'
  BY <1>0, <1>1, <1>2, <1>3 DEF Installs, Live, Empty, Strays
<1>8. Approvals'
  BY <1>0, <1>1, <1>2, <1>3 DEF Approvals, ApprovedHasItsDecision
<1> QED BY <1>4, <1>5, <1>6, <1>7, <1>8 DEF RaceInv

(* The interrupt's steps that write to no turn.                            *)
LEMMA AcquireKeeps == RaceInv /\ Acquire => RaceInv'
<1> SUFFICES ASSUME RaceInv, Acquire PROVE RaceInv'
  OBVIOUS
<1> USE DEF None
<1>0. WellFormed /\ LocalsInOrder /\ Strays /\ Installs /\ Approvals
  BY DEF RaceInv
<1>1. turns' = turns /\ current' = current /\ loop' = loop
  BY DEF Acquire
<1>2. user.pc = "idle" /\ user' \in UserLocals /\ user'.pc \in {"start", "mark"} /\ lock' \in {"free", "user"}
      /\ user'.old <= Len(turns) /\ user'.new <= Len(turns)
      /\ (user'.pc = "mark" => user'.old # None)
  <2>1. user \in UserLocals /\ current \in Nat /\ current <= Len(turns) /\ Len(turns) \in Nat
        /\ user.old <= Len(turns) /\ user.new <= Len(turns) /\ lock \in {"free", "user"}
    BY <1>0 DEF WellFormed
  <2> QED
    BY <2>1 DEF Acquire, UserAt, UserLocals, UserPlaces
<1>3. WellFormed'
  BY <1>0, <1>1, <1>2 DEF WellFormed, UserLocals
<1>4. LocalsInOrder'
  BY <1>0, <1>1, <1>2 DEF LocalsInOrder, Acquire, Writing
<1>5. Strays'
  BY <1>0, <1>1 DEF Strays, Live, Empty, Places
<1>6. Installs'
  BY <1>0, <1>1, <1>2 DEF Installs, Live, Empty, Places
<1>7. Approvals'
  BY <1>0, <1>1 DEF Approvals, ApprovedHasItsDecision, IsCurrent, Live
<1> QED BY <1>3, <1>4, <1>5, <1>6, <1>7 DEF RaceInv

(* The lock is given back when nothing is left half done.                  *)
LEMMA ReleaseKeeps == RaceInv /\ Release => RaceInv'
<1> SUFFICES ASSUME RaceInv, Release PROVE RaceInv'
  OBVIOUS
<1> USE DEF None
<1>0. WellFormed /\ LocalsInOrder /\ Strays /\ Installs /\ Approvals
  BY DEF RaceInv
<1>1. turns' = turns /\ current' = current /\ loop' = loop
  BY DEF Release
<1>2. user.pc = "release" /\ user' \in UserLocals /\ user'.pc \in {"stop"} /\ lock' \in {"free", "user"}
      /\ user'.old <= Len(turns) /\ user'.new <= Len(turns)
  <2>1. user \in UserLocals /\ current \in Nat /\ current <= Len(turns) /\ Len(turns) \in Nat
        /\ user.old <= Len(turns) /\ user.new <= Len(turns) /\ lock \in {"free", "user"}
    BY <1>0 DEF WellFormed
  <2> QED
    BY <2>1 DEF Release, UserAt, UserLocals, UserPlaces
<1>3. WellFormed'
  BY <1>0, <1>1, <1>2 DEF WellFormed, UserLocals
<1>4. LocalsInOrder'
  BY <1>0, <1>1, <1>2 DEF LocalsInOrder, Release, Writing
<1>5. Strays'
  BY <1>0, <1>1 DEF Strays, Live, Empty, Places
<1>6. Installs'
  BY <1>0, <1>1, <1>2 DEF Installs, Live, Empty, Places
<1>7. Approvals'
  BY <1>0, <1>1 DEF Approvals, ApprovedHasItsDecision, IsCurrent, Live
<1> QED BY <1>3, <1>4, <1>5, <1>6, <1>7 DEF RaceInv

(* The end of the call.                                                    *)
LEMMA StopSpeechKeeps == RaceInv /\ StopSpeech => RaceInv'
<1> SUFFICES ASSUME RaceInv, StopSpeech PROVE RaceInv'
  OBVIOUS
<1> USE DEF None
<1>0. WellFormed /\ LocalsInOrder /\ Strays /\ Installs /\ Approvals
  BY DEF RaceInv
<1>1. turns' = turns /\ current' = current /\ loop' = loop
  BY DEF StopSpeech
<1>2. user.pc = "stop" /\ user' \in UserLocals /\ user'.pc \in {"idle"} /\ lock' \in {"free", "user"}
      /\ user'.old <= Len(turns) /\ user'.new <= Len(turns)
  <2>1. user \in UserLocals /\ current \in Nat /\ current <= Len(turns) /\ Len(turns) \in Nat
        /\ user.old <= Len(turns) /\ user.new <= Len(turns) /\ lock \in {"free", "user"}
    BY <1>0 DEF WellFormed
  <2> QED
    BY <2>1 DEF StopSpeech, UserAt, UserLocals, UserPlaces
<1>3. WellFormed'
  BY <1>0, <1>1, <1>2 DEF WellFormed, UserLocals
<1>4. LocalsInOrder'
  BY <1>0, <1>1, <1>2 DEF LocalsInOrder, StopSpeech, Writing
<1>5. Strays'
  BY <1>0, <1>1 DEF Strays, Live, Empty, Places
<1>6. Installs'
  BY <1>0, <1>1, <1>2 DEF Installs, Live, Empty, Places
<1>7. Approvals'
  BY <1>0, <1>1 DEF Approvals, ApprovedHasItsDecision, IsCurrent, Live
<1> QED BY <1>3, <1>4, <1>5, <1>6, <1>7 DEF RaceInv

(* The interrupt's round becomes current.                                  *)
LEMMA InstallKeeps == RaceInv /\ Install => RaceInv'
<1> SUFFICES ASSUME RaceInv, Install PROVE RaceInv'
  OBVIOUS
<1> USE DEF None
<1>0. WellFormed /\ LocalsInOrder /\ Strays /\ Installs /\ Approvals
  BY DEF RaceInv
<1>1. turns' = turns /\ current' = user.new /\ loop' = loop /\ lock' = lock
  BY DEF Install
<1>2. user.pc = "install" /\ user' \in UserLocals /\ user'.old = user.old
      /\ user'.new = user.new /\ user'.pc \in {"release", "cancelplan"}
      /\ (user'.pc = "cancelplan" => user'.old # None)
  <2>1. user \in UserLocals
    BY <1>0 DEF WellFormed
  <2> QED
    BY <2>1 DEF Install, UserAt, UserLocals, UserPlaces
<1>3. /\ Places' = Places /\ user.new \in Places /\ user.new # current
      /\ turns[user.new].why = "interrupt" /\ Empty(user.new)
      /\ (loop.mine # None => turns[loop.mine].why = "listening")
  BY <1>0, <1>1, <1>2 DEF Installs, Places, LocalsInOrder
<1>4. WellFormed'
  BY <1>0, <1>1, <1>2, <1>3 DEF WellFormed, UserLocals, Places
<1>5. LocalsInOrder'
  BY <1>0, <1>1, <1>2, <1>3 DEF LocalsInOrder, Writing, WellFormed, UserLocals, Places
<1>6. Strays'
  BY <1>0, <1>1, <1>2, <1>3 DEF Strays, Live, Empty, Installs, WellFormed, Places
<1>7. Installs'
  BY <1>0, <1>1, <1>2, <1>3 DEF Installs, Live, Empty, Strays, LocalsInOrder
<1>8. Approvals'
  BY <1>0, <1>1, <1>2, <1>3 DEF Approvals, ApprovedHasItsDecision, IsCurrent, Live, LocalsInOrder
<1> QED BY <1>4, <1>5, <1>6, <1>7, <1>8 DEF RaceInv

(* The interrupt's writes to the turn it had read.                         *)
LEMMA MarkKeeps == RaceInv /\ Mark => RaceInv'
<1> SUFFICES ASSUME RaceInv, Mark PROVE RaceInv'
  OBVIOUS
<1> USE DEF None
<1>0. WellFormed /\ LocalsInOrder /\ Strays /\ Installs /\ Approvals
  BY DEF RaceInv
<1>1. current' = current /\ loop' = loop /\ lock' = lock
  BY DEF Mark
<1>2. user.pc = "mark" /\ user' \in UserLocals /\ user'.old = user.old
      /\ user'.new = user.new /\ user'.pc = "cancel"
  <2>1. user \in UserLocals
    BY <1>0 DEF WellFormed
  <2> QED
    BY <2>1 DEF Mark, UserAt, UserLocals, UserPlaces
<1> DEFINE at == user.old
           r == [turns[at] EXCEPT !.state = "interrupted"]
<1>3. at \in Places /\ Places = 1..Len(turns) /\ Len(turns) \in Nat /\ turns[at] \in AnyTurn
  <2>1. user.old \in Places /\ turns \in Seq(AnyTurn) /\ Len(turns) \in Nat
    BY <1>0, <1>2 DEF LocalsInOrder, WellFormed, UserLocals, Places
  <2> QED
    BY <2>1 DEF Places
<1>4. r \in AnyTurn
  BY <1>3 DEF AnyTurn
<1>5. turns' = [turns EXCEPT ![at] = r]
  BY DEF Mark
<1>6. /\ turns' \in Seq(AnyTurn) /\ Len(turns') = Len(turns) /\ turns'[at] = r
      /\ \A t \in Places : t # at => turns'[t] = turns[t]
  <2> HIDE DEF r, at
  <2>1. turns \in Seq(AnyTurn)
    BY <1>0 DEF WellFormed
  <2> QED
    BY <1>3, <1>4, <1>5, <2>1, WriteIs
<1>7. /\ turns'[at].state = "interrupted"
      /\ turns'[at].cancelled = turns[at].cancelled /\ turns'[at].why = turns[at].why
      /\ turns'[at].decisions = turns[at].decisions /\ turns'[at].plan = turns[at].plan /\ turns'[at].verdict = turns[at].verdict
  BY <1>3, <1>6 DEF AnyTurn
<1> HIDE DEF r
<1>8. \A t \in Places : /\ turns'[t].why = turns[t].why
                        /\ turns'[t].decisions = turns[t].decisions
                        /\ turns'[t].verdict = turns[t].verdict
                        /\ Empty(t) => Empty(t)'
                        /\ Live(t)' => Live(t)
  BY <1>3, <1>6, <1>7 DEF Empty, Live
<1>9. Places' = Places
  BY <1>6 DEF Places
<1>10. /\ (current # None => current \in Places)
       /\ (loop.mine # None => loop.mine \in Places)
       /\ loop \in LoopLocals /\ user \in UserLocals
  BY <1>0, <1>3 DEF WellFormed, LoopLocals
<1>11. WellFormed'
  BY <1>0, <1>1, <1>2, <1>6 DEF WellFormed
<1>12. LocalsInOrder'
  BY <1>0, <1>1, <1>2, <1>8, <1>10 DEF LocalsInOrder
<1>13. Strays'
  BY <1>0, <1>1, <1>8, <1>9 DEF Strays
<1>14. Installs'
  BY <1>0, <1>1, <1>2, <1>8, <1>9, <1>10 DEF Installs, LocalsInOrder
<1>15. Approvals'
  BY <1>0, <1>1, <1>8, <1>9, <1>10 DEF Approvals, ApprovedHasItsDecision, IsCurrent, Places, LocalsInOrder
<1> QED BY <1>11, <1>12, <1>13, <1>14, <1>15 DEF RaceInv

(* The token of the interrupted turn is cancelled.                         *)
LEMMA CancelTokenKeeps == RaceInv /\ CancelToken => RaceInv'
<1> SUFFICES ASSUME RaceInv, CancelToken PROVE RaceInv'
  OBVIOUS
<1> USE DEF None
<1>0. WellFormed /\ LocalsInOrder /\ Strays /\ Installs /\ Approvals
  BY DEF RaceInv
<1>1. current' = current /\ loop' = loop /\ lock' = lock
  BY DEF CancelToken
<1>2. user.pc = "cancel" /\ user' \in UserLocals /\ user'.old = user.old
      /\ user'.new = user.new /\ user'.pc = "start"
  <2>1. user \in UserLocals
    BY <1>0 DEF WellFormed
  <2> QED
    BY <2>1 DEF CancelToken, UserAt, UserLocals, UserPlaces
<1> DEFINE at == user.old
           r == [turns[at] EXCEPT !.cancelled = TRUE]
<1>3. at \in Places /\ Places = 1..Len(turns) /\ Len(turns) \in Nat /\ turns[at] \in AnyTurn
  <2>1. user.old \in Places /\ turns \in Seq(AnyTurn) /\ Len(turns) \in Nat
    BY <1>0, <1>2 DEF LocalsInOrder, WellFormed, UserLocals, Places
  <2> QED
    BY <2>1 DEF Places
<1>4. r \in AnyTurn
  BY <1>3 DEF AnyTurn
<1>5. turns' = [turns EXCEPT ![at] = r]
  BY DEF CancelToken
<1>6. /\ turns' \in Seq(AnyTurn) /\ Len(turns') = Len(turns) /\ turns'[at] = r
      /\ \A t \in Places : t # at => turns'[t] = turns[t]
  <2> HIDE DEF r, at
  <2>1. turns \in Seq(AnyTurn)
    BY <1>0 DEF WellFormed
  <2> QED
    BY <1>3, <1>4, <1>5, <2>1, WriteIs
<1>7. /\ turns'[at].cancelled = TRUE
      /\ turns'[at].state = turns[at].state /\ turns'[at].why = turns[at].why
      /\ turns'[at].decisions = turns[at].decisions /\ turns'[at].plan = turns[at].plan /\ turns'[at].verdict = turns[at].verdict
  BY <1>3, <1>6 DEF AnyTurn
<1> HIDE DEF r
<1>8. \A t \in Places : /\ turns'[t].why = turns[t].why
                        /\ turns'[t].decisions = turns[t].decisions
                        /\ turns'[t].verdict = turns[t].verdict
                        /\ Empty(t) => Empty(t)'
                        /\ Live(t)' => Live(t)
  BY <1>3, <1>6, <1>7 DEF Empty, Live
<1>9. Places' = Places
  BY <1>6 DEF Places
<1>10. /\ (current # None => current \in Places)
       /\ (loop.mine # None => loop.mine \in Places)
       /\ loop \in LoopLocals /\ user \in UserLocals
  BY <1>0, <1>3 DEF WellFormed, LoopLocals
<1>11. WellFormed'
  BY <1>0, <1>1, <1>2, <1>6 DEF WellFormed
<1>12. LocalsInOrder'
  BY <1>0, <1>1, <1>2, <1>8, <1>10 DEF LocalsInOrder
<1>13. Strays'
  BY <1>0, <1>1, <1>8, <1>9 DEF Strays
<1>14. Installs'
  BY <1>0, <1>1, <1>2, <1>8, <1>9, <1>10 DEF Installs, LocalsInOrder
<1>15. Approvals'
  BY <1>0, <1>1, <1>8, <1>9, <1>10 DEF Approvals, ApprovedHasItsDecision, IsCurrent, Places, LocalsInOrder
<1> QED BY <1>11, <1>12, <1>13, <1>14, <1>15 DEF RaceInv

(* The plan of the interrupted turn is cancelled.                          *)
LEMMA CancelPlanKeeps == RaceInv /\ CancelPlan => RaceInv'
<1> SUFFICES ASSUME RaceInv, CancelPlan PROVE RaceInv'
  OBVIOUS
<1> USE DEF None
<1>0. WellFormed /\ LocalsInOrder /\ Strays /\ Installs /\ Approvals
  BY DEF RaceInv
<1>1. current' = current /\ loop' = loop /\ lock' = lock
  BY DEF CancelPlan
<1>2. user.pc = "cancelplan" /\ user' \in UserLocals /\ user'.old = user.old
      /\ user'.new = user.new /\ user'.pc = "release"
  <2>1. user \in UserLocals
    BY <1>0 DEF WellFormed
  <2> QED
    BY <2>1 DEF CancelPlan, UserAt, UserLocals, UserPlaces
<1> DEFINE at == user.old
           r == [turns[at] EXCEPT !.plan = "cancelled"]
<1>3. at \in Places /\ Places = 1..Len(turns) /\ Len(turns) \in Nat /\ turns[at] \in AnyTurn
  <2>1. user.old \in Places /\ turns \in Seq(AnyTurn) /\ Len(turns) \in Nat
    BY <1>0, <1>2 DEF LocalsInOrder, WellFormed, UserLocals, Places
  <2> QED
    BY <2>1 DEF Places
<1>4. r \in AnyTurn
  BY <1>3 DEF AnyTurn
<1>5. turns' = [turns EXCEPT ![at] = r] \/ (turns[at].plan = "none" /\ turns' = turns)
  BY DEF CancelPlan
<1>6. /\ turns' \in Seq(AnyTurn) /\ Len(turns') = Len(turns)
      /\ \A t \in Places : t # at => turns'[t] = turns[t]
      /\ (turns'[at] = r \/ (turns[at].plan = "none" /\ turns'[at] = turns[at]))
  <2> HIDE DEF r, at
  <2>1. turns \in Seq(AnyTurn)
    BY <1>0 DEF WellFormed
  <2> QED
    BY <1>3, <1>4, <1>5, <2>1, WriteIs
<1>7. /\ (turns[at].plan = "none" => turns'[at].plan = "none")
      /\ turns'[at].state = turns[at].state /\ turns'[at].cancelled = turns[at].cancelled
      /\ turns'[at].why = turns[at].why /\ turns'[at].decisions = turns[at].decisions /\ turns'[at].verdict = turns[at].verdict
  BY <1>3, <1>6, <1>5 DEF AnyTurn, CancelPlan
<1> HIDE DEF r
<1>8. \A t \in Places : /\ turns'[t].why = turns[t].why
                        /\ turns'[t].decisions = turns[t].decisions
                        /\ turns'[t].verdict = turns[t].verdict
                        /\ Empty(t) => Empty(t)'
                        /\ Live(t)' => Live(t)
  BY <1>3, <1>6, <1>7 DEF Empty, Live
<1>9. Places' = Places
  BY <1>6 DEF Places
<1>10. /\ (current # None => current \in Places)
       /\ (loop.mine # None => loop.mine \in Places)
       /\ loop \in LoopLocals /\ user \in UserLocals
  BY <1>0, <1>3 DEF WellFormed, LoopLocals
<1>11. WellFormed'
  BY <1>0, <1>1, <1>2, <1>6 DEF WellFormed
<1>12. LocalsInOrder'
  BY <1>0, <1>1, <1>2, <1>8, <1>10 DEF LocalsInOrder
<1>13. Strays'
  BY <1>0, <1>1, <1>8, <1>9 DEF Strays
<1>14. Installs'
  BY <1>0, <1>1, <1>2, <1>8, <1>9, <1>10 DEF Installs, LocalsInOrder
<1>15. Approvals'
  BY <1>0, <1>1, <1>8, <1>9, <1>10 DEF Approvals, ApprovedHasItsDecision, IsCurrent, Places, LocalsInOrder
<1> QED BY <1>11, <1>12, <1>13, <1>14, <1>15 DEF RaceInv

-----------------------------------------------------------------------------
(* Every step keeps the invariant.                                         *)
LEMMA RaceInvKept == RaceInv /\ [Next]_vars => RaceInv'
<1> SUFFICES ASSUME RaceInv, [Next]_vars PROVE RaceInv'
  OBVIOUS
<1>1. CASE Loop
  <2>1. CASE \E worth \in BOOLEAN : Finalize(worth)
    BY <2>1, FinalizeKeeps
  <2>2. CASE \E plan \in {"none", "ready"} : CommitCheck(plan)
    BY <2>2, CommitCheckKeeps
  <2>3. CASE \E result \in {"reply", "actions", "nothing"} : GateCheck(result)
    BY <2>3, GateCheckKeeps
  <2>4. CASE StartRound \/ Think \/ DecideEnter \/ DecideStart \/ DecideInstall \/ DecideReject
    BY <2>4, StartRoundKeeps, ThinkKeeps, DecideEnterKeeps, DecideStartKeeps, DecideInstallKeeps,
       DecideRejectKeeps
  <2>5. CASE CommitAppend \/ CommitPlan \/ DecidePlan \/ DecideVerdict
    BY <2>5, CommitAppendKeeps, CommitPlanKeeps, DecidePlanKeeps, DecideVerdictKeeps
  <2>6. CASE GatePlan \/ GateArbiter \/ LastCheck \/ Dispatch
    BY <2>6, GatePlanKeeps, GateArbiterKeeps, LastCheckKeeps, DispatchKeeps
  <2>7. QED
    BY <1>1, <2>1, <2>2, <2>3, <2>4, <2>5, <2>6 DEF Loop
<1>2. CASE User
  BY <1>2, AcquireKeeps, MarkKeeps, CancelTokenKeeps, NewTurnKeeps, InstallKeeps, CancelPlanKeeps,
     ReleaseKeeps, StopSpeechKeeps DEF User, InCall
<1>3. CASE UNCHANGED vars \/ Done
  <2>1. UNCHANGED <<turns, current, lock, loop, user>>
    BY <1>3 DEF vars, Done
  <2>2. WellFormed' /\ LocalsInOrder'
    BY <2>1 DEF RaceInv, WellFormed, LocalsInOrder
  <2>3. Strays' /\ Installs' /\ Approvals'
    BY <2>1 DEF RaceInv, Strays, Installs, Approvals, ApprovedHasItsDecision, Live, IsCurrent,
                Empty, Places
  <2>4. QED
    BY <2>2, <2>3 DEF RaceInv
<1>4. QED
  BY <1>1, <1>2, <1>3 DEF Next

(* The invariant of the two threads, at every point where one of them may  *)
(* come between the reads and writes of the other.                         *)
THEOREM RaceInvariant == Spec => []RaceInv
  BY RaceInvHolds, RaceInvKept, PTL DEF Spec

(* A decision that lands on a turn it was not made for lands on the round  *)
(* an interrupt started, alone, and a turn that is left live without being *)
(* current stays empty, however many rounds decide() and request_interrupt *)
(* start at the same time.                                                 *)
THEOREM StraysContained == Spec => []StraysAreContained
<1>1. RaceInv => StraysAreContained
  BY DEF RaceInv, Strays, StraysAreContained, Live, Empty, Places
<1>2. QED
  BY RaceInvariant, <1>1, PTL

(* The arbiter's approval, of decide() or of the gate, is on a turn that   *)
(* holds the decision of its own round.                                    *)
THEOREM ApprovedDecided == Spec => []ApprovedHasItsDecision
<1>1. RaceInv => ApprovedHasItsDecision
  BY DEF RaceInv, Approvals
<1>2. QED
  BY RaceInvariant, <1>1, PTL

(* A round that is closed before the loop's last check is never spoken,    *)
(* whatever decide(), the gate and the interrupt write until then.         *)
THEOREM SilentOnceClosed == Spec => ClosedBeforeLastCheckIsSilent
<1> DEFINE Silent(t) == /\ t \notin spoken'
                        /\ ~ (loop'.pc = "dispatch" /\ loop'.mine = t)
           Closed(t) == /\ ~ Live(t) /\ t \notin spoken
                        /\ ~ (loop.pc = "dispatch" /\ loop.mine = t)
<1>1. ASSUME RaceInv, [Next]_vars, NEW t \in 1..Len(turns), Closed(t)
      PROVE  Silent(t)
  <2>0. loop \in LoopLocals
    BY <1>1 DEF RaceInv, WellFormed
  <2>1. CASE LastCheck
    <3>1. spoken' = spoken /\ loop' \in LoopLocals /\ loop'.mine = loop.mine
          /\ (loop'.pc = "dispatch" => IsCurrent(loop.mine))
      BY <2>0, <2>1 DEF LastCheck, LoopAt, LoopLocals, LoopPlaces
    <3>2. QED
      BY <1>1, <3>1 DEF IsCurrent
  <2>2. CASE Dispatch
    <3>1. spoken' = spoken \cup {loop.mine} /\ loop.pc = "dispatch" /\ loop'.pc = "idle"
      BY <2>0, <2>2 DEF Dispatch, LoopAt, LoopLocals, LoopPlaces
    <3>2. QED
      BY <1>1, <3>1
  <2>3. CASE UNCHANGED <<loop, spoken>>
    BY <1>1, <2>3
  <2>4. CASE spoken' = spoken /\ loop'.pc # "dispatch"
    BY <1>1, <2>4
  <2>5. CASE Loop
    <3>1. CASE StartRound \/ Think \/ DecideEnter
      BY <2>0, <2>4, <3>1 DEF StartRound, Think, DecideEnter, LoopAt, LoopLocals, LoopPlaces
    <3>2. CASE DecideStart \/ DecideInstall \/ DecideReject
      BY <2>0, <2>4, <3>2 DEF DecideStart, DecideInstall, DecideReject, LoopAt, LoopLocals, LoopPlaces
    <3>3. CASE CommitAppend \/ CommitPlan \/ DecidePlan \/ DecideVerdict
      BY <2>0, <2>4, <3>3 DEF CommitAppend, CommitPlan, DecidePlan, DecideVerdict, LoopAt, LoopLocals,
                        LoopPlaces
    <3>4. CASE GatePlan \/ GateArbiter
      BY <2>0, <2>4, <3>4 DEF GatePlan, GateArbiter, LoopAt, LoopLocals, LoopPlaces
    <3>5. CASE \E worth \in BOOLEAN : Finalize(worth)
      BY <2>0, <2>4, <3>5 DEF Finalize, LoopAt, LoopLocals, LoopPlaces
    <3>6. CASE \E plan \in {"none", "ready"} : CommitCheck(plan)
      BY <2>0, <2>4, <3>6 DEF CommitCheck, LoopLocals, LoopPlaces
    <3>7. CASE \E result \in {"reply", "actions", "nothing"} : GateCheck(result)
      BY <2>0, <2>4, <3>7 DEF GateCheck, LoopAt, LoopLocals, LoopPlaces
    <3>8. QED
      BY <2>1, <2>2, <2>5, <3>1, <3>2, <3>3, <3>4, <3>5, <3>6, <3>7 DEF Loop
  <2>6. CASE User
    BY <2>3, <2>6 DEF User, InCall, Acquire, Mark, CancelToken, NewTurn, Install, CancelPlan, Release,
                      StopSpeech
  <2>7. CASE UNCHANGED vars \/ Done
    BY <2>3, <2>7 DEF vars, Done
  <2>8. QED
    BY <1>1, <2>5, <2>6, <2>7 DEF Next
<1>2. RaceInv /\ [Next]_vars =>
        [\A t \in 1..Len(turns) :
          /\ ~ Live(t) /\ t \notin spoken
          /\ ~ (loop.pc = "dispatch" /\ loop.mine = t)
          => /\ t \notin spoken'
             /\ ~ (loop'.pc = "dispatch" /\ loop'.mine = t)]_vars
  BY <1>1
<1>3. QED
  BY RaceInvariant, <1>2, PTL DEF Spec, ClosedBeforeLastCheckIsSilent

-----------------------------------------------------------------------------
(***************************************************************************)
(* LoopLives.  A second thread is alive only after a join that was given   *)
(* up; without one, the wake source is told what the conversation asks for.*)
(***************************************************************************)

Spots == {"new", "top", "listen", "pause", "heard", "resume", "answer", "ended"}

LivesWellFormed ==
    /\ owner \in {"stopped", "startSource", "spawn", "started", "join", "stopSource", "publish"}
    /\ threads \in [Threads -> Spots]
    /\ talking \in BOOLEAN /\ source \in BOOLEAN
    /\ givenUp \in Nat
    /\ handle \in IF owner \in {"started", "join"} THEN Threads ELSE {0}

(* All but the thread of the handle were left behind by a join that was    *)
(* given up.                                                               *)
LeftBehind == Cardinality(Alive \ {handle}) <= givenUp

(* What the wake source does at each place of the caller and of the thread.*)
SourceInStep ==
    /\ owner = "stopped" => phase = "stopped"
    /\ owner \in {"stopped", "publish", "startSource"} => ~ source
    /\ owner = "spawn" => source = ~ talking
    /\ owner \in {"started", "join"} =>
        /\ threads[handle] \in {"top", "listen", "answer"} => source = ~ talking
        /\ threads[handle] = "pause" => talking
        /\ threads[handle] = "heard" => talking /\ ~ source
        /\ threads[handle] = "resume" => ~ talking

LivesInv == LivesWellFormed /\ LeftBehind /\ (givenUp = 0 => SourceInStep)

(* There are finitely many threads, alive or not.                          *)
LEMMA AliveIsFinite ==
    IsFiniteSet(Alive) /\ 0 \notin Alive /\ \A S : S \subseteq Alive => IsFiniteSet(S)
<1>1. IsFiniteSet(Threads)
  BY LivesAssumption, FS_Interval DEF LivesAssumption, Threads
<1>2. Alive \subseteq Threads /\ 0 \notin Threads
  BY DEF Alive, Threads
<1>3. QED
  BY <1>1, <1>2, FS_Subset

(* With no join given up, the thread of the handle is the only one.        *)
LEMMA OnlyTheHandle ==
    ASSUME LeftBehind, givenUp = 0
    PROVE  Alive \subseteq {handle}
<1>1. IsFiniteSet(Alive \ {handle})
  BY AliveIsFinite
<1>2. Cardinality(Alive \ {handle}) = 0
  BY <1>1, FS_CardinalityType DEF LeftBehind
<1>3. QED
  BY <1>1, <1>2, FS_EmptySet

(* A caller who drops the handle leaves at most one thread more behind.    *)
LEMMA OneMore ==
    /\ Cardinality(Alive) \in Nat /\ Cardinality(Alive \ {handle}) \in Nat
    /\ Cardinality(Alive) <= Cardinality(Alive \ {handle}) + 1
    /\ handle \notin Alive => Alive = Alive \ {handle}
<1>1. IsFiniteSet(Alive) /\ IsFiniteSet(Alive \ {handle})
  BY AliveIsFinite
<1>2. handle \in Alive => Cardinality(Alive \ {handle}) = Cardinality(Alive) - 1
  BY <1>1, FS_RemoveElement
<1>3. handle \notin Alive => Alive = Alive \ {handle}
  OBVIOUS
<1>4. Cardinality(Alive) \in Nat /\ Cardinality(Alive \ {handle}) \in Nat
  BY <1>1, FS_CardinalityType
<1>5. CASE handle \in Alive
  BY <1>2, <1>3, <1>4, <1>5
<1>6. CASE handle \notin Alive
  <2>1. Cardinality(Alive \ {handle}) = Cardinality(Alive)
    BY <1>3, <1>6, Zenon
  <2>2. QED
    BY <1>3, <1>4, <2>1
<1>7. QED
  BY <1>5, <1>6

(* Before the first start() nothing runs.                                  *)
LEMMA LivesInvHolds == LivesInit => LivesInv
<1> SUFFICES ASSUME LivesInit PROVE LivesInv
  OBVIOUS
<1>1. Alive \ {handle} = {}
  BY DEF LivesInit, Alive, Threads
<1>2. LeftBehind
  BY <1>1, FS_EmptySet DEF LeftBehind, LivesInit
<1>3. LivesWellFormed
  BY DEF LivesWellFormed, LivesInit, Spots
<1>4. SourceInStep
  BY DEF SourceInStep, LivesInit
<1>5. QED
  BY <1>2, <1>3, <1>4 DEF LivesInv

(* The caller's steps between two lives, which leave the threads alone.    *)
LEMMA CallerKeeps ==
    ASSUME LivesInv, Start \/ StartSource \/ Stop \/ StopSource \/ Publish
    PROVE  LivesInv'
<1> USE DEF LivesInv
<1>1. LivesWellFormed'
  BY DEF Start, StartSource, Stop, StopSource, Publish, LivesWellFormed
<1>2. LeftBehind'
  BY DEF Start, StartSource, Stop, StopSource, Publish, LeftBehind, Alive
<1>3. ASSUME givenUp' = 0 PROVE SourceInStep'
  <2>1. givenUp = 0
    BY <1>3 DEF Start, StartSource, Stop, StopSource, Publish
  <2>2. CASE Start \/ StartSource
    BY <2>1, <2>2 DEF Start, StartSource, SourceInStep, LivesWellFormed
  <2>3. CASE Stop \/ StopSource \/ Publish
    BY <2>1, <2>3 DEF Stop, StopSource, Publish, SourceInStep, LivesWellFormed
  <2>4. QED
    BY <2>2, <2>3
<1>4. QED
  BY <1>1, <1>2, <1>3

(* A new thread begins at the top, with the source as start() left it.     *)
LEMMA SpawnKeeps == ASSUME LivesInv, Spawn PROVE LivesInv'
<1> USE DEF LivesInv
<1>1. PICK t \in Threads : /\ threads[t] = "new"
                           /\ threads' = [threads EXCEPT ![t] = "top"] /\ handle' = t
  BY DEF Spawn
<1>2. threads \in [Threads -> Spots] /\ handle = 0 /\ 0 \notin Threads
  BY DEF Spawn, LivesWellFormed, Threads
<1>3. Alive' \ {handle'} = Alive \ {handle}
  BY <1>1, <1>2 DEF Alive
<1>4. LivesWellFormed'
  BY <1>1, <1>2 DEF Spawn, LivesWellFormed, Spots
<1>5. LeftBehind'
  BY <1>3 DEF LeftBehind, Spawn
<1>6. ASSUME givenUp' = 0 PROVE SourceInStep'
  BY <1>1, <1>2, <1>6 DEF Spawn, SourceInStep, LivesWellFormed
<1>7. QED
  BY <1>4, <1>5, <1>6

(* A join that finds the thread ended loses nothing; one that is given up  *)
(* is counted.                                                             *)
LEMMA JoinKeeps == ASSUME LivesInv, Join PROVE LivesInv'
<1> USE DEF LivesInv
<1>1. LivesWellFormed'
  BY DEF Join, LivesWellFormed
<1>2. Alive' \ {handle'} = Alive
  BY AliveIsFinite DEF Join, Alive
<1>3. LeftBehind'
  BY <1>2, OneMore DEF Join, LeftBehind, LivesWellFormed
<1>4. ASSUME givenUp' = 0 PROVE SourceInStep'
  BY <1>4 DEF Join, SourceInStep, LivesWellFormed
<1>5. QED
  BY <1>1, <1>3, <1>4

(* A thread's step: none rises from the dead, and the only one there is    *)
(* keeps the source in step with the conversation.                         *)
LEMMA IterationKeeps ==
    ASSUME LivesInv, NEW t \in Threads, Iteration(t)
    PROVE  LivesInv'
<1> USE DEF LivesInv
<1>1. /\ t \in Alive
      /\ \E to \in Spots \ {"new"} : threads' = [threads EXCEPT ![t] = to]
      /\ UNCHANGED <<owner, handle, givenUp>>
  BY DEF Iteration, Top, Listen, Woken, Pause, Dismissed, Resume, Answer, Goes, Alive, Spots
<1>2. threads \in [Threads -> Spots]
  BY DEF LivesWellFormed
<1>3. LivesWellFormed'
  <2>1. threads' \in [Threads -> Spots]
    BY <1>1, <1>2
  <2>2. talking' \in BOOLEAN /\ source' \in BOOLEAN
    BY DEF LivesWellFormed, Iteration, Top, Listen, Woken, Pause, Dismissed, Resume, Answer
  <2>3. QED
    BY <1>1, <2>1, <2>2 DEF LivesWellFormed
<1>4. Alive' \subseteq Alive
  BY <1>1, <1>2 DEF Alive
<1>5. LeftBehind'
  <2>1. Alive' \ {handle'} \subseteq Alive \ {handle} /\ IsFiniteSet(Alive \ {handle})
    BY <1>1, <1>4, AliveIsFinite
  <2>2. Cardinality(Alive' \ {handle'}) <= Cardinality(Alive \ {handle})
        /\ Cardinality(Alive' \ {handle'}) \in Nat /\ Cardinality(Alive \ {handle}) \in Nat
    BY <2>1, FS_Subset, FS_CardinalityType
  <2>3. QED
    BY <1>1, <2>2 DEF LeftBehind, LivesWellFormed
<1>6. ASSUME givenUp' = 0 PROVE SourceInStep'
  <2>1. t = handle /\ SourceInStep /\ owner \in {"started", "join"}
    BY <1>1, <1>6, OnlyTheHandle, AliveIsFinite DEF LivesWellFormed
  <2>2. CASE Top(t)
    BY <1>1, <1>2, <2>1, <2>2 DEF Top, Goes, SourceInStep
  <2>3. CASE Listen(t) \/ Answer(t)
    BY <1>1, <1>2, <2>1, <2>3 DEF Listen, Answer, Goes, SourceInStep, LivesWellFormed
  <2>4. CASE Woken(t) \/ Pause(t)
    BY <1>1, <1>2, <2>1, <2>4 DEF Woken, Pause, Goes, SourceInStep
  <2>5. CASE Dismissed(t)
    BY <1>1, <1>2, <2>1, <2>5 DEF Dismissed, Goes, SourceInStep
  <2>6. CASE Resume(t)
    BY <1>1, <1>2, <2>1, <2>6 DEF Resume, Goes, SourceInStep, LivesWellFormed
  <2>7. QED
    BY <2>2, <2>3, <2>4, <2>5, <2>6 DEF Iteration
<1>7. QED
  BY <1>3, <1>5, <1>6

(* Every step of the caller and of the threads keeps the invariant.        *)
LEMMA LivesInvKept == LivesInv /\ [LivesNext]_livesVars => LivesInv'
<1> SUFFICES ASSUME LivesInv, [LivesNext]_livesVars PROVE LivesInv'
  OBVIOUS
<1>1. CASE UNCHANGED livesVars
  BY <1>1 DEF livesVars, LivesInv, LivesWellFormed, LeftBehind, SourceInStep, Alive
<1>2. QED
  BY <1>1, CallerKeeps, SpawnKeeps, JoinKeeps, IterationKeeps DEF LivesNext

(* Through any number of restarts: as long as no join was given up, a      *)
(* stopped loop has no thread and no wake source listening, and one that   *)
(* begins an iteration has the source on unless somebody talks to it; each *)
(* join that is given up leaves at most one thread more (start, stop).     *)
THEOREM LivesSeparate == LivesSpec => []LivesAreSeparate
<1>1. LivesInv => LivesAreSeparate
  <2> SUFFICES ASSUME LivesInv PROVE LivesAreSeparate
    OBVIOUS
  <2> USE DEF LivesInv
  <2>1. Cardinality(Alive) <= 1 + givenUp
    BY OneMore DEF LeftBehind, LivesWellFormed
  <2>2. ASSUME givenUp = 0, owner = "stopped" PROVE Alive = {} /\ ~ source /\ phase = "stopped"
    BY <2>2, OnlyTheHandle, AliveIsFinite DEF LivesWellFormed, SourceInStep
  <2>3. ASSUME givenUp = 0, owner = "started"
        PROVE  \A t \in Alive : threads[t] = "top" => source = ~ talking
    BY <2>3, OnlyTheHandle DEF SourceInStep
  <2>4. QED
    BY <2>1, <2>2, <2>3 DEF LivesAreSeparate
<1>2. QED
  BY <1>1, LivesInvHolds, LivesInvKept, PTL DEF LivesSpec

-----------------------------------------------------------------------------
(***************************************************************************)
(* Engagement.  WriterKnowsFile is inductive with the types; that the file *)
(* follows the conversation also needs what the loop believes at each of   *)
(* the places of an iteration.                                             *)
(***************************************************************************)

(* What the loop believes, where nothing has failed: between iterations it *)
(* believes the truth, and it comes to a write with the news of that write.*)
BeliefInStep ==
    /\ voice = "woke" => conv
    /\ voice = "slept" => ~ conv
    /\ voice \in {"off", "idle"} /\ failures = 0 => last = conv

EngagementInv == EngagementTypeOK /\ WriterKnowsFile /\ BeliefInStep

(* The two counters stay in their bounds; where one counts, it is not zero.*)
LEMMA FailsCounts ==
    ASSUME failures \in 0..MaxFailures, Fails
    PROVE  failures' \in 0..MaxFailures /\ failures' # 0
  BY EngagementAssumption DEF EngagementAssumption, Fails

(* So does the number of times the process has ended.                      *)
LEMMA EndsCounts ==
    ASSUME restarts \in 0..MaxRestarts, Ends
    PROVE  restarts' \in 0..MaxRestarts
  BY EngagementAssumption DEF EngagementAssumption, Ends

(* The invariant holds before the first process starts.                    *)
LEMMA EngagementInvHolds == EngagementInit => EngagementInv
<1> SUFFICES ASSUME EngagementInit PROVE EngagementInv
  OBVIOUS
<1>1. failures \in 0..MaxFailures /\ restarts \in 0..MaxRestarts
  BY EngagementAssumption DEF EngagementAssumption, EngagementInit
<1>2. EngagementTypeOK
  BY <1>1, Zenon DEF EngagementInit, EngagementTypeOK
<1>3. WriterKnowsFile /\ BeliefInStep
  BY Zenon DEF EngagementInit, WriterKnowsFile, BeliefInStep
<1>4. QED
  BY <1>2, <1>3 DEF EngagementInv

(* A publish keeps the types and the belief, whether it writes or fails.   *)
LEMMA PublishEngagementKeeps ==
    ASSUME EngagementTypeOK, WriterKnowsFile, NEW active \in BOOLEAN, NEW always,
           PublishEngagement(active, always)
    PROVE  /\ file' \in {"missing", "active", "inactive"}
           /\ last' \in BOOLEAN /\ wrote' \in BOOLEAN
           /\ failures' \in 0..MaxFailures
           /\ WriterKnowsFile'
           /\ failures' = 0 => failures = 0 /\ last' = active
<1>1. CASE UNCHANGED <<file, last, wrote, failures>> /\ active = last
  BY <1>1, Zenon DEF EngagementTypeOK, WriterKnowsFile
<1>2. CASE /\ file' = IF active THEN "active" ELSE "inactive"
           /\ last' = active
           /\ wrote' = TRUE
           /\ UNCHANGED failures
  BY <1>2, Zenon DEF EngagementTypeOK, WriterKnowsFile
<1>3. CASE Fails /\ UNCHANGED <<file, last, wrote>>
  BY <1>3, FailsCounts, Zenon DEF EngagementTypeOK, WriterKnowsFile
<1>4. QED
  BY <1>1, <1>2, <1>3, Zenon DEF PublishEngagement

(* Every step of the loops and of the process keeps the invariant.         *)
LEMMA EngagementInvKept == EngagementInv /\ [EngagementNext]_engagementVars => EngagementInv'
<1> SUFFICES ASSUME EngagementTypeOK, WriterKnowsFile, BeliefInStep, [EngagementNext]_engagementVars
             PROVE  EngagementTypeOK' /\ WriterKnowsFile' /\ BeliefInStep'
  BY DEF EngagementInv
<1>1. CASE StartLoops
  <2>1. PublishEngagement(conv, FALSE) /\ conv \in BOOLEAN
    BY <1>1 DEF StartLoops, EngagementTypeOK
  <2>2. EngagementTypeOK' /\ WriterKnowsFile'
    BY <1>1, <2>1, PublishEngagementKeeps, Zenon DEF StartLoops, EngagementTypeOK
  <2>3. BeliefInStep'
    BY <1>1, <2>1, PublishEngagementKeeps, Zenon DEF StartLoops, BeliefInStep
  <2>4. QED
    BY <2>2, <2>3
<1>2. CASE NotWoke
  <2>1. EngagementTypeOK' /\ WriterKnowsFile'
    BY <1>2, PublishEngagementKeeps, Zenon DEF NotWoke, EngagementTypeOK
  <2>2. BeliefInStep'
    BY <1>2, PublishEngagementKeeps, Zenon DEF NotWoke, EngagementTypeOK, BeliefInStep
  <2>3. QED
    BY <2>1, <2>2
<1>3. CASE Wake
  BY <1>3, Zenon DEF Wake, EngagementTypeOK, WriterKnowsFile, BeliefInStep
<1>4. CASE PublishWake
  <2>1. EngagementTypeOK' /\ WriterKnowsFile'
    BY <1>4, PublishEngagementKeeps, Zenon DEF PublishWake, EngagementTypeOK
  <2>2. BeliefInStep'
    BY <1>4, PublishEngagementKeeps, Zenon DEF PublishWake, EngagementTypeOK, BeliefInStep
  <2>3. QED
    BY <2>1, <2>2
<1>5. CASE Sleep
  BY <1>5, Zenon DEF Sleep, EngagementTypeOK, WriterKnowsFile, BeliefInStep
<1>6. CASE PublishSleep
  <2>1. EngagementTypeOK' /\ WriterKnowsFile'
    BY <1>6, PublishEngagementKeeps, Zenon DEF PublishSleep, EngagementTypeOK
  <2>2. BeliefInStep'
    BY <1>6, PublishEngagementKeeps, Zenon DEF PublishSleep, EngagementTypeOK, BeliefInStep
  <2>3. QED
    BY <2>1, <2>2
<1>7. CASE Visual
  <2>1. CASE Read
    BY <2>1, Zenon DEF Read, EngagementTypeOK, WriterKnowsFile, BeliefInStep
  <2>2. CASE Track
    BY <2>2, FailsCounts, Zenon DEF Track, EngagementTypeOK, WriterKnowsFile, BeliefInStep
  <2>3. CASE Rest
    BY <2>3, FailsCounts, ZenonT(30) DEF Rest, EngagementTypeOK, WriterKnowsFile, BeliefInStep
  <2>4. QED
    BY <1>7, <2>1, <2>2, <2>3 DEF Visual
<1>8. CASE Crash
  <2>1. EngagementTypeOK'
    BY <1>8, EndsCounts, Zenon DEF Crash, FreshProcess, EngagementTypeOK
  <2>2. WriterKnowsFile' /\ BeliefInStep'
    BY <1>8, Zenon DEF Crash, FreshProcess, WriterKnowsFile, BeliefInStep
  <2>3. QED
    BY <2>1, <2>2
<1>9. CASE StopProcess
  <2>1. EngagementTypeOK'
    BY <1>9, EndsCounts, FailsCounts, Zenon DEF StopProcess, FreshProcess, EngagementTypeOK
  <2>2. WriterKnowsFile' /\ BeliefInStep'
    BY <1>9, Zenon DEF StopProcess, FreshProcess, WriterKnowsFile, BeliefInStep
  <2>3. QED
    BY <2>1, <2>2
<1>10. CASE UNCHANGED engagementVars
  <2>1. EngagementTypeOK' /\ WriterKnowsFile'
    BY <1>10, SMTT(30) DEF engagementVars, process, EngagementTypeOK, WriterKnowsFile
  <2>2. BeliefInStep'
    BY <1>10, Zenon DEF engagementVars, process, BeliefInStep
  <2>3. QED
    BY <2>1, <2>2
<1>11. QED
  BY <1>1, <1>2, <1>3, <1>4, <1>5, <1>6, <1>7, <1>8, <1>9, <1>10 DEF EngagementNext, Voice

(* The invariant of every run, whatever fails and whenever the process     *)
(* ends.                                                                   *)
THEOREM EngagementInvariant == EngagementSpec => []EngagementInv
  BY EngagementInvHolds, EngagementInvKept, PTL DEF EngagementSpec

(* Every reachable state is well formed.                                   *)
THEOREM EngagementTypeCorrect == EngagementSpec => []EngagementTypeOK
<1>1. EngagementInv => EngagementTypeOK
  BY DEF EngagementInv
<1>2. QED
  BY EngagementInvariant, <1>1, PTL

(* _last_engagement_state is what the file holds, from the first write of  *)
(* the process on: _publish_engagement_state leaves no write out that      *)
(* would have changed the file.                                            *)
THEOREM WriterKnows == EngagementSpec => []WriterKnowsFile
<1>1. EngagementInv => WriterKnowsFile
  BY DEF EngagementInv
<1>2. QED
  BY EngagementInvariant, <1>1, PTL

(* Where no write has failed, the file says whether there is a             *)
(* conversation whenever the loop is between two iterations.               *)
THEOREM FileFollows == EngagementSpec => []FileFollowsConversation
<1>1. EngagementInv => FileFollowsConversation
  BY DEF EngagementInv, WriterKnowsFile, BeliefInStep, FileFollowsConversation
<1>2. QED
  BY EngagementInvariant, <1>1, PTL

-----------------------------------------------------------------------------
(***************************************************************************)
(* Recalls.  One lemma for each thing that a trace notes, then the two     *)
(* inductive invariants, of the traces and of the candidates.              *)
(***************************************************************************)

(* Traces *)

Traces == [requested : SUBSET Names, answered : SUBSET Names, results : SUBSET Names,
           decisions : SUBSET (Names \X {"allow", "filter"}),
           snapshots : SUBSET Names, proposed : SUBSET Names, written : SUBSET Names,
           confirmed : SUBSET Names, skipped : SUBSET Names, failed : SUBSET Names,
           faults : SUBSET {"unserved", "unrecorded"},
           used : SUBSET Names, filtered : SUBSET Names, stages : [Stages -> Nat]]

(* The inductive invariant of one trace.                                   *)
Sound(t) ==
    /\ t \in Traces
    /\ IsFiniteSet(t.requested) /\ IsFiniteSet(t.skipped) /\ IsFiniteSet(t.written)
    /\ Accounts(t)

(* Which fields of a trace an operation leaves alone.                      *)
SameCalls(t, u) == u.requested = t.requested /\ u.proposed = t.proposed /\ u.snapshots = t.snapshots
SameAnswers(t, u) == u.answered = t.answered /\ u.results = t.results /\ u.decisions = t.decisions
SameWrites(t, u) ==
    /\ u.written = t.written /\ u.confirmed = t.confirmed
    /\ u.skipped = t.skipped /\ u.failed = t.failed
SameStages(t, u, moved) == \A s \in Stages \ moved : u.stages[s] = t.stages[s]

(* A stage is one more event of that stage, and nothing else.              *)
LEMMA StagedIs ==
    ASSUME NEW t \in Traces, NEW s \in Stages
    PROVE  /\ Staged(t, s) \in Traces
           /\ SameCalls(t, Staged(t, s)) /\ SameAnswers(t, Staged(t, s)) /\ SameWrites(t, Staged(t, s))
           /\ SameStages(t, Staged(t, s), {s})
           /\ Staged(t, s).stages[s] = t.stages[s] + 1
  <1> DEFINE more == [t.stages EXCEPT ![s] = @ + 1]
  <1>1. t.stages \in [Stages -> Nat]
    BY DEF Traces
  <1>2. /\ more \in [Stages -> Nat] /\ more[s] = t.stages[s] + 1
        /\ \A x \in Stages \ {s} : more[x] = t.stages[x]
    BY <1>1
  <1>3. Staged(t, s) = [t EXCEPT !.stages = more]
    BY DEF Staged
  <1> HIDE DEF more
  <1>4. Staged(t, s) \in Traces /\ Staged(t, s).stages = more
    BY <1>2, <1>3 DEF Traces
  <1>5. SameCalls(t, Staged(t, s)) /\ SameAnswers(t, Staged(t, s)) /\ SameWrites(t, Staged(t, s))
    BY <1>3 DEF Traces, SameCalls, SameAnswers, SameWrites
  <1> QED
    BY <1>2, <1>4, <1>5 DEF SameStages

(* A snapshot of a candidate; the first has a stage.                       *)
LEMMA SnapshotIs ==
    ASSUME NEW t \in Traces, NEW n \in Names
    PROVE  LET u == Snapshot(t, n) IN
           /\ u \in Traces
           /\ u.snapshots = t.snapshots \union {n}
           /\ u.requested = t.requested /\ u.proposed = t.proposed
           /\ SameAnswers(t, u) /\ SameWrites(t, u)
           /\ SameStages(t, u, {"candidates"})
           /\ u.stages["candidates"] = (IF t.stages["candidates"] > 0 THEN t.stages["candidates"]
                                        ELSE t.stages["candidates"] + 1)
  <1> DEFINE v == [t EXCEPT !.snapshots = @ \union {n}]
  <1>1. /\ v \in Traces /\ v.snapshots = t.snapshots \union {n} /\ v.stages = t.stages
        /\ v.requested = t.requested /\ v.proposed = t.proposed
        /\ SameAnswers(t, v) /\ SameWrites(t, v)
    BY DEF Traces, SameAnswers, SameWrites
  <1>2. "candidates" \in Stages
    BY DEF Stages
  <1>3. Snapshot(t, n) = IF t.stages["candidates"] > 0 THEN v ELSE Staged(v, "candidates")
    BY DEF Snapshot
  <1> HIDE DEF v
  <1>4. /\ Staged(v, "candidates") \in Traces
        /\ SameCalls(v, Staged(v, "candidates")) /\ SameAnswers(v, Staged(v, "candidates"))
        /\ SameWrites(v, Staged(v, "candidates"))
        /\ SameStages(v, Staged(v, "candidates"), {"candidates"})
        /\ Staged(v, "candidates").stages["candidates"] = v.stages["candidates"] + 1
    BY <1>1, <1>2, StagedIs
  <1> QED
    BY <1>1, <1>2, <1>3, <1>4 DEF SameCalls, SameAnswers, SameWrites, SameStages

(* A request that the trace has not had is one more, with a stage.         *)
LEMMA AskedIs ==
    ASSUME NEW t \in Traces, NEW n \in Names, n \notin t.requested
    PROVE  LET u == Asked(t, n) IN
           /\ u \in Traces
           /\ u.requested = t.requested \union {n} /\ u.proposed = t.proposed
           /\ u.snapshots = t.snapshots \union {n}
           /\ SameAnswers(t, u) /\ SameWrites(t, u)
           /\ SameStages(t, u, {"candidates", "prefetch"})
           /\ u.stages["prefetch"] = t.stages["prefetch"] + 1
           /\ u.stages["candidates"] = (IF t.stages["candidates"] > 0 THEN t.stages["candidates"]
                                        ELSE t.stages["candidates"] + 1)
  <1> DEFINE v == [t EXCEPT !.requested = @ \union {n}]
             w == Staged(v, "prefetch")
  <1>1. /\ v \in Traces /\ v.requested = t.requested \union {n} /\ v.stages = t.stages
        /\ v.snapshots = t.snapshots /\ v.proposed = t.proposed
        /\ SameAnswers(t, v) /\ SameWrites(t, v)
    BY DEF Traces, SameAnswers, SameWrites
  <1>2. "candidates" \in Stages /\ "prefetch" \in Stages
    BY DEF Stages
  <1>3. Asked(t, n) = Snapshot(w, n)
    BY DEF Asked
  <1> HIDE DEF v
  <1>4. /\ w \in Traces /\ SameCalls(v, w) /\ SameAnswers(v, w) /\ SameWrites(v, w)
        /\ SameStages(v, w, {"prefetch"})
        /\ w.stages["prefetch"] = v.stages["prefetch"] + 1
    BY <1>1, <1>2, StagedIs
  <1> HIDE DEF w
  <1> DEFINE u == Snapshot(w, n)
  <1>5. /\ u \in Traces
        /\ u.snapshots = w.snapshots \union {n}
        /\ u.requested = w.requested /\ u.proposed = w.proposed
        /\ SameAnswers(w, u) /\ SameWrites(w, u)
        /\ SameStages(w, u, {"candidates"})
        /\ u.stages["candidates"] = (IF w.stages["candidates"] > 0 THEN w.stages["candidates"]
                                     ELSE w.stages["candidates"] + 1)
    BY <1>4, SnapshotIs
  <1> HIDE DEF u
  <1>6. /\ u.requested = t.requested \union {n} /\ u.proposed = t.proposed
        /\ u.snapshots = t.snapshots \union {n}
        /\ SameAnswers(t, u) /\ SameWrites(t, u)
    BY <1>1, <1>4, <1>5 DEF SameCalls, SameAnswers, SameWrites
  <1>7. /\ SameStages(t, u, {"candidates", "prefetch"})
        /\ u.stages["prefetch"] = t.stages["prefetch"] + 1
        /\ u.stages["candidates"] = (IF t.stages["candidates"] > 0 THEN t.stages["candidates"]
                                     ELSE t.stages["candidates"] + 1)
    BY <1>1, <1>2, <1>4, <1>5 DEF SameStages
  <1> QED
    BY <1>3, <1>5, <1>6, <1>7 DEF u

(* What a service tells of its decisions, and what it shows.               *)
LEMMA ToldIs ==
    ASSUME NEW t \in Traces, NEW told \in SUBSET (Names \X {"allow", "filter"})
    PROVE  LET u == Told(t, told) IN
           /\ u \in Traces /\ SameCalls(t, u) /\ SameWrites(t, u)
           /\ u.answered = t.answered /\ u.results = t.results
           /\ SameStages(t, u, {"policy_decision"})
           /\ u.stages["policy_decision"] >= t.stages["policy_decision"]
           /\ u.decisions # {} => t.decisions # {} \/ u.stages["policy_decision"] > 0
  <1>1. "policy_decision" \in Stages
    BY DEF Stages
  <1>2. CASE told = {}
    BY <1>1, <1>2 DEF Told, SameCalls, SameWrites, SameStages, Traces
  <1>3. CASE told # {}
    <2> DEFINE v == [t EXCEPT !.decisions = @ \union told]
               w == Staged(v, "policy_decision")
    <2>1. /\ v \in Traces /\ SameCalls(t, v) /\ SameWrites(t, v) /\ v.stages = t.stages
          /\ v.answered = t.answered /\ v.results = t.results
      BY DEF Traces, SameCalls, SameWrites
    <2>2. Told(t, told) = w
      BY <1>3 DEF Told
    <2> HIDE DEF v
    <2>3. /\ w \in Traces /\ SameCalls(v, w) /\ SameAnswers(v, w) /\ SameWrites(v, w)
          /\ SameStages(v, w, {"policy_decision"})
          /\ w.stages["policy_decision"] = v.stages["policy_decision"] + 1
      BY <2>1, <1>1, StagedIs
    <2>4. t.stages["policy_decision"] \in Nat
      BY <1>1 DEF Traces
    <2> HIDE DEF w
    <2> QED
      BY <2>1, <2>2, <2>3, <2>4 DEF SameCalls, SameAnswers, SameWrites, SameStages
  <1> QED
    BY <1>2, <1>3

LEMMA ShownIs ==
    ASSUME NEW t \in Traces, NEW shown \in SUBSET Names
    PROVE  LET u == Shown(t, shown) IN
           /\ u \in Traces /\ SameCalls(t, u) /\ SameWrites(t, u)
           /\ u.answered = t.answered /\ u.decisions = t.decisions
           /\ SameStages(t, u, {"prefetch_result"})
           /\ u.results # {} => u.stages["prefetch_result"] > 0
  <1> DEFINE v == [t EXCEPT !.results = @ \union shown]
             w == Staged(v, "prefetch_result")
  <1>1. /\ v \in Traces /\ SameCalls(t, v) /\ SameWrites(t, v) /\ v.stages = t.stages
        /\ v.answered = t.answered /\ v.decisions = t.decisions
    BY DEF Traces, SameCalls, SameWrites
  <1>2. "prefetch_result" \in Stages
    BY DEF Stages
  <1>3. Shown(t, shown) = IF v.results = {} THEN v ELSE w
    BY DEF Shown
  <1> HIDE DEF v
  <1>4. /\ w \in Traces /\ SameCalls(v, w) /\ SameAnswers(v, w) /\ SameWrites(v, w)
        /\ SameStages(v, w, {"prefetch_result"})
        /\ w.stages["prefetch_result"] = v.stages["prefetch_result"] + 1
    BY <1>1, <1>2, StagedIs
  <1>5. t.stages["prefetch_result"] \in Nat
    BY <1>2 DEF Traces
  <1> HIDE DEF w
  <1> QED
    BY <1>1, <1>3, <1>4, <1>5 DEF SameCalls, SameAnswers, SameWrites, SameStages

-----------------------------------------------------------------------------
(* Each operation of the orchestrator keeps a trace sound *)

LEMMA NewTraceIsSound == Sound(NewTrace)
  <1>1. NewTrace \in Traces
    BY DEF NewTrace, Traces, Stages
  <1>2. IsFiniteSet({}) /\ Cardinality({}) = 0
    BY FS_EmptySet
  <1> QED
    BY <1>1, <1>2 DEF Sound, Accounts, NewTrace, Stages

LEMMA AskedCounts ==
    ASSUME NEW t, Sound(t), NEW n \in Names, n \notin t.requested
    PROVE  LET u == Asked(t, n) IN
           /\ IsFiniteSet(u.requested) /\ u.stages["prefetch"] = Cardinality(u.requested)
           /\ u.stages["candidates"] = 1
           /\ \A s \in {"prefetch_result", "policy_decision", "write_skipped", "write_committed"} :
                 u.stages[s] = t.stages[s]
  <1>1. t \in Traces /\ IsFiniteSet(t.requested) /\ Accounts(t)
    BY DEF Sound
  <1>2. /\ IsFiniteSet(t.requested \union {n})
        /\ Cardinality(t.requested \union {n}) = Cardinality(t.requested) + 1
    BY <1>1, FS_AddElement
  <1>3. t.stages["prefetch"] = Cardinality(t.requested) /\ t.stages["candidates"] \in {0, 1}
    BY <1>1 DEF Accounts
  <1> DEFINE u == Asked(t, n)
  <1>4. /\ u.requested = t.requested \union {n}
        /\ SameStages(t, u, {"candidates", "prefetch"})
        /\ u.stages["prefetch"] = t.stages["prefetch"] + 1
        /\ u.stages["candidates"] = (IF t.stages["candidates"] > 0 THEN t.stages["candidates"]
                                     ELSE t.stages["candidates"] + 1)
    BY <1>1, AskedIs
  <1> HIDE DEF u
  <1>5. \A s \in {"prefetch_result", "policy_decision", "write_skipped", "write_committed"} :
           u.stages[s] = t.stages[s]
    BY <1>4 DEF SameStages, Stages
  <1> QED
    BY <1>2, <1>3, <1>4, <1>5 DEF u

(* A request that the trace has not had, with whatever becomes of it.      *)
LEMMA ResolvedIsSound ==
    ASSUME NEW t, Sound(t), NEW n \in Names, n \notin t.requested \union t.proposed,
           NEW a \in Answers
    PROVE  LET u == Resolved(t, n, a) IN
           Sound(u) /\ u.requested = t.requested \union {n} /\ u.proposed = t.proposed
  <1> DEFINE w == Asked(t, n)
  <1>1. t \in Traces /\ Accounts(t) /\ IsFiniteSet(t.skipped) /\ IsFiniteSet(t.written)
    BY DEF Sound
  <1>2. /\ w \in Traces
        /\ w.requested = t.requested \union {n} /\ w.proposed = t.proposed
        /\ w.snapshots = t.snapshots \union {n}
        /\ SameAnswers(t, w) /\ SameWrites(t, w)
    BY <1>1, AskedIs
  <1>3. /\ IsFiniteSet(w.requested) /\ w.stages["prefetch"] = Cardinality(w.requested)
        /\ w.stages["candidates"] = 1
        /\ w.stages["prefetch_result"] = t.stages["prefetch_result"]
        /\ w.stages["policy_decision"] = t.stages["policy_decision"]
        /\ w.stages["write_skipped"] = t.stages["write_skipped"]
        /\ w.stages["write_committed"] = t.stages["write_committed"]
    BY AskedCounts
  <1>a. /\ a.shown \in SUBSET Names /\ a.told \in SUBSET (Names \X {"allow", "filter"})
    BY DEF Answers
  <1>r. Resolved(t, n, a) = IF a.ok THEN [Shown(Told(w, a.told), a.shown) EXCEPT !.answered = @ \union {n}]
                            ELSE [w EXCEPT !.failed = @ \union {n}]
    BY DEF Resolved
  <1>s. /\ "prefetch" \in Stages /\ "candidates" \in Stages /\ "prefetch_result" \in Stages
        /\ "policy_decision" \in Stages /\ "write_skipped" \in Stages /\ "write_committed" \in Stages
    BY DEF Stages
  <1> HIDE DEF w
  <1>4. CASE ~a.ok
    <2> DEFINE u == [w EXCEPT !.failed = @ \union {n}]
    <2>1. /\ u \in Traces /\ SameCalls(w, u) /\ SameAnswers(w, u) /\ u.stages = w.stages
          /\ u.failed = w.failed \union {n} /\ u.skipped = w.skipped
          /\ u.written = w.written /\ u.confirmed = w.confirmed
      BY <1>2 DEF Traces, SameCalls, SameAnswers
    <2>2. Resolved(t, n, a) = u
      BY <1>4, <1>r
    <2> HIDE DEF u
    <2>3. Accounts(u)
      BY <1>1, <1>2, <1>3, <2>1 DEF Accounts, SameCalls, SameAnswers, SameWrites
    <2> QED
      BY <1>1, <1>2, <1>3, <2>1, <2>2, <2>3 DEF Sound, SameCalls, SameWrites
  <1>5. CASE a.ok
    <2> DEFINE x == Told(w, a.told)
               y == Shown(x, a.shown)
               u == [y EXCEPT !.answered = @ \union {n}]
    <2>1. /\ x \in Traces /\ SameCalls(w, x) /\ SameWrites(w, x)
          /\ x.answered = w.answered /\ x.results = w.results
          /\ SameStages(w, x, {"policy_decision"})
          /\ x.stages["policy_decision"] >= w.stages["policy_decision"]
          /\ x.decisions # {} => w.decisions # {} \/ x.stages["policy_decision"] > 0
      BY <1>2, <1>a, ToldIs
    <2> HIDE DEF x
    <2>2. /\ y \in Traces /\ SameCalls(x, y) /\ SameWrites(x, y)
          /\ y.answered = x.answered /\ y.decisions = x.decisions
          /\ SameStages(x, y, {"prefetch_result"})
          /\ y.results # {} => y.stages["prefetch_result"] > 0
      BY <2>1, <1>a, ShownIs
    <2> HIDE DEF y
    <2>3. /\ u \in Traces /\ SameCalls(y, u) /\ SameWrites(y, u) /\ u.stages = y.stages
          /\ u.answered = y.answered \union {n}
          /\ u.decisions = y.decisions /\ u.results = y.results
      BY <2>2 DEF Traces, SameCalls, SameWrites
    <2>4. Resolved(t, n, a) = u
      BY <1>5, <1>r DEF x, y
    <2> HIDE DEF u
    <2>5. /\ SameCalls(w, u) /\ SameWrites(w, u)
          /\ u.answered = w.answered \union {n}
      BY <2>1, <2>2, <2>3 DEF SameCalls, SameWrites
    <2>6. /\ u.stages["prefetch"] = w.stages["prefetch"]
          /\ u.stages["candidates"] = w.stages["candidates"]
          /\ u.stages["write_skipped"] = w.stages["write_skipped"]
          /\ u.stages["write_committed"] = w.stages["write_committed"]
      BY <1>s, <2>1, <2>2, <2>3 DEF SameStages
    <2>7. u.results # {} => u.stages["prefetch_result"] > 0
      BY <2>2, <2>3
    <2>8. u.decisions # {} => u.stages["policy_decision"] > 0
      <3>1. u.stages["policy_decision"] = x.stages["policy_decision"] /\ u.decisions = x.decisions
        BY <1>s, <2>2, <2>3 DEF SameStages
      <3>2. w.decisions # {} => w.stages["policy_decision"] > 0
        BY <1>1, <1>2, <1>3 DEF Accounts, SameAnswers
      <3>3. w.stages["policy_decision"] \in Nat /\ x.stages["policy_decision"] \in Nat
        BY <1>s, <1>2, <2>1 DEF Traces
      <3> QED
        BY <2>1, <3>1, <3>2, <3>3
    <2>9. Accounts(u)
      BY <1>1, <1>2, <1>3, <2>5, <2>6, <2>7, <2>8 DEF Accounts, SameCalls, SameAnswers, SameWrites
    <2> QED
      BY <1>1, <1>2, <1>3, <2>3, <2>4, <2>5, <2>9 DEF Sound, SameCalls, SameWrites
  <1> QED
    BY <1>4, <1>5

LEMMA ProposedIs ==
    ASSUME NEW t, Sound(t), NEW n \in Names, n \notin t.requested \union t.proposed
    PROVE  LET u == Proposed(t, n) IN
           /\ u \in Traces
           /\ u.requested = t.requested /\ u.proposed = t.proposed \union {n}
           /\ u.snapshots = t.snapshots \union {n}
           /\ SameAnswers(t, u) /\ SameWrites(t, u)
           /\ SameStages(t, u, {"candidates"}) /\ u.stages["candidates"] = 1
  <1> DEFINE v == [t EXCEPT !.proposed = @ \union {n}]
             u == Snapshot(v, n)
  <1>1. t \in Traces /\ t.stages["candidates"] \in {0, 1}
    BY DEF Sound, Accounts
  <1>2. /\ v \in Traces /\ v.requested = t.requested /\ v.proposed = t.proposed \union {n}
        /\ v.snapshots = t.snapshots /\ v.stages = t.stages
        /\ SameAnswers(t, v) /\ SameWrites(t, v)
    BY <1>1 DEF Traces, SameAnswers, SameWrites
  <1>3. Proposed(t, n) = u
    BY DEF Proposed
  <1> HIDE DEF v
  <1>4. /\ u \in Traces
        /\ u.snapshots = v.snapshots \union {n}
        /\ u.requested = v.requested /\ u.proposed = v.proposed
        /\ SameAnswers(v, u) /\ SameWrites(v, u)
        /\ SameStages(v, u, {"candidates"})
        /\ u.stages["candidates"] = (IF v.stages["candidates"] > 0 THEN v.stages["candidates"]
                                     ELSE v.stages["candidates"] + 1)
    BY <1>2, SnapshotIs
  <1> HIDE DEF u
  <1>5. u.stages["candidates"] = 1
    BY <1>1, <1>2, <1>4
  <1> QED
    BY <1>2, <1>3, <1>4, <1>5 DEF SameAnswers, SameWrites, SameStages

(* What is skipped is counted; so is what the service has an answer to.    *)
LEMMA SkippedIs ==
    ASSUME NEW t \in Traces, NEW n \in Names, n \notin t.skipped, IsFiniteSet(t.skipped)
    PROVE  LET u == Skipped(t, n) IN
           /\ u \in Traces /\ SameCalls(t, u) /\ SameAnswers(t, u)
           /\ u.written = t.written /\ u.confirmed = t.confirmed /\ u.failed = t.failed
           /\ u.skipped = t.skipped \union {n} /\ IsFiniteSet(u.skipped)
           /\ Cardinality(u.skipped) = Cardinality(t.skipped) + 1
           /\ SameStages(t, u, {"write_skipped"})
           /\ u.stages["write_skipped"] = t.stages["write_skipped"] + 1
  <1> DEFINE v == [t EXCEPT !.skipped = @ \union {n}]
             u == Staged(v, "write_skipped")
  <1>1. /\ v \in Traces /\ SameCalls(t, v) /\ SameAnswers(t, v) /\ v.stages = t.stages
        /\ v.written = t.written /\ v.confirmed = t.confirmed /\ v.failed = t.failed
        /\ v.skipped = t.skipped \union {n}
    BY DEF Traces, SameCalls, SameAnswers
  <1>2. "write_skipped" \in Stages
    BY DEF Stages
  <1>3. Skipped(t, n) = u
    BY DEF Skipped
  <1>4. /\ IsFiniteSet(t.skipped \union {n})
        /\ Cardinality(t.skipped \union {n}) = Cardinality(t.skipped) + 1
    BY FS_AddElement
  <1> HIDE DEF v
  <1>5. /\ u \in Traces /\ SameCalls(v, u) /\ SameAnswers(v, u) /\ SameWrites(v, u)
        /\ SameStages(v, u, {"write_skipped"})
        /\ u.stages["write_skipped"] = v.stages["write_skipped"] + 1
    BY <1>1, <1>2, StagedIs
  <1> HIDE DEF u
  <1> QED
    BY <1>1, <1>3, <1>4, <1>5 DEF SameCalls, SameAnswers, SameWrites, SameStages

(* What a proposal comes to when the trace has had nothing of that name.   *)
LEMMA WrittenIsSound ==
    ASSUME NEW t, Sound(t), NEW n \in Names, n \notin t.requested \union t.proposed,
           NEW v \in Verdicts
    PROVE  LET u == Written(t, n, v) IN
           Sound(u) /\ u.requested = t.requested /\ u.proposed = t.proposed \union {n}
  <1> DEFINE p == Proposed(t, n)
  <1>1. /\ t \in Traces /\ Accounts(t)
        /\ IsFiniteSet(t.requested) /\ IsFiniteSet(t.skipped) /\ IsFiniteSet(t.written)
    BY DEF Sound
  <1>2. /\ p \in Traces
        /\ p.requested = t.requested /\ p.proposed = t.proposed \union {n}
        /\ p.snapshots = t.snapshots \union {n}
        /\ SameAnswers(t, p) /\ SameWrites(t, p)
        /\ SameStages(t, p, {"candidates"}) /\ p.stages["candidates"] = 1
    BY ProposedIs
  <1>s. /\ "prefetch" \in Stages /\ "candidates" \in Stages /\ "prefetch_result" \in Stages
        /\ "policy_decision" \in Stages /\ "write_skipped" \in Stages /\ "write_committed" \in Stages
        /\ "conflict_resolution" \in Stages
    BY DEF Stages
  <1>3. n \notin t.skipped /\ n \notin t.written /\ n \notin t.failed
    BY <1>1 DEF Accounts
  <1>w. Written(t, n, v) =
          CASE v.status = "unneeded" -> Skipped(p, n)
            [] v.status = "against"  -> Skipped(Staged(p, "policy_decision"), n)
            [] v.status = "failed"   -> [p EXCEPT !.failed = @ \union {n}]
            [] OTHER ->
                  LET u == [p EXCEPT !.written = @ \union {n},
                                     !.confirmed = IF v.status = "ok" THEN @ \union {n} ELSE @]
                  IN  Staged(StagedIf(v.conflict, StagedIf(v.policy, u, "policy_decision"),
                                      "conflict_resolution"), "write_committed")
    BY DEF Written
  <1>k. /\ p.stages["prefetch"] = t.stages["prefetch"]
        /\ p.stages["prefetch_result"] = t.stages["prefetch_result"]
        /\ p.stages["policy_decision"] = t.stages["policy_decision"]
        /\ p.stages["write_skipped"] = t.stages["write_skipped"]
        /\ p.stages["write_committed"] = t.stages["write_committed"]
    BY <1>2, <1>s DEF SameStages
  <1>n. \A s \in Stages : p.stages[s] \in Nat
    BY <1>2 DEF Traces
  <1> HIDE DEF p
  \* what is skipped, after a decision of the policy or without one
  <1>4. ASSUME NEW q \in Traces, SameCalls(p, q), SameAnswers(p, q), SameWrites(p, q),
               SameStages(p, q, {"policy_decision"}),
               q.stages["policy_decision"] >= p.stages["policy_decision"]
        PROVE  LET u == Skipped(q, n) IN
               Sound(u) /\ u.requested = t.requested /\ u.proposed = t.proposed \union {n}
    <2> DEFINE u == Skipped(q, n)
    <2>1. q.skipped = t.skipped
      BY <1>2, <1>4 DEF SameWrites
    <2>2. /\ u \in Traces /\ SameCalls(q, u) /\ SameAnswers(q, u)
          /\ u.written = q.written /\ u.confirmed = q.confirmed /\ u.failed = q.failed
          /\ u.skipped = q.skipped \union {n} /\ IsFiniteSet(u.skipped)
          /\ Cardinality(u.skipped) = Cardinality(q.skipped) + 1
          /\ SameStages(q, u, {"write_skipped"})
          /\ u.stages["write_skipped"] = q.stages["write_skipped"] + 1
      BY <1>1, <1>3, <2>1, SkippedIs
    <2> HIDE DEF u
    <2>3. /\ u.stages["prefetch"] = t.stages["prefetch"] /\ u.stages["candidates"] = 1
          /\ u.stages["prefetch_result"] = t.stages["prefetch_result"]
          /\ u.stages["write_skipped"] = t.stages["write_skipped"] + 1
          /\ u.stages["write_committed"] = t.stages["write_committed"]
      BY <1>2, <1>4, <1>k, <1>s, <2>2 DEF SameStages
    <2>4. u.stages["policy_decision"] = q.stages["policy_decision"]
      BY <1>s, <2>2 DEF SameStages
    <2>5. u.decisions # {} => u.stages["policy_decision"] > 0
      <3>1. u.decisions = t.decisions
        BY <1>2, <1>4, <2>2 DEF SameAnswers
      <3>2. u.stages["policy_decision"] >= t.stages["policy_decision"]
        BY <1>4, <1>k, <2>4
      <3>3. u.stages["policy_decision"] \in Nat /\ t.stages["policy_decision"] \in Nat
        BY <1>1, <1>s, <2>2 DEF Traces
      <3> QED
        BY <1>1, <3>1, <3>2, <3>3 DEF Accounts
    <2>6. /\ SameAnswers(t, u) /\ u.written = t.written /\ u.confirmed = t.confirmed
          /\ u.failed = t.failed /\ u.skipped = t.skipped \union {n}
          /\ u.requested = t.requested /\ u.proposed = t.proposed \union {n}
          /\ u.snapshots = t.snapshots \union {n}
      BY <1>2, <1>4, <2>2 DEF SameCalls, SameAnswers, SameWrites
    <2>7. Accounts(u)
      BY <1>1, <2>1, <2>2, <2>3, <2>5, <2>6 DEF Accounts, SameAnswers
    <2> QED
      BY <1>1, <2>2, <2>6, <2>7 DEF Sound, u
  <1>5. CASE v.status = "unneeded"
    <2>1. SameCalls(p, p) /\ SameAnswers(p, p) /\ SameWrites(p, p)
          /\ SameStages(p, p, {"policy_decision"})
      BY DEF SameCalls, SameAnswers, SameWrites, SameStages
    <2>2. p.stages["policy_decision"] >= p.stages["policy_decision"]
      BY <1>n, <1>s
    <2> QED
      BY <1>2, <1>4, <1>5, <1>w, <2>1, <2>2
  <1>6. CASE v.status = "against"
    <2> DEFINE q == Staged(p, "policy_decision")
    <2>1. /\ q \in Traces /\ SameCalls(p, q) /\ SameAnswers(p, q) /\ SameWrites(p, q)
          /\ SameStages(p, q, {"policy_decision"})
          /\ q.stages["policy_decision"] = p.stages["policy_decision"] + 1
      BY <1>2, <1>s, StagedIs
    <2>2. q.stages["policy_decision"] >= p.stages["policy_decision"]
      BY <1>n, <1>s, <2>1
    <2>3. Written(t, n, v) = Skipped(q, n)
      BY <1>6, <1>w
    <2> HIDE DEF q
    <2> QED
      BY <1>4, <2>1, <2>2, <2>3
  <1>7. CASE v.status = "failed"
    <2> DEFINE u == [p EXCEPT !.failed = @ \union {n}]
    <2>1. /\ u \in Traces /\ SameCalls(p, u) /\ SameAnswers(p, u) /\ u.stages = p.stages
          /\ u.failed = p.failed \union {n} /\ u.skipped = p.skipped
          /\ u.written = p.written /\ u.confirmed = p.confirmed
      BY <1>2 DEF Traces, SameCalls, SameAnswers
    <2>2. Written(t, n, v) = u
      BY <1>7, <1>w
    <2> HIDE DEF u
    <2>3. /\ SameAnswers(t, u) /\ u.written = t.written /\ u.confirmed = t.confirmed
          /\ u.failed = t.failed \union {n} /\ u.skipped = t.skipped
          /\ u.requested = t.requested /\ u.proposed = t.proposed \union {n}
          /\ u.snapshots = t.snapshots \union {n}
      BY <1>2, <2>1 DEF SameCalls, SameAnswers, SameWrites
    <2>4. Accounts(u)
      BY <1>1, <1>2, <1>k, <2>1, <2>3 DEF Accounts, SameAnswers
    <2> QED
      BY <1>1, <2>1, <2>2, <2>3, <2>4 DEF Sound
  <1>8. CASE v.status \in {"ok", "refused"}
    <2> DEFINE a == [p EXCEPT !.written = @ \union {n},
                              !.confirmed = IF v.status = "ok" THEN @ \union {n} ELSE @]
               b == StagedIf(v.policy, a, "policy_decision")
               c == StagedIf(v.conflict, b, "conflict_resolution")
               u == Staged(c, "write_committed")
    <2>1. /\ a \in Traces /\ SameCalls(p, a) /\ SameAnswers(p, a) /\ a.stages = p.stages
          /\ a.failed = p.failed /\ a.skipped = p.skipped
          /\ a.written = p.written \union {n} /\ a.confirmed \subseteq p.confirmed \union {n}
      BY <1>2 DEF Traces, SameCalls, SameAnswers
    <2>2. Written(t, n, v) = u
      BY <1>8, <1>w
    <2> HIDE DEF a
    <2>3. /\ b \in Traces /\ SameCalls(a, b) /\ SameAnswers(a, b) /\ SameWrites(a, b)
          /\ SameStages(a, b, {"policy_decision"})
          /\ b.stages["policy_decision"] >= a.stages["policy_decision"]
      <3>1. a.stages["policy_decision"] \in Nat
        BY <1>n, <1>s, <2>1
      <3>2. CASE v.policy
        BY <1>s, <2>1, <3>1, <3>2, StagedIs DEF StagedIf
      <3>3. CASE ~v.policy
        BY <2>1, <3>1, <3>3 DEF StagedIf, SameCalls, SameAnswers, SameWrites, SameStages
      <3> QED
        BY <3>2, <3>3
    <2> HIDE DEF b
    <2>4. /\ c \in Traces /\ SameCalls(b, c) /\ SameAnswers(b, c) /\ SameWrites(b, c)
          /\ SameStages(b, c, {"conflict_resolution"})
      <3>1. CASE v.conflict
        BY <1>s, <2>3, <3>1, StagedIs DEF StagedIf
      <3>2. CASE ~v.conflict
        BY <2>3, <3>2 DEF StagedIf, SameCalls, SameAnswers, SameWrites, SameStages
      <3> QED
        BY <3>1, <3>2
    <2> HIDE DEF c
    <2>5. /\ u \in Traces /\ SameCalls(c, u) /\ SameAnswers(c, u) /\ SameWrites(c, u)
          /\ SameStages(c, u, {"write_committed"})
          /\ u.stages["write_committed"] = c.stages["write_committed"] + 1
      BY <1>s, <2>4, StagedIs
    <2> HIDE DEF u
    <2>6. /\ SameAnswers(t, u) /\ u.failed = t.failed /\ u.skipped = t.skipped
          /\ u.written = t.written \union {n} /\ u.confirmed \subseteq t.confirmed \union {n}
          /\ u.requested = t.requested /\ u.proposed = t.proposed \union {n}
          /\ u.snapshots = t.snapshots \union {n}
      <3>1. /\ SameCalls(a, u) /\ SameAnswers(a, u) /\ SameWrites(a, u)
        BY <2>3, <2>4, <2>5 DEF SameCalls, SameAnswers, SameWrites
      <3> QED
        BY <1>2, <2>1, <3>1 DEF SameCalls, SameAnswers, SameWrites
    <2>7. /\ u.stages["prefetch"] = t.stages["prefetch"] /\ u.stages["candidates"] = 1
          /\ u.stages["prefetch_result"] = t.stages["prefetch_result"]
          /\ u.stages["write_skipped"] = t.stages["write_skipped"]
          /\ u.stages["write_committed"] = t.stages["write_committed"] + 1
      BY <1>2, <1>k, <1>s, <2>1, <2>3, <2>4, <2>5 DEF SameStages
    <2>8. u.decisions # {} => u.stages["policy_decision"] > 0
      <3>1. u.stages["policy_decision"] = b.stages["policy_decision"]
        BY <1>s, <2>4, <2>5 DEF SameStages
      <3>2. u.stages["policy_decision"] >= t.stages["policy_decision"]
        BY <1>k, <2>1, <2>3, <3>1
      <3>3. u.stages["policy_decision"] \in Nat /\ t.stages["policy_decision"] \in Nat
        BY <1>1, <1>s, <2>5 DEF Traces
      <3> QED
        BY <1>1, <2>6, <3>2, <3>3 DEF Accounts, SameAnswers
    <2>9. /\ IsFiniteSet(u.written) /\ Cardinality(u.written) = Cardinality(t.written) + 1
      <3>1. /\ IsFiniteSet(t.written \union {n})
            /\ Cardinality(t.written \union {n}) = Cardinality(t.written) + 1
        BY <1>1, <1>3, FS_AddElement
      <3> QED
        BY <2>6, <3>1
    <2>10. Accounts(u)
      BY <1>1, <2>6, <2>7, <2>8, <2>9 DEF Accounts, SameAnswers
    <2> QED
      BY <1>1, <2>2, <2>5, <2>6, <2>9, <2>10 DEF Sound
  <1> QED
    BY <1>5, <1>6, <1>7, <1>8 DEF Verdicts

(* What happens to a trace at its end, and with a reply.                   *)
LEMMA KeptIsSound ==
    ASSUME NEW t, Sound(t), NEW fault \in SUBSET {"unserved", "unrecorded"}
    PROVE  Sound(Kept(t, fault))
  BY DEF Sound, Kept, Accounts, Traces

LEMMA RepliedIsSound ==
    ASSUME NEW t, Sound(t), NEW used \in SUBSET Names, NEW filtered \in SUBSET Names
    PROVE  LET u == Replied(t, used, filtered) IN
           Sound(u) /\ u.used = used /\ u.filtered = filtered
  <1> DEFINE v == [t EXCEPT !.used = used, !.filtered = filtered]
             u == Staged(v, "recall_used")
  <1>1. /\ v \in Traces /\ SameCalls(t, v) /\ SameAnswers(t, v) /\ SameWrites(t, v)
        /\ v.stages = t.stages /\ v.used = used /\ v.filtered = filtered
    BY DEF Sound, Traces, SameCalls, SameAnswers, SameWrites
  <1>s. /\ "prefetch" \in Stages /\ "candidates" \in Stages /\ "prefetch_result" \in Stages
        /\ "policy_decision" \in Stages /\ "write_skipped" \in Stages /\ "write_committed" \in Stages
        /\ "recall_used" \in Stages
    BY DEF Stages
  <1>2. Replied(t, used, filtered) = u
    BY DEF Replied
  <1> HIDE DEF v
  <1>3. u.used = v.used /\ u.filtered = v.filtered
    BY <1>1 DEF Staged, Traces
  <1>4. /\ u \in Traces /\ SameCalls(v, u) /\ SameAnswers(v, u) /\ SameWrites(v, u)
        /\ SameStages(v, u, {"recall_used"})
    BY <1>1, <1>s, StagedIs
  <1> HIDE DEF u
  <1>5. /\ u.stages["prefetch"] = t.stages["prefetch"]
        /\ u.stages["candidates"] = t.stages["candidates"]
        /\ u.stages["prefetch_result"] = t.stages["prefetch_result"]
        /\ u.stages["policy_decision"] = t.stages["policy_decision"]
        /\ u.stages["write_skipped"] = t.stages["write_skipped"]
        /\ u.stages["write_committed"] = t.stages["write_committed"]
    BY <1>1, <1>4, <1>s DEF SameStages
  <1>6. SameCalls(t, u) /\ SameAnswers(t, u) /\ SameWrites(t, u)
    BY <1>1, <1>4 DEF SameCalls, SameAnswers, SameWrites
  <1>7. Accounts(u)
    BY <1>5, <1>6 DEF Sound, Accounts, SameCalls, SameAnswers, SameWrites
  <1> QED
    BY <1>1, <1>2, <1>3, <1>4, <1>6, <1>7 DEF Sound, SameCalls, SameWrites

-----------------------------------------------------------------------------
(* Candidates *)

(* The candidates of a turn: no memory is the twin of another candidate.   *)
Table(all) ==
    /\ DOMAIN all \subseteq Names
    /\ all \in [DOMAIN all -> Candidates]
    /\ \A n \in DOMAIN all : all[n].twin => all[n].kind = "writeback_proposal"

LEMMA OffersAreTables ==
    ASSUME NEW offered \in Offers
    PROVE  Table(offered)
  BY DEF Offers, Table

LEMMA EmptyIsTable == Table([n \in {} |-> Blank]) /\ DOMAIN [n \in {} |-> Blank] = {}
  BY DEF Table

LEMMA JoinedIsTable ==
    ASSUME NEW first, Table(first), NEW second, Table(second)
    PROVE  /\ Table(Joined(first, second))
           /\ DOMAIN Joined(first, second) = DOMAIN first \union DOMAIN second
           /\ \A n \in DOMAIN first : Joined(first, second)[n] = first[n]
  BY DEF Table, Joined

LEMMA FoundIsTable ==
    ASSUME NEW a \in Answers
    PROVE  Table(FromResult(a.found))
  <1>1. PICK some \in SUBSET Names : a.found \in [some -> Details]
    BY DEF Answers
  <1>2. DOMAIN a.found \subseteq Names /\ \A n \in DOMAIN a.found : a.found[n] \in Details
    BY <1>1
  <1>3. DOMAIN FromResult(a.found) = DOMAIN a.found
    BY DEF FromResult
  <1>4. ASSUME NEW n \in DOMAIN a.found
        PROVE  FromResult(a.found)[n] \in Candidates /\ ~FromResult(a.found)[n].twin
    <2>1. n \in Names /\ a.found[n].barred \in BOOLEAN /\ a.found[n].score \in Nat
      BY <1>2, <1>4 DEF Details
    <2> QED
      BY <2>1, <1>4 DEF FromResult, Candidates, Kinds, Statuses
  <1>5. FromResult(a.found) = [n \in DOMAIN FromResult(a.found) |-> FromResult(a.found)[n]]
    BY DEF FromResult
  <1> QED
    BY <1>2, <1>3, <1>4, <1>5 DEF Table

LEMMA NotingIsTable ==
    ASSUME NEW all, Table(all), NEW n \in Names, NEW c \in Candidates,
           c.twin => c.kind = "writeback_proposal"
    PROVE  /\ Table(Noting(all, n, c))
           /\ DOMAIN Noting(all, n, c) = DOMAIN all \union {n}
           /\ \A m \in DOMAIN all : Noting(all, n, c)[m] = all[m]
  <1>1. Table([x \in {n} |-> c]) /\ DOMAIN [x \in {n} |-> c] = {n}
    BY DEF Table
  <1> QED
    BY <1>1, JoinedIsTable DEF Noting

LEMMA DistinctIsTable ==
    ASSUME NEW all, Table(all)
    PROVE  Table(Distinct(all)) /\ Recalled(all) \subseteq DOMAIN Distinct(all)
  <1>1. DOMAIN Distinct(all) = Single(all) /\ \A n \in Single(all) : Distinct(all)[n] = all[n]
    BY DEF Distinct
  <1>2. Single(all) \subseteq DOMAIN all /\ Recalled(all) \subseteq Single(all)
    BY DEF Table, Single, Recalled, IsRecall
  <1> QED
    BY <1>1, <1>2 DEF Table, Distinct

LEMMA NotedIsCandidate ==
    /\ Noted("recall_request", TRUE) \in Candidates /\ ~Noted("recall_request", TRUE).twin
    /\ [Noted("recall", FALSE) EXCEPT !.score = 5] \in Candidates
    /\ ~[Noted("recall", FALSE) EXCEPT !.score = 5].twin
    /\ \A needed, twin \in BOOLEAN :
          Proposal(needed, twin) \in Candidates /\ Proposal(needed, twin).kind = "writeback_proposal"
  BY DEF Noted, Candidates, Kinds, Statuses, Proposal

(* What changes marks only keeps the candidates, their kinds and keys.     *)
LEMMA GuardedIsTable ==
    ASSUME NEW all, Table(all), NEW against
    PROVE  Table(Guarded(all, against)) /\ DOMAIN Guarded(all, against) = DOMAIN all
  <1>1. ASSUME NEW n \in DOMAIN all
        PROVE  LET c == [all[n] EXCEPT !.status = "filtered", !.guarded = TRUE, !.barred = TRUE] IN
               c \in Candidates /\ c.twin = all[n].twin /\ c.kind = all[n].kind
    BY DEF Table, Candidates, Statuses
  <1> QED
    BY <1>1 DEF Table, Guarded

Settles(all, n) == [all EXCEPT ![n] = [@ EXCEPT !.settled = TRUE]]
LEMMA SettledIsTable ==
    ASSUME NEW all, Table(all), NEW n \in DOMAIN all
    PROVE  /\ Table(Settles(all, n)) /\ DOMAIN Settles(all, n) = DOMAIN all
           /\ \A m \in DOMAIN all : Filtered(Settles(all, n)[m]) <=> Filtered(all[m])
  <1> DEFINE c == [all[n] EXCEPT !.settled = TRUE]
  <1>1. /\ c \in Candidates /\ c.twin = all[n].twin /\ c.kind = all[n].kind
        /\ c.status = all[n].status /\ c.barred = all[n].barred /\ c.guarded = all[n].guarded
    BY DEF Table, Candidates
  <1>2. Settles(all, n) = [all EXCEPT ![n] = c]
    BY DEF Settles
  <1> HIDE DEF c
  <1> QED
    BY <1>1, <1>2 DEF Table, Filtered

(* The two marks of a reply, with what the decision has referred to.       *)
LEMMA MarkUsedIs ==
    ASSUME Table(cands)
    PROVE  LET all == MarkUsed(cands) IN
           /\ Table(all) /\ DOMAIN all = DOMAIN cands
           /\ \A n \in DOMAIN cands :
                 /\ all[n].kind = cands[n].kind /\ all[n].record = cands[n].record
                 /\ all[n].barred = cands[n].barred /\ all[n].guarded = cands[n].guarded
                 /\ n \in UsedBy(cands) => all[n].used /\ all[n].status = "used"
  <1>1. ASSUME NEW n \in DOMAIN cands
        PROVE  LET c == [cands[n] EXCEPT !.used = TRUE, !.status = "used"] IN
               /\ c \in Candidates /\ c.twin = cands[n].twin /\ c.kind = cands[n].kind
               /\ c.record = cands[n].record /\ c.barred = cands[n].barred
               /\ c.guarded = cands[n].guarded /\ c.used = TRUE /\ c.status = "used"
    BY DEF Table, Candidates, Statuses
  <1> QED
    BY <1>1 DEF Table, MarkUsed

LEMMA MarkFilteredIs ==
    ASSUME NEW old, Table(old)
    PROVE  LET all == MarkFiltered(old) IN
           /\ Table(all) /\ DOMAIN all = DOMAIN old
           /\ \A n \in DOMAIN old :
                 /\ all[n].kind = old[n].kind /\ all[n].record = old[n].record
                 /\ n \in FilteredIn(old) => all[n].used = FALSE /\ all[n].status = "filtered"
                 /\ n \notin FilteredIn(old) => all[n] = old[n]
  <1>1. ASSUME NEW n \in DOMAIN old
        PROVE  LET c == [old[n] EXCEPT !.used = FALSE, !.status = "filtered"] IN
               /\ c \in Candidates /\ c.twin = old[n].twin /\ c.kind = old[n].kind
               /\ c.record = old[n].record /\ c.used = FALSE /\ c.status = "filtered"
    BY DEF Table, Candidates, Statuses
  <1> QED
    BY <1>1 DEF Table, MarkFiltered

-----------------------------------------------------------------------------
(* The inductive invariants *)

(* The candidates: while a decision is carried out, what it refers to is   *)
(* there and clean, and what a commit has yet to come to is there.         *)
CandidatesInv ==
    /\ Table(cands) /\ refs \subseteq Names
    /\ step \in {"idle", "deciding", "committing", "retrying", "replying", "replied"}
    /\ Committing => todo \subseteq DOMAIN cands
    /\ RefersToCleanMemories

(* The traces: a commit comes to no name twice.                            *)
SoundTraces == {t \in Traces : Sound(t)}
TracesInv ==
    /\ traces \in Seq(SoundTraces) /\ Sound(draft)
    /\ todo \subseteq Names
    /\ Committing => todo \cap (draft.requested \union draft.proposed) = {}

LEMMA RecallInitInv == RecallInit => CandidatesInv /\ TracesInv /\ ReplyTellsTheTruth
  <1> SUFFICES ASSUME RecallInit PROVE CandidatesInv /\ TracesInv /\ ReplyTellsTheTruth
    OBVIOUS
  <1>1. Table(cands) /\ Sound(draft)
    BY EmptyIsTable, NewTraceIsSound DEF RecallInit
  <1> QED
    BY <1>1 DEF RecallInit, CandidatesInv, TracesInv, ReplyTellsTheTruth, RefersToCleanMemories,
                Committing

LEMMA NotingAProposal ==
    ASSUME Table(cands), NEW n \in Names, NEW needed \in BOOLEAN, NEW twin \in BOOLEAN
    PROVE  LET all == Noting(cands, n, Proposal(needed, twin)) IN
           /\ Table(all) /\ DOMAIN cands \subseteq DOMAIN all
           /\ \A m \in DOMAIN cands : all[m] = cands[m]
  <1> DEFINE c == Proposal(needed, twin)
  <1>1. c \in Candidates /\ c.kind = "writeback_proposal"
    BY NotedIsCandidate
  <1> HIDE DEF c
  <1>2. /\ Table(Noting(cands, n, c)) /\ DOMAIN Noting(cands, n, c) = DOMAIN cands \union {n}
        /\ \A m \in DOMAIN cands : Noting(cands, n, c)[m] = cands[m]
    BY <1>1, NotingIsTable
  <1> QED
    BY <1>2 DEF c

LEMMA PrefetchedIsTable ==
    ASSUME Table(cands), NEW n \in Names, NEW a \in Answers
    PROVE  Table(Prefetched(n, a)) /\ DOMAIN cands \subseteq DOMAIN Prefetched(n, a)
                                   /\ \A m \in DOMAIN cands : Prefetched(n, a)[m] = cands[m]
  <1>1. CASE service
    <2> DEFINE f == Noting(cands, n, Noted("recall_request", TRUE))
    <2>1. Table(f) /\ DOMAIN f = DOMAIN cands \union {n} /\ \A m \in DOMAIN cands : f[m] = cands[m]
      BY NotedIsCandidate, NotingIsTable
    <2>2. Table(FromResult(a.found))
      BY FoundIsTable
    <2>3. Prefetched(n, a) = Joined(f, FromResult(a.found))
      BY <1>1 DEF Prefetched
    <2> HIDE DEF f
    <2> DEFINE g == FromResult(a.found)
    <2> HIDE DEF g
    <2>4. Table(g)
      BY <2>2 DEF g
    <2>5. /\ Table(Joined(f, g)) /\ DOMAIN Joined(f, g) = DOMAIN f \union DOMAIN g
          /\ \A m \in DOMAIN f : Joined(f, g)[m] = f[m]
      BY <2>1, <2>4, JoinedIsTable
    <2>6. Prefetched(n, a) = Joined(f, g)
      BY <2>3 DEF g
    <2> QED
      BY <2>1, <2>5, <2>6
  <1>2. CASE ~service
    <2> DEFINE c == [Noted("recall", FALSE) EXCEPT !.score = 5]
    <2>1. Prefetched(n, a) = Noting(cands, n, c)
      BY <1>2 DEF Prefetched
    <2>2. c \in Candidates /\ ~c.twin
      BY NotedIsCandidate
    <2> HIDE DEF c
    <2>3. /\ Table(Noting(cands, n, c)) /\ DOMAIN Noting(cands, n, c) = DOMAIN cands \union {n}
          /\ \A m \in DOMAIN cands : Noting(cands, n, c)[m] = cands[m]
      BY <2>2, NotingIsTable
    <2> QED
      BY <2>1, <2>3
  <1> QED
    BY <1>1, <1>2

LEMMA OfferedIsTable ==
    ASSUME Table(cands), NEW offered \in Offers
    PROVE  Table(Offered(offered)) /\ Recalled(cands) \subseteq DOMAIN Offered(offered)
  <1>1. CASE DOMAIN offered = {}
    BY <1>1 DEF Offered, Recalled
  <1>2. CASE DOMAIN offered # {}
    BY <1>2, OffersAreTables, DistinctIsTable, JoinedIsTable DEF Offered
  <1> QED
    BY <1>1, <1>2

(* Each step keeps the invariant of the candidates; no memory leaves, and  *)
(* a reply tells what it has done.                                         *)
LEMMA CandidatesStep ==
    ASSUME CandidatesInv, RecallNext
    PROVE  CandidatesInv' /\ Recalled(cands) \subseteq DOMAIN cands'
  <1>0. Table(cands) /\ Recalled(cands) \subseteq DOMAIN cands
    BY DEF CandidatesInv, Recalled
  <1> USE DEF CandidatesInv, RefersToCleanMemories, Committing
  <1>1. ASSUME NEW n \in Names, NEW asks \in BOOLEAN, NEW a \in Answers, NEW offered \in Offers,
               NEW fault \in Faults, ObservePartial(n, asks, a, offered, fault)
        PROVE  CandidatesInv' /\ Recalled(cands) \subseteq DOMAIN cands'
    <2> DEFINE all == IF asks THEN Prefetched(n, a) ELSE cands
    <2>1. Table(all) /\ Recalled(cands) \subseteq Recalled(all)
      BY <1>0, PrefetchedIsTable DEF Recalled
    <2>2. cands' = Joined(Distinct(all), offered)
      BY <1>1 DEF ObservePartial
    <2> HIDE DEF all
    <2>3. Table(cands') /\ Recalled(all) \subseteq DOMAIN cands'
      BY <2>1, <2>2, DistinctIsTable, OffersAreTables, JoinedIsTable
    <2> QED
      BY <1>1, <2>1, <2>3 DEF ObservePartial, Table
  <1>2. ASSUME NEW offered \in Offers, ObserveFinal(offered)
        PROVE  CandidatesInv' /\ Recalled(cands) \subseteq DOMAIN cands'
    BY <1>0, <1>2, OfferedIsTable DEF ObserveFinal, Table
  <1>3. ASSUME NEW offered \in Offers, NEW against \in SUBSET Names, NEW best \in SUBSET Names,
               Decide(offered, against, best)
        PROVE  CandidatesInv' /\ Recalled(cands) \subseteq DOMAIN cands'
    <2>1. /\ Table(Offered(offered)) /\ Recalled(cands) \subseteq DOMAIN Offered(offered)
      BY <1>0, OfferedIsTable
    <2>2. cands' = Guarded(Offered(offered), against) /\ refs' = best /\ step' = "deciding"
          /\ Best(cands', best)
      BY <1>3 DEF Decide
    <2>3. Table(cands') /\ DOMAIN cands' = DOMAIN Offered(offered)
      BY <2>1, <2>2, GuardedIsTable
    <2>4. best \subseteq {n \in DOMAIN cands' : ~Filtered(cands'[n])}
      BY <2>2 DEF Best
    <2> QED
      BY <2>1, <2>2, <2>3, <2>4 DEF Table
  <1>4. CASE Refused
    BY <1>0, <1>4 DEF Refused
  <1>5. CASE NoCommit
    BY <1>0, <1>5 DEF NoCommit
  <1>6. CASE CommitCandidates
    BY <1>0, <1>6 DEF CommitCandidates, Commit, Open, Table
  <1>7. CASE NothingToMark
    BY <1>0, <1>7 DEF NothingToMark
  <1>8. ASSUME NEW n \in Names, NEW twin \in BOOLEAN, AutoCommit(n, twin)
        PROVE  CandidatesInv' /\ Recalled(cands) \subseteq DOMAIN cands'
    <2> DEFINE all == IF Pending(cands) THEN cands ELSE Noting(cands, n, Proposal(TRUE, twin))
    <2>1. /\ Table(all) /\ DOMAIN cands \subseteq DOMAIN all
          /\ \A m \in DOMAIN cands : all[m] = cands[m]
      BY <1>0, NotingAProposal
    <2>2. cands' = all /\ todo' = Open(all) /\ step' = "committing" /\ refs' = refs
          /\ step = "deciding"
      BY <1>8 DEF AutoCommit, Commit
    <2> HIDE DEF all
    <2>3. Open(all) \subseteq DOMAIN all
      BY DEF Open
    <2> QED
      BY <1>0, <2>1, <2>2, <2>3 DEF Table
  <1>9. ASSUME NEW n \in Names, NEW needed \in BOOLEAN, NEW twin \in BOOLEAN, Propose(n, needed, twin)
        PROVE  CandidatesInv' /\ Recalled(cands) \subseteq DOMAIN cands'
    <2>1. /\ Table(Noting(cands, n, Proposal(needed, twin)))
          /\ DOMAIN cands \subseteq DOMAIN Noting(cands, n, Proposal(needed, twin))
      BY <1>0, NotingAProposal
    <2> QED
      BY <1>0, <1>9, <2>1 DEF Propose, Table
  <1>10. ASSUME NEW n \in Names, NEW a \in Answers, CommitRecall(n, a)
         PROVE  CandidatesInv' /\ Recalled(cands) \subseteq DOMAIN cands'
    <2>1. n \in DOMAIN cands /\ todo \subseteq DOMAIN cands
      BY <1>10 DEF CommitRecall
    <2>2. /\ Table(Settles(cands, n)) /\ DOMAIN Settles(cands, n) = DOMAIN cands
          /\ \A m \in DOMAIN cands : Filtered(Settles(cands, n)[m]) <=> Filtered(cands[m])
      BY <1>0, <2>1, SettledIsTable
    <2>3. /\ cands' = Joined(Settles(cands, n), FromResult(a.found)) /\ refs' = refs
          /\ step' = step /\ todo' = todo \ {n} /\ step \in {"committing", "retrying"}
      BY <1>10 DEF CommitRecall, Settled, Settles
    <2>4. /\ Table(cands') /\ DOMAIN cands \subseteq DOMAIN cands'
          /\ \A m \in DOMAIN cands : cands'[m] = Settles(cands, n)[m]
      <3> DEFINE f == Settles(cands, n)
                 g == FromResult(a.found)
      <3>1. Table(f) /\ DOMAIN f = DOMAIN cands /\ Table(g) /\ cands' = Joined(f, g)
        BY <2>2, <2>3, FoundIsTable
      <3> HIDE DEF f, g
      <3>2. /\ Table(Joined(f, g)) /\ DOMAIN Joined(f, g) = DOMAIN f \union DOMAIN g
            /\ \A m \in DOMAIN f : Joined(f, g)[m] = f[m]
        BY <3>1, JoinedIsTable
      <3> QED
        BY <3>1, <3>2 DEF f
    <2> QED
      BY <1>0, <2>1, <2>2, <2>3, <2>4 DEF Table
  <1>11. ASSUME NEW n \in Names, NEW v \in Verdicts, NEW deferred \in BOOLEAN,
                CommitWriteback(n, v, deferred)
         PROVE  CandidatesInv' /\ Recalled(cands) \subseteq DOMAIN cands'
    <2>1. n \in DOMAIN cands /\ todo \subseteq DOMAIN cands
      BY <1>11 DEF CommitWriteback
    <2>2. /\ Table(Settles(cands, n)) /\ DOMAIN Settles(cands, n) = DOMAIN cands
          /\ \A m \in DOMAIN cands : Filtered(Settles(cands, n)[m]) <=> Filtered(cands[m])
      BY <1>0, <2>1, SettledIsTable
    <2>3. /\ cands' = cands \/ cands' = Settles(cands, n)
          /\ refs' = refs /\ step' = step /\ todo' = todo \ {n}
      BY <1>11 DEF CommitWriteback, Settled, Settles
    <2> QED
      BY <1>0, <2>1, <2>2, <2>3 DEF Table
  <1>12. ASSUME NEW fault \in Faults, CommitEnds(fault)
         PROVE  CandidatesInv' /\ Recalled(cands) \subseteq DOMAIN cands'
    BY <1>0, <1>12 DEF CommitEnds
  <1>13. ASSUME NEW fault \in Faults, Reply(fault)
         PROVE  CandidatesInv' /\ Recalled(cands) \subseteq DOMAIN cands'
    <2>1. Table(MarkUsed(cands)) /\ DOMAIN MarkUsed(cands) = DOMAIN cands
      BY <1>0, MarkUsedIs
    <2>2. cands' = MarkFiltered(MarkUsed(cands)) /\ step' = "replied" /\ refs' = refs
      BY <1>13 DEF Reply
    <2>3. Table(cands') /\ DOMAIN cands' = DOMAIN cands
      BY <2>1, <2>2, MarkFilteredIs
    <2> QED
      BY <1>0, <2>2, <2>3 DEF Table
  <1> QED
    BY <1>1, <1>2, <1>3, <1>4, <1>5, <1>6, <1>7, <1>8, <1>9, <1>10, <1>11, <1>12, <1>13
    DEF RecallNext

LEMMA LatestIsSound ==
    ASSUME TracesInv
    PROVE  /\ Sound(Latest)
           /\ traces # <<>> => Len(traces) \in DOMAIN traces
           /\ \A t : Sound(t) =>
                 /\ Append(traces, t) \in Seq(SoundTraces)
                 /\ traces # <<>> => [traces EXCEPT ![Len(traces)] = t] \in Seq(SoundTraces)
                 /\ <<t>> \in Seq(SoundTraces)
  <1>1. traces \in Seq(SoundTraces)
    BY DEF TracesInv
  <1>2. \A t : Sound(t) <=> t \in SoundTraces
    BY DEF SoundTraces, Sound
  <1>3. traces # <<>> => Len(traces) \in 1..Len(traces)
    BY <1>1
  <1>4. Sound(Latest)
    <2>1. CASE traces = <<>>
      BY <2>1, NewTraceIsSound DEF Latest
    <2>2. CASE traces # <<>>
      BY <1>1, <1>2, <1>3, <2>2 DEF Latest
    <2> QED
      BY <2>1, <2>2
  <1>5. ASSUME NEW t, Sound(t)
        PROVE  /\ Append(traces, t) \in Seq(SoundTraces)
               /\ traces # <<>> => [traces EXCEPT ![Len(traces)] = t] \in Seq(SoundTraces)
               /\ <<t>> \in Seq(SoundTraces)
    <2>1. t \in SoundTraces
      BY <1>2, <1>5
    <2> QED
      BY <1>1, <1>3, <2>1
  <1> QED
    BY <1>1, <1>3, <1>4, <1>5

(* Each step keeps the traces sound.                                       *)
LEMMA TracesStep ==
    ASSUME CandidatesInv, TracesInv, RecallNext
    PROVE  TracesInv'
  <1>0. /\ traces \in Seq(SoundTraces) /\ Sound(draft) /\ todo \subseteq Names
        /\ Committing => todo \cap (draft.requested \union draft.proposed) = {}
        /\ DOMAIN cands \subseteq Names
    BY DEF TracesInv, CandidatesInv, Table
  <1>f. \A fault \in Faults : fault \in SUBSET {"unserved", "unrecorded"}
    BY DEF Faults
  <1>n. NewTrace.requested = {} /\ NewTrace.proposed = {} /\ Sound(NewTrace)
    BY NewTraceIsSound DEF NewTrace
  <1>1. ASSUME NEW n \in Names, NEW asks \in BOOLEAN, NEW a \in Answers, NEW offered \in Offers,
               NEW fault \in Faults, ObservePartial(n, asks, a, offered, fault)
        PROVE  TracesInv'
    <2>1. Sound(Resolved(NewTrace, n, a))
      BY <1>n, ResolvedIsSound
    <2>2. Sound(Kept(Resolved(NewTrace, n, a), fault))
      BY <1>f, <2>1, KeptIsSound
    <2>3. traces' \in Seq(SoundTraces)
      BY <1>1, <2>2, LatestIsSound DEF ObservePartial, TracesInv
    <2> QED
      BY <1>0, <1>1, <2>3 DEF ObservePartial, TracesInv, Committing
  <1>2. ASSUME NEW offered \in Offers, ObserveFinal(offered)
        PROVE  TracesInv'
    BY <1>0, <1>2 DEF ObserveFinal, TracesInv, Committing
  <1>3. ASSUME NEW offered \in Offers, NEW against \in SUBSET Names, NEW best \in SUBSET Names,
               Decide(offered, against, best)
        PROVE  TracesInv'
    BY <1>0, <1>3 DEF Decide, TracesInv, Committing
  <1>4. CASE Refused
    BY <1>0, <1>4 DEF Refused, TracesInv, Committing
  <1>5. CASE NoCommit
    BY <1>0, <1>5 DEF NoCommit, TracesInv, Committing
  <1>6. CASE CommitCandidates
    <2>1. CASE service
      BY <1>0, <1>6, <1>n, <2>1 DEF CommitCandidates, Commit, Open, TracesInv, Committing
    <2>2. CASE ~service
      <3>1. Sound(Kept(NewTrace, {"unserved"}))
        BY <1>n, KeptIsSound
      <3>2. traces' \in Seq(SoundTraces)
        BY <1>6, <2>2, <3>1, LatestIsSound DEF CommitCandidates, TracesInv
      <3> QED
        BY <1>0, <1>6, <2>2, <3>2 DEF CommitCandidates, TracesInv, Committing
    <2> QED
      BY <2>1, <2>2
  <1>7. CASE NothingToMark
    BY <1>0, <1>7 DEF NothingToMark, TracesInv, Committing
  <1>8. ASSUME NEW n \in Names, NEW twin \in BOOLEAN, AutoCommit(n, twin)
        PROVE  TracesInv'
    <2>1. DOMAIN Noting(cands, n, Proposal(TRUE, twin)) \subseteq Names
      BY <1>0, NotingAProposal DEF CandidatesInv, Table
    <2>2. todo' \subseteq Names /\ draft' = NewTrace /\ traces' = traces
      BY <1>0, <1>8, <2>1 DEF AutoCommit, Commit, Open
    <2> QED
      BY <1>0, <1>n, <2>2 DEF TracesInv
  <1>9. ASSUME NEW n \in Names, NEW needed \in BOOLEAN, NEW twin \in BOOLEAN, Propose(n, needed, twin)
        PROVE  TracesInv'
    BY <1>0, <1>9 DEF Propose, TracesInv, Committing
  <1>10. ASSUME NEW n \in Names, NEW a \in Answers, CommitRecall(n, a)
         PROVE  TracesInv'
    <2>1. /\ n \in todo /\ Committing /\ step' = step /\ traces' = traces
          /\ draft' = Resolved(draft, n, a) /\ todo' = todo \ {n}
      BY <1>10 DEF CommitRecall
    <2>2. n \notin draft.requested \union draft.proposed
      BY <1>0, <2>1
    <2>3. /\ Sound(draft') /\ draft'.requested = draft.requested \union {n}
          /\ draft'.proposed = draft.proposed
      BY <1>0, <2>1, <2>2, ResolvedIsSound
    <2> QED
      BY <1>0, <2>1, <2>3 DEF TracesInv, Committing
  <1>11. ASSUME NEW n \in Names, NEW v \in Verdicts, NEW deferred \in BOOLEAN,
                CommitWriteback(n, v, deferred)
         PROVE  TracesInv'
    <2>1. /\ n \in todo /\ Committing /\ step' = step /\ traces' = traces
          /\ draft' = Written(draft, n, v) /\ todo' = todo \ {n}
      BY <1>11 DEF CommitWriteback
    <2>2. n \notin draft.requested \union draft.proposed
      BY <1>0, <2>1
    <2>3. /\ Sound(draft') /\ draft'.requested = draft.requested
          /\ draft'.proposed = draft.proposed \union {n}
      BY <1>0, <2>1, <2>2, WrittenIsSound
    <2> QED
      BY <1>0, <2>1, <2>3 DEF TracesInv, Committing
  <1>12. ASSUME NEW fault \in Faults, CommitEnds(fault)
         PROVE  TracesInv'
    <2>1. Sound(Kept(draft, fault))
      BY <1>0, <1>f, KeptIsSound
    <2>2. traces' \in Seq(SoundTraces)
      BY <1>12, <2>1, LatestIsSound DEF CommitEnds
    <2> QED
      BY <1>0, <1>12, <2>2 DEF CommitEnds, TracesInv, Committing
  <1>13. ASSUME NEW fault \in Faults, Reply(fault)
         PROVE  TracesInv'
    <2> DEFINE r == Replied(Latest, UsedBy(cands), FilteredIn(MarkUsed(cands)))
               t == Kept(r, fault)
    <2>1. UsedBy(cands) \subseteq Names /\ FilteredIn(MarkUsed(cands)) \subseteq Names
      BY <1>0, MarkUsedIs DEF UsedBy, FilteredIn, Recalled, CandidatesInv
    <2>2. Sound(r)
      BY <2>1, LatestIsSound, RepliedIsSound
    <2> HIDE DEF r
    <2>3. Sound(t)
      BY <1>f, <2>2, KeptIsSound
    <2>4. traces' = IF traces = <<>> THEN <<t>> ELSE [traces EXCEPT ![Len(traces)] = t]
      BY <1>13 DEF Reply, r
    <2> HIDE DEF t
    <2>5. traces' \in Seq(SoundTraces)
      BY <2>3, <2>4, LatestIsSound
    <2> QED
      BY <1>0, <1>13, <2>5 DEF Reply, TracesInv, Committing
  <1> QED
    BY <1>1, <1>2, <1>3, <1>4, <1>5, <1>6, <1>7, <1>8, <1>9, <1>10, <1>11, <1>12, <1>13
    DEF RecallNext

(* The reply itself.                                                       *)
LEMMA ReplyStep ==
    ASSUME CandidatesInv, TracesInv, NEW fault \in Faults, Reply(fault)
    PROVE  ReplyTellsTheTruth'
  <1> DEFINE r == Replied(Latest, UsedBy(cands), FilteredIn(MarkUsed(cands)))
             t == Kept(r, fault)
             marked == MarkUsed(cands)
  <1>1. Table(cands) /\ DOMAIN cands \subseteq Names
        /\ refs \subseteq DOMAIN cands /\ \A n \in refs : ~Filtered(cands[n])
    BY DEF CandidatesInv, RefersToCleanMemories, Reply, Table
  <1>2. /\ Table(marked) /\ DOMAIN marked = DOMAIN cands
        /\ \A n \in DOMAIN cands :
              /\ marked[n].kind = cands[n].kind /\ marked[n].record = cands[n].record
              /\ marked[n].barred = cands[n].barred /\ marked[n].guarded = cands[n].guarded
              /\ n \in UsedBy(cands) => marked[n].used /\ marked[n].status = "used"
    BY <1>1, MarkUsedIs
  <1>3. /\ t.used = UsedBy(cands) /\ t.filtered = FilteredIn(marked) /\ Sound(t)
    <2>1. UsedBy(cands) \subseteq Names /\ FilteredIn(MarkUsed(cands)) \subseteq Names
      BY <1>1, <1>2 DEF UsedBy, FilteredIn, Recalled
    <2>2. Sound(r) /\ r.used = UsedBy(cands) /\ r.filtered = FilteredIn(marked)
      BY <2>1, LatestIsSound, RepliedIsSound
    <2> HIDE DEF r
    <2>3. Sound(t)
      BY <2>2, KeptIsSound DEF Faults
    <2> QED
      BY <2>2, <2>3 DEF Kept, Sound, Traces
  <1>4. /\ cands' = MarkFiltered(marked) /\ refs' = refs
        /\ traces' = IF traces = <<>> THEN <<t>> ELSE [traces EXCEPT ![Len(traces)] = t]
    BY DEF Reply
  <1> HIDE DEF r, t, marked
  <1>5. /\ DOMAIN cands' = DOMAIN marked
        /\ \A n \in DOMAIN marked :
              /\ cands'[n].kind = marked[n].kind /\ cands'[n].record = marked[n].record
              /\ n \in FilteredIn(marked) => cands'[n].used = FALSE /\ cands'[n].status = "filtered"
              /\ n \notin FilteredIn(marked) => cands'[n] = marked[n]
    <2> DEFINE all == MarkFiltered(marked)
    <2>1. /\ DOMAIN all = DOMAIN marked
          /\ \A n \in DOMAIN marked :
                /\ all[n].kind = marked[n].kind /\ all[n].record = marked[n].record
                /\ n \in FilteredIn(marked) => all[n].used = FALSE /\ all[n].status = "filtered"
                /\ n \notin FilteredIn(marked) => all[n] = marked[n]
      BY <1>2, MarkFilteredIs
    <2>2. cands' = all
      BY <1>4
    <2> HIDE DEF all
    <2> QED
      BY <2>1, <2>2
  <1>6. traces' # <<>> /\ traces'[Len(traces')] = t
    <2>1. traces \in Seq(SoundTraces) /\ t \in SoundTraces
      BY <1>3 DEF TracesInv, SoundTraces, Sound
    <2>2. CASE traces = <<>>
      BY <1>4, <2>2
    <2>3. CASE traces # <<>>
      BY <1>4, <2>1, <2>3
    <2> QED
      BY <2>2, <2>3
  <1>7. ASSUME NEW n \in Recalled(cands'), Filtered(cands'[n])
        PROVE  ~cands'[n].used /\ cands'[n].status = "filtered" /\ n \in t.filtered
    <2>1. n \in DOMAIN marked /\ IsRecall(marked[n])
      BY <1>5, <1>7 DEF Recalled, IsRecall
    <2>2. n \in FilteredIn(marked)
      BY <1>5, <1>7, <2>1 DEF FilteredIn, Recalled
    <2> QED
      BY <1>3, <1>5, <2>1, <2>2
  <1>8. ASSUME NEW n \in Recalled(cands'), n \in refs, Key(cands', n) = n
        PROVE  cands'[n].used /\ n \in t.used /\ n \notin t.filtered
    <2>1. n \in DOMAIN cands /\ n \in DOMAIN marked /\ IsRecall(cands[n])
      BY <1>2, <1>5, <1>8 DEF Recalled, IsRecall
    <2>2. Key(cands, n) = n
      BY <1>2, <1>5, <1>8, <2>1 DEF Key
    <2>3. n \in UsedBy(cands)
      BY <1>8, <2>1, <2>2 DEF UsedBy, Recalled
    <2>4. ~Filtered(marked[n])
      BY <1>1, <1>2, <1>8, <2>1, <2>3 DEF Filtered
    <2>5. n \notin FilteredIn(marked)
      BY <2>4 DEF FilteredIn
    <2> QED
      BY <1>2, <1>3, <1>5, <2>1, <2>3, <2>5
  <1> QED
    BY <1>4, <1>6, <1>7, <1>8 DEF ReplyTellsTheTruth

(* Every other step leaves the reply behind.                               *)
LEMMA RepliesAreReplies ==
    ASSUME RecallNext, step' = "replied"
    PROVE  \E fault \in Faults : Reply(fault)
  BY DEF RecallNext, ObservePartial, ObserveFinal, Decide, Refused, NoCommit, CommitCandidates,
         NothingToMark, AutoCommit, Commit, Propose, CommitRecall, CommitWriteback, CommitEnds, Committing

LEMMA SoundTracesAccount ==
    ASSUME TracesInv
    PROVE  TracesAccount /\ OkMeansAnswered
  <1>1. ASSUME NEW i \in DOMAIN traces
        PROVE  Sound(traces[i])
    BY <1>1 DEF TracesInv, SoundTraces
  <1>2. TracesAccount
    BY <1>1 DEF TracesAccount, Sound
  <1>3. ASSUME NEW i \in DOMAIN traces, Status(traces[i]) = "ok"
        PROVE  /\ traces[i].requested \subseteq traces[i].answered
               /\ traces[i].proposed \subseteq traces[i].written \union traces[i].skipped
    <2>1. traces[i].failed = {}
      BY <1>3 DEF Status
    <2> QED
      BY <1>1, <2>1 DEF Sound, Accounts
  <1> QED
    BY <1>2, <1>3 DEF OkMeansAnswered

(* Whatever the service answers and the policy decides, and whatever the   *)
(* callers offer: a decision refers to clean memories, a reply says what   *)
(* was used and what was not, the traces account for every request and     *)
(* proposal, and no memory leaves the turn.                                *)
THEOREM RecallsAreAccountedFor ==
    RecallSpec => /\ [](ReplyTellsTheTruth /\ RefersToCleanMemories /\ TracesAccount /\ OkMeansAnswered)
                  /\ MemoriesStay
  <1> DEFINE IInv == CandidatesInv /\ TracesInv /\ ReplyTellsTheTruth
  <1>1. RecallInit => IInv
    BY RecallInitInv
  <1>2. IInv /\ [RecallNext]_recallVars => IInv' /\ Recalled(cands) \subseteq DOMAIN cands'
    <2> SUFFICES ASSUME IInv, [RecallNext]_recallVars
                 PROVE  IInv' /\ Recalled(cands) \subseteq DOMAIN cands'
      OBVIOUS
    <2>1. CASE RecallNext
      <3>1. CandidatesInv' /\ TracesInv' /\ Recalled(cands) \subseteq DOMAIN cands'
        BY <2>1, CandidatesStep, TracesStep
      <3>2. ReplyTellsTheTruth'
        BY <2>1, RepliesAreReplies, ReplyStep DEF ReplyTellsTheTruth
      <3> QED
        BY <3>1, <3>2
    <2>2. CASE UNCHANGED recallVars
      <3>1. Recalled(cands) \subseteq DOMAIN cands
        BY DEF Recalled
      <3> QED
        BY <2>2, <3>1 DEF recallVars, CandidatesInv, TracesInv, ReplyTellsTheTruth,
                     RefersToCleanMemories, Committing
    <2> QED
      BY <2>1, <2>2
  <1>3. IInv => RefersToCleanMemories /\ TracesAccount /\ OkMeansAnswered /\ ReplyTellsTheTruth
    BY SoundTracesAccount DEF CandidatesInv
  <1> HIDE DEF IInv
  <1> QED
    BY <1>1, <1>2, <1>3, PTL DEF RecallSpec, MemoriesStay
=============================================================================
