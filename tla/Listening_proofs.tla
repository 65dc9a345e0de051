-------------------------- MODULE Listening_proofs --------------------------
(***************************************************************************)
(* The voice session and the wake pipeline.                                *)
(*                                                                         *)
(* VoiceSessions, for any number of rounds, of barge-ins and of iterations *)
(* that raise.  A call of a session is two steps, and between them the     *)
(* other thread may have its own.  So the invariant says what a call may   *)
(* still do that has passed its check: one of a barge-in names a turn that *)
(* has been interrupted, and one of the loop meets a session that is       *)
(* closed only if the barge-in has closed it.                              *)
(*                                                                         *)
(* WakePipeline, for a ring, a look-back and bounds of any size: who has   *)
(* the microphone, that a sleeping loop is heard, and which words can wake *)
(* it twice.  That the loop is heard needs what holds between the two      *)
(* starts.  That only leftovers wake again needs that a word which has     *)
(* woken the loop is nowhere to be heard while the loop waits, unless it   *)
(* is a leftover: the look-back only ever gains the newest word, and that  *)
(* is a new one.                                                           *)
(*                                                                         *)
(* VoiceStream, for any ids and any calls of one session: that a round     *)
(* whose callers name it ends once needs that a session which has recorded *)
(* an end is not open, and one that is open has not stamped its end.       *)
(***************************************************************************)
EXTENDS VoiceSessions, WakePipeline, VoiceStream, SequenceTheorems, TLAPS

-----------------------------------------------------------------------------
(* The voice session *)

Phases == Terminal \cup {"none", "listening", "thinking_stream", "speaking_stream"}

Steps == {"open", "listen", "look", "use", "think", "gate", "last", "dispatch", "failed"} \cup Ops

(* What the proofs need of the types.                                      *)
Typed ==
    /\ current \in 0..MaxRounds /\ installed \in 0..current /\ mine \in 0..current
    /\ turn \in [Rounds -> {"none", "live", "completed", "interrupted"}]
    /\ session \in [Rounds -> [phase : Phases, interrupted : BOOLEAN]]
    /\ call \in [Threads -> [step : {"none", "check", "write"}, op : Ops, to : 0..MaxRounds,
                             tag : 0..MaxRounds]]
    /\ todo \in Seq(Steps)

(* The turns: the current one is live, that of the iteration is live or has*)
(* been interrupted.                                                       *)
TurnsInOrder ==
    /\ current # 0 => turn[current] = "live"
    /\ \A r \in Rounds : r > current => turn[r] = "none"
    /\ \A r \in Rounds : r < current => turn[r] \in {"completed", "interrupted"}
    /\ mine # 0 => turn[mine] \in {"live", "interrupted"}

(* The calls under way, of either thread.                                  *)
CallsInOrder ==
    /\ \A t \in Threads : call[t].step # "none" => call[t].to # 0
    /\ call["loop"].step # "none" => call["loop"].op # "interrupt"
    /\ call["barge"].step # "none" =>
           /\ call["barge"].op = "interrupt"
           /\ call["barge"].tag # 0 /\ turn[call["barge"].tag] = "interrupted"
           /\ call["barge"].step = "write" => call["barge"].to = call["barge"].tag

SafetyInv == Typed /\ TurnsInOrder /\ CallsInOrder /\ InterruptedTurnFirst

USE SessionAssumption DEF SessionAssumption

-----------------------------------------------------------------------------
(* Lemmas *)

LEMMA Numbers == MaxRounds \in Nat \ {0} /\ 0 \notin Rounds /\ Rounds \subseteq 0..MaxRounds
  BY DEF Rounds

(* A turn once interrupted stays so; only the current one is closed.       *)
LEMMA NextTurnCloses ==
    ASSUME Typed, TurnsInOrder, NEW closed \in {"completed", "interrupted"}, NextTurn(closed)
    PROVE  /\ current' = current + 1 /\ current' \in 1..MaxRounds
           /\ turn' \in [Rounds -> {"none", "live", "completed", "interrupted"}]
           /\ turn'[current'] = "live"
           /\ current # 0 => turn'[current] = closed
           /\ \A r \in Rounds : turn[r] = "interrupted" => turn'[r] = "interrupted"
           /\ \A r \in Rounds : r < current => turn'[r] = turn[r]
           /\ \A r \in Rounds : r > current' => turn'[r] = "none"
<1>1. /\ current \in Nat /\ current < MaxRounds /\ current' = current + 1
      /\ turn' = [r \in Rounds |-> IF r = current /\ turn[r] = "live" THEN closed
                                  ELSE IF r = current + 1 THEN "live" ELSE turn[r]]
  BY DEF Typed, NextTurn
<1>2. current' \in Rounds /\ (current # 0 => current \in Rounds /\ turn[current] = "live")
  BY <1>1 DEF Rounds, TurnsInOrder
<1>3. turn' \in [Rounds -> {"none", "live", "completed", "interrupted"}]
  BY <1>1 DEF Typed
<1>4. turn'[current'] = "live" /\ (current # 0 => turn'[current] = closed)
  BY <1>1, <1>2
<1>5. ASSUME NEW r \in Rounds
      PROVE  /\ turn[r] = "interrupted" => turn'[r] = "interrupted"
             /\ r < current => turn'[r] = turn[r]
             /\ r > current' => turn'[r] = "none"
  BY <1>1, <1>5 DEF Rounds, TurnsInOrder
<1> QED BY <1>1, <1>2, <1>3, <1>4, <1>5 DEF Rounds

(* What a call leaves of a session.                                        *)
LEMMA WrittenIsSession ==
    ASSUME NEW s \in [phase : Phases, interrupted : BOOLEAN], NEW op \in Ops
    PROVE  /\ Written(s, op) \in [phase : Phases, interrupted : BOOLEAN]
           /\ op # "interrupt" => Written(s, op).interrupted = s.interrupted
           /\ op = "interrupt" => Written(s, op).interrupted
           /\ op \in {"complete", "fail", "interrupt"} => Written(s, op).phase \in Terminal
  BY DEF Written, Phases, Terminal, Ops

(* A call the thread makes.                                                *)
LEMMA CallMade ==
    ASSUME Typed, NEW t \in Threads, NEW op \in Ops, NEW to \in 0..MaxRounds,
           NEW tag \in 0..MaxRounds, Call(t, op, to, tag)
    PROVE  /\ call' \in [Threads -> [step : {"none", "check", "write"}, op : Ops,
                                     to : 0..MaxRounds, tag : 0..MaxRounds]]
           /\ \A u \in Threads : u # t => call'[u] = call[u]
           /\ to = 0 => call'[t].step = "none"
           /\ to # 0 => call'[t] = [step |-> "check", op |-> op, to |-> to, tag |-> tag]
<1>1. NoCall \in [step : {"none", "check", "write"}, op : Ops, to : 0..MaxRounds,
                  tag : 0..MaxRounds]
  BY Numbers DEF NoCall, Ops
<1>2. [step |-> "check", op |-> op, to |-> to, tag |-> tag]
        \in [step : {"none", "check", "write"}, op : Ops, to : 0..MaxRounds,
             tag : 0..MaxRounds]
  OBVIOUS
<1> QED BY <1>1, <1>2 DEF Call, Typed, NoCall

-----------------------------------------------------------------------------
(* Sessions are interrupted after their turns *)

LEMMA InitSafe == Init => SafetyInv
  BY Numbers DEF Init, SafetyInv, Typed, TurnsInOrder, CallsInOrder, InterruptedTurnFirst,
     NoSession, NoCall, Phases, Threads, Ops

(* A call of the loop leaves the calls of the barge-in alone.              *)
LEMMA LoopCalls ==
    ASSUME SafetyInv, NEW op \in Ops \ {"interrupt"}, NEW to \in 0..MaxRounds,
           NEW tag \in 0..MaxRounds, Call("loop", op, to, tag),
           UNCHANGED <<turn, session>>
    PROVE  CallsInOrder' /\ InterruptedTurnFirst'
<1>1. /\ call'["barge"] = call["barge"]
      /\ call'["loop"].step # "none" => call'["loop"].op = op /\ call'["loop"].to # 0
  <2>1. Typed /\ op \in Ops /\ "loop" \in Threads /\ "barge" \in Threads
    BY DEF SafetyInv, Threads
  <2>2. /\ \A u \in Threads : u # "loop" => call'[u] = call[u]
        /\ to = 0 => call'["loop"].step = "none"
        /\ to # 0 => call'["loop"] = [step |-> "check", op |-> op, to |-> to, tag |-> tag]
    BY <2>1, CallMade
  <2> QED BY <2>1, <2>2
<1>2. \A t \in Threads : t = "loop" \/ t = "barge"
  BY DEF Threads
<1> QED BY <1>1, <1>2 DEF SafetyInv, CallsInOrder, InterruptedTurnFirst

LEMMA CheckSafe ==
    ASSUME SafetyInv, NEW t \in Threads, CheckIds(t) PROVE SafetyInv'
<1>1. /\ UNCHANGED <<current, turn, session, installed, todo, mine>>
      /\ call[t].step = "check"
      /\ call' = [call EXCEPT ![t] = IF Accepts(@.to, @.tag) THEN [@ EXCEPT !.step = "write"]
                                     ELSE NoCall]
  BY DEF CheckIds
<1>2. NoCall \in [step : {"none", "check", "write"}, op : Ops, to : 0..MaxRounds,
                  tag : 0..MaxRounds]
  BY Numbers DEF NoCall, Ops
<1>3. call' \in [Threads -> [step : {"none", "check", "write"}, op : Ops, to : 0..MaxRounds,
                             tag : 0..MaxRounds]]
  BY <1>1, <1>2 DEF SafetyInv, Typed
<1>4. /\ \A u \in Threads : u # t => call'[u] = call[u]
      /\ call'[t].step # "none" =>
             /\ call'[t].op = call[t].op /\ call'[t].to = call[t].to
             /\ call'[t].tag = call[t].tag /\ Accepts(call[t].to, call[t].tag)
  BY <1>1, <1>2 DEF SafetyInv, Typed, NoCall
<1>5. CallsInOrder'
  <2>1. "loop" \in Threads /\ "barge" \in Threads
    BY DEF Threads
  <2> QED BY <1>1, <1>4, <2>1 DEF SafetyInv, CallsInOrder, Accepts, Untagged
<1> QED BY <1>1, <1>3, <1>5 DEF SafetyInv, Typed, TurnsInOrder, InterruptedTurnFirst

LEMMA WriteSafe ==
    ASSUME SafetyInv, NEW t \in Threads, Write(t) PROVE SafetyInv'
<1>1. /\ UNCHANGED <<current, turn, installed, todo, mine>>
      /\ call[t].step = "write"
      /\ session' = [session EXCEPT ![call[t].to] = Written(@, call[t].op)]
      /\ call' = [call EXCEPT ![t] = NoCall]
  BY DEF Write
<1>2. call[t].to \in Rounds /\ call[t].op \in Ops
  BY <1>1, Numbers DEF SafetyInv, Typed, CallsInOrder, Rounds
<1>3. session' \in [Rounds -> [phase : Phases, interrupted : BOOLEAN]]
  BY <1>1, <1>2, WrittenIsSession DEF SafetyInv, Typed
<1>4. call' \in [Threads -> [step : {"none", "check", "write"}, op : Ops, to : 0..MaxRounds,
                             tag : 0..MaxRounds]]
  BY <1>1, Numbers DEF SafetyInv, Typed, NoCall, Ops
<1>5. CallsInOrder'
  BY <1>1 DEF SafetyInv, Typed, CallsInOrder, NoCall, Threads
<1>6. ASSUME NEW r \in Rounds, session'[r].interrupted PROVE turn[r] = "interrupted"
  <2>1. CASE r # call[t].to \/ call[t].op # "interrupt"
    BY <1>1, <1>2, <1>6, <2>1, WrittenIsSession DEF SafetyInv, Typed, InterruptedTurnFirst
  <2>2. CASE r = call[t].to /\ call[t].op = "interrupt"
    BY <1>1, <2>2 DEF SafetyInv, CallsInOrder, Threads
  <2> QED BY <2>1, <2>2
<1> QED BY <1>1, <1>3, <1>4, <1>5, <1>6 DEF SafetyInv, Typed, TurnsInOrder, InterruptedTurnFirst

(* The steps of the loop that call no session.                             *)
LEMMA QuietSafe ==
    ASSUME SafetyInv, todo' \in Seq(Steps),
           UNCHANGED <<current, turn, session, installed, mine, call>>
    PROVE  SafetyInv'
  BY DEF SafetyInv, Typed, TurnsInOrder, CallsInOrder, InterruptedTurnFirst

(* And those that do.                                                      *)
LEMMA CallSafe ==
    ASSUME SafetyInv, todo' \in Seq(Steps), NEW op \in Ops \ {"interrupt"},
           NEW to \in 0..MaxRounds, NEW tag \in 0..MaxRounds, Call("loop", op, to, tag),
           UNCHANGED <<current, turn, session, installed, mine>>
    PROVE  SafetyInv'
<1>1. CallsInOrder' /\ InterruptedTurnFirst'
  BY LoopCalls
<1>2. Typed'
  <2>1. Typed /\ op \in Ops /\ "loop" \in Threads
    BY DEF SafetyInv, Threads
  <2>2. call' \in [Threads -> [step : {"none", "check", "write"}, op : Ops,
                               to : 0..MaxRounds, tag : 0..MaxRounds]]
    BY <2>1, CallMade
  <2> QED BY <2>1, <2>2 DEF Typed
<1> QED BY <1>1, <1>2 DEF SafetyInv, TurnsInOrder

LEMMA Going == ASSUME Typed, NEW step, At(step)
               PROVE  Tail(todo) \in Seq(Steps) /\ Len(todo) \in Nat \ {0} /\ todo[1] = step
  BY DEF Typed, At

LEMMA PathTyped ==
    \A kind \in {"none", "quiet", "command", "request"} : Path(kind) \in Seq(Steps)
<1>1. ASSUME NEW kind \in {"none", "quiet"} PROVE Path(kind) \in Seq(Steps)
  <2>1. Path(kind) = <<"complete">>
    BY DEF Path
  <2> QED BY <2>1 DEF Steps, Ops
<1>2. Path("command") \in Seq(Steps)
  <2>1. Path("command") = <<"gate", "last", "dispatch", "delta", "speak", "complete">>
    BY DEF Path
  <2>2. ASSUME NEW i \in 1..6 PROVE Path("command")[i] \in Steps
    BY <2>1, <2>2 DEF Steps, Ops
  <2>3. Path("command") \in [1..6 -> Steps]
    BY <2>1, <2>2
  <2> QED BY <2>3, SeqDef
<1>3. Path("request") \in Seq(Steps)
  <2>1. Path("request")
          = <<"think", "gate", "delta", "speak", "last", "dispatch", "complete">>
    BY DEF Path
  <2>2. ASSUME NEW i \in 1..7 PROVE Path("request")[i] \in Steps
    BY <2>1, <2>2 DEF Steps, Ops
  <2>3. Path("request") \in [1..7 -> Steps]
    BY <2>1, <2>2
  <2> QED BY <2>3, SeqDef
<1> QED BY <1>1, <1>2, <1>3

LEMMA PathsTyped ==
    \A kind \in {"none", "quiet", "command", "request"} :
        <<"final", "look">> \o Path(kind) \in Seq(Steps)
<1>1. <<"final", "look">> \in Seq(Steps)
  BY DEF Steps, Ops
<1> QED BY <1>1, PathTyped

LEMMA LoopSafe ==
    ASSUME SafetyInv, Loop PROVE SafetyInv'
<1>1. mine \in 0..MaxRounds /\ installed \in 0..MaxRounds /\ "loop" \in Threads /\ Typed
  BY Numbers DEF SafetyInv, Typed, Threads
<1>2. CASE StartRound
  <2>1. /\ NextTurn("completed") /\ mine' = current + 1 /\ todo' = <<"open", "listen">>
        /\ UNCHANGED <<session, installed, call>>
    BY <1>2 DEF StartRound
  <2>2. /\ current' = current + 1 /\ current' \in 1..MaxRounds
        /\ turn' \in [Rounds -> {"none", "live", "completed", "interrupted"}]
        /\ turn'[current'] = "live"
        /\ current # 0 => turn'[current] = "completed"
        /\ \A r \in Rounds : turn[r] = "interrupted" => turn'[r] = "interrupted"
        /\ \A r \in Rounds : r < current => turn'[r] = turn[r]
        /\ \A r \in Rounds : r > current' => turn'[r] = "none"
    BY <2>1, NextTurnCloses DEF SafetyInv
  <2>3. Typed'
    <3>1. <<"open", "listen">> \in Seq(Steps)
      BY DEF Steps
    <3> QED BY <2>1, <2>2, <3>1 DEF SafetyInv, Typed
  <2>4. TurnsInOrder'
    BY <2>1, <2>2 DEF SafetyInv, Typed, TurnsInOrder, Rounds
  <2>5. CallsInOrder' /\ InterruptedTurnFirst'
    BY <2>1, <2>2 DEF SafetyInv, Typed, CallsInOrder, InterruptedTurnFirst, Rounds, Threads
  <2> QED BY <2>3, <2>4, <2>5 DEF SafetyInv
<1>3. CASE Open
  <2>1. At("open") /\ todo' = Tail(todo) /\ installed' = mine
        /\ session' = [session EXCEPT ![mine] = Opened] /\ UNCHANGED <<current, turn, mine, call>>
    BY <1>3 DEF Open, Go
  <2>2. Opened \in [phase : Phases, interrupted : BOOLEAN] /\ ~ Opened.interrupted
    BY DEF Opened, Phases
  <2>3. Typed'
    BY <1>1, <2>1, <2>2, Going DEF Typed
  <2>4. InterruptedTurnFirst'
    BY <1>1, <2>1, <2>2 DEF SafetyInv, Typed, InterruptedTurnFirst
  <2> QED BY <2>1, <2>3, <2>4 DEF SafetyInv, TurnsInOrder, CallsInOrder
<1>4. CASE Listen
  <2>1. UNCHANGED <<current, turn, session, installed, mine>>
    BY <1>4 DEF Listen
  <2>2. CASE IsLive(mine)
    BY <1>4, <2>1, <2>2, QuietSafe, PathsTyped DEF Listen
  <2>3. CASE ~ IsLive(mine)
    <3>1. Call("loop", "fail", mine, mine) /\ todo' = <<>> /\ "fail" \in Ops \ {"interrupt"}
      BY <1>4, <2>3 DEF Listen, Ops
    <3>2. todo' \in Seq(Steps)
      BY <3>1
    <3> QED BY <1>1, <2>1, <3>1, <3>2, CallSafe
  <2> QED BY <2>2, <2>3
<1>5. CASE Look
  <2>1. <<"use">> \o Tail(todo) \in Seq(Steps) /\ Tail(todo) \in Seq(Steps)
    <3>1. Tail(todo) \in Seq(Steps)
      BY <1>1, <1>5, Going DEF Look
    <3>2. <<"use">> \in Seq(Steps)
      BY DEF Steps
    <3> QED BY <3>1, <3>2
  <2> QED BY <1>5, <2>1, QuietSafe DEF Look
<1>6. CASE Use
  <2>1. <<"failed">> \in Seq(Steps) /\ Tail(todo) \in Seq(Steps)
    BY <1>1, <1>6, Going DEF Use, Steps
  <2> QED BY <1>6, <2>1, QuietSafe DEF Use
<1>7. CASE Think
  <2>1. Tail(todo) \in Seq(Steps) /\ <<>> \in Seq(Steps) /\ todo \in Seq(Steps)
        /\ UNCHANGED <<current, turn, session, installed, mine>>
        /\ "delta" \in Ops \ {"interrupt"}
    BY <1>1, <1>7, Going DEF Think, Typed, Ops
  <2>2. CASE Call("loop", "delta", mine, mine) /\ UNCHANGED todo
    BY <1>1, <2>1, <2>2, CallSafe
  <2>3. CASE todo' \in {<<>>, Tail(todo)} /\ UNCHANGED call
    BY <2>1, <2>3, QuietSafe
  <2> QED BY <1>7, <2>2, <2>3 DEF Think, Go
<1>8. CASE Gate
  <2>1. /\ Tail(todo) \in Seq(Steps) /\ <<>> \in Seq(Steps) /\ <<"complete">> \in Seq(Steps)
        /\ SubSeq(todo, 3, Len(todo)) \in Seq(Steps)
    BY <1>1, <1>8, Going DEF Gate, Steps, Ops, Typed
  <2>2. /\ todo' \in {<<>>, Tail(todo), SubSeq(todo, 3, Len(todo)), <<"complete">>}
        /\ UNCHANGED <<current, turn, session, installed, mine, call>>
    BY <1>8 DEF Gate, Go
  <2> QED BY <2>1, <2>2, QuietSafe
<1>9. CASE LastCheck
  <2>1. Tail(todo) \in Seq(Steps) /\ <<>> \in Seq(Steps)
    BY <1>1, <1>9, Going DEF LastCheck
  <2> QED BY <1>9, <2>1, QuietSafe DEF LastCheck
<1>10. CASE Dispatch
  <2>1. Tail(todo) \in Seq(Steps)
    BY <1>1, <1>10, Going DEF Dispatch
  <2> QED BY <1>10, <2>1, QuietSafe DEF Dispatch, Go
<1>11. ASSUME NEW op \in {"final", "delta", "speak", "complete"}, Tell(op) PROVE SafetyInv'
  <2>1. Tail(todo) \in Seq(Steps) /\ op \in Ops \ {"interrupt"}
    BY <1>1, <1>11, Going DEF Tell, Ops
  <2> QED BY <1>1, <1>11, <2>1, CallSafe DEF Tell, Go
<1>12. CASE Raise
  <2>1. <<"failed">> \in Seq(Steps)
    BY DEF Steps
  <2> QED BY <1>12, <2>1, QuietSafe DEF Raise
<1>13. CASE Handle
  <2>1. Tail(todo) \in Seq(Steps) /\ "fail" \in Ops \ {"interrupt"} /\ Untagged \in 0..MaxRounds
    BY <1>1, <1>13, Going, Numbers DEF Handle, Ops, Untagged
  <2> QED BY <1>1, <1>13, <2>1, CallSafe DEF Handle, Go
<1>14. CASE CheckIds("loop") \/ Write("loop")
  BY <1>1, <1>14, CheckSafe, WriteSafe
<1> QED
  BY <1>2, <1>3, <1>4, <1>5, <1>6, <1>7, <1>8, <1>9, <1>10, <1>11, <1>12, <1>13, <1>14 DEF Loop

(* A barge-in installs nothing; it names the turn that it has closed.      *)
LEMMA BargeSafe ==
    ASSUME SafetyInv, Barge PROVE SafetyInv'
<1>1. CASE BargeIn
  <2>1. /\ NextTurn("interrupted") /\ Call("barge", "interrupt", installed, current)
        /\ UNCHANGED <<session, installed, todo, mine>>
    BY <1>1 DEF BargeIn
  <2>2. /\ current' = current + 1 /\ current' \in 1..MaxRounds
        /\ turn' \in [Rounds -> {"none", "live", "completed", "interrupted"}]
        /\ turn'[current'] = "live"
        /\ current # 0 => turn'[current] = "interrupted"
        /\ \A r \in Rounds : turn[r] = "interrupted" => turn'[r] = "interrupted"
        /\ \A r \in Rounds : r < current => turn'[r] = turn[r]
        /\ \A r \in Rounds : r > current' => turn'[r] = "none"
    BY <2>1, NextTurnCloses DEF SafetyInv
  <2>3. /\ installed \in 0..MaxRounds /\ current \in 0..MaxRounds /\ "barge" \in Threads
        /\ "loop" \in Threads /\ "interrupt" \in Ops /\ Typed
    BY DEF SafetyInv, Typed, Threads, Ops
  <2>4. /\ call' \in [Threads -> [step : {"none", "check", "write"}, op : Ops,
                                  to : 0..MaxRounds, tag : 0..MaxRounds]]
        /\ \A u \in Threads : u # "barge" => call'[u] = call[u]
        /\ installed = 0 => call'["barge"].step = "none"
        /\ installed # 0 => call'["barge"] = [step |-> "check", op |-> "interrupt",
                                              to |-> installed, tag |-> current]
    BY <2>1, <2>3, CallMade
  <2>5. Typed'
    BY <2>1, <2>2, <2>4 DEF SafetyInv, Typed
  <2>6. TurnsInOrder'
    BY <2>1, <2>2 DEF SafetyInv, Typed, TurnsInOrder, Rounds
  <2>7. CallsInOrder'
    <3>1. \A t \in Threads : t = "loop" \/ t = "barge"
      BY DEF Threads
    <3>2. call'["loop"] = call["loop"]
      BY <2>3, <2>4
    <3>3. installed # 0 => current # 0
      BY <2>3 DEF Typed
    <3> QED BY <2>2, <2>3, <2>4, <3>1, <3>2, <3>3 DEF SafetyInv, CallsInOrder
  <2>8. InterruptedTurnFirst'
    BY <2>1, <2>2 DEF SafetyInv, InterruptedTurnFirst
  <2> QED BY <2>5, <2>6, <2>7, <2>8 DEF SafetyInv
<1>2. CASE CheckIds("barge") \/ Write("barge")
  BY <1>2, CheckSafe, WriteSafe DEF Threads
<1> QED BY <1>1, <1>2 DEF Barge

LEMMA StepSafe == SafetyInv /\ [Next]_vars => SafetyInv'
<1> SUFFICES ASSUME SafetyInv, [Next]_vars PROVE SafetyInv'
  OBVIOUS
<1>1. CASE Loop
  BY <1>1, LoopSafe
<1>2. CASE Barge
  BY <1>2, BargeSafe
<1>3. CASE UNCHANGED vars
  BY <1>3 DEF vars, SafetyInv, Typed, TurnsInOrder, CallsInOrder, InterruptedTurnFirst
<1> QED BY <1>1, <1>2, <1>3 DEF Next, Done

LEMMA Safe == Spec => []SafetyInv
<1> QED BY InitSafe, StepSafe, PTL DEF Spec

(* A session is interrupted only for the turn of its own round: a barge-in *)
(* that closes one round never silences the session of another.            *)
THEOREM TurnBeforeSession == Spec => []InterruptedTurnFirst
<1>1. SafetyInv => InterruptedTurnFirst
  BY DEF SafetyInv
<1> QED BY <1>1, Safe, PTL

-----------------------------------------------------------------------------
(* What an iteration leaves behind *)

Ends == {"listen", "complete", "failed"}

Ended(path) == path # <<>> => path[Len(path)] \in Ends

(* An iteration runs to a step that ends it; the session that is installed *)
(* is its own once it is open; and when nothing is left to do, the call    *)
(* under way is the one that closes its session.                           *)
LastCall ==
    todo = <<>> /\ ~ Free("loop") =>
        /\ call["loop"].op \in {"complete", "fail"}
        /\ call["loop"].to = mine /\ call["loop"].tag \in {Untagged, mine}

OwnInstalled == todo = <<>> \/ todo[1] # "open" => installed = mine

EndInv == Ended(todo) /\ OwnInstalled /\ LastCall /\ OpenOnlyIfBlocked

LEMMA InitEnds == Init => EndInv
  BY DEF Init, EndInv, Ended, OwnInstalled, LastCall, OpenOnlyIfBlocked, Free, NoCall, Threads

LEMMA Shrinks ==
    ASSUME Typed, Ended(todo), todo # <<>>
    PROVE  Ended(Tail(todo)) /\ (todo[1] \notin Ends => Tail(todo) # <<>>)
<1>1. /\ todo \in Seq(Steps) /\ Len(todo) \in Nat /\ Len(todo) >= 1
      /\ todo[Len(todo)] \in Ends
  BY DEF Typed, Ended
<1>2. Len(Tail(todo)) = Len(todo) - 1
  BY <1>1
<1>3. Len(todo) > 1 => Tail(todo)[Len(todo) - 1] = todo[Len(todo)]
  BY <1>1
<1>4. Tail(todo) # <<>> => Len(todo) > 1
  BY <1>1, <1>2
<1>5. todo[1] \notin Ends => Len(todo) > 1
  BY <1>1
<1> QED BY <1>1, <1>2, <1>3, <1>4, <1>5, SMTT(30) DEF Ended

(* A turn that the loop finds not to be live has been interrupted.         *)
LEMMA NotLive == ASSUME SafetyInv, mine # 0, ~ IsLive(mine) PROVE turn[mine] = "interrupted"
<1>1. mine \in Rounds /\ mine \in Nat /\ current \in Nat /\ mine <= current
  <2>1. current \in 0..MaxRounds /\ mine \in 0..current /\ MaxRounds \in Nat
    BY DEF SafetyInv, Typed
  <2> QED BY <2>1 DEF Rounds
<1> QED BY <1>1 DEF SafetyInv, TurnsInOrder, IsLive

(* The quiet steps of the loop: they do not change sessions or turns, and  *)
(* leave nothing to do only if the turn has been interrupted or blocked.   *)
LEMMA QuietEnds ==
    ASSUME EndInv, Free("loop"), Ended(todo'), todo = <<>> \/ todo[1] # "open",
           UNCHANGED <<turn, session, installed, mine, call>>, blocked \subseteq blocked',
           todo' = <<>> /\ mine # 0 => mine \in blocked' \/ turn[mine] = "interrupted"
    PROVE  EndInv'
<1>1. OwnInstalled' /\ LastCall'
  BY DEF EndInv, OwnInstalled, LastCall, Free
<1>2. OpenOnlyIfBlocked'
  BY DEF OpenOnlyIfBlocked, IsCurrent, Free
<1> QED BY <1>1, <1>2 DEF EndInv

(* A call that the loop makes with something left to do, or its last one.  *)
LEMMA CallEnds ==
    ASSUME Typed, EndInv, Ended(todo'), todo[1] # "open", NEW op \in Ops,
           NEW tag \in {Untagged, mine}, Call("loop", op, mine, tag),
           UNCHANGED <<turn, session, installed, mine, blocked>>,
           todo # <<>>, todo' = <<>> => op \in {"complete", "fail"}
    PROVE  EndInv'
<1>1. /\ mine \in 0..MaxRounds /\ tag \in 0..MaxRounds /\ "loop" \in Threads
  BY Numbers DEF Typed, Threads, Untagged
<1>2. /\ mine = 0 => call'["loop"].step = "none"
      /\ mine # 0 => call'["loop"] = [step |-> "check", op |-> op, to |-> mine, tag |-> tag]
  BY <1>1, CallMade
<1>3. OwnInstalled'
  BY DEF EndInv, OwnInstalled
<1>4. LastCall' /\ OpenOnlyIfBlocked'
  BY <1>2 DEF LastCall, OpenOnlyIfBlocked, Free
<1> QED BY <1>3, <1>4 DEF EndInv

(* A check or a write, of either thread.                                   *)
LEMMA CheckEnds ==
    ASSUME SafetyInv, EndInv, NEW t \in Threads, CheckIds(t) PROVE EndInv'
<1>1. /\ UNCHANGED <<current, turn, session, installed, todo, mine, blocked>>
      /\ call[t].step = "check" /\ call \in [Threads -> [step : {"none", "check", "write"},
                                        op : Ops, to : 0..MaxRounds, tag : 0..MaxRounds]]
      /\ call' = [call EXCEPT ![t] = IF Accepts(@.to, @.tag) THEN [@ EXCEPT !.step = "write"]
                                     ELSE NoCall]
  BY DEF CheckIds, SafetyInv, Typed
<1>2. CASE t = "barge"
  <2>1. call'["loop"] = call["loop"]
    BY <1>1, <1>2 DEF Threads
  <2> QED BY <1>1, <2>1 DEF EndInv, Ended, OwnInstalled, LastCall, OpenOnlyIfBlocked, Free,
            IsCurrent
<1>3. CASE t = "loop"
  <2>1. /\ Accepts(call[t].to, call[t].tag) => call'[t] = [call[t] EXCEPT !.step = "write"]
        /\ ~ Accepts(call[t].to, call[t].tag) => call'[t] = NoCall
    BY <1>1
  <2>2. LastCall'
    BY <1>1, <1>3, <2>1 DEF EndInv, LastCall, Free, NoCall
  <2>3. OpenOnlyIfBlocked'
    BY <1>1, <1>3, <2>1 DEF EndInv, LastCall, OpenOnlyIfBlocked, Free, NoCall, Accepts, IsCurrent
  <2> QED BY <1>1, <2>2, <2>3 DEF EndInv, Ended, OwnInstalled
<1> QED BY <1>2, <1>3 DEF Threads

LEMMA WriteEnds ==
    ASSUME SafetyInv, EndInv, NEW t \in Threads, Write(t) PROVE EndInv'
<1>1. /\ UNCHANGED <<current, turn, installed, todo, mine, blocked>>
      /\ call[t].step = "write"
      /\ session' = [session EXCEPT ![call[t].to] = Written(@, call[t].op)]
      /\ call' = [call EXCEPT ![t] = NoCall]
  BY DEF Write
<1>2. /\ call[t].to \in Rounds /\ call[t].op \in Ops /\ mine \in 0..MaxRounds
      /\ call \in [Threads -> [step : {"none", "check", "write"},
                               op : Ops, to : 0..MaxRounds, tag : 0..MaxRounds]]
      /\ session \in [Rounds -> [phase : Phases, interrupted : BOOLEAN]]
  BY <1>1, Numbers DEF SafetyInv, Typed, CallsInOrder, Rounds
<1>3. /\ \A r \in Rounds : r # call[t].to => session'[r] = session[r]
      /\ session'[call[t].to] = Written(session[call[t].to], call[t].op)
  BY <1>1, <1>2
<1>4. ASSUME NEW r \in Rounds, r = call[t].to,
             call[t].op \in {"complete", "fail", "interrupt"}
      PROVE  ~ IsCurrent(r)'
  BY <1>2, <1>3, <1>4, WrittenIsSession DEF IsCurrent
<1>5. CASE t = "barge"
  <2>1. call'["loop"] = call["loop"] /\ call[t].op = "interrupt"
    BY <1>1, <1>2, <1>5 DEF Threads, SafetyInv, CallsInOrder
  <2>2. \A r \in Rounds : IsCurrent(r)' => IsCurrent(r)
    BY <1>3, <1>4, <2>1 DEF IsCurrent
  <2>3. OpenOnlyIfBlocked'
    BY <1>1, <1>2, <2>1, <2>2 DEF EndInv, OpenOnlyIfBlocked, Free, Rounds
  <2> QED BY <1>1, <2>1, <2>3 DEF EndInv, Ended, OwnInstalled, LastCall, Free
<1>6. CASE t = "loop"
  <2>1. call'["loop"] = NoCall
    BY <1>1, <1>2, <1>6
  <2>2. LastCall'
    BY <2>1 DEF LastCall, Free, NoCall
  <2>3. ASSUME NEW r \in Rounds, todo = <<>>, r = mine PROVE ~ IsCurrent(r)'
    BY <1>1, <1>4, <1>6, <2>3 DEF EndInv, LastCall, Free
  <2>4. OpenOnlyIfBlocked'
    BY <1>1, <1>2, <2>3 DEF OpenOnlyIfBlocked, IsCurrent, Rounds
  <2> QED BY <1>1, <2>2, <2>4 DEF EndInv, Ended, OwnInstalled
<1> QED BY <1>5, <1>6 DEF Threads

LEMMA PathsEnd ==
    \A kind \in {"none", "quiet", "command", "request"} :
        Ended(<<"final", "look">> \o Path(kind))
<1> SUFFICES ASSUME NEW kind \in {"none", "quiet", "command", "request"}
             PROVE  Ended(<<"final", "look">> \o Path(kind))
  OBVIOUS
<1>1. /\ Path(kind) \in Seq(Steps) /\ Len(Path(kind)) \in Nat \ {0}
      /\ Path(kind)[Len(Path(kind))] = "complete"
  <2>1. CASE kind \in {"none", "quiet"}
    <3>1. Path(kind) = <<"complete">>
      BY <2>1 DEF Path
    <3>2. <<"complete">> \in Seq(Steps)
      BY DEF Steps, Ops
    <3> QED BY <3>1, <3>2
  <2>2. CASE kind = "command"
    <3>1. Path(kind) = <<"gate", "last", "dispatch", "delta", "speak", "complete">>
      BY <2>2 DEF Path
    <3>2. Len(Path(kind)) = 6 /\ Path(kind)[6] = "complete"
      BY <3>1
    <3>3. Path(kind) \in Seq(Steps)
      BY PathTyped
    <3> QED BY <3>2, <3>3
  <2>3. CASE kind = "request"
    <3>1. Path(kind) = <<"think", "gate", "delta", "speak", "last", "dispatch", "complete">>
      BY <2>3 DEF Path
    <3>2. Len(Path(kind)) = 7 /\ Path(kind)[7] = "complete"
      BY <3>1
    <3>3. Path(kind) \in Seq(Steps)
      BY PathTyped
    <3> QED BY <3>2, <3>3
  <2> QED BY <2>1, <2>2, <2>3
<1>2. <<"final", "look">> \in Seq(Steps) /\ Len(<<"final", "look">>) = 2
  BY DEF Steps, Ops
<1> HIDE DEF Path
<1>3. LET whole == <<"final", "look">> \o Path(kind)
      IN  Len(whole) = 2 + Len(Path(kind)) /\ whole[Len(whole)] = "complete"
  BY <1>1, <1>2
<1> QED BY <1>3 DEF Ended, Ends

LEMMA LoopEnds ==
    ASSUME SafetyInv, EndInv, Loop PROVE EndInv'
<1>1. Typed /\ Ended(todo) /\ "loop" \in Threads
  BY DEF SafetyInv, EndInv, Threads
<1>2. ASSUME NEW step, At(step)
      PROVE  /\ Free("loop") /\ todo # <<>> /\ todo[1] = step /\ Ended(Tail(todo))
             /\ step \notin Ends => Tail(todo) # <<>>
  BY <1>1, <1>2, Going, Shrinks DEF At
<1>3. CASE StartRound
  <2>1. todo' = <<"open", "listen">> /\ todo'[1] = "open" /\ todo' # <<>>
    BY <1>3 DEF StartRound
  <2>2. Ended(todo')
    BY <2>1 DEF Ended, Ends
  <2> QED BY <2>1, <2>2 DEF EndInv, OwnInstalled, LastCall, OpenOnlyIfBlocked
<1>4. CASE Open
  <2>1. At("open") /\ todo' = Tail(todo) /\ installed' = mine /\ mine' = mine
    BY <1>4 DEF Open, Go
  <2>2. Ended(todo') /\ todo' # <<>>
    BY <1>2, <2>1 DEF Ends
  <2> QED BY <2>1, <2>2 DEF EndInv, OwnInstalled, LastCall, OpenOnlyIfBlocked
<1>5. CASE Listen
  <2>1. Free("loop") /\ todo # <<>> /\ todo[1] # "open"
        /\ UNCHANGED <<turn, session, installed, mine, blocked>>
    BY <1>2, <1>5 DEF Listen
  <2>2. CASE IsLive(mine)
    <3>1. PICK kind \in {"none", "quiet", "command", "request"} :
              todo' = <<"final", "look">> \o Path(kind) /\ UNCHANGED call
      BY <1>5, <2>2 DEF Listen
    <3>2. Ended(todo')
      BY <3>1, PathsEnd
    <3>3. todo' # <<>>
      <4>1. Path(kind) \in {<<"complete">>,
                <<"gate", "last", "dispatch", "delta", "speak", "complete">>,
                <<"think", "gate", "delta", "speak", "last", "dispatch", "complete">>}
        BY DEF Path
      <4> QED BY <3>1, <4>1
    <3> QED BY <2>1, <3>1, <3>2, <3>3, QuietEnds
  <2>3. CASE ~ IsLive(mine)
    <3>1. Call("loop", "fail", mine, mine) /\ todo' = <<>> /\ "fail" \in Ops
      BY <1>5, <2>3 DEF Listen, Ops
    <3>2. Ended(todo')
      BY <3>1 DEF Ended
    <3> QED BY <1>1, <2>1, <3>1, <3>2, CallEnds
  <2> QED BY <2>2, <2>3
<1>6. CASE Look
  <2>1. /\ Free("loop") /\ todo # <<>> /\ todo[1] # "open" /\ Ended(Tail(todo))
        /\ Tail(todo) # <<>> /\ Tail(todo) \in Seq(Steps)
        /\ UNCHANGED <<turn, session, installed, mine, call, blocked>>
        /\ todo' \in {Tail(todo), <<"use">> \o Tail(todo)}
    BY <1>1, <1>2, <1>6, Going DEF Look, Ends
  <2>2. LET longer == <<"use">> \o Tail(todo)
        IN  /\ longer # <<>> /\ longer[Len(longer)] = Tail(todo)[Len(Tail(todo))]
    BY <2>1
  <2>3. Ended(todo') /\ todo' # <<>>
    BY <2>1, <2>2 DEF Ended
  <2> QED BY <2>1, <2>3, QuietEnds
<1>7. CASE Use
  <2>1. /\ Free("loop") /\ todo # <<>> /\ todo[1] # "open" /\ Ended(Tail(todo))
        /\ Tail(todo) # <<>>
        /\ UNCHANGED <<turn, session, installed, mine, call, blocked>>
        /\ todo' \in {Tail(todo), <<"failed">>}
    BY <1>2, <1>7 DEF Use, Ends
  <2>2. Ended(<<"failed">>) /\ <<"failed">> # <<>>
    BY DEF Ended, Ends
  <2>3. Ended(todo') /\ todo' # <<>>
    BY <2>1, <2>2
  <2> QED BY <2>1, <2>3, QuietEnds
<1>8. CASE Think
  <2>1. /\ Free("loop") /\ todo # <<>> /\ todo[1] # "open" /\ Ended(Tail(todo))
        /\ Tail(todo) # <<>>
        /\ UNCHANGED <<turn, session, installed, mine, blocked>>
    BY <1>2, <1>8 DEF Think, Ends
  <2>2. CASE Call("loop", "delta", mine, mine) /\ UNCHANGED todo
    <3>1. "delta" \in Ops
      BY DEF Ops
    <3> QED BY <1>1, <2>1, <2>2, <3>1, CallEnds
  <2>3. CASE ~ IsLive(mine) /\ todo' = <<>> /\ UNCHANGED call
    <3>1. Ended(todo')
      BY <2>3 DEF Ended
    <3> QED BY <2>1, <2>3, <3>1, NotLive, QuietEnds
  <2>4. CASE todo' = Tail(todo) /\ UNCHANGED call
    BY <2>1, <2>4, QuietEnds
  <2> QED BY <1>8, <2>2, <2>3, <2>4 DEF Think, Go
<1>9. CASE Gate
  <2>1. /\ Free("loop") /\ todo # <<>> /\ todo[1] = "gate" /\ Ended(Tail(todo))
        /\ Tail(todo) # <<>>
        /\ UNCHANGED <<turn, session, installed, mine, call>> /\ blocked \subseteq blocked'
    BY <1>2, <1>9 DEF Gate, Ends
  <2>2. CASE todo' = <<>>
    <3>1. \/ mine \in blocked' \/ ~ IsLive(mine)
          \/ todo[2] = "delta" /\ todo' = SubSeq(todo, 3, Len(todo))
      <4>1. \/ ~ IsLive(mine)
            \/ blocked' = blocked \cup {mine}
            \/ todo' = Tail(todo)
            \/ todo[2] = "delta" /\ todo' = SubSeq(todo, 3, Len(todo))
            \/ todo' = <<"complete">>
        BY <1>9 DEF Gate, Go
      <4>2. todo' # <<"complete">> /\ todo' # Tail(todo)
        BY <2>1, <2>2
      <4>3. blocked' = blocked \cup {mine} => mine \in blocked'
        OBVIOUS
      <4> QED BY <4>1, <4>2, <4>3
    <3>2. CASE mine \in blocked' \/ ~ IsLive(mine)
      <4>1. Ended(todo')
        BY <2>2 DEF Ended
      <4> QED BY <2>1, <2>2, <3>2, <4>1, NotLive, QuietEnds
    <3>3. ~ (todo[2] = "delta" /\ todo' = SubSeq(todo, 3, Len(todo)))
      <4>1. todo \in Seq(Steps) /\ todo[Len(todo)] \in Ends /\ Len(todo) \in Nat \ {0}
        BY <1>1, <2>1 DEF Typed, Ended
      <4>2. "gate" \notin Ends /\ "delta" \notin Ends
        BY DEF Ends
      <4>3. todo[2] = "delta" => Len(todo) >= 3
        BY <2>1, <4>1, <4>2
      <4>4. Len(todo) >= 3 => Len(SubSeq(todo, 3, Len(todo))) = Len(todo) - 2
        BY <4>1
      <4>5. Len(todo') = 0
        BY <2>2
      <4>6. SUFFICES ASSUME todo[2] = "delta", todo' = SubSeq(todo, 3, Len(todo))
                     PROVE  FALSE
        OBVIOUS
      <4>7. Len(todo') = Len(todo) - 2
        BY <4>3, <4>4, <4>6
      <4> QED BY <4>1, <4>3, <4>5, <4>6, <4>7
    <3> QED BY <3>1, <3>2, <3>3
  <2>3. CASE todo' # <<>>
    <3>1. todo' \in {Tail(todo), SubSeq(todo, 3, Len(todo)), <<"complete">>}
      BY <1>9, <2>3 DEF Gate, Go
    <3>2. Ended(SubSeq(todo, 3, Len(todo)))
      <4>1. todo \in Seq(Steps) /\ todo[Len(todo)] \in Ends /\ Len(todo) \in Nat \ {0}
        BY <1>1, <2>1 DEF Typed, Ended
      <4>2. ASSUME SubSeq(todo, 3, Len(todo)) # <<>>
            PROVE  LET rest == SubSeq(todo, 3, Len(todo)) IN rest[Len(rest)] = todo[Len(todo)]
        BY <4>1, <4>2
      <4> QED BY <4>1, <4>2 DEF Ended
    <3>3. Ended(<<"complete">>)
      BY DEF Ended, Ends
    <3>4. Ended(todo')
      BY <2>1, <3>1, <3>2, <3>3
    <3> QED BY <2>1, <2>3, <3>4, QuietEnds
  <2> QED BY <2>2, <2>3
<1>10. CASE LastCheck
  <2>1. /\ Free("loop") /\ todo # <<>> /\ todo[1] # "open" /\ Ended(Tail(todo))
        /\ Tail(todo) # <<>>
        /\ UNCHANGED <<turn, session, installed, mine, call, blocked>>
        /\ todo' = IF IsLive(mine) THEN Tail(todo) ELSE <<>>
    BY <1>2, <1>10 DEF LastCheck, Ends
  <2>2. Ended(<<>>)
    BY DEF Ended
  <2>3. CASE IsLive(mine)
    BY <2>1, <2>3, QuietEnds
  <2>4. CASE ~ IsLive(mine)
    <3>1. todo' = <<>>
      BY <2>1, <2>4
    <3> QED BY <2>1, <2>2, <2>4, <3>1, NotLive, QuietEnds
  <2> QED BY <2>3, <2>4
<1>11. CASE Dispatch
  <2>1. /\ Free("loop") /\ todo # <<>> /\ todo[1] # "open" /\ Ended(todo') /\ todo' # <<>>
        /\ UNCHANGED <<turn, session, installed, mine, call, blocked>>
    BY <1>2, <1>11 DEF Dispatch, Go, Ends
  <2> QED BY <2>1, QuietEnds
<1>12. ASSUME NEW op \in {"final", "delta", "speak", "complete"}, Tell(op) PROVE EndInv'
  <2>1. /\ todo # <<>> /\ todo[1] = op /\ Ended(todo') /\ (op \notin Ends => todo' # <<>>)
        /\ Call("loop", op, mine, mine)
        /\ UNCHANGED <<turn, session, installed, mine, blocked>>
    BY <1>2, <1>12 DEF Tell, Go
  <2>2. op \in Ops /\ op # "open" /\ (op \in Ends => op \in {"complete", "fail"})
    BY <1>12 DEF Ops, Ends
  <2> QED BY <1>1, <2>1, <2>2, CallEnds
<1>13. CASE Raise
  <2>1. /\ Free("loop") /\ (todo = <<>> \/ todo[1] # "open") /\ todo' = <<"failed">>
        /\ UNCHANGED <<turn, session, installed, mine, call, blocked>>
    BY <1>2, <1>13 DEF Raise
  <2>2. Ended(todo') /\ todo' # <<>>
    BY <2>1 DEF Ended, Ends
  <2> QED BY <2>1, <2>2, QuietEnds
<1>14. CASE Handle
  <2>1. /\ todo # <<>> /\ todo[1] = "failed" /\ Ended(todo') /\ "fail" \in Ops
        /\ Call("loop", "fail", installed, Untagged)
        /\ UNCHANGED <<turn, session, installed, mine, blocked>>
    BY <1>2, <1>14 DEF Handle, Go, Ops
  <2>2. installed = mine
    BY <2>1 DEF EndInv, OwnInstalled
  <2> QED BY <1>1, <2>1, <2>2, CallEnds
<1>15. CASE CheckIds("loop") \/ Write("loop")
  BY <1>1, <1>15, CheckEnds, WriteEnds
<1> QED
  BY <1>3, <1>4, <1>5, <1>6, <1>7, <1>8, <1>9, <1>10, <1>11, <1>12, <1>13, <1>14, <1>15 DEF Loop

LEMMA BargeEnds ==
    ASSUME SafetyInv, EndInv, Barge PROVE EndInv'
<1>1. CASE BargeIn
  <2>1. /\ NextTurn("interrupted") /\ Call("barge", "interrupt", installed, current)
        /\ UNCHANGED <<session, installed, todo, mine, blocked>>
    BY <1>1 DEF BargeIn
  <2>2. /\ installed \in 0..MaxRounds /\ current \in 0..MaxRounds /\ mine \in 0..MaxRounds
        /\ "barge" \in Threads /\ "loop" \in Threads /\ "interrupt" \in Ops /\ Typed
    BY DEF SafetyInv, Typed, Threads, Ops
  <2>3. call'["loop"] = call["loop"]
    <3>1. \A u \in Threads : u # "barge" => call'[u] = call[u]
      BY <2>1, <2>2, CallMade
    <3> QED BY <2>2, <3>1
  <2>4. \A r \in Rounds : turn[r] = "interrupted" => turn'[r] = "interrupted"
    BY <2>1, <2>2, NextTurnCloses DEF SafetyInv
  <2>5. OpenOnlyIfBlocked'
    BY <2>1, <2>2, <2>3, <2>4 DEF EndInv, OpenOnlyIfBlocked, IsCurrent, Free, Rounds
  <2> QED BY <2>1, <2>3, <2>5 DEF EndInv, Ended, OwnInstalled, LastCall, Free
<1>2. CASE CheckIds("barge") \/ Write("barge")
  BY <1>2, CheckEnds, WriteEnds DEF Threads
<1> QED BY <1>1, <1>2 DEF Barge

(* An iteration that is over leaves its session open only if the arbiter   *)
(* blocked its plan, or a barge-in closed its turn and will tell it.       *)
THEOREM OpenForACause == Spec => []OpenOnlyIfBlocked
<1>1. SafetyInv /\ EndInv /\ [Next]_vars => EndInv'
  <2> SUFFICES ASSUME SafetyInv, EndInv, [Next]_vars PROVE EndInv'
    OBVIOUS
  <2>1. CASE UNCHANGED vars
    BY <2>1 DEF vars, EndInv, Ended, OwnInstalled, LastCall, OpenOnlyIfBlocked, Free, IsCurrent
  <2> QED BY <2>1, LoopEnds, BargeEnds DEF Next, Done
<1>2. EndInv => OpenOnlyIfBlocked
  BY DEF EndInv
<1> QED BY <1>1, <1>2, InitEnds, Safe, PTL DEF Spec


-----------------------------------------------------------------------------
(* The wake pipeline *)

(* The capture thread runs before the detector is started.                 *)
StartedInOrder ==
    loop = "startDetector" => capture # "off" /\ "capture" \notin stopping

(* No word is anywhere before it is spoken.                                *)
Known ==
    /\ ring \in Seq(0..spoken)
    /\ queue \in Seq(SUBSET (1..spoken))
    /\ \A d \in Slots : detectors[d].hears \subseteq 1..spoken
    /\ woken \subseteq 1..spoken

(* Waiting for a word, the pipeline holds no word that began a conversation*)
(* but the leftovers.                                                      *)
Waiting == loop \in {"startCapture", "startDetector", "asleep"}

OldAreLeftover ==
    Waiting =>
        /\ WordsIn(Recent) \cap woken \subseteq leftover
        /\ \A i \in DOMAIN queue : queue[i] \cap woken \subseteq leftover
        /\ \A d \in Slots : detectors[d].hears \cap woken \subseteq leftover

IInv == WakeTypeOK /\ MicrophoneIsFree /\ AsleepIsHeard /\ StartedInOrder /\ Known /\ OldAreLeftover

-----------------------------------------------------------------------------
(* Lemmas about the ring *)

(* The last n elements of s, by their places in s.                         *)
LEMMA LastOfIs ==
    ASSUME NEW S, NEW s \in Seq(S), NEW n \in Nat \ {0}
    PROVE  LET skipped == IF Len(s) > n THEN Len(s) - n ELSE 0
           IN  /\ LastOf(s, n) \in Seq(S)
               /\ Len(LastOf(s, n)) = Len(s) - skipped
               /\ \A i \in 1..(Len(s) - skipped) : LastOf(s, n)[i] = s[i + skipped]
<1> DEFINE skipped == IF Len(s) > n THEN Len(s) - n ELSE 0
<1>1. Len(s) \in Nat
  OBVIOUS
<1>2. skipped \in Nat /\ skipped <= Len(s)
  BY <1>1
<1>3. LastOf(s, n) = SubSeq(s, skipped + 1, Len(s))
  BY <1>1 DEF LastOf
<1>4. \A i \in (skipped + 1)..Len(s) : s[i] \in S
  BY <1>1, <1>2
<1> HIDE DEF skipped
<1>5. /\ SubSeq(s, skipped + 1, Len(s)) \in Seq(S)
      /\ Len(SubSeq(s, skipped + 1, Len(s))) =
            IF skipped + 1 <= Len(s) THEN Len(s) - (skipped + 1) + 1 ELSE 0
      /\ \A i \in 1..(Len(s) - (skipped + 1) + 1) :
            SubSeq(s, skipped + 1, Len(s))[i] = s[skipped + 1 + i - 1]
  BY <1>1, <1>2, <1>4, SubSeqProperties
<1>6. /\ LastOf(s, n) \in Seq(S)
      /\ Len(LastOf(s, n)) = Len(s) - skipped
      /\ \A i \in 1..(Len(s) - skipped) : LastOf(s, n)[i] = s[i + skipped]
  BY <1>1, <1>2, <1>3, <1>5
<1>7. QED
  BY <1>6 DEF skipped

(* A word in the last n chunks is in one of the last n places.             *)
LEMMA WordsOfLast ==
    ASSUME NEW S, NEW s \in Seq(S), NEW n \in Nat \ {0}, NEW w
    PROVE  w \in WordsIn(LastOf(s, n)) <=>
               w # 0 /\ \E j \in 1..Len(s) : j > Len(s) - n /\ s[j] = w
<1> DEFINE skipped == IF Len(s) > n THEN Len(s) - n ELSE 0
<1>1. Len(s) \in Nat /\ skipped \in Nat /\ skipped <= Len(s)
  OBVIOUS
<1>2. /\ LastOf(s, n) \in Seq(S)
      /\ Len(LastOf(s, n)) = Len(s) - skipped
      /\ \A i \in 1..(Len(s) - skipped) : LastOf(s, n)[i] = s[i + skipped]
  BY LastOfIs
<1>3. DOMAIN LastOf(s, n) = 1..(Len(s) - skipped)
  BY <1>2
<1>4. w \in WordsIn(LastOf(s, n)) <=>
          w # 0 /\ \E i \in 1..(Len(s) - skipped) : LastOf(s, n)[i] = w
  BY <1>3, Zenon DEF WordsIn
<1>5. ASSUME NEW i \in 1..(Len(s) - skipped), LastOf(s, n)[i] = w
      PROVE  \E j \in 1..Len(s) : j > Len(s) - n /\ s[j] = w
  <2>1. i + skipped \in 1..Len(s) /\ i + skipped > Len(s) - n /\ s[i + skipped] = w
    BY <1>1, <1>2, <1>5
  <2>2. QED
    BY <2>1
<1>6. ASSUME NEW j \in 1..Len(s), j > Len(s) - n, s[j] = w
      PROVE  \E i \in 1..(Len(s) - skipped) : LastOf(s, n)[i] = w
  <2>1. j - skipped \in 1..(Len(s) - skipped) /\ (j - skipped) + skipped = j
    BY <1>1, <1>6
  <2>2. LastOf(s, n)[j - skipped] = w
    BY <2>1, <1>2, <1>6
  <2>3. QED
    BY <2>1, <2>2
<1>7. QED
  BY <1>4, <1>5, <1>6

(* After a chunk has been appended and the oldest ones have gone, the      *)
(* latest part of the ring has gained no other word.                       *)
LEMMA NewestOnly ==
    ASSUME NEW S, NEW s \in Seq(S), NEW x \in S, NEW w, w # x,
           NEW n \in Nat \ {0}, NEW m \in Nat \ {0},
           w \in WordsIn(LastOf(LastOf(Append(s, x), m), n))
    PROVE  w \in WordsIn(LastOf(s, n))
<1> DEFINE a == Append(s, x)
           t == LastOf(a, m)
           skipped == IF Len(a) > m THEN Len(a) - m ELSE 0
<1>1. a \in Seq(S) /\ Len(a) = Len(s) + 1 /\ Len(s) \in Nat
  OBVIOUS
<1>2. /\ t \in Seq(S) /\ Len(t) = Len(a) - skipped
      /\ \A i \in 1..(Len(a) - skipped) : t[i] = a[i + skipped]
  BY <1>1, LastOfIs
<1>3. skipped \in Nat /\ skipped <= Len(a)
  BY <1>1
<1>4. w # 0 /\ \E j \in 1..Len(t) : j > Len(t) - n /\ t[j] = w
  <2>1. w \in WordsIn(LastOf(t, n)) /\ t \in Seq(S)
    BY <1>2
  <2> HIDE DEF t, a, skipped
  <2>2. QED
    BY <2>1, WordsOfLast
<1>5. PICK j \in 1..Len(t) : j > Len(t) - n /\ t[j] = w
  BY <1>4
<1> HIDE DEF a, t, skipped
<1>6. a[j + skipped] = w /\ j + skipped \in 1..Len(a) /\ j + skipped > Len(a) - n
  BY <1>1, <1>2, <1>3, <1>5
<1>7. j + skipped # Len(s) + 1
  <2>1. a[Len(s) + 1] = x
    BY DEF a
  <2>2. QED
    BY <1>6, <2>1
<1>8. j + skipped \in 1..Len(s) /\ j + skipped > Len(s) - n
  BY <1>1, <1>6, <1>7
<1>9. s[j + skipped] = w
  BY <1>6, <1>8 DEF a
<1>10. QED
  BY <1>4, <1>8, <1>9, WordsOfLast

-----------------------------------------------------------------------------
(* The steps *)

(* The bounds.                                                             *)
LEMMA Bounds ==
    /\ RingSize \in Nat \ {0} /\ Lookback \in Nat \ {0} /\ MinBuffer \in Nat \ {0}
    /\ MaxChunks \in Nat /\ MaxWords \in Nat /\ MaxStalls \in Nat /\ MaxFailures \in Nat
  BY WakeAssumption DEF WakeAssumption

(* TypeOK in four parts.                                                   *)
RingType ==
    /\ ring \in Seq(0..MaxWords) /\ Len(ring) <= RingSize
    /\ sequence \in 0..MaxChunks /\ decoded \in 0..sequence

ThreadType ==
    /\ capture \in {"off", "top", "read"}
    /\ detectors \in [Slots -> [pc : {"off", "top", "decode"}, hears : SUBSET Words]]
    /\ handle \in Slots \cup {0}
    /\ stopping \subseteq {"capture", "detector"}
    /\ loop \in {"asleep", "joinDetector", "joinCapture", "talk", "startCapture",
                 "startDetector"}

CountType ==
    /\ spoken \in 0..MaxWords /\ stalls \in 0..MaxStalls /\ failures \in 0..MaxFailures
    /\ failed \in BOOLEAN

WordType ==
    /\ queue \in Seq((SUBSET Words) \ {{}})
    /\ woken \subseteq Words /\ leftover \subseteq Words

LEMMA TypeParts == WakeTypeOK <=> RingType /\ ThreadType /\ CountType /\ WordType
  BY Zenon DEF WakeTypeOK, RingType, ThreadType, CountType, WordType

(* Nothing is known of words or threads at first.                          *)
LEMMA InitIInv == WakeInit => IInv
<1> SUFFICES ASSUME WakeInit PROVE IInv
  OBVIOUS
<1>1. RingType
  BY Bounds DEF WakeInit, RingType
<1>2. ThreadType
  BY DEF WakeInit, ThreadType, Off
<1>3. CountType
  <2>1. 0 \in 0..MaxWords /\ 0 \in 0..MaxStalls /\ 0 \in 0..MaxFailures
    BY Bounds
  <2>2. QED
    BY <2>1, Zenon DEF WakeInit, CountType
<1>4. WordType
  BY DEF WakeInit, WordType
<1>5. MicrophoneIsFree /\ AsleepIsHeard /\ StartedInOrder
  BY DEF WakeInit, MicrophoneIsFree, AsleepIsHeard, StartedInOrder
<1>6. Known
  BY DEF WakeInit, Known, Off
<1>7. OldAreLeftover
  BY DEF WakeInit, OldAreLeftover
<1>8. QED
  BY <1>1, <1>2, <1>3, <1>4, <1>5, <1>6, <1>7, TypeParts DEF IInv

(* The threads and the loop: what does not depend on which words there are.*)
Control == MicrophoneIsFree /\ AsleepIsHeard /\ StartedInOrder

LEMMA ControlKept == WakeTypeOK /\ Control /\ [WakeNext]_wakeVars => Control'
<1> SUFFICES ASSUME WakeTypeOK, Control, [WakeNext]_wakeVars PROVE Control'
  OBVIOUS
<1> USE DEF Control, MicrophoneIsFree, AsleepIsHeard, StartedInOrder
<1>0. /\ detectors \in [Slots -> [pc : {"off", "top", "decode"}, hears : SUBSET Words]]
      /\ handle \in Slots \cup {0} /\ stopping \subseteq {"capture", "detector"}
  BY DEF WakeTypeOK
<1>1. CASE CaptureTop
  BY <1>1 DEF CaptureTop, Alive
<1>2. CASE CaptureRead
  BY <1>2 DEF CaptureRead, Alive
<1>3. CASE CaptureNothing
  BY <1>3 DEF CaptureNothing, Alive
<1>4. ASSUME NEW d \in Slots, DetectorTop(d) PROVE Control'
  BY <1>0, <1>4 DEF DetectorTop, Alive
<1>5. ASSUME NEW d \in Slots, Decode(d) PROVE Control'
  BY <1>0, <1>5 DEF Decode, Alive, AtTop
<1>6. CASE Wake
  BY <1>6 DEF Wake, Take, Alive
<1>7. CASE Lose
  BY <1>7 DEF Lose, Take, Alive
<1>8. CASE JoinDetector
  BY <1>8 DEF JoinDetector
<1>9. CASE JoinCapture
  BY <1>9 DEF JoinCapture
<1>10. CASE Sleep
  BY <1>10 DEF Sleep
<1>11. CASE StartCapture
  BY <1>0, <1>11 DEF StartCapture
<1>12. CASE StartFails
  BY <1>12 DEF StartFails
<1>13. CASE StartDetector
  <2>1. PICK d \in Slots : detectors' = [detectors EXCEPT ![d] = AtTop] /\ handle' = d
    BY <1>13 DEF StartDetector
  <2>2. handle' # 0 /\ Alive(handle)'
    BY <1>0, <2>1, Bounds DEF Alive, AtTop, Slots
  <2>3. stopping' = {} /\ capture' # "off" /\ loop' = "asleep"
    BY <1>0, <1>13 DEF StartDetector
  <2>4. QED
    BY <2>2, <2>3
<1>14. CASE Deaf \/ UNCHANGED wakeVars
  BY <1>14 DEF Deaf, wakeVars, Alive
<1>15. QED
  BY <1>1, <1>2, <1>3, <1>4, <1>5, <1>6, <1>7, <1>8, <1>9, <1>10, <1>11, <1>12, <1>13, <1>14
     DEF WakeNext, Capture, Detector, WaitingLoop

(* The next chunk and the trimmed ring.                                    *)
LEMMA Trimmed ==
    ASSUME NEW S, NEW s \in Seq(S), NEW x \in S
    PROVE  /\ Trim(Append(s, x)) \in Seq(S)
           /\ Len(Trim(Append(s, x))) <= RingSize
<1> DEFINE a == Append(s, x)
<1>1. a \in Seq(S) /\ Len(a) \in Nat
  OBVIOUS
<1> HIDE DEF a
<1>2. LastOf(a, RingSize) \in Seq(S)
  BY <1>1, LastOfIs, Bounds
<1>3. Len(LastOf(a, RingSize)) = Len(a) - (IF Len(a) > RingSize THEN Len(a) - RingSize ELSE 0)
  BY <1>1, LastOfIs, Bounds
<1>4. QED
  BY <1>1, <1>2, <1>3, Bounds DEF Trim, a

LEMMA RecentWords == ring \in Seq(0..MaxWords) => WordsIn(Recent) \subseteq Words
<1> SUFFICES ASSUME ring \in Seq(0..MaxWords), NEW w \in WordsIn(Recent) PROVE w \in Words
  OBVIOUS
<1>1. w # 0 /\ \E j \in 1..Len(ring) : ring[j] = w
  BY WordsOfLast, Bounds DEF Recent
<1>2. QED
  BY <1>1, Bounds DEF Words

LEMMA RingTypeKept == WakeTypeOK /\ [WakeNext]_wakeVars => RingType'
<1> SUFFICES ASSUME RingType, CountType, [WakeNext]_wakeVars PROVE RingType'
  BY TypeParts
<1> USE DEF RingType
<1>1. CASE CaptureRead
  <2>1. sequence' = sequence + 1 /\ decoded' = decoded
    BY <1>1 DEF CaptureRead
  <2>2. sequence' \in 0..MaxChunks /\ decoded' \in 0..sequence'
    BY <1>1, <2>1, Bounds DEF CaptureRead
  <2>3. PICK x \in 0..MaxWords : ring' = Trim(Append(ring, x))
    <3>1. 0 \in 0..MaxWords /\ (spoken < MaxWords => spoken + 1 \in 0..MaxWords)
      BY Bounds DEF CountType
    <3>2. QED
      BY <3>1, <1>1 DEF CaptureRead
  <2>4. ring' \in Seq(0..MaxWords) /\ Len(ring') <= RingSize
    BY <2>3, Trimmed
  <2>5. QED
    BY <2>2, <2>4
<1>2. ASSUME NEW d \in Slots, DetectorTop(d) PROVE RingType'
  BY <1>2 DEF DetectorTop
<1>3. QED
  BY <1>1, <1>2
     DEF WakeNext, Capture, Detector, WaitingLoop, CaptureTop, CaptureNothing, Decode, Wake, Lose, JoinDetector,
         JoinCapture, Sleep, StartCapture, StartFails, StartDetector, Deaf, wakeVars

LEMMA ThreadTypeKept == WakeTypeOK /\ [WakeNext]_wakeVars => ThreadType'
<1> SUFFICES ASSUME RingType, ThreadType, [WakeNext]_wakeVars PROVE ThreadType'
  BY TypeParts
<1> USE DEF ThreadType
<1>1. CASE Capture
  BY <1>1 DEF Capture, CaptureTop, CaptureRead, CaptureNothing
<1>2. ASSUME NEW d \in Slots, DetectorTop(d) PROVE ThreadType'
  <2>1. WordsIn(Recent) \subseteq Words
    BY RecentWords DEF RingType
  <2>2. QED
    BY <1>2, <2>1 DEF DetectorTop, Off
<1>3. ASSUME NEW d \in Slots, Decode(d) PROVE ThreadType'
  BY <1>3 DEF Decode, AtTop
<1>4. CASE Wake \/ Lose \/ JoinDetector \/ JoinCapture \/ Sleep
  BY <1>4 DEF Wake, Lose, JoinDetector, JoinCapture, Sleep
<1>5. CASE StartCapture \/ StartFails
  BY <1>5 DEF StartCapture, StartFails
<1>6. CASE StartDetector
  BY <1>6 DEF StartDetector, AtTop
<1>7. CASE Deaf \/ UNCHANGED wakeVars
  BY <1>7 DEF Deaf, wakeVars
<1>8. QED
  BY <1>1, <1>2, <1>3, <1>4, <1>5, <1>6, <1>7 DEF WakeNext, Detector, WaitingLoop

(* A step counts one of the bounded counters, or none.                     *)
LEMMA CountTypeKept == WakeTypeOK /\ [WakeNext]_wakeVars => CountType'
<1> SUFFICES ASSUME CountType, [WakeNext]_wakeVars PROVE CountType'
  BY TypeParts
<1>1. spoken' \in 0..MaxWords
  <2>1. spoken' = spoken \/ (spoken < MaxWords /\ spoken' = spoken + 1)
    BY DEF WakeNext, Capture, Detector, WaitingLoop, CaptureTop, CaptureRead, CaptureNothing, DetectorTop,
           Decode, Wake, Lose, JoinDetector, JoinCapture, Sleep, StartCapture, StartFails,
           StartDetector, Deaf, wakeVars
  <2>2. QED
    BY <2>1, Bounds DEF CountType
<1>2. stalls' \in 0..MaxStalls
  <2>1. stalls' = stalls \/ (stalls < MaxStalls /\ stalls' = stalls + 1)
    BY DEF WakeNext, Capture, Detector, WaitingLoop, CaptureTop, CaptureRead, CaptureNothing, DetectorTop,
           Decode, Wake, Lose, JoinDetector, JoinCapture, Sleep, StartCapture, StartFails,
           StartDetector, Deaf, wakeVars
  <2>2. QED
    BY <2>1, Bounds DEF CountType
<1>3. failures' \in 0..MaxFailures
  <2>1. failures' = failures \/ (failures < MaxFailures /\ failures' = failures + 1)
    BY DEF WakeNext, Capture, Detector, WaitingLoop, CaptureTop, CaptureRead, CaptureNothing, DetectorTop,
           Decode, Wake, Lose, JoinDetector, JoinCapture, Sleep, StartCapture, StartFails,
           StartDetector, Deaf, wakeVars
  <2>2. QED
    BY <2>1, Bounds DEF CountType
<1>4. failed' \in BOOLEAN
  <2>1. failed' = failed \/ failed' = TRUE \/ failed' = FALSE
    BY Zenon
       DEF WakeNext, Capture, Detector, WaitingLoop, CaptureTop, CaptureRead, CaptureNothing, DetectorTop,
           Decode, Wake, Lose, JoinDetector, JoinCapture, Sleep, StartCapture, StartFails,
           StartDetector, Deaf, wakeVars
  <2>2. QED
    BY <2>1, Zenon DEF CountType
<1>5. QED
  BY <1>1, <1>2, <1>3, <1>4, Zenon DEF CountType

(* The queue: an observation more, at the end, or one less, at the front.  *)
LEMMA WordTypeKept == WakeTypeOK /\ [WakeNext]_wakeVars => WordType'
<1> SUFFICES ASSUME RingType, ThreadType, WordType, [WakeNext]_wakeVars PROVE WordType'
  BY TypeParts
<1> USE DEF WordType
<1>1. ASSUME NEW d \in Slots, Decode(d) PROVE WordType'
  <2>1. detectors[d].hears \subseteq Words
    BY DEF ThreadType
  <2>2. queue' = queue \/ (detectors[d].hears # {} /\ queue' = Append(queue, detectors[d].hears))
    BY <1>1 DEF Decode
  <2>3. queue' \in Seq((SUBSET Words) \ {{}})
    <3>1. CASE queue' = queue
      BY <3>1
    <3>2. CASE detectors[d].hears # {} /\ queue' = Append(queue, detectors[d].hears)
      <4>1. detectors[d].hears \in (SUBSET Words) \ {{}}
        BY <2>1, <3>2
      <4>2. QED
        BY <3>2, <4>1, AppendProperties
    <3>3. QED
      BY <2>2, <3>1, <3>2
  <2>4. QED
    BY <1>1, <2>3 DEF Decode
<1>2. ASSUME Take PROVE queue' \in Seq((SUBSET Words) \ {{}}) /\ Head(queue) \subseteq Words
  BY <1>2 DEF Take
<1>3. CASE Wake
  BY <1>2, <1>3 DEF Wake
<1>4. CASE Lose
  BY <1>2, <1>4 DEF Lose
<1>5. CASE Sleep
  <2>1. WordsIn(LastOf(ring, Lookback)) \subseteq Words
    BY RecentWords DEF RingType, Recent
  <2>2. \A i \in DOMAIN queue : queue[i] \subseteq Words
    OBVIOUS
  <2>3. \A d \in Slots : detectors[d].hears \subseteq Words
    BY DEF ThreadType
  <2>4. \A w \in leftover' :
            \/ w \in WordsIn(LastOf(ring, Lookback))
            \/ \E i \in DOMAIN queue : w \in queue[i]
            \/ \E d \in Slots : w \in detectors[d].hears
    BY <1>5, Zenon DEF Sleep
  <2>5. leftover' \subseteq Words
    BY <2>1, <2>2, <2>3, <2>4, Zenon
  <2>6. QED
    BY <1>5, <2>5 DEF Sleep
<1>6. QED
  BY <1>1, <1>3, <1>4, <1>5
     DEF WakeNext, Capture, Detector, WaitingLoop, CaptureTop, CaptureRead, CaptureNothing, DetectorTop,
         JoinDetector, JoinCapture, StartCapture, StartFails, StartDetector, Deaf, wakeVars

LEMMA TypeKept == WakeTypeOK /\ [WakeNext]_wakeVars => WakeTypeOK'
<1>1. RingType' /\ ThreadType' /\ CountType' /\ WordType' => WakeTypeOK'
  BY Zenon DEF WakeTypeOK, RingType, ThreadType, CountType, WordType
<1>2. QED
  BY <1>1, RingTypeKept, ThreadTypeKept, CountTypeKept, WordTypeKept

-----------------------------------------------------------------------------
(* The words *)

LEMMA SeqGrows ==
    ASSUME NEW S, NEW T, S \subseteq T, NEW s \in Seq(S)
    PROVE  s \in Seq(T)
<1>1. Len(s) \in Nat /\ s \in [1..Len(s) -> S]
  BY LenProperties
<1>2. s \in [1..Len(s) -> T]
  BY <1>1
<1>3. QED
  BY <1>1, <1>2

LEMMA RecentKnown == Known /\ spoken \in Nat => WordsIn(Recent) \subseteq 1..spoken
<1> SUFFICES ASSUME ring \in Seq(0..spoken), spoken \in Nat, NEW w \in WordsIn(Recent)
             PROVE  w \in 1..spoken
  BY DEF Known
<1>1. w # 0 /\ \E j \in 1..Len(ring) : ring[j] = w
  BY WordsOfLast, Bounds DEF Recent
<1>2. QED
  BY <1>1

(* A chunk is silent, or carries the word after all those spoken.          *)
LEMMA ReadChunk ==
    ASSUME WakeTypeOK, CaptureRead
    PROVE  /\ spoken \in Nat /\ spoken' \in Nat /\ spoken <= spoken'
           /\ \E x \in 0..spoken' : ring' = Trim(Append(ring, x)) /\ (x = 0 \/ x > spoken)
<1>1. spoken \in 0..MaxWords
  BY TypeParts DEF CountType
<1>2. QED
  BY <1>1, Bounds DEF CaptureRead

LEMMA KnownKept == WakeTypeOK /\ Known /\ [WakeNext]_wakeVars => Known'
<1> SUFFICES ASSUME WakeTypeOK, Known, [WakeNext]_wakeVars PROVE Known'
  OBVIOUS
<1>0. ThreadType /\ WordType /\ spoken \in Nat
  BY TypeParts, Bounds DEF CountType
<1> USE DEF Known
<1>1. CASE CaptureRead
  <2>1. spoken' \in Nat /\ 0..spoken \subseteq 0..spoken' /\ 1..spoken \subseteq 1..spoken'
    BY <1>1, ReadChunk
  <2>2. PICK x \in 0..spoken' : ring' = Trim(Append(ring, x))
    BY <1>1, ReadChunk
  <2>3. ring \in Seq(0..spoken')
    BY <2>1, SeqGrows
  <2>4. ring' \in Seq(0..spoken')
    BY <2>2, <2>3, Trimmed
  <2>5. queue' = queue /\ detectors' = detectors /\ woken' = woken
    BY <1>1 DEF CaptureRead
  <2>6. queue \in Seq(SUBSET (1..spoken'))
    <3>1. SUBSET (1..spoken) \subseteq SUBSET (1..spoken')
      BY <2>1
    <3>2. QED
      BY <3>1, SeqGrows
  <2>7. QED
    BY <2>1, <2>4, <2>5, <2>6
<1>2. ASSUME NEW d \in Slots, DetectorTop(d) PROVE Known'
  <2>1. WordsIn(Recent) \subseteq 1..spoken
    BY <1>0, RecentKnown
  <2>2. /\ ring' = ring /\ queue' = queue /\ woken' = woken /\ spoken' = spoken
        /\ \/ detectors' = [detectors EXCEPT ![d] = Off]
           \/ detectors' = [detectors EXCEPT ![d] = [pc |-> "decode", hears |-> WordsIn(Recent)]]
    BY <1>2 DEF DetectorTop
  <2>3. \A e \in Slots : detectors'[e].hears \subseteq 1..spoken
    <3>1. PICK new \in {Off, [pc |-> "decode", hears |-> WordsIn(Recent)]} :
             detectors' = [detectors EXCEPT ![d] = new]
      BY <2>2
    <3>2. new.hears \subseteq 1..spoken
      BY <2>1 DEF Off
    <3>3. \A e \in Slots : detectors'[e] = IF e = d THEN new ELSE detectors[e]
      BY <1>0, <3>1 DEF ThreadType
    <3>4. QED
      BY <1>0, <3>2, <3>3
  <2>4. QED
    BY <1>0, <2>2, <2>3
<1>3. ASSUME NEW d \in Slots, Decode(d) PROVE Known'
  <2>1. queue' = queue \/ queue' = Append(queue, detectors[d].hears)
    BY <1>3 DEF Decode
  <2>2. queue' \in Seq(SUBSET (1..spoken))
    BY <2>1, SMTT(30)
  <2>3. QED
    BY <1>0, <1>3, <2>2 DEF Decode, AtTop, ThreadType
<1>4. ASSUME Take PROVE queue' \in Seq(SUBSET (1..spoken)) /\ Head(queue) \subseteq 1..spoken
  BY <1>4 DEF Take
<1>5. CASE Wake
  BY <1>4, <1>5 DEF Wake
<1>6. CASE Lose
  BY <1>4, <1>6 DEF Lose
<1>7. CASE StartDetector
  BY <1>0, <1>7 DEF StartDetector, AtTop, ThreadType
<1>8. QED
  BY <1>1, <1>2, <1>3, <1>5, <1>6, <1>7
     DEF WakeNext, Capture, Detector, WaitingLoop, CaptureTop, CaptureNothing, JoinDetector, JoinCapture,
         Sleep, StartCapture, StartFails, Deaf, wakeVars

LEMMA OldAreLeftoverKept == WakeTypeOK /\ Known /\ OldAreLeftover /\ [WakeNext]_wakeVars => OldAreLeftover'
<1> SUFFICES ASSUME WakeTypeOK, Known, OldAreLeftover, [WakeNext]_wakeVars, Waiting' PROVE OldAreLeftover'
  BY DEF OldAreLeftover
<1>0. RingType /\ ThreadType /\ WordType
  BY TypeParts
<1> USE DEF OldAreLeftover, Waiting
<1>1. CASE CaptureRead
  <2>1. loop' = loop /\ queue' = queue /\ detectors' = detectors /\ woken' = woken
        /\ leftover' = leftover
    BY <1>1 DEF CaptureRead
  <2>2. ASSUME NEW w \in WordsIn(Recent'), w \in woken PROVE w \in leftover
    <3>1. PICK x \in 0..spoken' : ring' = Trim(Append(ring, x)) /\ (x = 0 \/ x > spoken)
      BY <1>1, ReadChunk
    <3>2. w # x
      BY <1>1, <2>2, <3>1, ReadChunk DEF Known
    <3>3. 0..spoken \subseteq 0..spoken'
      BY <1>1, ReadChunk
    <3>4. ring \in Seq(0..spoken')
      BY <3>3, SeqGrows DEF Known
    <3>5. w \in WordsIn(LastOf(LastOf(Append(ring, x), RingSize), Lookback))
      BY <2>2, <3>1 DEF Recent, Trim
    <3>6. w \in WordsIn(LastOf(ring, Lookback))
      BY <3>2, <3>4, <3>5, NewestOnly, Bounds
    <3>7. QED
      BY <2>1, <2>2, <3>6 DEF Recent
  <2>3. QED
    BY <2>1, <2>2
<1>2. ASSUME NEW d \in Slots, DetectorTop(d) PROVE OldAreLeftover'
  BY <1>0, <1>2 DEF DetectorTop, Off, ThreadType, Recent
<1>3. ASSUME NEW d \in Slots, Decode(d) PROVE OldAreLeftover'
  <2>1. queue' = queue \/ queue' = Append(queue, detectors[d].hears)
    BY <1>3 DEF Decode
  <2>2. \A i \in DOMAIN queue' : queue'[i] = detectors[d].hears
                                  \/ (i \in DOMAIN queue /\ queue'[i] = queue[i])
    BY <1>0, <2>1 DEF WordType
  <2>3. loop' = loop /\ ring' = ring /\ woken' = woken /\ leftover' = leftover
    BY <1>3 DEF Decode
  <2>4. \A e \in Slots : detectors'[e].hears \subseteq detectors[e].hears
    BY <1>0, <1>3 DEF Decode, AtTop, ThreadType
  <2>5. QED
    BY <2>2, <2>3, <2>4 DEF Recent
<1>4. CASE Lose
  <2>1. \A i \in DOMAIN queue' : i + 1 \in DOMAIN queue /\ queue'[i] = queue[i + 1]
    BY <1>0, <1>4 DEF Lose, Take, WordType
  <2>2. QED
    BY <1>4, <2>1 DEF Lose, Recent
<1>5. CASE Sleep
  <2>1. ring' = ring /\ queue' = queue /\ detectors' = detectors
    BY <1>5 DEF Sleep
  <2>2. /\ WordsIn(Recent) \subseteq leftover'
        /\ \A i \in DOMAIN queue : queue[i] \subseteq leftover'
        /\ \A d \in Slots : detectors[d].hears \subseteq leftover'
    BY <1>5, Zenon DEF Sleep, Recent
  <2>3. QED
    BY <2>1, <2>2 DEF Recent
<1>6. CASE StartDetector
  <2>1. \A e \in Slots : detectors'[e].hears \subseteq detectors[e].hears
    BY <1>0, <1>6 DEF StartDetector, AtTop, ThreadType
  <2>2. QED
    BY <1>6, <2>1 DEF StartDetector, Recent
<1>7. QED
  BY <1>1, <1>2, <1>3, <1>4, <1>5, <1>6
     DEF WakeNext, Capture, Detector, WaitingLoop, CaptureTop, CaptureNothing, Wake, JoinDetector,
         JoinCapture, StartCapture, StartFails, Deaf, wakeVars, Recent

-----------------------------------------------------------------------------
(* Theorems *)

(* The pipeline is always in order.                                        *)
THEOREM Ordered == WakeSpec => []IInv
<1>1. IInv /\ [WakeNext]_wakeVars => IInv'
  BY TypeKept, ControlKept, KnownKept, OldAreLeftoverKept DEF IInv, Control
<1>2. QED
  BY InitIInv, <1>1, PTL DEF WakeSpec

(* Type correctness.                                                       *)
THEOREM TypeCorrect == WakeSpec => []WakeTypeOK
<1>1. IInv => WakeTypeOK
  BY DEF IInv
<1>2. QED
  BY <1>1, Ordered, PTL

(* During a conversation the pipeline does not have the microphone,        *)
(* whatever timed out or failed before.                                    *)
THEOREM MicrophoneFree == WakeSpec => []MicrophoneIsFree
<1>1. IInv => MicrophoneIsFree
  BY DEF IInv
<1>2. QED
  BY <1>1, Ordered, PTL

(* A sleeping loop whose pipeline has started is heard, however many       *)
(* detectors were given up before.                                         *)
THEOREM AsleepHeard == WakeSpec => []AsleepIsHeard
<1>1. IInv => AsleepIsHeard
  BY DEF IInv
<1>2. QED
  BY <1>1, Ordered, PTL

(* A word wakes the loop a second time only if it was a leftover when the  *)
(* pipeline resumed.                                                       *)
THEOREM LeftoversOnly == WakeSpec => OnlyLeftoversWakeAgain
<1>1. ASSUME IInv, [WakeNext]_wakeVars, loop = "asleep", loop' = "joinDetector"
      PROVE  Head(queue) \cap woken \subseteq leftover
  <2>1. queue # <<>>
    BY <1>1
       DEF WakeNext, Capture, Detector, WaitingLoop, CaptureTop, CaptureRead, CaptureNothing, DetectorTop,
           Decode, Wake, Lose, Take, JoinDetector, JoinCapture, Sleep, StartCapture, StartFails,
           StartDetector, Deaf, wakeVars
  <2>2. 1 \in DOMAIN queue /\ Head(queue) = queue[1]
    BY <1>1, <2>1 DEF IInv, Known
  <2>3. QED
    BY <1>1, <2>2 DEF IInv, OldAreLeftover, Waiting
<1>2. IInv /\ [WakeNext]_wakeVars =>
          [loop = "asleep" /\ loop' = "joinDetector" => Head(queue) \cap woken \subseteq leftover]_wakeVars
  BY <1>1
<1>3. QED
  BY Ordered, <1>2, PTL DEF WakeSpec, OnlyLeftoversWakeAgain

-----------------------------------------------------------------------------
(* One session, call by call: VoiceStream.  What is true of it at a time t *)
(* is said of the session and of t, so that each call is a lemma of its    *)
(* own about the session it makes.                                         *)

Harmless == CancelSteps \union {"voice_heartbeat"}
VoicePhases == {"idle", "listening", "partial_asr", "thinking_stream", "speaking_stream"} \union OverPhases
StreamIds == Named \union {<<"derived", n>> : n \in Nat}
Links == [target : CancelSteps, round : StreamIds, token : StreamIds]
Types == Endings \union Harmless \union
         {"listening_started", "audio_detected", "asr_partial", "asr_final", "microfeedback", "agent_think",
          "tts_started", "tts_chunk"}
Told == [type : Types, phase : VoicePhases, round : StreamIds, token : StreamIds]

Sessions == [phase : VoicePhases, sequence : Nat, round : StreamIds, token : StreamIds, at : [Times -> Nat],
             interrupted : BOOLEAN, cancelled : SUBSET CancelSteps, chain : Seq(Links), events : Seq(Told)]

HasEnded(events) == \E i \in DOMAIN events : events[i].type \in Endings

Hushed(events) ==
    \A i, j \in DOMAIN events :
        i < j /\ events[i].type \in Endings => events[j].type \in Harmless

OfRound(seq, round, token) == \A i \in DOMAIN seq : seq[i].round = round /\ seq[i].token = token

Once(chain, steps) ==
    /\ steps = {chain[i].target : i \in DOMAIN chain}
    /\ \A i, j \in DOMAIN chain : chain[i].target = chain[j].target => i = j

CanGoOn(s) == ~s.interrupted /\ s.phase \notin OverPhases

(* A session at time t, of a round that has been named throughout if g.    *)
StreamInv(s, t, g) ==
    /\ s \in Sessions /\ t \in Nat /\ t >= 1 /\ g \in BOOLEAN
    /\ Once(s.chain, s.cancelled)
    /\ OfRound(s.chain, s.round, s.token) /\ OfRound(s.events, s.round, s.token)
    /\ \A x \in Times : s.at[x] <= t
    /\ s.at["started"] # Unset => \A x \in Times : s.at[x] # Unset => s.at["started"] <= s.at[x]
    /\ s.phase = "completed" => s.at["ended"] # Unset
    /\ g => /\ Hushed(s.events)
            /\ HasEnded(s.events) => ~CanGoOn(s)
            /\ s.at["ended"] # Unset => ~CanGoOn(s) /\ \A x \in Times : s.at[x] <= s.at["ended"]
            /\ s.phase = "completed" => ~s.interrupted

LEMMA OneMoreEvent ==
    ASSUME NEW events \in Seq(Told), NEW e \in Told,
           Hushed(events), HasEnded(events) => e.type \in Harmless
    PROVE  Hushed(Append(events, e))
BY DEF Hushed, HasEnded, Told

LEMMA EndedByEvent ==
    ASSUME NEW events \in Seq(Told), NEW e \in Told
    PROVE  HasEnded(Append(events, e)) <=> HasEnded(events) \/ e.type \in Endings
<1>1. ASSUME HasEnded(Append(events, e)) PROVE HasEnded(events) \/ e.type \in Endings
  BY <1>1 DEF HasEnded, Told
<1>2. ASSUME HasEnded(events) PROVE HasEnded(Append(events, e))
  <2>1. PICK i \in DOMAIN events : events[i].type \in Endings
    BY <1>2 DEF HasEnded
  <2>2. i \in DOMAIN Append(events, e) /\ Append(events, e)[i] = events[i]
    BY <2>1
  <2> QED BY <2>1, <2>2 DEF HasEnded
<1>3. ASSUME e.type \in Endings PROVE HasEnded(Append(events, e))
  <2>1. Len(events) + 1 \in DOMAIN Append(events, e) /\ Append(events, e)[Len(events) + 1] = e
    OBVIOUS
  <2> QED BY <2>1, <1>3 DEF HasEnded
<1> QED BY <1>1, <1>2, <1>3

LEMMA OneMoreOfRound ==
    ASSUME NEW S, NEW seq \in Seq(S), NEW e \in S, NEW round, NEW token,
           OfRound(seq, round, token), e.round = round, e.token = token
    PROVE  OfRound(Append(seq, e), round, token)
BY DEF OfRound

(* What is recorded after the end is harmless, whoever asks for it.        *)
LEMMA RecordHolds ==
    ASSUME NEW s, NEW t, NEW g, StreamInv(s, t, g), NEW type \in Types, NEW phase \in VoicePhases,
           type \notin Endings, g /\ ~CanGoOn(s) => type \in Harmless
    PROVE  /\ StreamInv(Record(s, type, phase), t, g)
           /\ Record(s, type, phase).cancelled = s.cancelled
           /\ Record(s, type, phase).interrupted = s.interrupted
<1> DEFINE u == Record(s, type, phase)
           e == Event(s, type, phase)
<1>a. s \in Sessions
  BY DEF StreamInv
<1>b. s.round \in StreamIds /\ s.token \in StreamIds /\ s.events \in Seq(Told)
  BY <1>a DEF Sessions
<1>c. u = [s EXCEPT !.events = Append(s.events, e)]
  BY <1>a DEF Record, Sessions
<1>d. e \in Told /\ e.round = s.round /\ e.token = s.token /\ e.type = type
  BY <1>a, <1>b DEF Event, Told
<1> HIDE DEF u, e
<1>e. Append(s.events, e) \in Seq(Told)
  BY <1>b, <1>d
<1>1. s \in Sessions /\ e \in Told /\ e.round = s.round /\ e.token = s.token /\ e.type = type
  BY <1>a, <1>d
<1>2. /\ u \in Sessions /\ u.events = Append(s.events, e)
      /\ u.phase = s.phase /\ u.at = s.at /\ u.interrupted = s.interrupted /\ u.cancelled = s.cancelled
      /\ u.chain = s.chain /\ u.round = s.round /\ u.token = s.token
  BY <1>a, <1>c, <1>e DEF Sessions
<1>3. s.events \in Seq(Told)
  BY <1>1 DEF Sessions
<1>4. OfRound(u.events, u.round, u.token)
  BY <1>1, <1>2, <1>3, OneMoreOfRound DEF StreamInv
<1>5. g => Hushed(u.events) /\ (HasEnded(u.events) => ~CanGoOn(u))
  BY <1>1, <1>2, <1>3, OneMoreEvent, EndedByEvent DEF StreamInv, CanGoOn
<1>6. StreamInv(u, t, g)
  BY <1>2, <1>4, <1>5 DEF StreamInv, CanGoOn
<1> QED BY <1>2, <1>6 DEF u

LEMMA MarkHolds ==
    ASSUME NEW s, NEW t, NEW g, StreamInv(s, t, g), NEW step \in CancelSteps
    PROVE  /\ StreamInv(MarkStep(s, step), t, g)
           /\ MarkStep(s, step).cancelled = s.cancelled \union {step}
           /\ MarkStep(s, step).phase = s.phase /\ MarkStep(s, step).at = s.at
           /\ MarkStep(s, step).interrupted = s.interrupted
<1>1. CASE step \in s.cancelled
  BY <1>1 DEF MarkStep
<1>2. CASE step \notin s.cancelled
  <2> DEFINE link == [target |-> step, round |-> s.round, token |-> s.token]
             u == [s EXCEPT !.cancelled = s.cancelled \union {step}, !.chain = Append(s.chain, link)]
  <2>1. s \in Sessions /\ link \in Links /\ s.chain \in Seq(Links)
    BY DEF StreamInv, Sessions, Links
  <2> HIDE DEF link
  <2>a. Append(s.chain, link) \in Seq(Links) /\ s.cancelled \union {step} \in SUBSET CancelSteps
    BY <2>1 DEF Sessions
  <2>2. /\ u \in Sessions /\ u.cancelled = s.cancelled \union {step} /\ u.chain = Append(s.chain, link)
        /\ u.phase = s.phase /\ u.at = s.at /\ u.interrupted = s.interrupted
        /\ u.events = s.events /\ u.round = s.round /\ u.token = s.token
    BY <2>1, <2>a DEF Sessions
  <2>3. link.target = step /\ link.round = s.round /\ link.token = s.token
    BY DEF link
  <2> HIDE DEF u
  <2>4. Once(u.chain, u.cancelled)
    <3>1. Once(s.chain, s.cancelled)
      BY DEF StreamInv
    <3>2. \A i \in DOMAIN s.chain : s.chain[i].target # step
      BY <3>1, <1>2 DEF Once
    <3>3. \A i, j \in DOMAIN u.chain : u.chain[i].target = u.chain[j].target => i = j
      BY <2>1, <2>2, <2>3, <3>1, <3>2 DEF Once
    <3>4. u.cancelled = {u.chain[i].target : i \in DOMAIN u.chain}
      <4>1. \A i \in DOMAIN u.chain :
               u.chain[i].target = IF i = Len(s.chain) + 1 THEN step ELSE s.chain[i].target
        BY <2>1, <2>2, <2>3
      <4>2. DOMAIN u.chain = DOMAIN s.chain \union {Len(s.chain) + 1} /\ Len(s.chain) + 1 \notin DOMAIN s.chain
        BY <2>1, <2>2
      <4>3. s.cancelled = {s.chain[i].target : i \in DOMAIN s.chain}
        BY <3>1 DEF Once
      <4> QED BY <4>1, <4>2, <4>3, <2>2
    <3> QED BY <3>3, <3>4 DEF Once
  <2>5. OfRound(u.chain, u.round, u.token)
    BY <2>1, <2>2, <2>3, OneMoreOfRound DEF StreamInv
  <2>7. StreamInv(u, t, g)
    BY <2>2, <2>4, <2>5 DEF StreamInv, CanGoOn
  <2>8. s.phase \in VoicePhases /\ step \in Types /\ step \notin Endings /\ step \in Harmless
    <3>1. s.phase \in VoicePhases
      BY <2>1 DEF Sessions
    <3>2. step \in Types
      BY DEF Types, Harmless
    <3>3. step \notin Endings /\ step \in Harmless
      BY DEF CancelSteps, Endings, Harmless
    <3> QED BY <3>1, <3>2, <3>3
  <2>9. StreamInv(Record(u, step, s.phase), t, g)
    BY <2>7, <2>8, RecordHolds
  <2>10. MarkStep(s, step) = Record(u, step, s.phase)
    BY <1>2 DEF MarkStep, u, link
  <2>11. /\ Record(u, step, s.phase).cancelled = u.cancelled
         /\ Record(u, step, s.phase).phase = u.phase
         /\ Record(u, step, s.phase).at = u.at
         /\ Record(u, step, s.phase).interrupted = u.interrupted
    BY <2>2 DEF Record, Sessions
  <2> QED BY <2>2, <2>9, <2>10, <2>11
<1> QED BY <1>1, <1>2

(* A call that goes on: a phase, at most one time, and an event.           *)
LEMMA GoesOn ==
    ASSUME NEW s, NEW t, NEW g, StreamInv(s, t, g), g => CanGoOn(s),
           NEW phase \in VoicePhases, phase = s.phase \/ phase \notin OverPhases,
           NEW x \in Times \ {"started", "ended"}
    PROVE  /\ StreamInv([s EXCEPT !.phase = phase], t, g)
           /\ StreamInv(Stamp([s EXCEPT !.phase = phase], x, t), t, g)
           /\ [s EXCEPT !.phase = phase].phase = phase
           /\ [s EXCEPT !.phase = phase].cancelled = s.cancelled
           /\ [s EXCEPT !.phase = phase].interrupted = s.interrupted
           /\ [s EXCEPT !.phase = phase].at = s.at
           /\ Stamp([s EXCEPT !.phase = phase], x, t).phase = phase
           /\ Stamp([s EXCEPT !.phase = phase], x, t).cancelled = s.cancelled
           /\ Stamp([s EXCEPT !.phase = phase], x, t).interrupted = s.interrupted
<1> DEFINE u == [s EXCEPT !.phase = phase]
<1>1. s \in Sessions /\ t \in Nat /\ t >= 1
  BY DEF StreamInv
<1>2. /\ u \in Sessions /\ u.phase = phase
      /\ u.at = s.at /\ u.interrupted = s.interrupted /\ u.cancelled = s.cancelled /\ u.chain = s.chain
      /\ u.events = s.events /\ u.round = s.round /\ u.token = s.token
  BY <1>1 DEF Sessions
<1> HIDE DEF u
<1>3. StreamInv(u, t, g)
  BY <1>2 DEF StreamInv, CanGoOn, OverPhases
<1> DEFINE v == Stamp(u, x, t)
<1>4. /\ v \in Sessions /\ v.phase = u.phase
      /\ v.at = [u.at EXCEPT ![x] = t] /\ v.interrupted = u.interrupted /\ v.cancelled = u.cancelled
      /\ v.chain = u.chain /\ v.events = u.events /\ v.round = u.round /\ v.token = u.token
  BY <1>1, <1>2 DEF Sessions, Stamp
<1> HIDE DEF v
<1>5. u.at \in [Times -> Nat]
  BY <1>2 DEF Sessions
<1>6. \A y \in Times : v.at[y] = IF y = x THEN t ELSE u.at[y]
  BY <1>4, <1>5
<1>7. /\ \A y \in Times : v.at[y] <= t
      /\ v.at["started"] = u.at["started"] /\ v.at["ended"] = u.at["ended"]
      /\ "started" \in Times /\ "ended" \in Times
  BY <1>1, <1>3, <1>6 DEF StreamInv, Times
<1>8. v.at["started"] # Unset => \A y \in Times : v.at[y] # Unset => v.at["started"] <= v.at[y]
  <2>1. u.at["started"] # Unset => \A y \in Times : u.at[y] # Unset => u.at["started"] <= u.at[y]
    BY <1>3 DEF StreamInv
  <2>2. u.at["started"] <= t
    BY <1>3, <1>7 DEF StreamInv
  <2> QED BY <2>1, <2>2, <1>6, <1>7
<1>9. g => v.at["ended"] = Unset
  BY <1>2, <1>7, <1>3 DEF StreamInv, CanGoOn
<1>10. StreamInv(v, t, g)
  <2>1. /\ v \in Sessions /\ t \in Nat /\ t >= 1 /\ g \in BOOLEAN
        /\ Once(v.chain, v.cancelled)
        /\ OfRound(v.chain, v.round, v.token) /\ OfRound(v.events, v.round, v.token)
        /\ v.phase = "completed" => v.at["ended"] # Unset
    BY <1>3, <1>4, <1>7 DEF StreamInv
  <2>2. g => Hushed(v.events) /\ (HasEnded(v.events) => ~CanGoOn(v)) /\ (v.phase = "completed" => ~v.interrupted)
    BY <1>3, <1>4 DEF StreamInv, CanGoOn
  <2> QED BY <2>1, <2>2, <1>7, <1>8, <1>9 DEF StreamInv
<1> QED BY <1>2, <1>3, <1>4, <1>10 DEF u, v

LEMMA Later ==
    ASSUME NEW s, NEW t, NEW g, StreamInv(s, t, g), NEW later \in Nat, later >= t, NEW h \in BOOLEAN, h => g
    PROVE  StreamInv(s, later, h)
<1>1. \A x \in Times : s.at[x] \in Nat /\ s.at[x] <= t
  BY DEF StreamInv, Sessions
<1> QED BY <1>1 DEF StreamInv

(* A call that ends the round.                                             *)
LEMMA EndHolds ==
    ASSUME NEW s, NEW t, NEW g, StreamInv(s, t, g), g => CanGoOn(s),
           NEW phase \in {"completed", "error"}, NEW type \in {"complete", "error"}
    PROVE  /\ StreamInv(Transition(Stamp(s, "ended", t), type, phase), t, g)
           /\ Transition(Stamp(s, "ended", t), type, phase).cancelled = s.cancelled
           /\ Transition(Stamp(s, "ended", t), type, phase).interrupted = s.interrupted
<1> DEFINE e == [type |-> type, phase |-> phase, round |-> s.round, token |-> s.token]
           u == Transition(Stamp(s, "ended", t), type, phase)
<1>1. s \in Sessions /\ t \in Nat /\ t >= 1 /\ "ended" \in Times /\ "started" \in Times
  BY DEF StreamInv, Times
<1>2. e \in Told /\ e.type = type /\ e.round = s.round /\ e.token = s.token
  BY <1>1 DEF Sessions, Told, Types, Endings, VoicePhases, OverPhases
<1>3. s.events \in Seq(Told) /\ s.at \in [Times -> Nat]
  BY <1>1 DEF Sessions
<1>4. u = [s EXCEPT !.at = [s.at EXCEPT !["ended"] = t], !.phase = phase, !.events = Append(s.events, e)]
  BY <1>1 DEF Transition, Record, Stamp, Event, Sessions
<1> HIDE DEF u, e
<1>5. Append(s.events, e) \in Seq(Told) /\ [s.at EXCEPT !["ended"] = t] \in [Times -> Nat] /\ phase \in VoicePhases
  BY <1>1, <1>2, <1>3 DEF VoicePhases, OverPhases
<1>6. /\ u \in Sessions /\ u.phase = phase /\ u.at = [s.at EXCEPT !["ended"] = t]
      /\ u.interrupted = s.interrupted /\ u.cancelled = s.cancelled /\ u.chain = s.chain
      /\ u.events = Append(s.events, e) /\ u.round = s.round /\ u.token = s.token
  BY <1>1, <1>4, <1>5 DEF Sessions
<1>7. OfRound(u.events, u.round, u.token)
  BY <1>2, <1>3, <1>6, OneMoreOfRound DEF StreamInv
<1>8. ~CanGoOn(u)
  BY <1>6 DEF CanGoOn, OverPhases
<1>9. g => Hushed(u.events) /\ ~u.interrupted
  <2>1. ASSUME g PROVE Hushed(u.events) /\ ~u.interrupted
    <3>1. Hushed(s.events) /\ ~HasEnded(s.events) /\ ~s.interrupted
      BY <2>1 DEF StreamInv, CanGoOn
    <3> QED BY <3>1, <1>2, <1>3, <1>6, OneMoreEvent
  <2> QED BY <2>1
<1>10. \A x \in Times : u.at[x] = IF x = "ended" THEN t ELSE s.at[x]
  BY <1>3, <1>6
<1>11. /\ \A x \in Times : u.at[x] <= t
       /\ u.at["ended"] = t /\ u.at["ended"] # Unset
       /\ u.at["started"] = s.at["started"]
  BY <1>1, <1>10 DEF StreamInv, Unset
<1>12. u.at["started"] # Unset => \A x \in Times : u.at[x] # Unset => u.at["started"] <= u.at[x]
  BY <1>1, <1>10, <1>11 DEF StreamInv
<1>13. StreamInv(u, t, g)
  BY <1>1, <1>6, <1>7, <1>8, <1>9, <1>11, <1>12 DEF StreamInv
<1> QED BY <1>6, <1>13 DEF u

(* A barge-in marks the steps that were not marked before it.              *)
LEMMA InterruptHolds ==
    ASSUME NEW s, NEW t, NEW g, StreamInv(s, t, g), g => CanGoOn(s)
    PROVE  StreamInv(Interrupted(s), t, g) /\ Interrupted(s).cancelled = CancelSteps
<1> DEFINE e == [type |-> "interrupt", phase |-> "barge_in", round |-> s.round, token |-> s.token]
           cut == Transition([s EXCEPT !.interrupted = TRUE], "interrupt", "barge_in")
           a == MarkStep(cut, "generation")
           b == MarkStep(a, "tts")
           c == MarkStep(b, "action_plan")
<1>1. s \in Sessions
  BY DEF StreamInv
<1>2. s.events \in Seq(Told) /\ s.round \in StreamIds /\ s.token \in StreamIds
  BY <1>1 DEF Sessions
<1>3. "interrupt" \in Types /\ "barge_in" \in VoicePhases
  BY DEF Types, Endings, VoicePhases, OverPhases
<1>4. e \in Told /\ e.type = "interrupt" /\ e.round = s.round /\ e.token = s.token
  BY <1>2, <1>3 DEF Told
<1>5. cut = [s EXCEPT !.interrupted = TRUE, !.phase = "barge_in", !.events = Append(s.events, e)]
  BY <1>1 DEF Transition, Record, Event, Sessions
<1> HIDE DEF cut, e
<1>6. Append(s.events, e) \in Seq(Told)
  BY <1>2, <1>4
<1>7. /\ cut \in Sessions /\ cut.phase = "barge_in" /\ cut.at = s.at /\ cut.interrupted = TRUE
      /\ cut.cancelled = s.cancelled /\ cut.chain = s.chain /\ cut.events = Append(s.events, e)
      /\ cut.round = s.round /\ cut.token = s.token
  BY <1>1, <1>3, <1>5, <1>6 DEF Sessions
<1>8. OfRound(cut.events, cut.round, cut.token)
  BY <1>2, <1>4, <1>7, OneMoreOfRound DEF StreamInv
<1>9. ~CanGoOn(cut)
  BY <1>7 DEF CanGoOn
<1>10. g => Hushed(cut.events) /\ cut.at["ended"] = Unset
  <2>1. ASSUME g PROVE Hushed(cut.events) /\ cut.at["ended"] = Unset
    <3>1. Hushed(s.events) /\ ~HasEnded(s.events) /\ s.at["ended"] = Unset
      BY <2>1 DEF StreamInv
    <3> QED BY <3>1, <1>2, <1>4, <1>7, OneMoreEvent
  <2> QED BY <2>1
<1>11. StreamInv(cut, t, g)
  BY <1>7, <1>8, <1>9, <1>10 DEF StreamInv
<1>12. "generation" \in CancelSteps /\ "tts" \in CancelSteps /\ "action_plan" \in CancelSteps
  BY DEF CancelSteps
<1>13. StreamInv(a, t, g) /\ a.cancelled = cut.cancelled \union {"generation"}
  BY <1>11, <1>12, MarkHolds, ZenonT(30)
<1>14. StreamInv(b, t, g) /\ b.cancelled = a.cancelled \union {"tts"}
  <2> HIDE DEF a
  <2> QED BY <1>13, <1>12, MarkHolds, SMTT(30)
<1>15. StreamInv(c, t, g) /\ c.cancelled = b.cancelled \union {"action_plan"}
  <2> HIDE DEF a, b
  <2> QED BY <1>14, <1>12, MarkHolds, SMTT(30)
<1>16. Interrupted(s) = c
  BY DEF Interrupted, cut
<1>17. cut.cancelled \subseteq CancelSteps
  BY <1>7, <1>1 DEF Sessions
<1> HIDE DEF a, b, c
<1> QED BY <1>13, <1>14, <1>15, <1>16, <1>17 DEF CancelSteps

(* A round that is listened to anew, with the ids it has.                  *)
LEMMA ListeningHolds ==
    ASSUME NEW s \in Sessions, NEW t \in Nat, t >= 1, NEW g \in BOOLEAN,
           OfRound(s.events, s.round, s.token), g => Hushed(s.events) /\ ~HasEnded(s.events)
    PROVE  /\ StreamInv(Listening(s, t), t, g)
           /\ Listening(s, t).interrupted = FALSE
<1> DEFINE e == [type |-> "listening_started", phase |-> "listening", round |-> s.round, token |-> s.token]
           u == Listening(s, t)
           first == [Unread EXCEPT !["started"] = t]
<1>1. s.events \in Seq(Told) /\ s.round \in StreamIds /\ s.token \in StreamIds
  BY DEF Sessions
<1>2. "listening_started" \in Types /\ "listening_started" \notin Endings /\ "listening" \in VoicePhases
  BY DEF Types, Endings, Harmless, CancelSteps, VoicePhases
<1>3. e \in Told /\ e.type = "listening_started" /\ e.round = s.round /\ e.token = s.token
  BY <1>1, <1>2 DEF Told
<1>4. u = [s EXCEPT !.at = first, !.interrupted = FALSE, !.cancelled = {}, !.chain = <<>>,
                    !.phase = "listening", !.events = Append(s.events, e)]
  BY DEF Listening, Transition, Record, Event, Sessions
<1>5. first \in [Times -> Nat] /\ \A x \in Times : first[x] = IF x = "started" THEN t ELSE Unset
  BY DEF Unread, Unset
<1> HIDE DEF u, e, first
<1>6. Append(s.events, e) \in Seq(Told) /\ <<>> \in Seq(Links) /\ {} \in SUBSET CancelSteps
  BY <1>1, <1>3
<1>7. /\ u \in Sessions /\ u.phase = "listening" /\ u.at = first /\ u.interrupted = FALSE
      /\ u.cancelled = {} /\ u.chain = <<>> /\ u.events = Append(s.events, e)
      /\ u.round = s.round /\ u.token = s.token
  BY <1>2, <1>4, <1>5, <1>6 DEF Sessions
<1>8. OfRound(u.events, u.round, u.token)
  BY <1>1, <1>3, <1>7, OneMoreOfRound
<1>9. g => Hushed(u.events) /\ ~HasEnded(u.events)
  BY <1>1, <1>2, <1>3, <1>7, OneMoreEvent, EndedByEvent
<1>10. Once(u.chain, u.cancelled) /\ OfRound(u.chain, u.round, u.token)
  BY <1>7 DEF Once, OfRound
<1>11. "ended" \in Times /\ "started" \in Times
  BY DEF Times
<1>12. StreamInv(u, t, g)
  BY <1>5, <1>7, <1>8, <1>9, <1>10, <1>11 DEF StreamInv, Unset
<1> QED BY <1>7, <1>12 DEF u

LEMMA StampHolds ==
    ASSUME NEW s, NEW t, NEW g, StreamInv(s, t, g), g => CanGoOn(s), NEW x \in Times \ {"started", "ended"}
    PROVE  \A u \in {Stamp(s, x, t), StampFirst(s, x, t)} :
              /\ StreamInv(u, t, g) /\ (g => CanGoOn(u))
              /\ u.phase = s.phase /\ u.cancelled = s.cancelled /\ u.interrupted = s.interrupted
<1>1. s \in Sessions
  BY DEF StreamInv
<1>2. [s EXCEPT !.phase = s.phase] = s /\ s.phase \in VoicePhases
  BY <1>1 DEF Sessions
<1>3. /\ StreamInv(Stamp(s, x, t), t, g) /\ Stamp(s, x, t).phase = s.phase
      /\ Stamp(s, x, t).cancelled = s.cancelled /\ Stamp(s, x, t).interrupted = s.interrupted
  BY <1>2, GoesOn
<1>4. StampFirst(s, x, t) \in {s, Stamp(s, x, t)}
  BY DEF StampFirst
<1> QED BY <1>3, <1>4 DEF CanGoOn

LEMMA PhaseHolds ==
    ASSUME NEW s, NEW t, NEW g, StreamInv(s, t, g), g => CanGoOn(s),
           NEW type \in Types \ Endings, NEW phase \in VoicePhases \ OverPhases
    PROVE  /\ StreamInv(Transition(s, type, phase), t, g)
           /\ Transition(s, type, phase).cancelled = s.cancelled
           /\ Transition(s, type, phase).interrupted = s.interrupted
<1> DEFINE u == [s EXCEPT !.phase = phase]
<1>1. "audio" \in Times \ {"started", "ended"}
  BY DEF Times
<1>2. StreamInv(u, t, g) /\ u.phase = phase /\ u.cancelled = s.cancelled /\ u.interrupted = s.interrupted
  BY <1>1, GoesOn
<1>3. g => CanGoOn(u)
  BY <1>2 DEF CanGoOn
<1>4. Transition(s, type, phase) = Record(u, type, phase)
  BY DEF Transition
<1> HIDE DEF u
<1> QED BY <1>2, <1>3, <1>4, RecordHolds

(* Whoever names the session meets it open, and all that is let in keeps   *)
(* the invariant.                                                          *)
LEMMA AfterHolds ==
    ASSUME NEW s, NEW t, NEW g, StreamInv(s, t, g), g => CanGoOn(s), NEW made \in Calls,
           s.interrupted => s.cancelled = CancelSteps
    PROVE  /\ StreamInv(After(s, made, t), t, g)
           /\ After(s, made, t).interrupted => After(s, made, t).cancelled = CancelSteps
<1> DEFINE Goal(u) == StreamInv(u, t, g) /\ (u.interrupted => u.cancelled = CancelSteps)
<1> SUFFICES Goal(After(s, made, t))
  OBVIOUS
<1>1. /\ {"audio", "partial", "microfeedback", "final", "reply", "speech"} \subseteq Times \ {"started", "ended"}
      /\ {"asr_partial", "asr_final", "agent_think", "tts_started", "audio_detected", "microfeedback", "tts_chunk"}
             \subseteq Types \ Endings
      /\ {"listening", "partial_asr", "thinking_stream", "speaking_stream"} \subseteq VoicePhases \ OverPhases
  BY DEF Times, Types, Endings, VoicePhases, OverPhases
<1>2. s.phase \in VoicePhases
  BY DEF StreamInv, Sessions
<1>3. ASSUME NEW x \in Times \ {"started", "ended"}, NEW u \in {Stamp(s, x, t), StampFirst(s, x, t)},
             NEW type \in Types \ Endings, NEW phase \in VoicePhases \ OverPhases
      PROVE  Goal(Transition(u, type, phase))
  BY <1>3, StampHolds, PhaseHolds
<1>4. ASSUME NEW x \in Times \ {"started", "ended"}, NEW type \in Types \ Endings, NEW phase \in VoicePhases
      PROVE  Goal(Record(StampFirst(s, x, t), type, phase))
  BY <1>4, StampHolds, RecordHolds
<1> HIDE DEF Goal
<1>5. CASE made = "audio"
  BY <1>1, <1>4, <1>5 DEF After
<1>6. CASE made = "partial"
  BY <1>1, <1>3, <1>6 DEF After
<1>7. CASE made = "final"
  BY <1>1, <1>3, <1>7 DEF After
<1>8. CASE made = "microfeedback"
  BY <1>1, <1>2, <1>4, <1>8 DEF After
<1>9. CASE made = "delta"
  BY <1>1, <1>3, <1>9 DEF After
<1>10. CASE made = "speak"
  BY <1>1, <1>3, <1>10 DEF After
<1>11. CASE made = "chunk"
  <2>1. After(s, made, t) = Record(s, "tts_chunk", s.phase)
    BY <1>11 DEF After
  <2>2. "tts_chunk" \in Types /\ "tts_chunk" \notin Endings
    BY <1>1
  <2>3. /\ StreamInv(Record(s, "tts_chunk", s.phase), t, g)
        /\ Record(s, "tts_chunk", s.phase).cancelled = s.cancelled
        /\ Record(s, "tts_chunk", s.phase).interrupted = s.interrupted
    BY <2>2, <1>2, RecordHolds
  <2> QED BY <2>1, <2>3 DEF Goal
<1>12. CASE made = "interrupt"
  <2>1. After(s, made, t) = Interrupted(s)
    BY <1>12 DEF After
  <2> QED BY <2>1, InterruptHolds DEF Goal
<1>13. CASE made = "complete"
  <2>1. After(s, made, t) = Transition(Stamp(s, "ended", t), "complete", "completed")
    BY <1>13 DEF After, Completed
  <2> QED BY <2>1, EndHolds DEF Goal
<1>14. CASE made = "fail"
  <2>1. After(s, made, t) = Transition(Stamp(s, "ended", t), "error", "error")
    BY <1>14 DEF After
  <2> QED BY <2>1, EndHolds DEF Goal
<1> QED BY <1>5, <1>6, <1>7, <1>8, <1>9, <1>10, <1>11, <1>12, <1>13, <1>14 DEF Calls

-----------------------------------------------------------------------------
CountsType ==
    /\ counts \in [signal : [Signals -> Nat], trace : [Traces -> Nat]]
    /\ refused \in [Signals -> Nat]

SessionIsWhole ==
    StreamInv(voice, clock, tagged) /\ (voice.interrupted => voice.cancelled = CancelSteps)

StreamIInv == SessionIsWhole /\ CountsType /\ SignalsAreAccountedFor

LEMMA StreamInitHolds == StreamInit => StreamIInv
<1> SUFFICES ASSUME StreamInit PROVE StreamIInv
  OBVIOUS
<1>1. PICK round \in Named, token \in Named :
        voice = [phase |-> "idle", sequence |-> 1, round |-> IdOr(round, 1), token |-> IdOr(token, 1),
                 at |-> Unread, interrupted |-> FALSE, cancelled |-> {}, chain |-> <<>>, events |-> <<>>]
  BY DEF StreamInit
<1>2. IdOr(round, 1) \in StreamIds /\ IdOr(token, 1) \in StreamIds
  BY DEF IdOr, StreamIds
<1>3. "idle" \in VoicePhases /\ Unread \in [Times -> Nat] /\ \A x \in Times : Unread[x] = Unset
  BY DEF VoicePhases, Unread, Unset
<1>4. <<>> \in Seq(Links) /\ <<>> \in Seq(Told) /\ {} \in SUBSET CancelSteps
  OBVIOUS
<1>5. voice \in Sessions
  BY <1>1, <1>2, <1>3, <1>4 DEF Sessions
<1>6. /\ voice.phase = "idle" /\ voice.at = Unread /\ voice.interrupted = FALSE /\ voice.cancelled = {}
      /\ voice.chain = <<>> /\ voice.events = <<>>
  BY <1>1
<1>7. Once(voice.chain, voice.cancelled) /\ OfRound(voice.chain, voice.round, voice.token)
  BY <1>6 DEF Once, OfRound
<1>8. OfRound(voice.events, voice.round, voice.token) /\ Hushed(voice.events) /\ ~HasEnded(voice.events)
  BY <1>6 DEF Hushed, OfRound, HasEnded
<1>9. "ended" \in Times /\ "started" \in Times
  BY DEF Times
<1>10. clock = 1 /\ tagged = TRUE
  BY DEF StreamInit
<1>11. StreamInv(voice, clock, tagged)
  BY <1>3, <1>5, <1>6, <1>7, <1>8, <1>9, <1>10 DEF StreamInv, Unset
<1>12. CountsType /\ SignalsAreAccountedFor
  BY DEF StreamInit, CountsType, SignalsAreAccountedFor, Signals, Traces
<1> QED BY <1>6, <1>11, <1>12 DEF StreamIInv, SessionIsWhole

LEMMA MakeHolds ==
    ASSUME SessionIsWhole, NEW made \in Calls, NEW round \in Named, NEW token \in Named, Make(made, round, token)
    PROVE  SessionIsWhole'
<1>1. clock' \in Nat /\ clock' >= clock /\ tagged' = (tagged /\ Names(round, token))
      /\ voice' = After(voice, made, clock') /\ LetsIn(round, token)
  BY DEF Make, Ticks
<1>2. tagged' \in BOOLEAN /\ (tagged' => tagged)
  BY <1>1
<1>3. StreamInv(voice, clock', tagged')
  BY <1>1, <1>2, Later DEF SessionIsWhole
<1>4. tagged' => CanGoOn(voice)
  BY <1>1 DEF LetsIn, IsOpen, CanGoOn
<1> QED BY <1>1, <1>3, <1>4, AfterHolds DEF SessionIsWhole

LEMMA MarkedHolds ==
    ASSUME SessionIsWhole, NEW step \in CancelSteps, NEW round \in Named, NEW token \in Named,
           MarkCancelled(step, round, token)
    PROVE  SessionIsWhole'
<1>1. clock' \in Nat /\ clock' >= clock /\ voice' = MarkStep(voice, step) /\ tagged' = tagged
  BY DEF MarkCancelled, Ticks
<1>2. tagged \in BOOLEAN
  BY DEF SessionIsWhole, StreamInv
<1>3. StreamInv(voice, clock', tagged')
  BY <1>1, <1>2, Later DEF SessionIsWhole
<1>4. voice.cancelled \subseteq CancelSteps
  BY DEF SessionIsWhole, StreamInv, Sessions
<1>5. /\ StreamInv(voice', clock', tagged') /\ voice'.cancelled = voice.cancelled \union {step}
      /\ voice'.interrupted = voice.interrupted
  BY <1>1, <1>3, MarkHolds
<1>6. voice.interrupted => voice.cancelled = CancelSteps
  BY DEF SessionIsWhole
<1> QED BY <1>4, <1>5, <1>6 DEF SessionIsWhole

LEMMA BegunHolds ==
    ASSUME SessionIsWhole, NEW round \in Named, NEW token \in Named,
           StartListening(round, token) \/ FreshRound(round, token)
    PROVE  SessionIsWhole'
<1>1. voice \in Sessions /\ clock \in Nat /\ clock >= 1 /\ tagged \in BOOLEAN
  BY DEF SessionIsWhole, StreamInv
<1>2. clock' \in Nat /\ clock' >= 1
  BY <1>1 DEF StartListening, FreshRound, Ticks
<1>3. CASE StartListening(round, token)
  <2>1. /\ tagged' = (tagged /\ Names(round, token)) /\ voice' = Listening(voice, clock')
        /\ LetsIn(round, token)
    BY <1>3 DEF StartListening
  <2>2. tagged' \in BOOLEAN /\ (tagged' => tagged)
    BY <2>1
  <2>3. tagged' => CanGoOn(voice)
    BY <2>1 DEF LetsIn, IsOpen, CanGoOn
  <2>4. OfRound(voice.events, voice.round, voice.token)
    BY DEF SessionIsWhole, StreamInv
  <2>5. tagged' => Hushed(voice.events) /\ ~HasEnded(voice.events)
    BY <2>2, <2>3 DEF SessionIsWhole, StreamInv
  <2> QED BY <1>1, <1>2, <2>1, <2>2, <2>4, <2>5, ListeningHolds DEF SessionIsWhole
<1>4. CASE FreshRound(round, token)
  <2> DEFINE s == Rotated(voice, round, token)
             n == voice.sequence + 1
  <2>1. tagged' = TRUE /\ voice' = Listening(s, clock')
    BY <1>4 DEF FreshRound
  <2>2. n \in Nat /\ <<>> \in Seq(Told)
    BY <1>1 DEF Sessions
  <2>3. IdOr(round, n) \in StreamIds /\ IdOr(token, n) \in StreamIds
    BY <2>2 DEF IdOr, StreamIds
  <2>4. s = [voice EXCEPT !.sequence = n, !.round = IdOr(round, n), !.token = IdOr(token, n), !.events = <<>>]
    BY DEF Rotated
  <2> HIDE DEF s, n
  <2>5. s \in Sessions /\ s.events = <<>>
    BY <1>1, <2>2, <2>3, <2>4 DEF Sessions
  <2>6. OfRound(s.events, s.round, s.token) /\ Hushed(s.events) /\ ~HasEnded(s.events)
    BY <2>5 DEF OfRound, Hushed, HasEnded
  <2> QED BY <1>2, <2>1, <2>5, <2>6, ListeningHolds DEF SessionIsWhole
<1> QED BY <1>3, <1>4

LEMMA HeartbeatHolds ==
    ASSUME SessionIsWhole, Heartbeat
    PROVE  SessionIsWhole'
<1>1. clock' \in Nat /\ clock' >= clock /\ tagged' = tagged
      /\ voice' = Record(voice, "voice_heartbeat", voice.phase)
  BY DEF Heartbeat, Ticks
<1>2. tagged \in BOOLEAN /\ voice \in Sessions
  BY DEF SessionIsWhole, StreamInv
<1>3. StreamInv(voice, clock', tagged')
  BY <1>1, <1>2, Later DEF SessionIsWhole
<1>4. voice.phase \in VoicePhases
  BY <1>2 DEF Sessions
<1>5. "voice_heartbeat" \in Types /\ "voice_heartbeat" \notin Endings /\ "voice_heartbeat" \in Harmless
  BY DEF Types, Harmless, Endings
<1>6. /\ StreamInv(voice', clock', tagged') /\ voice'.cancelled = voice.cancelled
      /\ voice'.interrupted = voice.interrupted
  BY <1>1, <1>3, <1>4, <1>5, RecordHolds
<1>7. voice.interrupted => voice.cancelled = CancelSteps
  BY DEF SessionIsWhole
<1> QED BY <1>6, <1>7 DEF SessionIsWhole

(* What a signal counts.                                                   *)
LEMMA CountsHold ==
    ASSUME CountsType, SignalsAreAccountedFor, NEW signal \in Signals, NEW made, NEW round, NEW token,
           SignalArrives(signal, made, round, token)
    PROVE  CountsType' /\ SignalsAreAccountedFor'
<1>1. counts.signal \in [Signals -> Nat] /\ counts.trace \in [Traces -> Nat] /\ refused \in [Signals -> Nat]
  BY DEF CountsType
<1>2. \A s \in Traces : s \in Signals /\ counts.signal[s] = counts.trace[s] + refused[s]
  BY DEF SignalsAreAccountedFor, Signals, Traces
<1>3. ASSUME NEW trace, SignalNoted(signal, trace)
      PROVE  /\ counts' \in [signal : [Signals -> Nat], trace : [Traces -> Nat]]
             /\ \A s \in Signals : counts'.signal[s] = IF s = signal THEN counts.signal[s] + 1 ELSE counts.signal[s]
             /\ \A s \in Traces : counts'.trace[s] = IF s \in trace THEN counts.trace[s] + 1 ELSE counts.trace[s]
  <2> DEFINE f == [counts.signal EXCEPT ![signal] = counts.signal[signal] + 1]
             h == [s \in Traces |-> IF s \in trace THEN counts.trace[s] + 1 ELSE counts.trace[s]]
  <2>1. f \in [Signals -> Nat] /\ h \in [Traces -> Nat]
    BY <1>1
  <2>2. counts' = [counts EXCEPT !.signal = f, !.trace = h]
    BY <1>3 DEF SignalNoted, CountsType
  <2>3. /\ \A s \in Signals : f[s] = IF s = signal THEN counts.signal[s] + 1 ELSE counts.signal[s]
        /\ \A s \in Traces : h[s] = IF s \in trace THEN counts.trace[s] + 1 ELSE counts.trace[s]
    BY <1>1
  <2> HIDE DEF f, h
  <2>4. counts'.signal = f /\ counts'.trace = h /\ counts' \in [signal : [Signals -> Nat], trace : [Traces -> Nat]]
    BY <2>1, <2>2 DEF CountsType
  <2> QED BY <2>3, <2>4
<1>4. CASE Make(made, round, token) /\ SignalNoted(signal, {signal} \intersect Traces) /\ UNCHANGED refused
  <2>1. refused' = refused
    BY <1>4
  <2>2. \A s \in Traces : counts'.signal[s] = counts'.trace[s] + refused'[s]
    BY <1>1, <1>2, <1>3, <1>4, <2>1
  <2> QED BY <1>1, <1>3, <1>4, <2>1, <2>2 DEF CountsType, SignalsAreAccountedFor
<1>5. CASE SignalNoted(signal, {}) /\ refused' = [refused EXCEPT ![signal] = @ + 1]
  <2>1. refused' \in [Signals -> Nat]
    BY <1>1, <1>5
  <2>2. \A s \in Signals : refused'[s] = IF s = signal THEN refused[s] + 1 ELSE refused[s]
    BY <1>1, <1>5
  <2>3. \A s \in Traces : counts'.signal[s] = counts'.trace[s] + refused'[s]
    BY <1>1, <1>2, <1>3, <1>5, <2>2
  <2> QED BY <1>3, <1>5, <2>1, <2>3 DEF CountsType, SignalsAreAccountedFor
<1> QED BY <1>4, <1>5 DEF SignalArrives

LEMMA CountsKept ==
    ASSUME CountsType, SignalsAreAccountedFor, UNCHANGED <<counts, refused>>
    PROVE  CountsType' /\ SignalsAreAccountedFor'
BY DEF CountsType, SignalsAreAccountedFor

LEMMA SignalHolds ==
    ASSUME StreamIInv, NEW signal \in Signals, NEW made \in Calls, NEW round \in Named, NEW token \in Named,
           SignalArrives(signal, made, round, token)
    PROVE  StreamIInv'
<1>1. CountsType' /\ SignalsAreAccountedFor'
  BY CountsHold DEF StreamIInv
<1>2. CASE Make(made, round, token)
  BY <1>1, <1>2, MakeHolds DEF StreamIInv
<1>3. CASE UNCHANGED <<voice, clock, tagged>>
  BY <1>1, <1>3 DEF StreamIInv, SessionIsWhole
<1> QED BY <1>2, <1>3 DEF SignalArrives

LEMMA CallHolds ==
    ASSUME StreamIInv, NEW made \in Calls, NEW round \in Named, NEW token \in Named,
           CallSession(made, round, token)
    PROVE  StreamIInv'
BY MakeHolds, CountsKept DEF CallSession, StreamIInv

LEMMA StepMarkedHolds ==
    ASSUME StreamIInv, NEW step \in CancelSteps, NEW round \in Named, NEW token \in Named,
           MarkCancelled(step, round, token)
    PROVE  StreamIInv'
BY MarkedHolds, CountsKept DEF MarkCancelled, StreamIInv

LEMMA StreamStepHolds == StreamIInv /\ [StreamNext]_streamVars => StreamIInv'
<1> SUFFICES ASSUME StreamIInv, [StreamNext]_streamVars PROVE StreamIInv'
  OBVIOUS
<1>1. CASE UNCHANGED streamVars
  BY <1>1 DEF streamVars, StreamIInv, SessionIsWhole, CountsType, SignalsAreAccountedFor
<1>2. CASE Heartbeat
  BY <1>2, HeartbeatHolds, CountsKept DEF Heartbeat, StreamIInv
<1>3. ASSUME NEW round \in Named, NEW token \in Named, StreamEvent(round, token) PROVE StreamIInv'
  <2>1. /\ {"partial", "final", "delta", "playback", "chunk"} \subseteq Signals
        /\ {"partial", "final", "delta", "speak", "chunk", "complete"} \subseteq Calls /\ "tts" \in CancelSteps
    BY DEF Signals, Calls, CancelSteps
  <2>2. ASSUME NEW signal \in Signals, NEW made \in Calls, SignalArrives(signal, made, round, token)
        PROVE  StreamIInv'
    BY <2>2, SignalHolds
  <2>3. ASSUME NEW completed \in BOOLEAN, PlaybackStopped(completed, round, token) PROVE StreamIInv'
    <3>1. CallSession("complete", round, token) \/ MarkCancelled("tts", round, token)
      BY <2>3 DEF PlaybackStopped
    <3> QED BY <3>1, <2>1, CallHolds, StepMarkedHolds
  <2> QED BY <1>3, <2>1, <2>2, <2>3 DEF StreamEvent
<1>4. ASSUME NEW round \in Named, NEW token \in Named, SessionCall(round, token) PROVE StreamIInv'
  <2>1. ASSUME NEW made \in Calls, CallSession(made, round, token) PROVE StreamIInv'
    BY <2>1, CallHolds
  <2>2. CASE StartListening(round, token) \/ FreshRound(round, token)
    BY <2>2, BegunHolds, CountsKept DEF StartListening, FreshRound, StreamIInv
  <2>3. ASSUME NEW step \in CancelSteps, MarkCancelled(step, round, token) PROVE StreamIInv'
    BY <2>3, StepMarkedHolds
  <2> QED BY <1>4, <2>1, <2>2, <2>3 DEF SessionCall
<1> QED BY <1>1, <1>2, <1>3, <1>4 DEF StreamNext

(* For any ids and any calls of a session, named or not, and any events of *)
(* the stream: the cancellation is told step by step and once, a round     *)
(* whose callers name it ends once and is quiet after that, its latencies  *)
(* are times that have passed, a closed loop is whole, and every signal    *)
(* was either taken or refused.                                            *)
THEOREM SessionsEndOnce ==
    StreamSpec => [](/\ ChainTellsSteps /\ NothingAfterTheEnd /\ LatenciesAreTimes
                     /\ ClosedLoopIsWhole /\ SignalsAreAccountedFor)
<1>1. StreamIInv => ChainTellsSteps
  BY DEF StreamIInv, SessionIsWhole, StreamInv, ChainTellsSteps, Once, OfRound
<1>2. StreamIInv => NothingAfterTheEnd
  <2>1. StreamIInv => /\ OfRound(voice.events, voice.round, voice.token)
                      /\ tagged => Hushed(voice.events)
    BY DEF StreamIInv, SessionIsWhole, StreamInv
  <2> QED BY <2>1 DEF NothingAfterTheEnd, OfRound, Hushed, Harmless
<1>3. StreamIInv => LatenciesAreTimes
  <2> SUFFICES ASSUME StreamIInv, NEW p \in Measured(voice), p[1] = "started" \/ (p[2] = "ended" /\ tagged)
               PROVE  voice.at[p[1]] + LatencyMs(voice, p) = voice.at[p[2]]
    BY DEF LatenciesAreTimes
  <2>1. /\ voice.at \in [Times -> Nat]
        /\ voice.at["started"] # Unset =>
              \A x \in Times : voice.at[x] # Unset => voice.at["started"] <= voice.at[x]
        /\ tagged /\ voice.at["ended"] # Unset => \A x \in Times : voice.at[x] <= voice.at["ended"]
    BY DEF StreamIInv, SessionIsWhole, StreamInv, Sessions
  <2>2. p[1] \in Times /\ p[2] \in Times /\ voice.at["started"] # Unset
        /\ voice.at[p[1]] # Unset /\ voice.at[p[2]] # Unset
    BY DEF Measured, Spans, Times, IsSet
  <2>3. voice.at[p[1]] <= voice.at[p[2]] /\ voice.at[p[1]] \in Nat /\ voice.at[p[2]] \in Nat
    BY <2>1, <2>2
  <2> QED BY <2>3 DEF LatencyMs
<1>4. StreamIInv => ClosedLoopIsWhole
  BY DEF StreamIInv, SessionIsWhole, StreamInv, ClosedLoopIsWhole, ClosedLoop, IsSet
<1>5. StreamIInv => SignalsAreAccountedFor
  BY DEF StreamIInv
<1> QED BY <1>1, <1>2, <1>3, <1>4, <1>5, StreamInitHolds, StreamStepHolds, PTL DEF StreamSpec

=============================================================================
