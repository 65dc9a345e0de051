--------------------------- MODULE VoiceSessions ---------------------------
(***************************************************************************)
(* The realtime sessions of the voice loop: one per iteration, opened for  *)
(* its round, written by the loop as the iteration goes on and by a        *)
(* barge-in from another thread.                                           *)
(*                                                                         *)
(* Every operation of a session checks the ids it is given and then writes;*)
(* there is no lock, so a call is two steps.  A call without ids is not    *)
(* checked.  A rejected call is dropped by _call_realtime.                 *)
(*                                                                         *)
(* Of a session only its phase and the interrupted flag are kept; texts,   *)
(* times and the list of events are left out, and with them the operations *)
(* that write nothing else.  The cancellation chain is as long as it will  *)
(* be exactly when the flag is set.  A round is its number; its token is   *)
(* the same number.  Whether words are a request or a command, what the    *)
(* arbiter says of a plan and what raises are inputs.                      *)
(***************************************************************************)
EXTENDS Integers, Sequences

CONSTANTS MaxRounds,        \* bound on the rounds
          MaxInterrupts,    \* bound on the barge-ins
          MaxErrors         \* bound on what raises in an iteration

ASSUME SessionAssumption ==
    MaxRounds \in Nat \ {0} /\ MaxInterrupts \in Nat /\ MaxErrors \in Nat

VARIABLES
    current,    \* the number of the manager's current turn; 0 before the first
    turn,       \* the state of the turn of each round
    session,    \* the session of each round
    installed,  \* _realtime_session, by its round; 0 for None
    feedback,   \* _last_microfeedback, by its round; 0 for None
    todo,       \* what the loop has still to do in this iteration
    mine,       \* the round of the iteration
    call,       \* what each thread has under way with a session
    interrupts, errors,
    blocked     \* history: the rounds whose plan the gate blocked

vars == <<current, turn, session, installed, feedback, todo, mine, call, interrupts, errors,
          blocked>>

Rounds == 1..MaxRounds
Threads == {"loop", "barge"}
Untagged == 0

NoSession == [phase |-> "none", interrupted |-> FALSE]
Opened == [phase |-> "listening", interrupted |-> FALSE]
NoCall == [step |-> "none", op |-> "fail", to |-> 0, tag |-> 0]

Init ==
    /\ current = 0 /\ turn = [r \in Rounds |-> "none"]
    /\ session = [r \in Rounds |-> NoSession] /\ installed = 0
    /\ feedback = 0
    /\ todo = <<>> /\ mine = 0
    /\ call = [t \in Threads |-> NoCall]
    /\ interrupts = 0 /\ errors = 0
    /\ blocked = {}

-----------------------------------------------------------------------------
(* A session *)

Terminal == {"barge_in", "completed", "error"}

IsCurrent(r) == ~ session[r].interrupted /\ session[r].phase \notin Terminal

Accepts(r, tag) == tag = Untagged \/ (tag = r /\ IsCurrent(r))

Written(s, op) ==
    CASE op \in {"final", "delta"} -> [s EXCEPT !.phase = "thinking_stream"]
      [] op = "speak"              -> [s EXCEPT !.phase = "speaking_stream"]
      [] op = "complete"           -> [s EXCEPT !.phase = "completed"]
      [] op = "fail"               -> [s EXCEPT !.phase = "error"]
      [] op = "interrupt"          -> [phase |-> "barge_in", interrupted |-> TRUE]

Free(t) == call[t].step = "none"

Call(t, op, to, tag) ==
    call' = [call EXCEPT ![t] = IF to = 0 THEN NoCall
                                ELSE [step |-> "check", op |-> op, to |-> to, tag |-> tag]]

CheckIds(t) ==
    /\ call[t].step = "check"
    /\ call' = [call EXCEPT ![t] = IF Accepts(@.to, @.tag) THEN [@ EXCEPT !.step = "write"]
                                   ELSE NoCall]
    /\ UNCHANGED <<current, turn, session, installed, feedback, todo, mine, interrupts, errors,
                   blocked>>

Write(t) ==
    /\ call[t].step = "write"
    /\ session' = [session EXCEPT ![call[t].to] = Written(@, call[t].op)]
    /\ call' = [call EXCEPT ![t] = NoCall]
    /\ UNCHANGED <<current, turn, installed, feedback, todo, mine, interrupts, errors, blocked>>

-----------------------------------------------------------------------------
(* The turn manager, under _turn_lock *)

IsLive(r) == r = current /\ turn[r] = "live"

(* The current turn is closed, and the next one is live.                   *)
NextTurn(closed) ==
    /\ current < MaxRounds
    /\ current' = current + 1
    /\ turn' = [r \in Rounds |-> IF r = current /\ turn[r] = "live" THEN closed
                                 ELSE IF r = current + 1 THEN "live" ELSE turn[r]]

-----------------------------------------------------------------------------
(* An iteration of the loop *)

At(step) == Free("loop") /\ todo # <<>> /\ Head(todo) = step
Go == todo' = Tail(todo)

(* Faulty: what was not for the loop leaves its session as it is.          *)
SilentPath(kind) ==
    CASE kind \in {"none", "quiet"} -> <<>>
      [] kind = "command" -> <<"gate", "last", "dispatch", "delta", "speak", "complete">>
      [] kind = "request" -> <<"think", "gate", "delta", "speak", "last", "dispatch", "complete">>

(* What is left after a transcript of each kind: nothing was said; not for *)
(* the loop, or too short; the wake or the sleep word; a request.          *)
Path(kind) ==
    CASE kind \in {"none", "quiet"} -> <<"complete">>
      [] kind = "command" -> <<"gate", "last", "dispatch", "delta", "speak", "complete">>
      [] kind = "request" -> <<"think", "gate", "delta", "speak", "last", "dispatch", "complete">>

(* Faulty: the microfeedback of the round before is kept.                  *)
StartRoundKeepsFeedback ==
    /\ Free("loop") /\ todo = <<>>
    /\ NextTurn("completed")
    /\ mine' = current + 1
    /\ todo' = <<"open", "listen">>
    /\ UNCHANGED <<session, installed, feedback, call, interrupts, errors, blocked>>

StartRound ==
    /\ Free("loop") /\ todo = <<>>
    /\ NextTurn("completed")
    /\ mine' = current + 1
    /\ feedback' = 0
    /\ todo' = <<"open", "listen">>
    /\ UNCHANGED <<session, installed, call, interrupts, errors, blocked>>

(* A session is opened, and installed under the lock.                      *)
Open ==
    /\ At("open") /\ Go
    /\ session' = [session EXCEPT ![mine] = Opened]
    /\ installed' = mine
    /\ UNCHANGED <<current, turn, feedback, mine, call, interrupts, errors, blocked>>

(* Faulty: a rejected transcript leaves the session as it is.              *)
ListenAndDrop ==
    /\ At("listen")
    /\ IF IsLive(mine)
       THEN \E kind \in {"none", "quiet", "command", "request"} :
               /\ todo' = <<"final", "look">> \o Path(kind)
               /\ feedback' = IF kind = "none" THEN feedback ELSE mine
               /\ UNCHANGED call
       ELSE todo' = <<>> /\ UNCHANGED <<feedback, call>>
    /\ UNCHANGED <<current, turn, session, installed, mine, interrupts, errors, blocked>>

(* The transcript is finalized under the lock, with the microfeedback that *)
(* is made of its words; or the round is not current any more.             *)
Listen ==
    /\ At("listen")
    /\ IF IsLive(mine)
       THEN \E kind \in {"none", "quiet", "command", "request"} :
               /\ todo' = <<"final", "look">> \o Path(kind)
               /\ feedback' = IF kind = "none" THEN feedback ELSE mine
               /\ UNCHANGED call
       ELSE /\ Call("loop", "fail", mine, mine)
            /\ todo' = <<>> /\ UNCHANGED feedback
    /\ UNCHANGED <<current, turn, session, installed, mine, interrupts, errors, blocked>>

(* A call of the session with the ids of the round.                        *)
Tell(op) ==
    /\ At(op) /\ Go
    /\ Call("loop", op, mine, mine)
    /\ UNCHANGED <<current, turn, session, installed, feedback, mine, interrupts, errors, blocked>>

(* if self._last_microfeedback: ... self._last_microfeedback.get(...)      *)
Look ==
    /\ At("look")
    /\ todo' = IF feedback = 0 THEN Tail(todo) ELSE <<"use">> \o Tail(todo)
    /\ UNCHANGED <<current, turn, session, installed, feedback, mine, call, interrupts, errors,
                   blocked>>

(* It may be None by now, which raises.                                    *)
Use ==
    /\ At("use")
    /\ todo' = IF feedback = 0 THEN <<"failed">> ELSE Tail(todo)
    /\ UNCHANGED <<current, turn, session, installed, feedback, mine, call, interrupts, errors,
                   blocked>>

(* The stream of the cognition: a delta, or its end.                       *)
Think ==
    /\ At("think")
    /\ \/ IsLive(mine) /\ Call("loop", "delta", mine, mine) /\ UNCHANGED todo
       \/ ~ IsLive(mine) /\ todo' = <<>> /\ UNCHANGED call
       \/ Go /\ UNCHANGED call
    /\ UNCHANGED <<current, turn, session, installed, feedback, mine, interrupts, errors, blocked>>

(* _actions_allowed_for_turn: the round is not current, the arbiter blocks *)
(* the plan, or lets it pass.  A reply that was streamed, and one that is  *)
(* empty, has no delta left to append; without actions it is not spoken.   *)
Gate ==
    /\ At("gate")
    /\ \/ ~ IsLive(mine) /\ todo' = <<>> /\ UNCHANGED blocked
       \/ IsLive(mine) /\ todo' = <<>> /\ blocked' = blocked \cup {mine}
       \/ IsLive(mine) /\ Go /\ UNCHANGED blocked
       \/ /\ IsLive(mine) /\ todo[2] = "delta"
          /\ todo' \in {SubSeq(todo, 3, Len(todo)), <<"complete">>}
          /\ UNCHANGED blocked
    /\ UNCHANGED <<current, turn, session, installed, feedback, mine, call, interrupts, errors>>

LastCheck ==
    /\ At("last")
    /\ todo' = IF IsLive(mine) THEN Tail(todo) ELSE <<>>
    /\ UNCHANGED <<current, turn, session, installed, feedback, mine, call, interrupts, errors,
                   blocked>>

Dispatch ==
    /\ At("dispatch") /\ Go
    /\ UNCHANGED <<current, turn, session, installed, feedback, mine, call, interrupts, errors,
                   blocked>>

(* The body, the ear or the cognition raises, also before there is a round.*)
Raise ==
    /\ At("listen") \/ At("think") \/ At("dispatch") \/ (Free("loop") /\ todo = <<>>)
    /\ errors < MaxErrors /\ errors' = errors + 1
    /\ todo' = <<"failed">>
    /\ UNCHANGED <<current, turn, session, installed, feedback, mine, call, interrupts, blocked>>

(* The handler fails the session that is installed, without ids.           *)
Handle ==
    /\ At("failed") /\ Go
    /\ Call("loop", "fail", installed, Untagged)
    /\ UNCHANGED <<current, turn, session, installed, feedback, mine, interrupts, errors, blocked>>

Loop ==
    \/ StartRound \/ Open \/ Listen \/ Look \/ Use \/ Think \/ Gate \/ LastCheck \/ Dispatch
    \/ (\E op \in {"final", "delta", "speak", "complete"} : Tell(op))
    \/ Raise \/ Handle \/ CheckIds("loop") \/ Write("loop")

-----------------------------------------------------------------------------
(* request_interrupt, in another thread *)

(* Faulty: the session is interrupted without ids.                         *)
BargeInUntagged ==
    /\ Free("barge") /\ interrupts < MaxInterrupts
    /\ interrupts' = interrupts + 1
    /\ NextTurn("interrupted")
    /\ feedback' = 0
    /\ Call("barge", "interrupt", installed, Untagged)
    /\ UNCHANGED <<session, installed, todo, mine, errors, blocked>>

(* Under the lock the turn is closed and the next one begun; the session   *)
(* that was installed is interrupted afterwards, with the ids of the turn. *)
BargeIn ==
    /\ Free("barge") /\ interrupts < MaxInterrupts
    /\ interrupts' = interrupts + 1
    /\ NextTurn("interrupted")
    /\ feedback' = 0
    /\ Call("barge", "interrupt", installed, current)
    /\ UNCHANGED <<session, installed, todo, mine, errors, blocked>>

Barge == BargeIn \/ CheckIds("barge") \/ Write("barge")

(* The bound on the rounds is reached.                                     *)
Done == current = MaxRounds /\ todo = <<>> /\ Free("loop") /\ UNCHANGED vars

Next == Loop \/ Barge \/ Done

Spec == Init /\ [][Next]_vars /\ WF_vars(Loop) /\ WF_vars(CheckIds("barge") \/ Write("barge"))

-----------------------------------------------------------------------------
(* Properties *)

Ops == {"final", "delta", "speak", "complete", "fail", "interrupt"}

TypeOK ==
    /\ current \in 0..MaxRounds /\ installed \in 0..current /\ mine \in 0..current
    /\ turn \in [Rounds -> {"none", "live", "completed", "interrupted"}]
    /\ \A r \in Rounds : turn[r] = "none" <=> r > current
    /\ session \in [Rounds -> [phase : Terminal \cup {"none", "listening", "thinking_stream",
                                                      "speaking_stream"},
                               interrupted : BOOLEAN]]
    /\ feedback \in {0, mine}
    /\ call \in [Threads -> [step : {"none", "check", "write"}, op : Ops, to : 0..MaxRounds,
                             tag : 0..MaxRounds]]
    /\ interrupts \in 0..MaxInterrupts /\ errors \in 0..MaxErrors
    /\ blocked \subseteq Rounds

(* A session is interrupted only for the turn of its own round.            *)
InterruptedTurnFirst ==
    \A r \in Rounds : session[r].interrupted => turn[r] = "interrupted"

(* An iteration that is over leaves its session open only if the arbiter   *)
(* blocked its plan, or a barge-in closed its turn and will tell it.       *)
OpenOnlyIfBlocked ==
    Free("loop") /\ todo = <<>> /\ mine # 0 /\ IsCurrent(mine)
        => mine \in blocked \/ turn[mine] = "interrupted"

(* Once a barge-in has closed a turn, its session takes no more calls with *)
(* its ids in the end, whether it was open by then or not.                 *)
InterruptReachesSession ==
    \A r \in Rounds :
        turn[r] = "interrupted" /\ session[r] # NoSession ~> ~ IsCurrent(r)
=============================================================================
