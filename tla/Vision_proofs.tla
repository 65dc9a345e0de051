-------------------------- MODULE Vision_proofs --------------------------
(***************************************************************************)
(* The vision lane, for every value of the constants: what the threads of  *)
(* the head know of its angle (HeadTracking), when a pause or a miss sends *)
(* the head home (VisualFollow), whom the target lock may turn to and what *)
(* a consumer of its events knows of it (TargetLock, VisionFeed).          *)
(*                                                                         *)
(* NeckKnowsHead and PlannerKnowsHead speak of rest, and a step may end    *)
(* there from the middle of a motor call: the invariant says what holds of *)
(* a call under way.  It is the goal of a pan that the planner's angle is  *)
(* equal to then, and that is near the head.                               *)
(***************************************************************************)
EXTENDS HeadTracking, VisualFollow, VisionFeed, Numbers, TLAPS

-----------------------------------------------------------------------------
(* The head *)


PanUnderWay == job["vision"].pc # "idle" /\ job["vision"].kind = "pan"

(* A thread that found the neck free, and was not met since, is alone.     *)
Alone == \A t \in Threads :
            job[t].pc # "idle" /\ job[t].alone => job[Other(t)].pc = "idle"

(* What such a thread has committed is the neck's last angle.              *)
Committed == \A t \in Threads :
                job[t].pc = "motor" /\ job[t].alone => neck.last = job[t].goal

(* The voice loop never pans.                                              *)
Kinds == job["voice"].pc # "idle" => job["voice"].kind = "orient"

Settled == clean /\ (\A t \in Threads : job[t].pc # "motor") => servo = neck.last

Follows == ~ astray /\ ~ PanUnderWay => CurrentAngle = servo

Planned == PanUnderWay => CurrentAngle = job["vision"].goal

Near == PanUnderWay /\ ~ astray => job["vision"].goal - servo \in -MaxStep..MaxStep

Beliefs == Alone /\ Committed /\ Kinds /\ Settled /\ Follows /\ Planned /\ Near

IInv == TypeOK /\ Beliefs

-----------------------------------------------------------------------------
(* Lemmas about the operators *)

Job == [pc : {"idle", "check", "commit", "motor"},
        kind : {"pan", "recenter", "orient"}, goal : Angles, alone : BOOLEAN]

LEMMA AnglesArePositive == /\ Angles \subseteq Int /\ Home \in Angles
                           /\ \A a \in Angles : a # NoAngle
BY HeadAssumption DEF HeadAssumption, Angles, NoAngle

(* Clipping ends in the range, and never takes an angle farther from one   *)
(* that is in it.                                                          *)
LEMMA ClipInRange ==
    ASSUME NEW a \in Int
    PROVE  Clip(a) \in Angles
BY HeadAssumption DEF HeadAssumption, Angles, Clip, AtMost

LEMMA CurrentInRange == TypeOK => CurrentAngle \in Angles
BY AnglesArePositive DEF TypeOK, CurrentAngle

(* The angle of a pan is in the range, and a step away at most.            *)
LEMMA SteppedNear ==
    ASSUME TypeOK, NEW side \in Pans, NEW d \in 1..MaxStep
    PROVE  /\ Stepped(side, d) \in Angles
           /\ Stepped(side, d) - CurrentAngle \in -MaxStep..MaxStep
<1>1. CurrentAngle \in Angles /\ MaxStep \in Nat \ {0}
  BY CurrentInRange, HeadAssumption DEF HeadAssumption
<1>2. d \in Int /\ CurrentAngle \in Int
  BY <1>1, AnglesArePositive
<1>3. Stepped(side, d) \in Angles
  BY <1>2, ClipInRange DEF Stepped
<1>4. Stepped(side, d) - CurrentAngle \in -MaxStep..MaxStep
  BY <1>1, <1>2, HeadAssumption DEF HeadAssumption, Stepped, Clip, AtMost, Angles
<1>5. QED
  BY <1>3, <1>4

LEMMA DesiredInRange ==
    ASSUME TypeOK, NEW x \in {"none", "left", "centre", "right"}, NEW goal \in Desired(x)
    PROVE  goal \in Angles
<1>1. neck.last \in Int /\ neck.last \in Angles
  BY AnglesArePositive DEF TypeOK
<1>2. \A d \in 1..NeckStep : neck.last - d \in Int /\ neck.last + d \in Int
  BY <1>1, HeadAssumption DEF HeadAssumption
<1>3. QED
  BY <1>1, <1>2, ClipInRange, AnglesArePositive DEF Desired

(* The clocks stop at their limits, and the counters too.                  *)
LEMMA AtMostBounds ==
    ASSUME NEW n \in Nat, NEW a \in 0..n
    PROVE  AtMost(a + 1, n) \in 0..n
BY DEF AtMost

LEMMA BiasedTyped ==
    ASSUME TypeOK, NEW side \in Pans
    PROVE  /\ Biased(side).angle = CurrentAngle
           /\ Biased(side) \in [action : {"hold"} \cup Pans, angle : Angles \cup {NoAngle},
                                side : Pans \cup {"centre"}, count : 0..Required]
<1>1. /\ fusion.count \in 0..Required /\ Required \in Nat \ {0}
      /\ CurrentAngle \in Angles
  BY CurrentInRange, HeadAssumption DEF HeadAssumption, TypeOK
<1>2. (IF fusion.side = side THEN AtMost(fusion.count + 1, Required) ELSE 1) \in 0..Required
  BY <1>1 DEF AtMost
<1>3. QED
  BY <1>1, <1>2 DEF Biased

(* Asking the neck puts the thread at the check, and it is alone if the    *)
(* other is idle.                                                          *)
LEMMA AskJobs ==
    ASSUME TypeOK, NEW t \in Threads, NEW kind \in {"pan", "recenter", "orient"},
           NEW goal \in Angles, Ask(t, kind, goal)
    PROVE  /\ job' \in [Threads -> Job]
           /\ job'[t] = [pc |-> "check", kind |-> kind, goal |-> goal,
                         alone |-> job[Other(t)].pc = "idle"]
           /\ job'[Other(t)] = [job[Other(t)] EXCEPT !.alone = FALSE]
<1>1. job \in [Threads -> Job] /\ Other(t) \in Threads /\ Other(t) # t
  BY DEF TypeOK, Job, Threads, Other
<1>2. [pc |-> "check", kind |-> kind, goal |-> goal, alone |-> job[Other(t)].pc = "idle"]
         \in Job
  BY Zenon DEF Job
<1>3. \A u \in Threads : [job[u] EXCEPT !.alone = FALSE] \in Job
  BY <1>1 DEF Job
<1>4. QED
  BY <1>1, <1>2, <1>3, Zenon DEF Ask

LEMMA AskFields ==
    ASSUME TypeOK, NEW t \in Threads, NEW kind \in {"pan", "recenter", "orient"},
           NEW goal \in Angles, Ask(t, kind, goal)
    PROVE  /\ job'[t].pc = "check" /\ job'[t].kind = kind /\ job'[t].goal = goal
           /\ job[Other(t)].pc # "idle" => job'[t].alone = FALSE
<1> DEFINE free == job[Other(t)].pc = "idle"
<1>1. job'[t] = [pc |-> "check", kind |-> kind, goal |-> goal, alone |-> free]
  BY AskJobs
<1> HIDE DEF free
<1>2. job'[t].pc = "check" /\ job'[t].kind = kind /\ job'[t].goal = goal /\ job'[t].alone = free
  BY <1>1
<1>3. ~ free => free = FALSE
  BY DEF free
<1>4. QED
  BY <1>2, <1>3, Zenon DEF free

(* A thread that leaves the neck, or goes on within it, leaves the other   *)
(* as it is.                                                               *)
LEMMA OtherThread ==
    \A t \in Threads : /\ Other(t) \in Threads /\ Other(t) # t /\ Other(Other(t)) = t
                       /\ \A u \in Threads : u = t \/ u = Other(t)
BY DEF Threads, Other

LEMMA JobOfType == TypeOK => job \in [Threads -> Job]
BY DEF TypeOK, Job

LEMMA IdleJob == Idle \in Job
BY AnglesArePositive, Zenon DEF Idle, Job

-----------------------------------------------------------------------------
(* Initially nothing is known of the head, and nothing is under way.       *)
LEMMA InitIInv == Init => IInv
<1> SUFFICES ASSUME Init PROVE IInv
  OBVIOUS
<1>1. /\ misses \in 0..RecenterAfter /\ sinceAct \in 0..FusionInterval
      /\ sinceCmd \in 0..MinInterval /\ sinceFrame \in 0..FrameGap
      /\ orients \in 0..MaxOrients /\ 0 \in 0..Required
  BY HeadAssumption DEF HeadAssumption, Init
<1>2. job \in [Threads -> Job]
  BY IdleJob, Zenon DEF Init
<1>3. TypeOK
  BY <1>1, <1>2, AnglesArePositive, Zenon DEF Init, TypeOK, Job, Pans
<1>4. \A t \in Threads : job[t].pc = "idle"
  BY Zenon DEF Init, Idle
<1>5. "vision" \in Threads /\ "voice" \in Threads
  BY DEF Threads
<1>6. Beliefs
  BY <1>4, <1>5 DEF Init, Beliefs, Alone, Committed, Kinds, Settled, Follows, Planned, Near,
                    PanUnderWay
<1>7. QED
  BY <1>3, <1>6 DEF IInv

-----------------------------------------------------------------------------
(* The neck organ *)

(* What is left out changes no angle; where it was a pan, the planner is   *)
(* astray.                                                                 *)
LEMMA SuppressKeeps ==
    ASSUME IInv, NEW t \in Threads, Suppress(t)
    PROVE  IInv'
<1>1. job \in [Threads -> Job] /\ job' \in [Threads -> Job]
  BY JobOfType, IdleJob, Zenon DEF IInv, Suppress
<1>2. /\ job'[t] = Idle /\ job'[t].pc = "idle"
      /\ \A u \in Threads : u # t => job'[u] = job[u]
  BY <1>1, Zenon DEF Suppress, Idle
<1>3. TypeOK'
  BY <1>1, Zenon DEF IInv, TypeOK, Job, Suppress
<1>4. /\ neck'.last = neck.last /\ servo' = servo /\ clean' = clean
      /\ CurrentAngle' = CurrentAngle
      /\ job[t].pc = "check"
      /\ astray' = (astray \/ job[t].kind = "pan")
  BY DEF IInv, TypeOK, Suppress, CurrentAngle
<1>5. (Alone /\ Committed /\ Kinds /\ Settled)'
  <2>1. Alone'
    BY <1>2, <1>4, OtherThread, Zenon DEF IInv, Beliefs, Alone
  <2>2. Committed'
    BY <1>2, <1>4, OtherThread, Zenon DEF IInv, Beliefs, Alone, Committed
  <2>3. Kinds'
    BY <1>2, <1>4 DEF IInv, Beliefs, Kinds, Threads
  <2>4. Settled'
    BY <1>2, <1>4, OtherThread, Zenon DEF IInv, Beliefs, Settled
  <2>5. QED
    BY <2>1, <2>2, <2>3, <2>4
<1>6. (Follows /\ Planned /\ Near)'
  BY <1>2, <1>4 DEF IInv, Beliefs, Kinds, Follows, Planned, Near, PanUnderWay, Threads
<1>7. QED
  BY <1>3, <1>5, <1>6 DEF IInv, Beliefs

LEMMA PassKeeps ==
    ASSUME IInv, NEW t \in Threads, Pass(t)
    PROVE  IInv'
<1>1. job \in [Threads -> Job]
  BY JobOfType DEF IInv
<1>2. /\ job' \in [Threads -> Job]
      /\ job'[t] = [job[t] EXCEPT !.pc = "commit"]
      /\ \A u \in Threads : u # t => job'[u] = job[u]
      /\ job[t].pc = "check"
  BY <1>1 DEF Pass, Job
<1>3. /\ job'[t].pc = "commit" /\ job'[t].kind = job[t].kind
      /\ job'[t].goal = job[t].goal /\ job'[t].alone = job[t].alone
  BY <1>1, <1>2 DEF Job
<1>4. /\ neck' = neck /\ servo' = servo /\ clean' = clean /\ astray' = astray
      /\ CurrentAngle' = CurrentAngle
  BY DEF Pass, CurrentAngle
<1>5. TypeOK'
  BY <1>2, Zenon DEF IInv, TypeOK, Job, Pass
<1>6. (Alone /\ Committed /\ Kinds /\ Settled)'
  <2>1. Alone'
    <3>1. \A u \in Threads : /\ job'[u].pc = "idle" <=> job[u].pc = "idle"
                             /\ job'[u].alone = job[u].alone
      BY <1>2, <1>3, Zenon
    <3>2. QED
      BY <3>1, OtherThread, Zenon DEF IInv, Beliefs, Alone
  <2>2. Committed'
    BY <1>2, <1>3, <1>4, OtherThread, Zenon DEF IInv, Beliefs, Alone, Committed
  <2>3. Kinds'
    BY <1>2, <1>3, <1>4 DEF IInv, Beliefs, Kinds, Threads
  <2>4. Settled'
    BY <1>2, <1>3, <1>4, OtherThread, Zenon DEF IInv, Beliefs, Settled
  <2>5. QED
    BY <2>1, <2>2, <2>3, <2>4
<1>7. (Follows /\ Planned /\ Near)'
  BY <1>2, <1>3, <1>4 DEF IInv, Beliefs, Follows, Planned, Near, PanUnderWay, Threads
<1>8. QED
  BY <1>5, <1>6, <1>7 DEF IInv, Beliefs

(* A commit makes the goal the neck's angle; if the other thread has       *)
(* committed before, neither is alone.                                     *)
LEMMA CommitKeeps ==
    ASSUME IInv, NEW t \in Threads, Commit(t)
    PROVE  IInv'
<1>1. job \in [Threads -> Job]
  BY JobOfType DEF IInv
<1>2. /\ job' \in [Threads -> Job]
      /\ job'[t] = [job[t] EXCEPT !.pc = "motor"]
      /\ \A u \in Threads : u # t => job'[u] = job[u]
      /\ job[t].pc = "commit"
  BY <1>1 DEF Commit, Job
<1>3. /\ job'[t].pc = "motor" /\ job'[t].kind = job[t].kind
      /\ job'[t].goal = job[t].goal /\ job'[t].alone = job[t].alone
      /\ job[t].goal \in Angles
  BY <1>1, <1>2 DEF Job
<1>4. /\ neck'.last = job[t].goal /\ servo' = servo /\ clean' = clean /\ astray' = astray
      /\ CurrentAngle' = CurrentAngle
      /\ neck' \in [last : Angles, commanded : Angles \cup {NoAngle},
                    status : {"idle", "command", "suppressed", "ok", "error"}]
  BY <1>3 DEF Commit, CurrentAngle
<1>5. sinceCmd' \in 0..MinInterval
  BY HeadAssumption DEF HeadAssumption, Commit
<1>6. TypeOK'
  BY <1>2, <1>4, <1>5, Zenon DEF IInv, TypeOK, Job, Commit
<1>7. (Alone /\ Committed /\ Kinds /\ Settled)'
  <2>1. Alone'
    <3>1. \A u \in Threads : /\ job'[u].pc = "idle" <=> job[u].pc = "idle"
                             /\ job'[u].alone = job[u].alone
      BY <1>2, <1>3, Zenon
    <3>2. QED
      BY <3>1, OtherThread, Zenon DEF IInv, Beliefs, Alone
  <2>2. Committed'
    BY <1>2, <1>3, <1>4, OtherThread, ZenonT(60) DEF IInv, Beliefs, Alone, Committed
  <2>3. Kinds'
    BY <1>2, <1>3, <1>4 DEF IInv, Beliefs, Kinds, Threads
  <2>4. Settled'
    BY <1>2, <1>3, <1>4, OtherThread, Zenon DEF IInv, Beliefs, Settled
  <2>5. QED
    BY <2>1, <2>2, <2>3, <2>4
<1>8. (Follows /\ Planned /\ Near)'
  BY <1>2, <1>3, <1>4, ZenonT(30) DEF IInv, Beliefs, Follows, Planned, Near, PanUnderWay, Threads
<1>9. QED
  BY <1>6, <1>7, <1>8 DEF IInv, Beliefs

(* A motor call that went well and was alone puts the head where the neck  *)
(* has it, and, if it was a pan, where the planner has it.                 *)
LEMMA MotorKeeps ==
    ASSUME IInv, NEW t \in Threads, NEW result \in {"ok", "error", "raised"},
           Motor(t, result)
    PROVE  IInv'
<1>1. job \in [Threads -> Job] /\ job' \in [Threads -> Job]
  BY JobOfType, IdleJob, Zenon DEF IInv, Motor
<1>2. /\ job'[t] = Idle /\ job'[t].pc = "idle"
      /\ \A u \in Threads : u # t => job'[u] = job[u]
      /\ job[t].pc = "motor" /\ job[t].goal \in Angles
  BY <1>1 DEF Motor, Idle, Job
<1>3. /\ neck'.last = neck.last
      /\ neck' \in [last : Angles, commanded : Angles \cup {NoAngle},
                    status : {"idle", "command", "suppressed", "ok", "error"}]
      /\ servo' \in Angles /\ CurrentAngle' = CurrentAngle
      /\ clean' => servo' = job[t].goal /\ job[t].alone
      /\ ~ astray' => clean' /\ job[t].kind = "pan"
  <2>1. neck \in [last : Angles, commanded : Angles \cup {NoAngle},
                 status : {"idle", "command", "suppressed", "ok", "error"}]
    BY DEF IInv, TypeOK
  <2>2. /\ neck'.last = neck.last
        /\ neck' \in [last : Angles, commanded : Angles \cup {NoAngle},
                      status : {"idle", "command", "suppressed", "ok", "error"}]
    BY <2>1 DEF Motor
  <2>3. servo' \in Angles /\ CurrentAngle' = CurrentAngle
    BY <1>2 DEF Motor, CurrentAngle, IInv, TypeOK
  <2>4. /\ clean' => servo' = job[t].goal /\ job[t].alone
        /\ ~ astray' => clean' /\ job[t].kind = "pan"
    BY DEF Motor
  <2>5. QED
    BY <2>2, <2>3, <2>4
<1>4. clean' \in BOOLEAN /\ astray' \in BOOLEAN
  BY Zenon DEF Motor
<1>5. TypeOK'
  BY <1>1, <1>3, <1>4, Zenon DEF IInv, TypeOK, Job, Motor
<1>6. clean' => neck.last = job[t].goal /\ job[Other(t)].pc = "idle"
  BY <1>2, <1>3, Zenon DEF IInv, Beliefs, Alone, Committed
<1>7. (Alone /\ Committed /\ Kinds /\ Settled)'
  <2>1. Alone'
    BY <1>2, <1>3, <1>6, OtherThread, Zenon DEF IInv, Beliefs, Alone
  <2>2. Committed'
    BY <1>2, <1>3, <1>6, OtherThread, Zenon DEF IInv, Beliefs, Alone, Committed
  <2>3. Kinds'
    BY <1>2, <1>3, <1>6 DEF IInv, Beliefs, Kinds, Threads
  <2>4. Settled'
    BY <1>2, <1>3, <1>6, OtherThread, Zenon DEF IInv, Beliefs, Settled
  <2>5. QED
    BY <2>1, <2>2, <2>3, <2>4
<1>8. Planned'
  BY <1>2, <1>3, Zenon DEF IInv, Beliefs, Planned, PanUnderWay, Threads
<1>9. ~ astray' => t = "vision" /\ CurrentAngle = job[t].goal
  BY <1>2, <1>3, Zenon DEF IInv, Beliefs, Kinds, Planned, PanUnderWay, Threads
<1>10. (Follows /\ Near)'
  BY <1>2, <1>3, <1>9 DEF Follows, Near, PanUnderWay
<1>11. QED
  BY <1>5, <1>7, <1>8, <1>10 DEF IInv, Beliefs

LEMMA NeckKeeps ==
    ASSUME IInv, NEW t \in Threads, Neck(t)
    PROVE  IInv'
BY SuppressKeeps, PassKeeps, CommitKeeps, MotorKeeps DEF Neck

-----------------------------------------------------------------------------
(* The visual loop *)

(* The clocks and counters that a frame, a reply or a tick sets.           *)
LEMMA Counters ==
    /\ 0 \in 0..RecenterAfter /\ 0 \in 0..FusionInterval /\ 0 \in 0..FrameGap
    /\ TypeOK => /\ AtMost(misses + 1, RecenterAfter) \in 0..RecenterAfter
                 /\ AtMost(sinceAct + 1, FusionInterval) \in 0..FusionInterval
                 /\ AtMost(sinceCmd + 1, MinInterval) \in 0..MinInterval
                 /\ AtMost(sinceFrame + 1, FrameGap) \in 0..FrameGap
                 /\ orients < MaxOrients => orients + 1 \in 0..MaxOrients
<1>1. /\ RecenterAfter \in Nat /\ FusionInterval \in Nat /\ MinInterval \in Nat
      /\ FrameGap \in Nat /\ MaxOrients \in Nat
  BY HeadAssumption DEF HeadAssumption
<1>2. TypeOK => /\ misses \in 0..RecenterAfter /\ sinceAct \in 0..FusionInterval
                /\ sinceCmd \in 0..MinInterval /\ sinceFrame \in 0..FrameGap
                /\ orients \in 0..MaxOrients
  BY Zenon DEF TypeOK
<1>3. QED
  BY <1>1, <1>2, AtMostBounds

(* A step that leaves the threads and the head alone, and the angles of the*)
(* neck and of the planner, leaves all beliefs alone.                      *)
LEMMA BeliefsKept ==
    ASSUME Beliefs, UNCHANGED <<servo, job, clean>>, neck'.last = neck.last,
           ~ astray' => ~ astray, CurrentAngle' = CurrentAngle
    PROVE  Beliefs'
<1>1. (Alone /\ Committed /\ Kinds /\ Settled)'
  BY Zenon DEF Beliefs, Alone, Committed, Kinds, Settled
<1>2. (Follows /\ Planned /\ Near)'
  BY Zenon DEF Beliefs, Follows, Planned, Near, PanUnderWay
<1>3. QED
  BY <1>1, <1>2 DEF Beliefs

(* An idle thread that asks the neck has not committed yet, and is alone   *)
(* only if the other is idle, which is not alone any more.                 *)
LEMMA AskKeeps ==
    ASSUME IInv, NEW t \in Threads, NEW kind \in {"pan", "recenter", "orient"},
           NEW goal \in Angles, Ask(t, kind, goal), job[t].pc = "idle",
           t = "voice" => kind = "orient",
           UNCHANGED <<servo, clean>>, neck'.last = neck.last
    PROVE  (Alone /\ Committed /\ Kinds /\ Settled)'
<1>1. job \in [Threads -> Job] /\ Other(t) \in Threads
  BY JobOfType, OtherThread DEF IInv
<1>2. /\ job'[t] = [pc |-> "check", kind |-> kind, goal |-> goal,
                    alone |-> job[Other(t)].pc = "idle"]
      /\ job'[Other(t)] = [job[Other(t)] EXCEPT !.alone = FALSE]
  BY AskJobs DEF IInv
<1>3. /\ job'[t].pc = "check" /\ job'[t].kind = kind
      /\ job'[t].alone => job[Other(t)].pc = "idle"
  BY AskFields, Zenon DEF IInv
<1>4. /\ job'[Other(t)].pc = job[Other(t)].pc /\ job'[Other(t)].kind = job[Other(t)].kind
      /\ job'[Other(t)].alone = FALSE
  BY <1>1, <1>2 DEF Job
<1>5. Alone'
  BY <1>3, <1>4, OtherThread, Zenon DEF Alone
<1>6. Committed'
  BY <1>3, <1>4, OtherThread, Zenon DEF Committed
<1>7. Kinds'
  BY <1>3, <1>4, Zenon DEF IInv, Beliefs, Kinds, Threads, Other
<1>8. Settled'
  <2>1. (\A u \in Threads : job'[u].pc # "motor") => (\A u \in Threads : job[u].pc # "motor")
    BY <1>1, <1>4, OtherThread, Zenon
  <2>2. QED
    BY <2>1, Zenon DEF IInv, Beliefs, Settled
<1>9. QED
  BY <1>5, <1>6, <1>7, <1>8

LEMMA SeenHeldKeeps ==
    ASSUME IInv, SeenHeld
    PROVE  IInv'
<1>1. CurrentAngle \in Angles /\ CurrentAngle # NoAngle
  BY CurrentInRange, AnglesArePositive DEF IInv
<1>2. CurrentAngle' = CurrentAngle
  BY <1>1 DEF SeenHeld, Hold, CurrentAngle
<1>3. 0 \in 0..Required
  BY HeadAssumption DEF HeadAssumption
<1>4. fusion' \in [action : {"hold"} \cup Pans, angle : Angles \cup {NoAngle},
                  side : Pans \cup {"centre"}, count : 0..Required]
  BY <1>1, <1>3 DEF IInv, TypeOK, SeenHeld, Hold
<1>5. TypeOK'
  BY <1>4, Counters, Zenon DEF IInv, TypeOK, SeenHeld, Seen, Frame
<1>6. Beliefs'
  BY <1>2, BeliefsKept, Zenon DEF IInv, SeenHeld
<1>7. QED
  BY <1>5, <1>6 DEF IInv

LEMMA SeenBiasedKeeps ==
    ASSUME IInv, NEW side \in Pans, SeenBiased(side)
    PROVE  IInv'
<1>1. CurrentAngle \in Angles /\ CurrentAngle # NoAngle
  BY CurrentInRange, AnglesArePositive DEF IInv
<1>2. CurrentAngle' = CurrentAngle
  BY <1>1, BiasedTyped DEF IInv, SeenBiased, CurrentAngle
<1>3. TypeOK'
  BY BiasedTyped, Counters, Zenon DEF IInv, TypeOK, SeenBiased, Seen, Frame
<1>4. Beliefs'
  BY <1>2, BeliefsKept, Zenon DEF IInv, SeenBiased
<1>5. QED
  BY <1>3, <1>4 DEF IInv

(* The pan's goal is the planner's new angle, a step from where the head is*)
(* if the planner is not astray; a label the neck does not follow makes it *)
(* so.                                                                     *)
LEMMA SeenPanKeeps ==
    ASSUME IInv, NEW side \in Pans, NEW d \in 1..MaxStep, NEW trackable \in BOOLEAN,
           SeenPan(side, d, trackable)
    PROVE  IInv'
<1> DEFINE goal == Stepped(side, d)
<1>1. goal \in Angles /\ goal # NoAngle /\ goal - CurrentAngle \in -MaxStep..MaxStep
  BY SteppedNear, AnglesArePositive DEF IInv
<1>2. /\ fusion' \in [action : {"hold"} \cup Pans, angle : Angles \cup {NoAngle},
                      side : Pans \cup {"centre"}, count : 0..Required]
      /\ CurrentAngle' = goal
  <2>1. fusion' = [Biased(side) EXCEPT !.action = side, !.angle = goal]
    BY DEF SeenPan, Panned
  <2>2. Biased(side) \in [action : {"hold"} \cup Pans, angle : Angles \cup {NoAngle},
                          side : Pans \cup {"centre"}, count : 0..Required]
    BY BiasedTyped DEF IInv
  <2> HIDE DEF goal
  <2>3. /\ fusion' \in [action : {"hold"} \cup Pans, angle : Angles \cup {NoAngle},
                         side : Pans \cup {"centre"}, count : 0..Required]
        /\ fusion'.angle = goal
    BY <1>1, <2>1, <2>2
  <2>4. QED
    BY <1>1, <2>3 DEF CurrentAngle
<1>3. job["vision"].pc = "idle" /\ "vision" \in Threads /\ Other("vision") = "voice"
  BY DEF SeenPan, Seen, Frame, Threads, Other
<1>4. neck'.last = neck.last /\ UNCHANGED <<servo, clean>>
  BY DEF SeenPan, IInv, TypeOK
<1>5. neck' \in [last : Angles, commanded : Angles \cup {NoAngle},
                status : {"idle", "command", "suppressed", "ok", "error"}]
  BY DEF SeenPan, IInv, TypeOK
<1> HIDE DEF goal
<1>6. CASE trackable
  <2>1. Ask("vision", "pan", goal) /\ astray' = astray
    BY <1>6 DEF SeenPan, goal
  <2>2. /\ job' \in [Threads -> Job]
        /\ job'["vision"].pc = "check" /\ job'["vision"].kind = "pan"
        /\ job'["vision"].goal = goal
    <3>1. "pan" \in {"pan", "recenter", "orient"}
      OBVIOUS
    <3>2. QED
      BY <1>1, <1>3, <2>1, <3>1, AskJobs, AskFields, Zenon DEF IInv
  <2>3. TypeOK'
    BY <1>2, <1>5, <2>1, <2>2, Counters, Zenon DEF IInv, TypeOK, Job, SeenPan, Seen, Frame
  <2>4. (Alone /\ Committed /\ Kinds /\ Settled)'
    BY <1>1, <1>3, <1>4, <2>1, AskKeeps
  <2>5. ~ astray => CurrentAngle = servo
    BY <1>3, Zenon DEF IInv, Beliefs, Follows, PanUnderWay
  <2>6. (Follows /\ Planned /\ Near)'
    BY <1>1, <1>2, <1>4, <2>1, <2>2, <2>5 DEF Follows, Planned, Near, PanUnderWay
  <2>7. QED
    BY <2>3, <2>4, <2>6 DEF IInv, Beliefs
<1>7. CASE ~ trackable
  <2>1. job' = job /\ astray' = TRUE
    BY <1>7, Zenon DEF SeenPan
  <2>2. TypeOK'
    BY <1>2, <1>5, <2>1, Counters, Zenon DEF IInv, TypeOK, SeenPan, Seen, Frame
  <2>3. (Alone /\ Committed /\ Kinds /\ Settled)'
    BY <1>4, <2>1, Zenon DEF IInv, Beliefs, Alone, Committed, Kinds, Settled
  <2>4. (Follows /\ Planned /\ Near)'
    BY <1>3, <2>1, Zenon DEF Follows, Planned, Near, PanUnderWay
  <2>5. QED
    BY <2>2, <2>3, <2>4 DEF IInv, Beliefs
<1>8. QED
  BY <1>6, <1>7

LEMMA MissedKeeps ==
    ASSUME IInv, Missed
    PROVE  IInv'
<1>1. CurrentAngle' = CurrentAngle
  BY DEF Missed, CurrentAngle
<1>2. job["vision"].pc = "idle" /\ "vision" \in Threads
  BY DEF Missed, Frame, Threads
<1>3. CASE Ask("vision", "recenter", Home) /\ recentered' = TRUE
  <2>1. job' \in [Threads -> Job] /\ job'["vision"].kind = "recenter"
    <3>1. "recenter" \in {"pan", "recenter", "orient"} /\ Home \in Angles
      BY AnglesArePositive
    <3>2. QED
      BY <1>2, <1>3, <3>1, AskJobs, AskFields, Zenon DEF IInv
  <2>2. TypeOK'
    BY <1>3, <2>1, Counters, Zenon DEF IInv, TypeOK, Job, Missed, Frame
  <2>3. (Alone /\ Committed /\ Kinds /\ Settled)'
    BY <1>2, <1>3, AskKeeps, AnglesArePositive DEF Missed
  <2>4. (Follows /\ Planned /\ Near)'
    BY <1>1, <1>2, <2>1, Zenon DEF IInv, Beliefs, Follows, Planned, Near, PanUnderWay, Missed
  <2>5. QED
    BY <2>2, <2>3, <2>4 DEF IInv, Beliefs
<1>4. CASE UNCHANGED <<recentered, job>>
  <2>1. TypeOK'
    BY <1>4, Counters, Zenon DEF IInv, TypeOK, Missed, Frame
  <2>2. Beliefs'
    BY <1>1, <1>4, BeliefsKept, Zenon DEF IInv, Missed
  <2>3. QED
    BY <2>1, <2>2 DEF IInv
<1>5. QED
  BY <1>3, <1>4, Zenon DEF Missed

LEMMA PauseKeeps ==
    ASSUME IInv, Pause
    PROVE  IInv'
<1>1. /\ neck'.last = neck.last
      /\ neck' \in [last : Angles, commanded : Angles \cup {NoAngle},
                    status : {"idle", "command", "suppressed", "ok", "error"}]
  BY DEF IInv, TypeOK, Pause
<1>2. TypeOK'
  BY <1>1, Counters, Zenon DEF IInv, TypeOK, Pause
<1>3. CurrentAngle' = CurrentAngle
  BY DEF Pause, CurrentAngle
<1>4. Beliefs'
  BY <1>1, <1>3, BeliefsKept, Zenon DEF IInv, Pause
<1>5. QED
  BY <1>2, <1>4 DEF IInv

-----------------------------------------------------------------------------
(* The voice loop, and time *)

LEMMA OrientKeeps ==
    ASSUME IInv, NEW x \in {"none", "left", "centre", "right"}, Orient(x)
    PROVE  IInv'
<1>1. PICK goal \in Desired(x) : Ask("voice", "orient", goal)
  BY Zenon DEF Orient
<1>2. goal \in Angles
  BY DesiredInRange DEF IInv
<1>3. job["voice"].pc = "idle" /\ "voice" \in Threads /\ Other("voice") = "vision"
  BY DEF Orient, Threads, Other
<1>4. /\ job' \in [Threads -> Job]
      /\ job'["vision"] = [job["vision"] EXCEPT !.alone = FALSE]
  BY <1>1, <1>2, <1>3, AskJobs DEF IInv
<1>5. /\ job'["vision"].pc = job["vision"].pc /\ job'["vision"].kind = job["vision"].kind
      /\ job'["vision"].goal = job["vision"].goal
  BY <1>4, JobOfType DEF IInv, Job, Threads
<1>6. TypeOK'
  BY <1>4, Counters, Zenon DEF IInv, TypeOK, Job, Orient
<1>7. (Alone /\ Committed /\ Kinds /\ Settled)'
  BY <1>1, <1>2, <1>3, AskKeeps DEF Orient
<1>8. CurrentAngle' = CurrentAngle
  BY DEF Orient, CurrentAngle
<1>9. (Follows /\ Planned /\ Near)'
  BY <1>5, <1>8, Zenon DEF IInv, Beliefs, Follows, Planned, Near, PanUnderWay, Orient
<1>10. QED
  BY <1>6, <1>7, <1>9 DEF IInv, Beliefs

LEMMA TickKeeps ==
    ASSUME IInv, Tick
    PROVE  IInv'
<1>1. TypeOK'
  BY Counters, Zenon DEF IInv, TypeOK, Tick
<1>2. CurrentAngle' = CurrentAngle
  BY DEF Tick, CurrentAngle
<1>3. Beliefs'
  BY <1>2, BeliefsKept, Zenon DEF IInv, Tick
<1>4. QED
  BY <1>1, <1>3 DEF IInv

-----------------------------------------------------------------------------
(* Every step keeps the invariant.                                         *)
LEMMA NextIInv == IInv /\ [Next]_vars => IInv'
<1>1. ASSUME IInv, Next PROVE IInv'
  BY <1>1, NeckKeeps, SeenHeldKeeps, SeenBiasedKeeps, SeenPanKeeps, MissedKeeps, PauseKeeps,
     OrientKeeps, TickKeeps DEF Next
<1>2. ASSUME IInv, UNCHANGED vars PROVE IInv'
  <2>1. TypeOK'
    BY <1>2, Zenon DEF IInv, TypeOK, vars
  <2>2. CurrentAngle' = CurrentAngle
    BY <1>2 DEF vars, CurrentAngle
  <2>3. Beliefs'
    BY <1>2, <2>2, BeliefsKept, Zenon DEF IInv, vars
  <2>4. QED
    BY <2>1, <2>3 DEF IInv
<1>3. QED
  BY <1>1, <1>2

(* The inductive invariant, for any number of threads and steps.           *)
THEOREM Invariant == Spec => []IInv
BY InitIInv, NextIInv, PTL DEF Spec

(* Every reachable state is well formed: no controller ever asks for, or   *)
(* believes in, an angle outside the range.                                *)
THEOREM TypeCorrect == Spec => []TypeOK
<1>1. IInv => TypeOK
  BY DEF IInv
<1>2. QED
  BY <1>1, Invariant, PTL

(* At rest, after a motor call that went well and met no other thread, the *)
(* neck's angle is the head's, whatever has been left out since.           *)
THEOREM NeckKnows == Spec => []NeckKnowsHead
<1>1. IInv => NeckKnowsHead
  BY Zenon DEF IInv, Beliefs, Settled, NeckKnowsHead, AtRest
<1>2. QED
  BY <1>1, Invariant, PTL

(* At rest, while only its own pans moved the head and none was left out,  *)
(* the planner's angle is the head's.                                      *)
THEOREM PlannerKnows == Spec => []PlannerKnowsHead
<1>1. IInv => PlannerKnowsHead
  BY DEF IInv, Beliefs, Follows, PanUnderWay, PlannerKnowsHead, AtRest, Threads
<1>2. QED
  BY <1>1, Invariant, PTL

(* And then a pan moves the head by no more than the limit of a step.      *)
THEOREM SmallSteps == Spec => StepsAreSmall
<1> DEFINE Done == job["vision"].pc = "motor" /\ job'["vision"].pc = "idle"
           Small == Done /\ job["vision"].kind = "pan" /\ ~ astray
                      => servo' - servo \in -MaxStep..MaxStep
<1>1. ASSUME IInv, Next, Done
      PROVE  servo' \in {servo, job["vision"].goal}
  <2>1. /\ job["vision"].pc # "idle" /\ "vision" \in Threads /\ "voice" \in Threads
        /\ Other("voice") = "vision"
    BY <1>1 DEF Threads, Other
  <2>2. job' # job /\ job \in [Threads -> Job]
    BY <1>1, JobOfType DEF IInv
  <2>3. ~ SeenHeld /\ ~ Missed /\ ~ Pause /\ ~ Tick
    BY <2>1, <2>2, Zenon DEF SeenHeld, Seen, Missed, Frame, Pause, Tick
  <2>4. /\ \A side \in Pans : ~ SeenBiased(side)
        /\ \A side \in Pans, d \in 1..MaxStep, trackable \in BOOLEAN :
              ~ SeenPan(side, d, trackable)
    BY <2>1, Zenon DEF SeenBiased, SeenPan, Seen, Frame
  <2>5. ASSUME NEW x \in {"none", "left", "centre", "right"}, Orient(x)
        PROVE  FALSE
    <3>1. PICK goal \in Desired(x) : Ask("voice", "orient", goal)
      BY <2>5, Zenon DEF Orient
    <3>2. job'["vision"] = [job["vision"] EXCEPT !.alone = FALSE]
      <4>1. goal \in Angles /\ "orient" \in {"pan", "recenter", "orient"}
        BY <1>1, <3>1, DesiredInRange DEF IInv
      <4>2. QED
        BY <1>1, <2>1, <3>1, <4>1, AskJobs DEF IInv
    <3>3. QED
      BY <1>1, <2>1, <2>2, <3>2 DEF Job
  <2>6. ASSUME NEW t \in Threads, Neck(t)
        PROVE  servo' \in {servo, job["vision"].goal}
    <3>1. CASE t = "vision"
      BY <1>1, <2>6, <3>1 DEF Neck, Suppress, Pass, Commit, Motor
    <3>2. CASE t = "voice"
      <4>1. job'["vision"] = job["vision"]
        BY <2>2, <2>6, <3>2 DEF Neck, Suppress, Pass, Commit, Motor, Threads
      <4>2. QED
        BY <1>1, <2>1, <4>1, Zenon
    <3>3. QED
      BY <3>1, <3>2 DEF Threads
  <2>7. QED
    BY <1>1, <2>3, <2>4, <2>5, <2>6, Zenon DEF Next
<1>2. ASSUME IInv, Next PROVE Small
  <2> SUFFICES ASSUME Done, job["vision"].kind = "pan", ~ astray
               PROVE  servo' - servo \in -MaxStep..MaxStep
    OBVIOUS
  <2>1. job["vision"].goal - servo \in -MaxStep..MaxStep
    BY <1>2, Zenon DEF IInv, Beliefs, Near, PanUnderWay
  <2>2. servo \in Int /\ MaxStep \in Nat
    BY <1>2, AnglesArePositive, HeadAssumption DEF HeadAssumption, IInv, TypeOK
  <2>3. servo' = servo \/ servo' = job["vision"].goal
    BY <1>1, <1>2, Zenon
  <2>4. QED
    BY <2>1, <2>2, <2>3
<1>3. IInv /\ [Next]_vars => [Small]_vars
  BY <1>2, Zenon
<1>4. QED
  BY <1>3, Invariant, PTL DEF Spec, StepsAreSmall

-----------------------------------------------------------------------------
(* Following a face: VisualFollow *)

(* The loop's own misses lag behind those of the lock, which a weak frame  *)
(* counts too and only a sure one forgets.                                 *)
FollowInv ==
    /\ {lostFrames, tracking.misses} \subseteq Nat
    /\ tracking.on => ~ sentHome /\ lostFrames <= tracking.misses /\ tracking.misses < UnlockAfter

LEMMA FollowInvHolds == FollowInit => FollowInv
BY FollowAssumption DEF FollowAssumption, FollowInit, FollowInv

LEMMA MissFacts ==
    ASSUME FollowInv, MissNoted
    PROVE  /\ tracking'.misses \in Nat
           /\ tracking'.on => /\ tracking.on /\ tracking.misses + 1 < UnlockAfter
                             /\ tracking'.misses = tracking.misses + 1
<1>1. UnlockAfter \in Nat \ {0} /\ tracking.misses \in Nat
  BY FollowAssumption DEF FollowAssumption, FollowInv
<1>2. /\ tracking'.on <=> (tracking.on /\ tracking.misses + 1 < UnlockAfter)
      /\ tracking'.misses = UpTo(tracking.misses + 1, UnlockAfter)
  BY Zenon DEF MissNoted
<1>3. QED
  BY <1>1, <1>2 DEF UpTo

LEMMA FollowInvKept ==
    ASSUME UnlockAfter <= RecenterAfterMisses
    PROVE  FollowInv /\ [FollowNext]_followVars => FollowInv'
<1> SUFFICES ASSUME FollowInv, [FollowNext]_followVars PROVE FollowInv'
  OBVIOUS
<1>0. UnlockAfter \in Nat \ {0} /\ RecenterAfterMisses \in Nat \ {0}
  BY FollowAssumption DEF FollowAssumption
<1>1. CASE UNCHANGED <<lostFrames, sentHome, tracking>>
  BY <1>1 DEF FollowInv
<1>2. CASE Track
  <2>1. CASE FrameEmpty
    <3>1. lostFrames' \in Nat /\ lostFrames' <= lostFrames + 1
      BY <1>0, <2>1 DEF FollowInv, FrameEmpty, UpTo
    <3>2. sentHome' => sentHome \/ RecenterAfterMisses <= lostFrames + 1
      BY <1>0, <2>1 DEF FollowInv, FrameEmpty
    <3>3. MissNoted
      BY <2>1 DEF FrameEmpty
    <3>4. QED
      BY <1>0, <3>1, <3>2, <3>3, MissFacts DEF FollowInv
  <2>2. CASE FrameWeak
    <3>1. lostFrames' = 0 /\ sentHome' = FALSE /\ MissNoted
      BY <2>2 DEF FrameWeak
    <3>2. QED
      BY <1>0, <3>1, MissFacts DEF FollowInv
  <2>3. CASE FrameStrong
    BY <1>0, <2>3 DEF FollowInv, FrameStrong, Locked
  <2>4. QED
    BY <1>1, <1>2, <2>1, <2>2, <2>3 DEF Track
<1>3. CASE PauseTracking
  BY <1>0, <1>3 DEF FollowInv, PauseTracking
<1>4. QED
  BY <1>1, <1>2, <1>3 DEF FollowNext, followVars, Loop, Move, Converse, ServiceLook, Sample, Detect, ServiceDies,
     ServiceRestarts, CacheExpires, VoiceComputes, VoiceWrites, App, Vision

(* For any two thresholds with which the lock is given up no later than    *)
(* the head goes home (the defaults are equal): the head is sent home only *)
(* without a lock (BodyRuntimeApp._prepare_tracking_target).               *)
THEOREM LockedStays == UnlockAfter <= RecenterAfterMisses /\ FollowSpec => []LockedHeadStays
<1>1. FollowInv => LockedHeadStays
  BY DEF FollowInv, LockedHeadStays
<1>2. SUFFICES ASSUME UnlockAfter <= RecenterAfterMisses PROVE FollowSpec => []LockedHeadStays
  OBVIOUS
<1>3. FollowInv /\ [FollowNext]_followVars => FollowInv'
  BY <1>2, FollowInvKept
<1>4. QED
  BY <1>1, <1>3, FollowInvHolds, PTL DEF FollowSpec


-----------------------------------------------------------------------------
(* What a frame shows, and whom the selector picks from it.                *)
Cands(cs) ==
    /\ cs \subseteq Candidate
    /\ \A c, d \in cs : c.track = d.track => c = d

LEMMA ConstantsOfLock ==
    /\ Tracks \subseteq Nat \ {0} /\ IsFiniteSet(Tracks) /\ Places \subseteq Int
    /\ Qualities \subseteq 0..9 /\ Reach \in Nat /\ Hysteresis \in Nat /\ LostTimeout \in Nat
    /\ TargetAge \in Nat /\ MaxPause \in Nat \ {0}
BY LockAssumption DEF LockAssumption

LEMMA FrameFacts ==
    ASSUME NEW f \in Frames
    PROVE  Cands(InView(f))
<1>1. PICK T \in SUBSET Tracks : f \in [T -> Candidate]
  BY DEF Frames
<1>2. \A t \in DOMAIN f : f[t].track = t
  BY DEF Frames
<1>3. QED
  BY <1>1, <1>2 DEF Cands, InView

LEMMA CandidateFacts ==
    ASSUME NEW c \in Candidate
    PROVE  /\ c.track \in Tracks /\ c.place \in Int /\ c.quality \in 0..9 /\ c # NoOne
           /\ Score(c) \in 10..39 /\ Key(c) \in Keys
<1>1. /\ c.track \in Tracks /\ c.place \in Int /\ c.quality \in 0..9
      /\ c.track \in Nat \ {0}
  BY ConstantsOfLock DEF Candidate
<1>2. Score(c) \in 10..39
  BY <1>1 DEF Score, Priority
<1>3. QED
  BY <1>1, <1>2 DEF NoOne, Key, Keys

LEMMA BestFacts ==
    ASSUME NEW cs, Cands(cs), cs # {}
    PROVE  Best(cs) \in cs
<1> DEFINE deficits == {39 - Score(c) : c \in cs}
<1>0. \A c \in cs : c \in Candidate /\ Score(c) \in 10..39 /\ c.track \in Tracks
  BY CandidateFacts DEF Cands
<1>1. deficits \subseteq Nat /\ deficits # {}
  BY <1>0
<1>2. PICK n \in deficits : \A k \in deficits : n <= k
  <2> HIDE DEF deficits
  <2> QED BY <1>1, LeastNumber
<1>3. PICK b \in cs : n = 39 - Score(b)
  BY <1>2
<1>4. \A d \in cs : Score(d) <= Score(b)
  <2> TAKE d \in cs
  <2>1. 39 - Score(b) <= 39 - Score(d)
    BY <1>2, <1>3
  <2>2. QED
    BY <1>0, <2>1
<1> DEFINE top == {c.track : c \in {d \in cs : Score(d) = Score(b)}}
<1>5. top # {} /\ top \in SUBSET Tracks /\ top \subseteq Nat
  BY <1>0, ConstantsOfLock
<1>6. IsFiniteSet(top)
  <2> HIDE DEF top
  <2> QED BY <1>5, ConstantsOfLock, FS_Subset
<1>7. PICK t \in top : \A k \in top : k <= t
  <2> HIDE DEF top
  <2> QED BY <1>5, <1>6, GreatestNumber
<1>8. PICK c \in cs : Score(c) = Score(b) /\ c.track = t
  BY <1>7
<1>9. \A d \in cs : \/ Score(d) < Score(c)
                    \/ Score(d) = Score(c) /\ d.track <= c.track
  <2> TAKE d \in cs
  <2>1. CASE Score(d) = Score(b)
    BY <1>7, <1>8, <2>1
  <2>2. CASE Score(d) # Score(b)
    BY <1>0, <1>4, <1>8, <2>2
  <2>3. QED
    BY <2>1, <2>2
<1>10. QED
  BY <1>9 DEF Best

LEMMA NearestFacts ==
    ASSUME NEW cs, Cands(cs), cs # {}, NEW h, h.place \in Int
    PROVE  Nearest(h, cs) \in cs
<1> DEFINE gaps == {Distance(c, h) : c \in cs}
<1>0. \A c \in cs : c \in Candidate /\ Distance(c, h) \in Nat /\ c.track \in Nat
  <2> TAKE c \in cs
  <2>1. c \in Candidate /\ c.place \in Int /\ c.track \in Tracks
    BY CandidateFacts DEF Cands
  <2>2. c.track \in Nat
    BY <2>1, ConstantsOfLock
  <2>3. Distance(c, h) \in Nat
    BY <2>1 DEF Distance
  <2>4. QED
    BY <2>1, <2>2, <2>3
<1>1. gaps \subseteq Nat /\ gaps # {}
  BY <1>0
<1>2. PICK n \in gaps : \A k \in gaps : n <= k
  <2> HIDE DEF gaps
  <2> QED BY <1>1, LeastNumber
<1>3. PICK b \in cs : n = Distance(b, h)
  BY <1>2
<1> DEFINE near == {c.track : c \in {d \in cs : Distance(d, h) = Distance(b, h)}}
<1>4. near # {} /\ near \subseteq Nat
  BY <1>0
<1>5. PICK t \in near : \A k \in near : t <= k
  <2> HIDE DEF near
  <2> QED BY <1>4, LeastNumber
<1>6. PICK c \in cs : Distance(c, h) = Distance(b, h) /\ c.track = t
  BY <1>5
<1>7. \A d \in cs : \/ Distance(c, h) < Distance(d, h)
                    \/ Distance(c, h) = Distance(d, h) /\ c.track <= d.track
  <2> TAKE d \in cs
  <2>1. CASE Distance(d, h) = Distance(b, h)
    BY <1>5, <1>6, <2>1
  <2>2. CASE Distance(d, h) # Distance(b, h)
    BY <1>0, <1>2, <1>3, <1>6, <2>2
  <2>3. QED
    BY <2>1, <2>2
<1>8. QED
  BY <1>7 DEF Nearest

LEMMA FoundFacts ==
    ASSUME NEW cs, Cands(cs), NEW h \in Candidate \cup {NoOne}, Found(h, cs) # NoOne
    PROVE  h # NoOne /\ Found(h, cs) \in cs /\ TakenFor(Found(h, cs), h)
<1>1. h # NoOne /\ h \in Candidate /\ h.place \in Int
  BY CandidateFacts DEF Found
<1>2. CASE SamePerson(h, cs) # {}
  <2>1. Found(h, cs) \in SamePerson(h, cs)
    BY <1>1, <1>2 DEF Found
  <2>2. QED
    BY <1>1, <2>1 DEF SamePerson, TakenFor
<1>3. CASE SamePerson(h, cs) = {} /\ SameTrack(h, cs) # {}
  <2>1. Found(h, cs) \in SameTrack(h, cs)
    BY <1>1, <1>3 DEF Found
  <2>2. QED
    BY <1>1, <2>1 DEF SameTrack, TakenFor
<1>4. CASE SamePerson(h, cs) = {} /\ SameTrack(h, cs) = {}
  <2>1. Found(h, cs) = Nearest(h, Nearby(h, cs)) /\ Nearby(h, cs) # {}
    BY <1>1, <1>4 DEF Found
  <2>2. Cands(Nearby(h, cs))
    BY DEF Cands, Nearby
  <2>3. Found(h, cs) \in Nearby(h, cs)
    BY <1>1, <2>1, <2>2, NearestFacts
  <2>4. QED
    BY <1>1, <2>3 DEF Nearby, TakenFor
<1>5. QED
  BY <1>2, <1>3, <1>4

-----------------------------------------------------------------------------
(* The ages the selector remembers are how long the keys have been in view.*)
LockWhole ==
    lock = [holder |-> lock.holder, id |-> lock.id, ago |-> lock.ago, ages |-> lock.ages]

AgesAreSteady ==
    \A k \in Keys : steady[k] = IF k \in DOMAIN lock.ages THEN lock.ages[k] ELSE Absent

LockInv == LockTypeOK /\ LockWhole /\ AgesAreSteady

LEMMA LockInvInit == LockInit => LockInv
<1> SUFFICES ASSUME LockInit PROVE LockInv
  OBVIOUS
<1>1. TargetAge \in Nat /\ LostTimeout \in Nat
  BY ConstantsOfLock
<1>2. steady \in [Keys -> Absent..TargetAge]
  BY <1>1 DEF LockInit, Absent
<1>3. QED
  BY <1>1, <1>2 DEF LockInit, LockInv, LockTypeOK, LockWhole, AgesAreSteady, Keys, Me

(* One frame: what it does to the ages, and whom the lock is on then.      *)
LEMMA LookFacts ==
    ASSUME LockInv, NEW f \in Frames, NEW dt \in 1..MaxPause, Look(f, dt)
    PROVE  /\ LockInv'
           /\ \/ lock'.holder = lock.holder /\ lock'.id = lock.id
              \/ lock.holder # NoOne /\ TakenFor(lock'.holder, lock.holder) /\ lock'.id = lock.id
              \/ /\ lock'.holder # NoOne /\ lock'.id = Key(lock'.holder)
                 /\ \/ lock.holder = NoOne \/ lock.ago + dt > LostTimeout
                    \/ steady'[lock'.id] >= TargetAge
              \/ lock'.holder = NoOne /\ (lock.holder = NoOne \/ lock.ago + dt > LostTimeout)
<1> DEFINE cs == InView(f)
           old == Later(lock, dt)
           l == [old EXCEPT !.ages = Ages(old, cs)]
           found == Found(l.holder, cs)
           keys == {Key(c) : c \in cs}
<1>0. /\ TargetAge \in Nat /\ LostTimeout \in Nat /\ dt \in Nat \ {0} /\ Cands(cs)
      /\ \A c \in cs : c \in Candidate /\ Key(c) \in Keys /\ c # NoOne
  BY ConstantsOfLock, FrameFacts, CandidateFacts DEF Cands
<1>1. /\ lock.holder \in Candidate \cup {NoOne} /\ lock.id \in Keys /\ lock.ago \in 0..(LostTimeout + 1)
      /\ DOMAIN lock.ages \subseteq Keys /\ \A k \in DOMAIN lock.ages : lock.ages[k] \in 0..TargetAge
      /\ steady \in [Keys -> Absent..TargetAge]
  BY DEF LockInv, LockTypeOK
<1>2. /\ lock' = Select(l, found, cs)
      /\ steady' = [k \in Keys |->
                     IF k \notin keys THEN Absent
                     ELSE IF steady[k] = Absent THEN 0
                     ELSE Capped(steady[k] + dt, TargetAge)]
  BY DEF Look
<1>3. /\ old.holder = lock.holder /\ old.id = lock.id /\ old.ago = Capped(lock.ago + dt, LostTimeout + 1)
      /\ old.ages = [k \in DOMAIN lock.ages |-> Capped(lock.ages[k] + dt, TargetAge)]
      /\ l = [holder |-> lock.holder, id |-> lock.id, ago |-> old.ago, ages |-> Ages(old, cs)]
  <2>1. old = [holder |-> lock.holder, id |-> lock.id, ago |-> Capped(lock.ago + dt, LostTimeout + 1),
               ages |-> [k \in DOMAIN lock.ages |-> Capped(lock.ages[k] + dt, TargetAge)]]
    <3>1. lock = [holder |-> lock.holder, id |-> lock.id, ago |-> lock.ago, ages |-> lock.ages]
      BY DEF LockInv, LockWhole
    <3> DEFINE a2 == Capped(lock.ago + dt, LostTimeout + 1)
               g2 == [k \in DOMAIN lock.ages |-> Capped(lock.ages[k] + dt, TargetAge)]
    <3>2. old = [lock EXCEPT !.ago = a2, !.ages = g2]
      BY DEF Later
    <3> HIDE DEF old, a2, g2
    <3>3. old = [holder |-> lock.holder, id |-> lock.id, ago |-> a2, ages |-> g2]
      BY <3>1, <3>2
    <3>4. QED
      BY <3>3 DEF a2, g2
  <2> HIDE DEF old, cs
  <2>2. QED
    BY <2>1
<1>4. l.ages = [k \in keys |-> IF k \in DOMAIN lock.ages THEN Capped(lock.ages[k] + dt, TargetAge) ELSE 0]
  BY <1>3 DEF Ages
<1>5. old.ago \in 0..(LostTimeout + 1) /\ (old.ago <= LostTimeout <=> lock.ago + dt <= LostTimeout)
  BY <1>0, <1>1, <1>3 DEF Capped
<1> HIDE DEF l, old, found
<1>6. keys \subseteq Keys /\ DOMAIN l.ages = keys /\ \A k \in keys : l.ages[k] = steady'[k] /\ l.ages[k] \in 0..TargetAge
  <2>1. keys \subseteq Keys
    BY <1>0
  <2>2. ASSUME NEW k \in keys
        PROVE  l.ages[k] = steady'[k] /\ l.ages[k] \in 0..TargetAge
    <3>1. k \in Keys /\ steady[k] = (IF k \in DOMAIN lock.ages THEN lock.ages[k] ELSE Absent)
      BY <2>1 DEF LockInv, AgesAreSteady
    <3>2. steady'[k] = IF steady[k] = Absent THEN 0 ELSE Capped(steady[k] + dt, TargetAge)
      BY <1>2, <2>1
    <3>3. CASE k \in DOMAIN lock.ages
      <4>1. lock.ages[k] \in 0..TargetAge /\ steady[k] = lock.ages[k] /\ steady[k] # Absent
        BY <1>0, <1>1, <3>1, <3>3 DEF Absent
      <4>2. l.ages[k] = Capped(lock.ages[k] + dt, TargetAge)
        BY <1>4, <3>3
      <4>3. Capped(lock.ages[k] + dt, TargetAge) \in 0..TargetAge
        BY <1>0, <4>1 DEF Capped
      <4>4. QED
        BY <3>2, <4>1, <4>2, <4>3
    <3>4. CASE k \notin DOMAIN lock.ages
      BY <1>0, <1>4, <3>1, <3>2, <3>4
    <3>5. QED
      BY <3>3, <3>4
  <2>3. DOMAIN l.ages = keys
    BY <1>4
  <2>4. QED
    BY <2>1, <2>2, <2>3
<1>7. ASSUME cs # {}
      PROVE  /\ Best(cs) \in cs /\ Best(cs) \in Candidate /\ Best(cs) # NoOne /\ Key(Best(cs)) \in keys
             /\ l.ages[Key(Best(cs))] = steady'[Key(Best(cs))]
  BY <1>0, <1>6, <1>7, BestFacts
<1>8. found # NoOne => lock.holder # NoOne /\ found \in Candidate /\ TakenFor(found, lock.holder)
  BY <1>0, <1>1, <1>3, FoundFacts DEF found
<1>9. ASSUME LockWhole', lock'.ages = l.ages, lock'.holder \in Candidate \cup {NoOne}, lock'.id \in Keys,
             lock'.ago \in 0..(LostTimeout + 1)
      PROVE  LockInv'
  <2>1. steady' \in [Keys -> Absent..TargetAge]
    <3>1. \A k \in Keys : steady'[k] \in Absent..TargetAge
      BY <1>0, <1>2, <1>6 DEF Absent
    <3>2. QED
      BY <1>2, <3>1
  <2>2. AgesAreSteady'
    <3>1. \A k \in Keys : k \notin keys => steady'[k] = Absent
      BY <1>2
    <3>2. QED
      BY <1>6, <1>9, <3>1 DEF AgesAreSteady
  <2>3. QED
    BY <1>6, <1>9, <2>1, <2>2 DEF LockInv, LockTypeOK
<1>10. ASSUME lock' = Switched(l, Best(cs)), cs # {}
       PROVE  /\ LockInv' /\ lock'.holder # NoOne /\ lock'.id = Key(lock'.holder)
              /\ l.ages[Key(Best(cs))] >= TargetAge => steady'[lock'.id] >= TargetAge
  <2>1. lock' = [holder |-> Best(cs), id |-> Key(Best(cs)), ago |-> 0, ages |-> l.ages]
    BY <1>3, <1>10 DEF Switched
  <2>2. 0 \in 0..(LostTimeout + 1)
    BY <1>0
  <2>3. QED
    BY <1>0, <1>7, <1>9, <1>10, <2>1, <2>2 DEF LockWhole
<1>11. CASE found # NoOne
  <2>1. CASE Displaces(l, cs, found)
    <3>1. lock' = Switched(l, Best(cs)) /\ cs # {} /\ l.ages[Key(Best(cs))] >= TargetAge
      BY <1>2, <1>11, <2>1 DEF Select, Displaces
    <3>2. QED
      BY <1>10, <3>1
  <2>2. CASE ~Displaces(l, cs, found)
    <3>1. lock' = [holder |-> found, id |-> lock.id, ago |-> 0, ages |-> l.ages]
      BY <1>2, <1>3, <1>11, <2>2 DEF Select, Maintained
    <3>2. 0 \in 0..(LostTimeout + 1)
      BY <1>0
    <3>3. LockInv'
      BY <1>1, <1>8, <1>9, <1>11, <3>1, <3>2 DEF LockWhole
    <3>4. QED
      BY <1>8, <1>11, <3>1, <3>3
  <2>3. QED
    BY <2>1, <2>2
<1>12. CASE found = NoOne /\ lock.holder # NoOne /\ old.ago <= LostTimeout
  <2>0. l.holder = lock.holder /\ l.ago = old.ago
    BY <1>3
  <2>1. CASE DisplacesLost(l, cs)
    <3>1. lock' = Switched(l, Best(cs)) /\ cs # {} /\ l.ages[Key(Best(cs))] >= TargetAge
      BY <1>2, <1>12, <2>0, <2>1 DEF Select, DisplacesLost
    <3>2. QED
      BY <1>10, <3>1
  <2>2. CASE ~DisplacesLost(l, cs)
    <3>1. lock' = l
      BY <1>2, <1>12, <2>0, <2>2 DEF Select
    <3>2. LockInv'
      BY <1>1, <1>3, <1>5, <1>9, <3>1 DEF LockWhole
    <3>3. QED
      BY <1>3, <3>1, <3>2
  <2>3. QED
    BY <2>1, <2>2
<1>13. CASE found = NoOne /\ ~(lock.holder # NoOne /\ old.ago <= LostTimeout)
  <2>0. l.holder = lock.holder /\ l.ago = old.ago
    BY <1>3
  <2>1. lock' = IF cs = {} THEN Unlocked(l) ELSE Switched(l, Best(cs))
    BY <1>2, <1>13, <2>0 DEF Select
  <2>2. lock.holder = NoOne \/ lock.ago + dt > LostTimeout
    BY <1>0, <1>1, <1>5, <1>13
  <2>3. CASE cs = {}
    <3>1. lock' = [holder |-> NoOne, id |-> Me, ago |-> 0, ages |-> l.ages]
      BY <1>3, <2>1, <2>3 DEF Unlocked
    <3>2. LockInv'
      BY <1>0, <1>9, <3>1 DEF LockWhole, Keys
    <3>3. QED
      BY <2>2, <3>1, <3>2
  <2>4. CASE cs # {}
    BY <1>10, <2>1, <2>2, <2>4
  <2>5. QED
    BY <2>3, <2>4
<1>14. QED
  BY <1>11, <1>12, <1>13

LEMMA LockInvKept == LockInv /\ [LockNext]_lockVars => LockInv'
<1> SUFFICES ASSUME LockInv, [LockNext]_lockVars PROVE LockInv'
  OBVIOUS
<1>1. CASE LockNext
  BY <1>1, LookFacts DEF LockNext
<1>2. CASE UNCHANGED lockVars
  BY <1>2 DEF lockVars, LockInv, LockTypeOK, LockWhole, AgesAreSteady
<1>3. QED
  BY <1>1, <1>2

(* For any number of tracks, places and times: as long as the target was   *)
(* seen within lost_timeout, the selector keeps it, or what can be taken   *)
(* for it, or goes to one that has been in view for target_age             *)
(* (VisualTargetLockSelector.select).                                      *)
THEOREM SwitchEarned == LockSpec => SwitchIsEarned
<1>1. ASSUME LockInv, [LockNext]_lockVars, lock.holder # NoOne, lock.ago + MaxPause <= LostTimeout
      PROVE  \/ lock'.holder = lock.holder /\ lock'.id = lock.id
             \/ TakenFor(lock'.holder, lock.holder) /\ lock'.id = lock.id
             \/ /\ lock'.holder # NoOne
                /\ lock'.id = Key(lock'.holder)
                /\ steady'[lock'.id] >= TargetAge
  <2>1. CASE UNCHANGED lockVars
    BY <2>1 DEF lockVars
  <2>2. ASSUME NEW f \in Frames, NEW dt \in 1..MaxPause, Look(f, dt)
        PROVE  ~(lock.ago + dt > LostTimeout)
    <3>1. lock.ago \in Nat /\ dt \in Nat /\ dt <= MaxPause /\ LostTimeout \in Nat /\ MaxPause \in Nat
      <4>1. LostTimeout \in Nat /\ MaxPause \in Nat
        BY ConstantsOfLock
      <4>2. lock.ago \in 0..(LostTimeout + 1)
        BY <1>1 DEF LockInv, LockTypeOK
      <4>3. QED
        BY <4>1, <4>2
    <3>2. QED
      BY <1>1, <3>1
  <2>3. QED
    BY <1>1, <2>1, <2>2, LookFacts DEF LockNext
<1>2. QED
  BY <1>1, LockInvInit, LockInvKept, PTL DEF LockSpec, SwitchIsEarned

-----------------------------------------------------------------------------
(* The shaper knows whether there is a lock and on whom it was; and what it*)
(* has emitted of a loss is not older than that loss.                      *)
FeedTyped ==
    /\ shaper.subject \in Tracks \cup {0}
    /\ shaper.emitted \in [EventKinds -> [Tracks -> 0..Window]]
    /\ losses \in [Tracks -> [last : 0..Window, before : 0..Window]]

ShaperKnows ==
    /\ shaper.locked = LockedOn(lock)
    /\ LockedOn(lock) => shaper.subject = lock.holder.track
    /\ told.kind = "target_locked" => shaper.subject \in Tracks

LossesNoted == \A t \in Tracks : losses[t].last <= shaper.emitted["target_lost"][t]

FeedInv == LockInv /\ FeedTyped /\ ShaperKnows /\ LossesNoted /\ ConsumerKnowsLock

LEMMA FeedInvInit == FeedInit => FeedInv
<1> SUFFICES ASSUME FeedInit PROVE FeedInv
  OBVIOUS
<1>1. Window \in Nat /\ LockInv /\ ~LockedOn(lock)
  <2>1. LockInit
    BY DEF FeedInit
  <2>2. lock.holder = NoOne
    BY <2>1 DEF LockInit
  <2>3. QED
    BY <2>1, <2>2, FeedAssumption, LockInvInit DEF FeedAssumption, LockedOn
<1>2. shaper = [locked |-> FALSE, subject |-> 0,
                emitted |-> [kind \in EventKinds |-> [t \in Tracks |-> Window]]]
      /\ told.kind = "none" /\ losses = [t \in Tracks |-> [last |-> Window, before |-> Window]]
  BY DEF FeedInit, Nothing
<1>3. FeedTyped /\ LossesNoted
  BY <1>1, <1>2 DEF FeedTyped, LossesNoted, EventKinds
<1>4. ShaperKnows
  <2>1. shaper.locked = FALSE /\ told.kind # "target_locked"
    BY <1>2
  <2>2. QED
    BY <1>1, <2>1 DEF ShaperKnows, LockedOn
<1>5. ConsumerKnowsLock
  BY <1>1, <1>2 DEF ConsumerKnowsLock
<1>6. QED
  BY <1>1, <1>3, <1>4, <1>5 DEF FeedInv

LEMMA FeedStep ==
    ASSUME FeedInv, NEW f \in Frames, NEW dt \in 1..MaxPause, FeedLook(f, dt)
    PROVE  FeedInv'
<1> DEFINE e == TargetEvent(lock')
           passes == e # Nothing /\ AllowEmit(e, dt)
<1>0. /\ Window \in Nat /\ dt \in Nat /\ {"target_locked", "target_lost"} = EventKinds
      /\ Tracks \subseteq Nat \ {0}
  BY FeedAssumption, ConstantsOfLock DEF FeedAssumption, EventKinds
<1>1. LockInv' /\ Look(f, dt)
  BY LookFacts DEF FeedInv, FeedLook
<1>2. /\ shaper' = [locked  |-> LockedOn(lock'),
                    subject |-> IF LockedOn(lock') THEN lock'.holder.track ELSE shaper.subject,
                    emitted |-> [kind \in EventKinds |-> [t \in Tracks |->
                        IF passes /\ e = [kind |-> kind, track |-> t] THEN 0
                        ELSE Capped(shaper.emitted[kind][t] + dt, Window)]]]
      /\ told' = IF passes THEN e ELSE told
      /\ losses' = [t \in Tracks |->
                    IF t = lock.holder.track /\ lock'.holder = NoOne
                    THEN [last |-> 0, before |-> Capped(losses[t].last + dt, Window)]
                    ELSE [losses[t] EXCEPT !.last = Capped(@ + dt, Window)]]
  BY DEF FeedLook, Shape
<1>3. /\ lock.holder \in Candidate \cup {NoOne} /\ lock'.holder \in Candidate \cup {NoOne}
      /\ \A c \in Candidate : c.track \in Tracks /\ c # NoOne
  BY <1>1, CandidateFacts DEF FeedInv, LockInv, LockTypeOK
<1>4. NoOne.track = 0 /\ 0 \notin Tracks /\ Nothing.kind = "none"
  BY <1>0 DEF NoOne, Nothing
<1>5. /\ LockedOn(lock') => e = [kind |-> "target_locked", track |-> lock'.holder.track]
      /\ ~LockedOn(lock') /\ LockedOn(lock) => e = [kind |-> "target_lost", track |-> lock.holder.track]
      /\ ~LockedOn(lock') /\ ~LockedOn(lock) => e = Nothing
  BY DEF TargetEvent, FeedInv, ShaperKnows
<1>6. /\ LockedOn(lock) <=> lock.holder \in Candidate
      /\ LockedOn(lock') <=> lock'.holder \in Candidate
      /\ LockedOn(lock) <=> lock.holder.track \in Tracks
  BY <1>3, <1>4 DEF LockedOn
<1> HIDE DEF e, passes
<1>7. /\ \A kind \in EventKinds, t \in Tracks :
            /\ shaper.emitted[kind][t] \in 0..Window
            /\ shaper'.emitted[kind][t] = IF passes /\ e = [kind |-> kind, track |-> t] THEN 0
                                          ELSE Capped(shaper.emitted[kind][t] + dt, Window)
      /\ \A t \in Tracks : losses[t] \in [last : 0..Window, before : 0..Window]
  BY <1>2 DEF FeedInv, FeedTyped
<1>8. \A n \in 0..Window : /\ Capped(n + dt, Window) \in 0..Window
                           /\ n + dt < Window => Capped(n + dt, Window) < Window
                           /\ \A m \in 0..Window : m <= n => Capped(m + dt, Window) <= Capped(n + dt, Window)
                                                            /\ m + dt <= n + dt
  BY <1>0 DEF Capped
<1>9. FeedTyped'
  <2>1. shaper'.subject \in Tracks \cup {0}
    BY <1>2, <1>3, <1>6 DEF FeedInv, FeedTyped
  <2>2. shaper'.emitted \in [EventKinds -> [Tracks -> 0..Window]]
    <3>1. \A kind \in EventKinds, t \in Tracks :
             (IF passes /\ e = [kind |-> kind, track |-> t] THEN 0
              ELSE Capped(shaper.emitted[kind][t] + dt, Window)) \in 0..Window
      <4>1. \A kind \in EventKinds, t \in Tracks : Capped(shaper.emitted[kind][t] + dt, Window) \in 0..Window
        BY <1>7, <1>8
      <4>2. 0 \in 0..Window
        BY <1>0
      <4>3. ASSUME NEW kind \in EventKinds, NEW t \in Tracks
            PROVE  (IF passes /\ e = [kind |-> kind, track |-> t] THEN 0
                    ELSE Capped(shaper.emitted[kind][t] + dt, Window)) \in 0..Window
        <5>1. CASE passes /\ e = [kind |-> kind, track |-> t]
          BY <4>2, <5>1
        <5>2. CASE ~ (passes /\ e = [kind |-> kind, track |-> t])
          BY <4>1, <5>2
        <5>3. QED
          BY <5>1, <5>2
      <4>4. QED
        BY <4>3
    <3>2. QED
      BY <1>2, <3>1
  <2>3. losses' \in [Tracks -> [last : 0..Window, before : 0..Window]]
    <3>1. \A t \in Tracks : /\ losses[t] \in [last : 0..Window, before : 0..Window]
                            /\ Capped(losses[t].last + dt, Window) \in 0..Window
      BY <1>7, <1>8
    <3>2. QED
      BY <1>0, <1>2, <3>1
  <2>4. QED
    BY <2>1, <2>2, <2>3 DEF FeedTyped
<1>10. ShaperKnows'
  <2>1. shaper'.locked = LockedOn(lock') /\ (LockedOn(lock') => shaper'.subject = lock'.holder.track)
    BY <1>2
  <2>2. ASSUME told'.kind = "target_locked"
        PROVE  shaper'.subject \in Tracks
    <3>1. CASE LockedOn(lock')
      BY <1>3, <1>6, <2>1, <3>1
    <3>2. CASE ~LockedOn(lock')
      <4>1. told' = told
        BY <1>2, <1>4, <1>5, <2>2, <3>2
      <4>2. QED
        BY <1>2, <2>2, <3>2, <4>1 DEF FeedInv, ShaperKnows
    <3>3. QED
      BY <3>1, <3>2
  <2>3. QED
    BY <2>1, <2>2 DEF ShaperKnows, LockedOn
<1>11. LossesNoted'
  <2> SUFFICES ASSUME NEW t \in Tracks
               PROVE  losses'[t].last <= shaper'.emitted["target_lost"][t]
    BY DEF LossesNoted
  <2>0. shaper'.emitted["target_lost"][t] \in 0..Window
    BY <1>0, <1>9 DEF FeedTyped
  <2>1. CASE t = lock.holder.track /\ lock'.holder = NoOne
    BY <1>0, <1>2, <2>0, <2>1
  <2>2. CASE ~(t = lock.holder.track /\ lock'.holder = NoOne)
    <3>1. losses'[t].last = Capped(losses[t].last + dt, Window) /\ losses[t].last \in 0..Window
      BY <1>2, <1>7, <2>2
    <3>2. ~(e = [kind |-> "target_lost", track |-> t])
      BY <1>4, <1>5, <1>6, <2>2 DEF LockedOn, Nothing
    <3>3. shaper'.emitted["target_lost"][t] = Capped(shaper.emitted["target_lost"][t] + dt, Window)
      BY <1>0, <1>7, <3>2
    <3>4. QED
      BY <1>0, <1>7, <1>8, <3>1, <3>3 DEF FeedInv, LossesNoted
  <2>3. QED
    BY <2>1, <2>2
<1>12. ConsumerKnowsLock'
  <2>1. ASSUME LockedOn(lock')
        PROVE  \/ told' = [kind |-> "target_locked", track |-> lock'.holder.track]
               \/ shaper'.emitted["target_locked"][lock'.holder.track] < Window
    <3>1. e = [kind |-> "target_locked", track |-> lock'.holder.track] /\ lock'.holder.track \in Tracks
          /\ e # Nothing
      BY <1>3, <1>5, <1>6, <2>1 DEF Nothing
    <3>2. CASE passes
      BY <1>2, <3>1, <3>2
    <3>3. CASE ~passes
      <4>1. shaper.emitted["target_locked"][lock'.holder.track] + dt < Window
        <5>1. ~(shaper.emitted["target_locked"][lock'.holder.track] + dt >= Window)
          <6>1. ~AllowEmit(e, dt)
            BY <3>1, <3>3 DEF passes
          <6>2. e.kind = "target_locked" /\ e.track = lock'.holder.track
            BY <3>1
          <6>3. QED
            BY <6>1, <6>2 DEF AllowEmit
        <5>2. shaper.emitted["target_locked"][lock'.holder.track] \in 0..Window
          BY <1>0, <1>7, <3>1
        <5>3. QED
          BY <1>0, <5>1, <5>2
      <4>2. QED
        BY <1>0, <1>7, <1>8, <3>1, <3>3, <4>1
    <3>4. QED
      BY <3>2, <3>3
  <2>2. ASSUME ~LockedOn(lock'), told'.kind = "target_locked"
        PROVE  losses'[shaper'.subject].before < Window
    <3>1. told' = told /\ ~passes /\ shaper'.subject = shaper.subject
      BY <1>2, <1>4, <1>5, <2>2
    <3>2. shaper.subject \in Tracks /\ lock'.holder = NoOne
      BY <2>2, <3>1 DEF FeedInv, ShaperKnows, LockedOn
    <3>3. CASE LockedOn(lock)
      <4>1. e = [kind |-> "target_lost", track |-> shaper.subject] /\ e # Nothing /\ shaper.subject = lock.holder.track
        BY <1>5, <2>2, <3>3 DEF Nothing, FeedInv, ShaperKnows
      <4>0. shaper.emitted["target_lost"][shaper.subject] \in 0..Window
        BY <1>0, <1>7, <3>2
      <4>2. shaper.emitted["target_lost"][shaper.subject] + dt < Window
        <5>1. ~(shaper.emitted["target_lost"][shaper.subject] + dt >= Window)
          <6>1. ~AllowEmit(e, dt)
            BY <3>1, <4>1 DEF passes
          <6>2. e.kind = "target_lost" /\ e.track = shaper.subject
            BY <4>1
          <6>3. QED
            BY <6>1, <6>2 DEF AllowEmit
        <5>2. QED
          BY <1>0, <4>0, <5>1
      <4>3. losses'[shaper.subject].before = Capped(losses[shaper.subject].last + dt, Window)
        BY <1>2, <3>2, <4>1
      <4>4. losses[shaper.subject].last <= shaper.emitted["target_lost"][shaper.subject]
            /\ losses[shaper.subject].last \in 0..Window
        BY <1>7, <3>2 DEF FeedInv, LossesNoted
      <4>5. losses[shaper.subject].last + dt < Window
        BY <1>0, <4>0, <4>2, <4>4
      <4>6. QED
        BY <1>8, <3>1, <4>3, <4>4, <4>5
    <3>4. CASE ~LockedOn(lock)
      <4>1. losses'[shaper.subject].before = losses[shaper.subject].before
        BY <1>2, <1>6, <1>7, <3>2, <3>4
      <4>2. QED
        BY <2>2, <3>1, <3>4, <4>1 DEF FeedInv, ConsumerKnowsLock
    <3>5. QED
      BY <3>3, <3>4
  <2>3. QED
    BY <2>1, <2>2 DEF ConsumerKnowsLock, LockedOn
<1>13. QED
  BY <1>1, <1>9, <1>10, <1>11, <1>12 DEF FeedInv

(* For any number of tracks and any windows: though events are dropped, a  *)
(* consumer's last event agrees with the lock, but for a loss that comes   *)
(* within the dedupe window of another of that track                       *)
(* (VisionEventShaper.shape).                                              *)
THEOREM ConsumerKnows == FeedSpec => []ConsumerKnowsLock
<1>1. FeedInv /\ [FeedNext]_feedVars => FeedInv'
  <2> SUFFICES ASSUME FeedInv, [FeedNext]_feedVars PROVE FeedInv'
    OBVIOUS
  <2>1. CASE FeedNext
    BY <2>1, FeedStep DEF FeedNext
  <2>2. CASE UNCHANGED feedVars
    BY <2>2 DEF feedVars, FeedInv, LockInv, LockTypeOK, LockWhole, AgesAreSteady, FeedTyped, ShaperKnows, LockedOn,
                LossesNoted, ConsumerKnowsLock
  <2>3. QED
    BY <2>1, <2>2
<1>2. FeedInv => ConsumerKnowsLock
  BY DEF FeedInv
<1>3. QED
  BY <1>1, <1>2, FeedInvInit, PTL DEF FeedSpec
=============================================================================
