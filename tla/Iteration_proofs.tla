-------------------------- MODULE Iteration_proofs ---------------------------
(***************************************************************************)
(* Theorems about one iteration of the voice loop: its speech (Speech) and *)
(* its memory (MemoryLoop), for any number of replies, stops, rounds and   *)
(* calls.                                                                  *)
(*                                                                         *)
(* What the mouth's busy means depends on where the two threads are.  A    *)
(* stop that failed writes back a busy it read before, whatever happened   *)
(* since, and spoils the mouth's word with it; a stop that worked brings a *)
(* busy of FALSE with it.  So once a reply has noted its end, or its driver*)
(* has raised, a busy mouth has been spoilt.                               *)
(***************************************************************************)
EXTENDS Speech, MemoryLoop, Numbers, SequenceTheorems, TLAPS

StopCarriesBusy == stop.pc = "record" /\ stop.busy => stop.result # "ok"

BusyAfterEnd == loop \in {"idle", "leave", "raised"} /\ mouth.busy => spoilt

IInv == TypeOK /\ GateCoversReply /\ StopCarriesBusy /\ BusyAfterEnd

LEMMA InitHolds == Init => IInv
<1> SUFFICES ASSUME Init PROVE IInv
  OBVIOUS
<1>1. TypeOK
  <2>1. replies \in 0..MaxReplies /\ stops \in 0..MaxStops
    BY SpeechAssumption DEF SpeechAssumption, Init
  <2>2. stop \in [pc : {"idle", "read", "record", "answer"}, call : {"interrupt", "barge_in"},
                  result : {"ok", "failed", "raised"}, busy : BOOLEAN]
    BY DEF Init
  <2> QED BY <2>1, <2>2 DEF Init, TypeOK
<1>2. GateCoversReply /\ StopCarriesBusy /\ BusyAfterEnd
  BY DEF Init, GateCoversReply, Dispatching, StopCarriesBusy, BusyAfterEnd
<1> QED BY <1>1, <1>2 DEF IInv

LEMMA StepHolds == IInv /\ [Next]_vars => IInv'
<1> SUFFICES ASSUME IInv, [Next]_vars PROVE IInv'
  OBVIOUS
<1> USE SpeechAssumption DEF SpeechAssumption, IInv, TypeOK, GateCoversReply, Dispatching, StopCarriesBusy,
                             BusyAfterEnd
<1>1. CASE Begin
  <2>1. replies' \in 0..MaxReplies
    BY <1>1 DEF Begin
  <2> QED BY <1>1, <2>1, ZenonT(60) DEF Begin
<1>2. CASE MouthStart
  BY <1>2 DEF MouthStart
<1>3. CASE DriverPlays
  BY <1>3 DEF DriverPlays
<1>4. CASE DriverFails
  <2>1. CASE loop' = "failed" /\ spoilt' = spoilt
    BY <1>4, <2>1 DEF DriverFails
  <2>2. CASE loop' = "raised" /\ spoilt' = TRUE
    BY <1>4, <2>2 DEF DriverFails
  <2> QED BY <1>4, <2>1, <2>2 DEF DriverFails
<1>5. CASE DriverReturns
  BY <1>5 DEF DriverReturns
<1>6. CASE MouthDone
  BY <1>6, ZenonT(30) DEF MouthDone
<1>7. CASE Leave
  BY <1>7 DEF Leave
<1>8. CASE OrphanEnds
  BY <1>8 DEF OrphanEnds
<1>9. CASE TailEnds
  BY <1>9 DEF TailEnds
<1>10. ASSUME NEW c \in {"interrupt", "barge_in"}, NEW result \in {"ok", "failed", "raised"},
              DriverStops(c, result)
       PROVE  IInv'
  BY <1>10 DEF DriverStops
<1>11. CASE MouthReads
  <2>1. /\ stop' \in [pc : {"record"}, call : {"interrupt", "barge_in"},
                      result : {"ok", "failed", "raised"}, busy : BOOLEAN]
        /\ stop'.busy => stop'.result # "ok"
    BY <1>11 DEF MouthReads
  <2> QED BY <1>11, <2>1 DEF MouthReads
<1>12. CASE MouthStopped
  BY <1>12 DEF MouthStopped
<1>13. CASE Interrupted
  <2>1. /\ stop' \in [pc : {"idle"}, call : {"interrupt", "barge_in"},
                      result : {"ok", "failed", "raised"}, busy : BOOLEAN]
        /\ UNCHANGED <<player, mouth, loop, replies, stops, spoilt>>
    BY <1>13 DEF Interrupted
  <2>2. \/ gate' = "open" /\ cleared' = TRUE
        \/ gate' = gate /\ cleared' = cleared
    BY <1>13 DEF Interrupted
  <2>3. CASE gate' = "open" /\ cleared' = TRUE
    BY <2>1, <2>3
  <2>4. CASE gate' = gate /\ cleared' = cleared
    BY <2>1, <2>4
  <2> QED BY <2>2, <2>3, <2>4
<1>14. CASE BargedIn
  BY <1>14 DEF BargedIn
<1>15. CASE UNCHANGED vars
  BY <1>15 DEF vars
<1> QED
  BY <1>1, <1>2, <1>3, <1>4, <1>5, <1>6, <1>7, <1>8, <1>9, <1>10, <1>11, <1>12, <1>13,
     <1>14, <1>15 DEF Next, Reply, Stop, Done

(* Every reachable state is well formed.                                   *)
THEOREM TypeCorrect == Spec => []TypeOK
<1>1. IInv => TypeOK
  BY DEF IInv
<1> QED BY <1>1, InitHolds, StepHolds, PTL DEF Spec

(* However a reply ends, and however many stops come at whatever moment:   *)
(* only a stop that says that it worked takes the gate from a reply that is*)
(* being dispatched (dispatch_actions, request_voice_interrupt).           *)
THEOREM GateCovers == Spec => []GateCoversReply
<1>1. IInv => GateCoversReply
  BY DEF IInv
<1> QED BY <1>1, InitHolds, StepHolds, PTL DEF Spec

(* A mouth that says that it is busy when nothing is under way has been    *)
(* left like that by a driver that raised or by a stop that failed         *)
(* (MouthOrgan.handle_action).                                             *)
THEOREM BusyHasACause == Spec => []BusyAtRestHasACause
<1>1. IInv => BusyAtRestHasACause
  BY DEF IInv, BusyAfterEnd, BusyAtRestHasACause, Dispatching
<1> QED BY <1>1, InitHolds, StepHolds, PTL DEF Spec

-----------------------------------------------------------------------------
(* Memory: whoever is past the check of decide() has a round that it found *)
(* live, and what a trace calls "ok" was stored when the item was written. *)

ThreadWhole ==
    thread = [pc |-> thread.pc, round |-> thread.round, said |-> thread.said, at |-> thread.at]

(* What the server has stored, and where the loop is, are well formed; the *)
(* rest of the types is not needed.                                        *)
ThreadTyped ==
    /\ ThreadWhole
    /\ stored \in [Rounds -> [Names \cup {"direct"} -> Nat]]
    /\ items = [r \in Rounds |-> items[r]]

(* Whoever is past the check of decide() has a round that it found live.   *)
PastTheCheck ==
    thread.pc \in {"decided", "committing", "committed"} => thread.round \in checked

MemoryInv == ThreadTyped /\ PastTheCheck /\ OkItemsAreStored

(* Before the first round nothing is written.                              *)
LEMMA MemoryInvHolds == MemoryInit => MemoryInv
<1> SUFFICES ASSUME MemoryInit PROVE MemoryInv
  OBVIOUS
<1>1. ThreadTyped
  <2>1. items = [r \in Rounds |-> items[r]]
    BY DEF MemoryInit
  <2>2. ThreadWhole
    BY DEF MemoryInit, Idle, ThreadWhole
  <2>3. stored \in [Rounds -> [Names \cup {"direct"} -> Nat]]
    BY DEF MemoryInit
  <2>4. QED
    BY <2>1, <2>2, <2>3 DEF ThreadTyped
<1>2. PastTheCheck /\ OkItemsAreStored
  BY DEF MemoryInit, PastTheCheck, OkItemsAreStored, Idle
<1>3. QED
  BY <1>1, <1>2 DEF MemoryInv

(* An outcome stores or does not; what is reported "ok" is stored.         *)
LEMMA OkIsStored ==
    \A outcome \in Outcomes :
        /\ outcome.store \in {0, 1}
        /\ outcome.report = "ok" => outcome.store = 1
  BY DEF Outcomes

(* The steps that write nothing.                                           *)
LEMMA SilentKeeps ==
    ASSUME MemoryInv, UNCHANGED <<items, stored>>, checked \subseteq checked',
           ThreadWhole', PastTheCheck'
    PROVE  MemoryInv'
  BY DEF MemoryInv, ThreadTyped, OkItemsAreStored

(* A commit writes for its own round, notes what was reported, and an "ok" *)
(* only with the write.                                                    *)
LEMMA CommitKeeps ==
    ASSUME MemoryInv, NEW outcome \in Outcomes, CommitWriteback(outcome)
    PROVE  MemoryInv'
<1> DEFINE c == cands[thread.round][thread.at]
<1>1. /\ stored' = [stored EXCEPT ![thread.round][c.name] = @ + outcome.store]
      /\ \E status : /\ items' = [items EXCEPT ![thread.round] = @ \cup {<<c.name, status>>}]
                     /\ status = "ok" => outcome.report = "ok"
      /\ thread' = [thread EXCEPT !.at = @ + 1]
      /\ UNCHANGED checked
  <2>1. CASE outcome.report = "raised"
    <3>1. "error" # "ok" /\ items' = [items EXCEPT ![thread.round] = @ \cup {<<c.name, "error">>}]
      BY <2>1 DEF CommitWriteback, Commit, Note
    <3>2. QED
      BY <3>1, <2>1 DEF CommitWriteback, Commit, Advance
  <2>2. CASE outcome.report # "raised"
    BY <2>2 DEF CommitWriteback, Commit, Note, Advance
  <2>3. QED
    BY <2>1, <2>2
<1> HIDE DEF c
<1>2. PICK status : /\ items' = [items EXCEPT ![thread.round] = @ \cup {<<c.name, status>>}]
                    /\ status = "ok" => outcome.report = "ok"
  BY <1>1
<1>3. stored \in [Rounds -> [Names \cup {"direct"} -> Nat]] /\ outcome.store \in {0, 1}
  BY OkIsStored DEF MemoryInv, ThreadTyped
<1>4. stored' \in [Rounds -> [Names \cup {"direct"} -> Nat]]
  <2> DEFINE row == [stored[thread.round] EXCEPT ![c.name] = @ + outcome.store]
  <2>1. stored' = [stored EXCEPT ![thread.round] = row]
    BY <1>1
  <2>2. ASSUME thread.round \in Rounds
        PROVE  row \in [Names \cup {"direct"} -> Nat]
    <3>1. stored[thread.round] \in [Names \cup {"direct"} -> Nat]
      BY <1>3, <2>2
    <3>2. \A k \in Nat : k + outcome.store \in Nat
      BY <1>3
    <3>3. QED
      BY <3>1, <3>2
  <2> HIDE DEF row
  <2>3. QED
    BY <1>3, <2>1, <2>2
<1>5. \A r \in Rounds, n \in Names :
          /\ stored'[r][n] >= stored[r][n]
          /\ r = thread.round /\ n = c.name => stored'[r][n] = stored[r][n] + outcome.store
  BY <1>1, <1>3
<1>6. ThreadTyped'
  BY <1>1, <1>2, <1>4 DEF MemoryInv, ThreadTyped, ThreadWhole
<1>7. PastTheCheck'
  BY <1>1 DEF MemoryInv, ThreadTyped, ThreadWhole, PastTheCheck
<1>8. ASSUME NEW r \in Rounds, NEW n \in Names, <<n, "ok">> \in items'[r]
      PROVE  stored'[r][n] > 0
  <2>1. stored[r][n] \in Nat
    BY <1>3
  <2>2. CASE <<n, "ok">> \in items[r]
    <3>1. stored[r][n] > 0 /\ stored'[r][n] >= stored[r][n] /\ stored'[r][n] \in Nat
      BY <1>4, <1>5, <2>2 DEF MemoryInv, OkItemsAreStored
    <3>2. QED
      BY <2>1, <3>1
  <2>3. CASE <<n, "ok">> \notin items[r]
    <3>1. r = thread.round /\ <<n, "ok">> = <<c.name, status>>
      BY <1>2, <1>8, <2>3 DEF MemoryInv, ThreadTyped
    <3>2. outcome.store = 1
      BY <1>2, <3>1, OkIsStored
    <3>3. QED
      BY <1>5, <2>1, <3>1, <3>2
  <2>4. QED
    BY <2>2, <2>3
<1>9. QED
  BY <1>6, <1>7, <1>8 DEF MemoryInv, OkItemsAreStored

(* The direct write is of no proposal.                                     *)
LEMMA DirectKeeps ==
    ASSUME MemoryInv, NEW accepted \in BOOLEAN, NEW outcome \in Outcomes,
           HandleObservation(accepted, outcome)
    PROVE  /\ MemoryInv'
           /\ \A r \in Rounds, n \in Names : stored'[r][n] = stored[r][n]
<1>1. stored \in [Rounds -> [Names \cup {"direct"} -> Nat]] /\ outcome.store \in {0, 1}
      /\ "direct" \notin Names
  BY OkIsStored DEF MemoryInv, ThreadTyped, Names
<1>2. stored' \in [Rounds -> [Names \cup {"direct"} -> Nat]]
      /\ \A r \in Rounds, n \in Names : stored'[r][n] = stored[r][n]
  <2> DEFINE row == [stored[thread.round] EXCEPT !["direct"] = @ + outcome.store]
  <2>1. CASE stored' = stored
    BY <1>1, <2>1
  <2>2. CASE stored' = [stored EXCEPT ![thread.round] = row]
    <3>1. ASSUME thread.round \in Rounds
          PROVE  /\ row \in [Names \cup {"direct"} -> Nat]
                 /\ \A n \in Names : row[n] = stored[thread.round][n]
      BY <1>1, <3>1
    <3> HIDE DEF row
    <3>2. QED
      BY <1>1, <2>2, <3>1
  <2>3. QED
    BY <2>1, <2>2 DEF HandleObservation
<1>3. ThreadWhole'
      /\ thread'.pc \in {"idle", "thought"}
      /\ UNCHANGED <<items, checked>>
  BY DEF ThreadWhole, HandleObservation, Goto, Idle, MemoryInv, ThreadTyped
<1>4. QED
  BY <1>2, <1>3 DEF MemoryInv, ThreadTyped, PastTheCheck, OkItemsAreStored

(* Every other step writes nothing, and a round is taken beyond the check  *)
(* by the check only.                                                      *)
Wordless ==
    \/ StartRound \/ Interrupt \/ DecideCheck \/ PassOver \/ TurnDown \/ CommitEnds
    \/ RecordReplyUsage \/ ObservePartial \/ CommitMemoryCandidates
    \/ \E said \in DOMAIN Utterances : FinalizeAsr(said) \/ DecideAgain(said)
    \/ \E policy \in Policies : AutoCommit(policy) \/ BuildProposal(policy)

LEMMA WordlessKeeps ==
    ASSUME MemoryInv, Wordless
    PROVE  MemoryInv' /\ stored' = stored
<1>0. ThreadTyped /\ PastTheCheck
  BY DEF MemoryInv, ThreadTyped
<1>1. UNCHANGED <<items, stored>> /\ checked \subseteq checked'
  BY DEF Wordless, StartRound, Interrupt, DecideCheck, PassOver, TurnDown, CommitEnds,
         RecordReplyUsage, ObservePartial, CommitMemoryCandidates, FinalizeAsr, DecideAgain,
         AutoCommit, BuildProposal, Outside
<1>3. ThreadWhole' /\ PastTheCheck'
  <2>1. CASE StartRound \/ Interrupt \/ ObservePartial \/ CommitMemoryCandidates
    BY <1>0, <2>1 DEF StartRound, Interrupt, ObservePartial, CommitMemoryCandidates, Outside, Idle,
                      ThreadTyped, ThreadWhole, PastTheCheck
  <2>2. CASE DecideCheck \/ RecordReplyUsage
    BY <1>0, <2>2 DEF DecideCheck, RecordReplyUsage, Goto, Idle, ThreadTyped, ThreadWhole, PastTheCheck
  <2>3. CASE PassOver \/ TurnDown
    BY <1>0, <2>3 DEF PassOver, TurnDown, Advance, ThreadTyped, ThreadWhole, PastTheCheck
  <2>4. CASE CommitEnds
    BY <1>0, <2>4 DEF CommitEnds, Goto, Idle, ThreadTyped, ThreadWhole, PastTheCheck
  <2>5. ASSUME NEW said \in DOMAIN Utterances, FinalizeAsr(said) \/ DecideAgain(said)
        PROVE  ThreadWhole' /\ PastTheCheck'
    <3>1. CASE FinalizeAsr(said)
      <4>1. \/ thread' = [thread EXCEPT !.pc = "heard", !.said = said]
            \/ thread' = Idle
        BY <3>1 DEF FinalizeAsr
      <4>2. ThreadWhole
        BY <1>0 DEF ThreadTyped
      <4>3. ThreadWhole' /\ thread'.pc \in {"heard", "idle"}
        <5>1. CASE thread' = Idle
          BY <5>1 DEF Idle, ThreadWhole
        <5>2. ASSUME NEW words, thread' = [thread EXCEPT !.pc = "heard", !.said = words]
              PROVE  ThreadWhole' /\ thread'.pc = "heard"
          BY <4>2, <5>2, Zenon DEF ThreadWhole
        <5>3. QED
          BY <4>1, <5>1, <5>2
      <4>4. QED
        BY <4>3 DEF PastTheCheck
    <3>2. CASE DecideAgain(said)
      BY <1>0, <3>2 DEF DecideAgain, Outside, Idle, ThreadTyped, ThreadWhole, PastTheCheck
    <3>3. QED
      BY <2>5, <3>1, <3>2
  <2>6. ASSUME NEW policy \in Policies, AutoCommit(policy) \/ BuildProposal(policy)
        PROVE  ThreadWhole' /\ PastTheCheck'
    BY <1>0, <2>6 DEF AutoCommit, BuildProposal, Outside, Goto, ThreadTyped, ThreadWhole, PastTheCheck
  <2>7. QED
    BY <2>1, <2>2, <2>3, <2>4, <2>5, <2>6 DEF Wordless
<1>4. QED
  BY <1>1, <1>3, SilentKeeps

(* A step is wordless, the direct write, or a commit.                      *)
LEMMA StepsOfMemory ==
    ASSUME MemoryNext
    PROVE  \/ Wordless
           \/ \E accepted \in BOOLEAN, outcome \in Outcomes : HandleObservation(accepted, outcome)
           \/ \E outcome \in Outcomes : CommitWriteback(outcome)
<1>1. {"accepted", "rejected"} \subseteq Policies
  BY DEF Policies
<1>2. QED
  BY <1>1 DEF MemoryNext, Iteration, Wordless

LEMMA MemoryInvKept == MemoryInv /\ [MemoryNext]_loopVars => MemoryInv'
<1> SUFFICES ASSUME MemoryInv, [MemoryNext]_loopVars PROVE MemoryInv'
  OBVIOUS
<1>1. CASE MemoryNext
  BY <1>1, StepsOfMemory, WordlessKeeps, DirectKeeps, CommitKeeps
<1>2. CASE UNCHANGED loopVars
  BY <1>2 DEF loopVars, MemoryInv, ThreadTyped, ThreadWhole, PastTheCheck, OkItemsAreStored
<1>3. QED
  BY <1>1, <1>2

(* For any number of rounds and calls, and any fate of every call: a trace *)
(* item says "ok" only of what the server has stored, although the status  *)
(* is read from the adapter afterwards (commit_candidates).                *)
THEOREM OkMeansStored == MemorySpec => []OkItemsAreStored
<1>1. MemoryInv => OkItemsAreStored
  BY DEF MemoryInv
<1>2. QED
  BY MemoryInvHolds, MemoryInvKept, <1>1, PTL DEF MemorySpec

(* The scheduler writes nothing for a round that was closed before decide()*)
(* looked at it, but what a caller's own commit had begun                  *)
(* (_auto_commit_decision_memory).                                         *)
THEOREM ClosedStaySilent == MemorySpec => ClosedRoundsStaySilent
<1>1. ASSUME MemoryInv, [MemoryNext]_loopVars,
             NEW r \in Rounds, NEW n \in Names, stored'[r][n] > stored[r][n]
      PROVE  r \in checked \/ live[r] \/ thread.pc = "retrying"
  <2>0. stored[r][n] \in Nat /\ stored \in [Rounds -> [Names \cup {"direct"} -> Nat]]
    BY <1>1 DEF MemoryInv, ThreadTyped
  <2>1. stored'[r][n] # stored[r][n]
    BY <1>1, <2>0
  <2>2. MemoryNext
    BY <1>1, <2>1 DEF loopVars
  <2>3. PICK outcome \in Outcomes : CommitWriteback(outcome)
    BY <1>1, <2>1, <2>2, StepsOfMemory, WordlessKeeps, DirectKeeps
  <2>4. thread.pc \in {"committing", "retrying"}
    BY <2>3 DEF CommitWriteback, Commit, Writing
  <2>5. r = thread.round
    BY <2>0, <2>1, <2>3 DEF CommitWriteback, Commit
  <2>6. QED
    BY <1>1, <2>4, <2>5 DEF MemoryInv, PastTheCheck
<1>2. MemoryInv /\ [MemoryNext]_loopVars =>
        [\A r \in Rounds, n \in Names :
          stored'[r][n] > stored[r][n] => r \in checked \/ live[r] \/ thread.pc = "retrying"]_loopVars
  BY <1>1
<1>3. QED
  BY MemoryInvHolds, MemoryInvKept, <1>2, PTL DEF MemorySpec, ClosedRoundsStaySilent

-----------------------------------------------------------------------------
(***************************************************************************)
(* MemoryLoop, continued: what is written, and how often.  A turn sends a  *)
(* proposal again as long as it is pending, so the invariant says for each *)
(* name that nothing pending has been stored but by writes that raised;    *)
(* that no second proposal of a name comes up, because the dialogue is     *)
(* proposed in the commit that closes the turn only, and no merge loses    *)
(* what a caller has noted; and that a pending dialogue is still ahead of  *)
(* the thread, or its write has raised.                                    *)
(***************************************************************************)

Cand == [kind : {"recall_request", "writeback_proposal"}, name : Names, status : Statuses,
         policy : Policies]

IsProposal(c) == c.kind = "writeback_proposal"

(* What a merge does to the candidates of a turn: it invents none, loses no*)
(* name, and leaves one of each.                                           *)
LEMMA MergeFacts ==
    ASSUME NEW seq \in Seq(Cand)
    PROVE  /\ Merge(seq) \in Seq(Cand)
           /\ \A n \in DOMAIN Merge(seq) : \E i \in DOMAIN seq : Merge(seq)[n] = seq[i]
           /\ \A i \in DOMAIN seq : \E n \in DOMAIN Merge(seq) : Merge(seq)[n].name = seq[i].name
           /\ \A n, m \in DOMAIN Merge(seq) : Merge(seq)[n].name = Merge(seq)[m].name => n = m
<1> DEFINE F == Firsts(seq)
           Rank(i) == Cardinality({j \in F : j <= i})
           at(n) == CHOOSE i \in F : Rank(i) = n
<1>1. F \subseteq DOMAIN seq /\ F \subseteq Nat /\ DOMAIN seq = 1..Len(seq) /\ Len(seq) \in Nat
  BY DEF Firsts
<1>2. IsFiniteSet(F) /\ Cardinality(F) \in Nat
  <2>1. IsFiniteSet(1..Len(seq))
    BY <1>1, FS_Interval
  <2>2. F \in SUBSET (1..Len(seq))
    BY <1>1
  <2>3. QED
    <3> HIDE DEF F
    <3> QED BY <2>1, <2>2, FS_Subset, FS_CardinalityType
<1>3. \A n \in 1..Cardinality(F) : at(n) \in F /\ Rank(at(n)) = n
  <2> HIDE DEF F
  <2> TAKE n \in 1..Cardinality(F)
  <2>1. \E i \in F : Rank(i) = n
    BY <1>1, <1>2, Ranked
  <2>2. QED
    BY <2>1
<1>4. Merge(seq) = [n \in 1..Cardinality(F) |-> seq[at(n)]]
  BY DEF Merge
<1>5. \A i, j \in F : seq[i].name = seq[j].name => i = j
  <2> SUFFICES ASSUME NEW i \in F, NEW j \in F, seq[i].name = seq[j].name PROVE i = j
    OBVIOUS
  <2>1. i \in DOMAIN seq /\ j \in DOMAIN seq /\ i <= j /\ j <= i
    BY DEF Firsts
  <2>2. QED
    BY <1>1, <2>1
<1>6. \A i \in DOMAIN seq : \E m \in F : seq[m].name = seq[i].name
  <2> TAKE i \in DOMAIN seq
  <2> DEFINE S == {j \in DOMAIN seq : seq[j].name = seq[i].name}
  <2>1. S \subseteq Nat /\ S # {}
    BY <1>1
  <2>2. PICK m \in S : \A k \in S : m <= k
    <3> HIDE DEF S
    <3> QED BY <2>1, LeastNumber
  <2>3. m \in F
    BY <2>2 DEF Firsts
  <2>4. QED
    BY <2>2, <2>3
<1>7. \A i \in F : Rank(i) \in 1..Cardinality(F) /\ at(Rank(i)) = i
  <2> HIDE DEF F
  <2> TAKE i \in F
  <2>1. {j \in F : j <= i} \in SUBSET F /\ i \in {j \in F : j <= i}
    BY <1>1
  <2>2. Rank(i) <= Cardinality(F) /\ Rank(i) \in Nat /\ Rank(i) # 0
    BY <1>2, <2>1, FS_Subset, FS_CardinalityType, FS_EmptySet
  <2>3. Rank(i) \in 1..Cardinality(F)
    BY <1>2, <2>2
  <2>4. ASSUME NEW k \in F, Rank(k) = Rank(i), k # i
        PROVE  FALSE
    <3>1. \A a, b \in F : a < b => Rank(a) # Rank(b)
      BY <1>1, <1>2, RanksDiffer
    <3>2. k < i \/ i < k
      BY <1>1, <2>4
    <3>3. QED
      BY <2>4, <3>1, <3>2
  <2>5. QED
    BY <2>3, <2>4
<1>8. Merge(seq) \in Seq(Cand) /\ DOMAIN Merge(seq) = 1..Cardinality(F)
  <2> HIDE DEF F, at
  <2>1. \A n \in 1..Cardinality(F) : seq[at(n)] \in Cand
    <3>1. \A i \in F : seq[i] \in Cand
      BY <1>1, ElementOfSeq
    <3>2. QED
      BY <1>3, <3>1
  <2>2. QED
    BY <1>2, <1>4, <2>1
<1>9. \A n \in 1..Cardinality(F) : Merge(seq)[n] = seq[at(n)]
  <2> HIDE DEF F, at
  <2> QED BY <1>4
<1> HIDE DEF F, at, Rank
<1>10. \A n \in DOMAIN Merge(seq) : \E i \in DOMAIN seq : Merge(seq)[n] = seq[i]
  BY <1>1, <1>3, <1>8, <1>9
<1>11. ASSUME NEW i \in DOMAIN seq
       PROVE  \E n \in DOMAIN Merge(seq) : Merge(seq)[n].name = seq[i].name
  <2>1. PICK m \in F : seq[m].name = seq[i].name
    BY <1>6
  <2>2. Rank(m) \in 1..Cardinality(F) /\ Merge(seq)[Rank(m)] = seq[m]
    BY <1>7, <1>9
  <2>3. QED
    BY <1>8, <2>1, <2>2
<1>12. ASSUME NEW n \in DOMAIN Merge(seq), NEW m \in DOMAIN Merge(seq),
              Merge(seq)[n].name = Merge(seq)[m].name
       PROVE  n = m
  <2>1. n \in 1..Cardinality(F) /\ m \in 1..Cardinality(F)
    BY <1>8
  <2>2. at(n) = at(m)
    BY <1>3, <1>5, <1>9, <1>12, <2>1
  <2>3. QED
    BY <1>3, <2>1, <2>2
<1>13. QED
  BY <1>8, <1>10, <1>11, <1>12

(* The thread commits what is pending of the round r.                      *)
CommitsNow(r) == thread.pc = "committing" /\ thread.round = r

PendingOf(r, n) == {i \in DOMAIN cands[r] : IsPending(cands[r][i]) /\ cands[r][i].name = n}

OnceTyped ==
    /\ ThreadWhole
    /\ thread.pc # "idle" => thread.round \in Rounds /\ thread.round <= current
    /\ thread.at \in Nat \ {0}
    /\ current \in 0..MaxRounds
    /\ cands \in [Rounds -> Seq(Cand)]
    /\ closedLoop \in [Rounds -> BOOLEAN]
    /\ stored \in [Rounds -> [Names \cup {"direct"} -> Nat]]
    /\ raised \in [Rounds -> [Names -> Nat]]

(* A round has one proposal of each name.                                  *)
OneProposal(r) ==
    \A i, j \in DOMAIN cands[r] :
        /\ IsProposal(cands[r][i]) /\ IsProposal(cands[r][j])
        /\ cands[r][i].name = cands[r][j].name
        => i = j

(* What may still be sent has been stored by writes that raised, only.     *)
NotYetStored(r) ==
    \A n \in Names :
        /\ stored[r][n] <= 1 + raised[r][n]
        /\ PendingOf(r, n) # {} => stored[r][n] <= raised[r][n]

(* What a caller has proposed stays in the turn.                           *)
CallerNoted(r) ==
    stored[r]["caller"] > 0 \/ raised[r]["caller"] > 0 =>
        \E i \in DOMAIN cands[r] : cands[r][i].name = "caller"

(* The dialogue is proposed in the only commit that closes the turn.       *)
TextProposed(r) ==
    \/ stored[r]["text"] > 0
    \/ \E i \in DOMAIN cands[r] : IsProposal(cands[r][i]) /\ cands[r][i].name = "text"
TextCloses(r) == TextProposed(r) => closedLoop[r] \/ CommitsNow(r)

(* It stays pending behind the thread only if its write raised.            *)
PendingAhead(r) ==
    \A i \in PendingOf(r, "text") :
        raised[r]["text"] > 0 \/ (CommitsNow(r) /\ thread.at <= i)

(* The policy has accepted or rejected the dialogue, never deferred it.    *)
TextDecided(r) ==
    \A i \in DOMAIN cands[r] : cands[r][i].name = "text" => cands[r][i].policy # "deferred"

(* The direct write is before the thread thinks, and in a new round.       *)
DirectOnce(r) ==
    /\ stored[r]["direct"] <= 1
    /\ stored[r]["direct"] > 0 => r <= current
    /\ thread.pc \in {"started", "heard"} => stored[thread.round]["direct"] = 0

OnceOf(r) ==
    /\ OneProposal(r) /\ NotYetStored(r) /\ CallerNoted(r)
    /\ TextCloses(r) /\ PendingAhead(r) /\ TextDecided(r) /\ DirectOnce(r)

OnceInv == OnceTyped /\ \A r \in Rounds : OnceOf(r)

LEMMA Typing ==
    ASSUME OnceTyped, NEW r \in Rounds
    PROVE  /\ cands[r] \in Seq(Cand) /\ DOMAIN cands[r] = 1..Len(cands[r]) /\ Len(cands[r]) \in Nat
           /\ \A i \in DOMAIN cands[r] : cands[r][i] \in Cand /\ i \in Nat
           /\ \A n \in Names : stored[r][n] \in Nat /\ raised[r][n] \in Nat
           /\ stored[r]["direct"] \in Nat /\ r \in Nat
<1>1. cands[r] \in Seq(Cand)
  BY DEF OnceTyped
<1>2. \A i \in DOMAIN cands[r] : cands[r][i] \in Cand /\ i \in Nat
  BY <1>1, ElementOfSeq
<1>3. QED
  BY <1>1, <1>2 DEF OnceTyped, Rounds

(* What leaves the candidates of a round and its writes alone, and the     *)
(* commit where it is.                                                     *)
Calm(r) ==
    /\ cands'[r] = cands[r] /\ closedLoop'[r] = closedLoop[r]
    /\ \A n \in Names : stored'[r][n] = stored[r][n] /\ raised'[r][n] = raised[r][n]

AboutWrites(r) ==
    /\ OneProposal(r) /\ NotYetStored(r) /\ CallerNoted(r)
    /\ TextCloses(r) /\ PendingAhead(r) /\ TextDecided(r)

LEMMA CalmKeeps ==
    ASSUME OnceTyped, NEW r \in Rounds, AboutWrites(r), Calm(r),
           CommitsNow(r) => CommitsNow(r)' /\ thread'.at = thread.at
    PROVE  AboutWrites(r)'
<1> "text" \in Names /\ "caller" \in Names
  BY DEF Names
<1>1. OneProposal(r)' /\ TextDecided(r)'
  BY DEF OneProposal, Calm, AboutWrites, TextDecided
<1>2. \A n \in Names : PendingOf(r, n)' = PendingOf(r, n)
  BY DEF PendingOf, Calm
<1>3. NotYetStored(r)'
  BY <1>2 DEF NotYetStored, Calm, AboutWrites
<1>4. CallerNoted(r)'
  BY DEF CallerNoted, Calm, AboutWrites
<1>5. TextCloses(r)'
  BY DEF TextCloses, TextProposed, Calm, AboutWrites
<1>6. PendingAhead(r)'
  BY <1>2 DEF PendingAhead, Calm, AboutWrites
<1>7. QED
  BY <1>1, <1>3, <1>4, <1>5, <1>6 DEF AboutWrites

(* A merge with a recall, while nothing of the round is being committed.   *)
LEMMA PrefetchKeeps ==
    ASSUME OnceTyped, NEW r \in Rounds, AboutWrites(r), ~CommitsNow(r),
           cands'[r] = Prefetched(cands[r]), closedLoop'[r] = closedLoop[r],
           stored'[r] = stored[r], raised'[r] = raised[r]
    PROVE  AboutWrites(r)' /\ Prefetched(cands[r]) \in Seq(Cand)
<1> DEFINE old == cands[r]
           seq == Append(old, Request)
           new == Merge(seq)
<1>0. "text" \in Names /\ "caller" \in Names
  BY DEF Names
<1>1. Request \in Cand /\ Request.kind = "recall_request" /\ ~IsPending(Request) /\ ~IsProposal(Request)
      /\ Request.policy # "deferred"
  BY DEF Request, Cand, Names, Statuses, Policies, IsPending, IsProposal
<1>2. old \in Seq(Cand) /\ DOMAIN old = 1..Len(old) /\ Len(old) \in Nat
  BY Typing
<1>3. /\ seq \in Seq(Cand) /\ DOMAIN seq = 1..Len(old) + 1
      /\ \A i \in DOMAIN seq : (i \in DOMAIN old /\ seq[i] = old[i]) \/ seq[i] = Request
      /\ \A i \in DOMAIN old : i \in DOMAIN seq /\ seq[i] = old[i]
  <2> HIDE DEF old
  <2> QED BY <1>1, <1>2
<1> HIDE DEF seq
<1>4. /\ new \in Seq(Cand)
      /\ \A n \in DOMAIN new : \E i \in DOMAIN seq : new[n] = seq[i]
      /\ \A i \in DOMAIN seq : \E n \in DOMAIN new : new[n].name = seq[i].name
      /\ \A n, m \in DOMAIN new : new[n].name = new[m].name => n = m
  BY <1>3, MergeFacts
<1>5. cands'[r] = new
  BY DEF Prefetched, seq
<1> HIDE DEF new
<1>6. \A n \in DOMAIN new : (\E i \in DOMAIN old : new[n] = old[i]) \/ new[n] = Request
  BY <1>3, <1>4
<1>7. ASSUME NEW i \in DOMAIN old
      PROVE  \E n \in DOMAIN new : new[n].name = old[i].name
  <2>1. i \in DOMAIN seq /\ seq[i] = old[i]
    BY <1>3
  <2>2. PICK n \in DOMAIN new : new[n].name = seq[i].name
    BY <1>4, <2>1
  <2>3. QED
    BY <2>1, <2>2
<1>8. OneProposal(r)'
  BY <1>4, <1>5 DEF OneProposal
<1>9. \A n \in Names : PendingOf(r, n)' # {} => PendingOf(r, n) # {}
  BY <1>1, <1>5, <1>6 DEF PendingOf
<1>10. NotYetStored(r)'
  BY <1>9 DEF NotYetStored, AboutWrites
<1>11. CallerNoted(r)'
  BY <1>5, <1>7 DEF CallerNoted, AboutWrites
<1>12. TextProposed(r)' => TextProposed(r)
  BY <1>1, <1>5, <1>6 DEF TextProposed
<1>13. TextCloses(r)'
  BY <1>12 DEF TextCloses, AboutWrites
<1>14. PendingAhead(r)'
  <2>1. PendingOf(r, "text") # {} => raised[r]["text"] > 0
    BY DEF PendingAhead, AboutWrites
  <2>2. QED
    BY <1>0, <1>9, <2>1 DEF PendingAhead
<1>15. TextDecided(r)'
  BY <1>1, <1>5, <1>6 DEF TextDecided, AboutWrites
<1>16. QED
  BY <1>4, <1>8, <1>10, <1>11, <1>13, <1>14, <1>15 DEF AboutWrites, Prefetched, new, seq

(* A new proposal, of a name that has none and was never written.          *)
LEMMA ProposalKeeps ==
    ASSUME OnceTyped, NEW r \in Rounds, AboutWrites(r), NEW name \in Names, NEW policy \in Policies,
           cands'[r] = Append(cands[r], Proposal(name, policy)), closedLoop'[r] = closedLoop[r],
           stored'[r] = stored[r], raised'[r] = raised[r],
           ~CommitsNow(r),
           \A i \in DOMAIN cands[r] : IsProposal(cands[r][i]) => cands[r][i].name # name,
           stored[r][name] = 0,
           name = "text" => policy # "deferred" /\ CommitsNow(r)' /\ thread'.at = 1
    PROVE  AboutWrites(r)' /\ Append(cands[r], Proposal(name, policy)) \in Seq(Cand)
<1> DEFINE old == cands[r]
           p == Proposal(name, policy)
           new == Append(old, p)
<1>0. "text" \in Names /\ "caller" \in Names
  BY DEF Names
<1>1. p \in Cand /\ IsProposal(p) /\ p.name = name /\ p.policy = policy
  BY DEF Proposal, Cand, Statuses, IsProposal
<1>2. old \in Seq(Cand) /\ DOMAIN old = 1..Len(old) /\ Len(old) \in Nat
  BY Typing
<1> HIDE DEF p
<1>3. /\ new \in Seq(Cand) /\ DOMAIN new = 1..Len(old) + 1
      /\ \A i \in DOMAIN new : (i \in DOMAIN old /\ new[i] = old[i]) \/ (i = Len(old) + 1 /\ new[i] = p)
      /\ \A i \in DOMAIN old : i \in DOMAIN new /\ new[i] = old[i]
      /\ \A i \in DOMAIN new : i \in Nat /\ i >= 1
  <2> HIDE DEF old
  <2>1. new \in Seq(Cand) /\ DOMAIN new = 1..Len(old) + 1
    BY <1>1, <1>2
  <2>2. \A i \in 1..Len(old) : new[i] = old[i]
    BY <1>1, <1>2
  <2>3. new[Len(old) + 1] = p
    BY <1>1, <1>2
  <2>4. \A i \in 1..Len(old) + 1 : i \in 1..Len(old) \/ i = Len(old) + 1
    BY <1>2
  <2> HIDE DEF new
  <2>5. \A i \in DOMAIN new : i \in Nat /\ i >= 1
    BY <1>2, <2>1
  <2>6. \A i \in DOMAIN old : i \in DOMAIN new
    BY <1>2, <2>1
  <2>7. \A i \in DOMAIN new : (i \in DOMAIN old /\ new[i] = old[i]) \/ (i = Len(old) + 1 /\ new[i] = p)
    <3> TAKE i \in DOMAIN new
    <3>1. CASE i \in 1..Len(old)
      <4>1. i \in DOMAIN old
        BY <1>2, <3>1
      <4>2. QED
        BY <2>2, <3>1, <4>1
    <3>2. CASE i = Len(old) + 1
      BY <2>3, <3>2
    <3>3. QED
      BY <2>1, <2>4, <3>1, <3>2
  <2>8. \A i \in DOMAIN old : new[i] = old[i]
    BY <1>2, <2>2
  <2>9. QED
    BY <2>1, <2>5, <2>6, <2>7, <2>8
<1>4. cands'[r] = new
  BY DEF p
<1> HIDE DEF new
<1>5. OneProposal(r)'
  <2> SUFFICES ASSUME NEW i \in DOMAIN new, NEW j \in DOMAIN new, IsProposal(new[i]), IsProposal(new[j]),
                      new[i].name = new[j].name
               PROVE  i = j
    BY <1>4 DEF OneProposal
  <2>1. CASE i \in DOMAIN old /\ j \in DOMAIN old
    BY <1>3, <2>1 DEF OneProposal, AboutWrites
  <2>2. CASE ~ (i \in DOMAIN old) /\ ~ (j \in DOMAIN old)
    BY <1>3, <2>2
  <2>3. QED
    BY <1>1, <1>3, <2>1, <2>2
<1>6. \A n \in Names : n # name => (PendingOf(r, n)' # {} => PendingOf(r, n) # {})
  BY <1>1, <1>3, <1>4 DEF PendingOf
<1>7. NotYetStored(r)'
  <2> SUFFICES ASSUME NEW n \in Names
               PROVE  /\ stored[r][n] <= 1 + raised[r][n]
                      /\ PendingOf(r, n)' # {} => stored[r][n] <= raised[r][n]
    BY DEF NotYetStored
  <2>1. stored[r][n] <= 1 + raised[r][n]
    BY DEF NotYetStored, AboutWrites
  <2>2. CASE n = name
    <3>1. stored[r][n] = 0 /\ raised[r][n] \in Nat
      BY <2>2, Typing
    <3>2. QED
      BY <2>1, <3>1
  <2>3. CASE n # name
    BY <1>6, <2>1, <2>3 DEF NotYetStored, AboutWrites
  <2>4. QED
    BY <2>2, <2>3
<1>8. CallerNoted(r)'
  BY <1>3, <1>4 DEF CallerNoted, AboutWrites
<1>9. TextCloses(r)'
  <2>1. CASE name = "text"
    BY <2>1 DEF TextCloses
  <2>2. CASE name # "text"
    <3>1. TextProposed(r)' => TextProposed(r)
      BY <1>1, <1>3, <1>4, <2>2 DEF TextProposed
    <3>2. QED
      BY <3>1 DEF TextCloses, AboutWrites
  <2>3. QED
    BY <2>1, <2>2
<1>10. PendingAhead(r)'
  <2>1. CASE name = "text"
    BY <1>3, <1>4, <2>1 DEF PendingAhead, PendingOf
  <2>2. CASE name # "text"
    BY <1>0, <1>6, <2>2 DEF PendingAhead, AboutWrites
  <2>3. QED
    BY <2>1, <2>2
<1>11. TextDecided(r)'
  BY <1>1, <1>3, <1>4 DEF TextDecided, AboutWrites
<1>12. QED
  BY <1>3, <1>5, <1>7, <1>8, <1>9, <1>10, <1>11 DEF AboutWrites, new, p

(* What a commit makes of one pending candidate: it is settled, with what  *)
(* the policy or the adapter said of it, ...                               *)
SettlesOne(r, status, added) ==
    LET c == cands[r][thread.at] IN
    /\ IsPending(c)
    /\ status \in {"pending", "deferred"} => c.name # "text" /\ added = 0
    /\ stored'[r] = [stored[r] EXCEPT ![c.name] = @ + added]
    /\ cands' = Settled(status) /\ closedLoop'[r] = closedLoop[r] /\ raised'[r] = raised[r]
    /\ thread' = [thread EXCEPT !.at = @ + 1]

(* ... and the round keeps its account of what is written.                *)
LEMMA SettledKeeps ==
    ASSUME OnceTyped, NEW r \in Rounds, AboutWrites(r), r = thread.round, Writing,
           NEW status \in Statuses, NEW added \in {0, 1}, SettlesOne(r, status, added)
    PROVE  AboutWrites(r)' /\ cands'[r] \in Seq(Cand)
<1> DEFINE old == cands[r]
           at == thread.at
           c == old[at]
           d == [c EXCEPT !.status = status]
           new == [old EXCEPT ![at] = d]
<1>s. /\ IsPending(c) /\ (status \in {"pending", "deferred"} => c.name # "text" /\ added = 0)
      /\ stored'[r] = [stored[r] EXCEPT ![c.name] = @ + added]
      /\ cands' = Settled(status) /\ closedLoop'[r] = closedLoop[r] /\ raised'[r] = raised[r]
      /\ thread' = [thread EXCEPT !.at = @ + 1]
  BY DEF SettlesOne
<1>0. "text" \in Names /\ "caller" \in Names /\ "direct" \notin Names
  BY DEF Names
<1>1. old \in Seq(Cand) /\ DOMAIN old = 1..Len(old) /\ Len(old) \in Nat /\ \A i \in DOMAIN old : i \in Nat
  BY Typing
<1>2. at \in DOMAIN old /\ at \in Nat /\ c \in Cand /\ c.name \in Names
  <2>1. at \in Nat \ {0} /\ at <= Len(old)
    BY DEF OnceTyped, Writing
  <2>2. at \in DOMAIN old
    BY <1>1, <2>1
  <2>3. c \in Cand
    BY <2>2, Typing
  <2>4. QED
    BY <2>1, <2>2, <2>3 DEF Cand
<1>3. /\ d \in Cand /\ d.name = c.name /\ d.kind = c.kind /\ d.policy = c.policy /\ d.status = status
      /\ IsProposal(c) /\ IsProposal(d) /\ IsPending(c)
      /\ IsPending(d) => status \in {"pending", "deferred"}
  <2> HIDE DEF c
  <2>1. c \in Cand /\ IsPending(c)
    BY <1>s, <1>2 DEF c
  <2>2. QED
    BY <2>1 DEF Cand, IsProposal, IsPending
<1>4. cands'[r] = new
  BY <1>s DEF Settled, OnceTyped
<1> HIDE DEF d
<1>5. /\ new \in Seq(Cand) /\ DOMAIN new = DOMAIN old /\ new[at] = d
      /\ \A i \in DOMAIN old : i # at => new[i] = old[i]
  <2> HIDE DEF old
  <2> QED BY <1>1, <1>2, <1>3
<1> HIDE DEF new
<1>6. /\ \A n \in Names : stored'[r][n] = IF n = c.name THEN stored[r][n] + added ELSE stored[r][n]
      /\ \A n \in Names : stored[r][n] \in Nat /\ raised[r][n] \in Nat
  <2>1. DOMAIN stored[r] = Names \cup {"direct"}
    BY DEF OnceTyped
  <2>2. QED
    BY <1>s, <1>2, <2>1, Typing
<1> HIDE DEF c
<1>7. thread'.at = at + 1 /\ thread'.pc = thread.pc /\ thread'.round = thread.round
  BY <1>s DEF OnceTyped, ThreadWhole
<1>8. OneProposal(r)'
  <2>1. \A i \in DOMAIN old : IsProposal(new[i]) <=> IsProposal(old[i])
    BY <1>3, <1>5 DEF c
  <2>2. \A i \in DOMAIN old : new[i].name = old[i].name
    BY <1>3, <1>5 DEF c
  <2>3. SUFFICES ASSUME NEW i \in DOMAIN new, NEW j \in DOMAIN new, IsProposal(new[i]), IsProposal(new[j]),
                        new[i].name = new[j].name
                 PROVE  i = j
    BY <1>4 DEF OneProposal
  <2>4. QED
    BY <1>5, <2>1, <2>2, <2>3 DEF OneProposal, AboutWrites
<1>9. at \in PendingOf(r, c.name) /\ \A i \in PendingOf(r, c.name) : i = at
  <2>1. at \in PendingOf(r, c.name)
    BY <1>2, <1>3 DEF PendingOf, c
  <2>2. \A i \in PendingOf(r, c.name) : IsProposal(old[i]) /\ old[i].name = c.name /\ i \in DOMAIN old
    BY DEF PendingOf, IsPending, IsProposal
  <2>3. QED
    BY <1>2, <1>3, <2>1, <2>2 DEF OneProposal, AboutWrites, c
<1>10. \A n \in Names : n # c.name => PendingOf(r, n)' = PendingOf(r, n)
  BY <1>2, <1>3, <1>4, <1>5 DEF PendingOf, c
<1>11. \A n \in Names : n = c.name /\ PendingOf(r, n)' # {} => IsPending(d)
  <2> TAKE n \in Names
  <2>1. \A i \in PendingOf(r, n)' : i \in DOMAIN new /\ IsPending(new[i]) /\ new[i].name = n
    BY <1>4 DEF PendingOf
  <2>2. \A i \in PendingOf(r, n)' : i # at => i \in PendingOf(r, n)
    BY <1>5, <2>1 DEF PendingOf
  <2>3. QED
    BY <1>5, <1>9, <2>1, <2>2
<1>12. NotYetStored(r)'
  <2>1. stored[r][c.name] <= raised[r][c.name]
    BY <1>2, <1>9 DEF NotYetStored, AboutWrites
  <2> SUFFICES ASSUME NEW n \in Names
               PROVE  /\ stored'[r][n] <= 1 + raised[r][n]
                      /\ PendingOf(r, n)' # {} => stored'[r][n] <= raised[r][n]
    BY <1>s DEF NotYetStored
  <2>2. CASE n = c.name
    <3>1. stored'[r][n] = stored[r][n] + added /\ added \in {0, 1}
      BY <1>6, <2>2
    <3>2. PendingOf(r, n)' # {} => added = 0
      BY <1>s, <1>3, <1>11, <2>2 DEF c
    <3>3. stored[r][n] <= raised[r][n] /\ stored[r][n] \in Nat /\ raised[r][n] \in Nat
      BY <1>6, <2>1, <2>2
    <3>4. QED
      BY <3>1, <3>2, <3>3
  <2>3. CASE n # c.name
    BY <1>6, <1>10, <2>3 DEF NotYetStored, AboutWrites
  <2>4. QED
    BY <2>2, <2>3
<1>13. CallerNoted(r)'
  <2>1. \A i \in DOMAIN old : new[i].name = old[i].name
    BY <1>3, <1>5 DEF c
  <2>2. CASE c.name = "caller"
    <3>1. new[at].name = "caller" /\ at \in DOMAIN new
      BY <1>2, <1>5, <2>1, <2>2 DEF c
    <3>2. QED
      BY <1>4, <3>1 DEF CallerNoted
  <2>3. CASE c.name # "caller"
    <3>1. stored'[r]["caller"] = stored[r]["caller"]
      BY <1>0, <1>6, <2>3
    <3>2. (\E i \in DOMAIN old : old[i].name = "caller") => \E i \in DOMAIN new : new[i].name = "caller"
      BY <1>5, <2>1
    <3>3. QED
      BY <1>s, <1>4, <3>1, <3>2 DEF CallerNoted, AboutWrites
  <2>4. QED
    BY <2>2, <2>3
<1>14. TextCloses(r)'
  <2>1. TextProposed(r)' => TextProposed(r)
    <3>1. \A i \in DOMAIN old : new[i].name = old[i].name /\ (IsProposal(new[i]) <=> IsProposal(old[i]))
      BY <1>3, <1>5 DEF c
    <3>2. CASE c.name = "text"
      BY <1>2, <1>3, <3>2 DEF TextProposed, c
    <3>3. CASE c.name # "text"
      <4>1. stored'[r]["text"] = stored[r]["text"]
        BY <1>0, <1>6, <3>3
      <4>2. ASSUME NEW i \in DOMAIN new, IsProposal(new[i]), new[i].name = "text"
            PROVE  IsProposal(old[i]) /\ old[i].name = "text" /\ i \in DOMAIN old
        BY <1>5, <3>1, <4>2
      <4>3. QED
        BY <1>4, <4>1, <4>2 DEF TextProposed
    <3>4. QED
      BY <3>2, <3>3
  <2>2. CommitsNow(r)' <=> CommitsNow(r)
    BY <1>7 DEF CommitsNow
  <2>3. QED
    BY <1>s, <2>1, <2>2 DEF TextCloses, AboutWrites
<1>15. PendingAhead(r)'
  <2>1. CASE c.name = "text"
    <3>1. ~IsPending(d)
      BY <1>s, <1>3, <2>1 DEF c
    <3>2. QED
      BY <1>0, <1>11, <2>1, <3>1 DEF PendingAhead
  <2>2. CASE c.name # "text"
    <3>1. PendingOf(r, "text")' = PendingOf(r, "text") /\ at \notin PendingOf(r, "text")
      BY <1>0, <1>10, <2>2 DEF PendingOf, c
    <3>2. \A i \in PendingOf(r, "text") : i \in Nat /\ i # at
      BY <1>1, <3>1 DEF PendingOf
    <3>3. \A i \in PendingOf(r, "text") : at <= i => at + 1 <= i
      BY <1>2, <3>2
    <3>4. \A i \in PendingOf(r, "text") : raised[r]["text"] > 0 \/ (CommitsNow(r) /\ at <= i)
      BY DEF PendingAhead, AboutWrites
    <3>5. CommitsNow(r)' <=> CommitsNow(r)
      BY <1>7 DEF CommitsNow
    <3>6. QED
      BY <1>s, <1>7, <3>1, <3>3, <3>4, <3>5 DEF PendingAhead
  <2>3. QED
    BY <2>1, <2>2
<1>16. TextDecided(r)'
  <2>1. \A i \in DOMAIN old : new[i].name = old[i].name /\ new[i].policy = old[i].policy
    BY <1>3, <1>5 DEF c
  <2>2. QED
    BY <1>4, <1>5, <2>1 DEF TextDecided, AboutWrites
<1>17. QED
  BY <1>4, <1>5, <1>8, <1>12, <1>13, <1>14, <1>15, <1>16 DEF AboutWrites

LEMMA OnceInit == MemoryInit => OnceInv
<1> SUFFICES ASSUME MemoryInit PROVE OnceInv
  OBVIOUS
<1>1. OnceTyped
  <2>1. ThreadWhole /\ thread.pc = "idle" /\ thread.at \in Nat \ {0}
    BY DEF MemoryInit, Idle, ThreadWhole
  <2>2. current \in 0..MaxRounds /\ <<>> \in Seq(Cand)
    BY MemoryAssumption DEF MemoryInit, MemoryAssumption
  <2>3. QED
    BY <2>1, <2>2 DEF OnceTyped, MemoryInit
<1>2. ASSUME NEW r \in Rounds
      PROVE  OnceOf(r)
  <2>1. cands[r] = <<>> /\ DOMAIN cands[r] = {}
    BY DEF MemoryInit
  <2>2. /\ stored[r] = [n \in Names \cup {"direct"} |-> 0] /\ raised[r] = [n \in Names |-> 0]
        /\ thread.pc = "idle" /\ "text" \in Names /\ "caller" \in Names
    BY DEF MemoryInit, Idle, Names
  <2>3. OneProposal(r) /\ TextDecided(r) /\ CallerNoted(r) /\ PendingAhead(r)
    BY <2>1, <2>2 DEF OneProposal, TextDecided, CallerNoted, PendingAhead, PendingOf
  <2>4. NotYetStored(r) /\ TextCloses(r) /\ DirectOnce(r)
    BY <2>1, <2>2 DEF NotYetStored, TextCloses, TextProposed, DirectOnce
  <2>5. QED
    BY <2>3, <2>4 DEF OnceOf
<1>3. QED
  BY <1>1, <1>2 DEF OnceInv

(* The steps that write nothing leave the direct writes as they are.       *)
LEMMA DirectStays ==
    ASSUME OnceTyped, NEW r \in Rounds, DirectOnce(r), stored'[r]["direct"] = stored[r]["direct"],
           current' \in Nat, current <= current',
           thread'.pc \in {"started", "heard"} => stored'[thread'.round]["direct"] = 0
    PROVE  DirectOnce(r)'
<1>1. r \in Nat /\ current \in Nat
  BY DEF OnceTyped, Rounds
<1>2. QED
  BY <1>1 DEF DirectOnce

(* A thread that steps on to another place of the same round.              *)
LEMMA GotoFacts ==
    ASSUME OnceTyped, NEW pc, Goto(pc)
    PROVE  thread'.pc = pc /\ thread'.round = thread.round /\ thread'.at = thread.at /\ ThreadWhole'
<1>1. thread' = [pc |-> pc, round |-> thread.round, said |-> thread.said, at |-> thread.at]
  BY DEF OnceTyped, ThreadWhole, Goto
<1>2. QED
  BY <1>1 DEF ThreadWhole

LEMMA IdleFacts ==
    ASSUME thread' = Idle
    PROVE  thread'.pc = "idle" /\ ThreadWhole' /\ thread'.at = 1
BY DEF Idle, ThreadWhole

(* Where the thread may go without touching any candidate or write.        *)
LEMMA FrameKeeps ==
    ASSUME OnceInv,
           UNCHANGED <<cands, closedLoop, raised>>,
           ThreadWhole', thread'.at \in Nat \ {0}, current' \in 0..MaxRounds, current <= current',
           thread'.pc # "idle" => thread'.round \in Rounds /\ thread'.round <= current',
           \A r \in Rounds : CommitsNow(r) => CommitsNow(r)' /\ thread'.at = thread.at,
           stored' \in [Rounds -> [Names \cup {"direct"} -> Nat]],
           \A r \in Rounds : \A n \in Names : stored'[r][n] = stored[r][n],
           \A r \in Rounds : DirectOnce(r)'
    PROVE  OnceInv'
<1>1. OnceTyped'
  BY DEF OnceInv, OnceTyped
<1>2. ASSUME NEW r \in Rounds
      PROVE  OnceOf(r)'
  <2>1. AboutWrites(r) /\ OnceTyped /\ Calm(r)
    BY DEF OnceInv, OnceOf, AboutWrites, Calm
  <2>2. AboutWrites(r)'
    BY <2>1, CalmKeeps
  <2>3. QED
    BY <2>2 DEF AboutWrites, OnceOf
<1>3. QED
  BY <1>1, <1>2 DEF OnceInv

(* What touches the candidates and the writes of one round.                *)
LEMMA OneRound ==
    ASSUME OnceInv, NEW r \in Rounds,
           ThreadWhole', thread'.at \in Nat \ {0}, UNCHANGED current,
           thread'.pc # "idle" => thread'.round \in Rounds /\ thread'.round <= current',
           thread'.pc \notin {"started", "heard"} \/ UNCHANGED <<stored, thread>>
               \/ (thread.pc = "started" /\ thread'.round = thread.round /\ UNCHANGED stored),
           AboutWrites(r)', OnceTyped' , stored'[r]["direct"] = stored[r]["direct"],
           \A q \in Rounds \ {r} : cands'[q] = cands[q] /\ closedLoop'[q] = closedLoop[q]
                                   /\ stored'[q] = stored[q] /\ raised'[q] = raised[q]
                                   /\ ~CommitsNow(q)
    PROVE  OnceInv'
<1>1. ASSUME NEW q \in Rounds
      PROVE  OnceOf(q)'
  <2>1. OnceTyped /\ AboutWrites(q) /\ DirectOnce(q)
    BY DEF OnceInv, OnceOf, AboutWrites
  <2>2. AboutWrites(q)'
    <3>1. CASE q # r
      <4>1. Calm(q) /\ ~CommitsNow(q)
        BY <3>1 DEF Calm
      <4>2. QED
        BY <2>1, <4>1, CalmKeeps
    <3>2. QED
      BY <3>1
  <2>3. DirectOnce(q)'
    <3>1. current \in Nat /\ stored'[q]["direct"] = stored[q]["direct"]
      BY <2>1 DEF OnceTyped
    <3>2. thread'.pc \in {"started", "heard"} => stored'[thread'.round]["direct"] = 0
      BY <2>1 DEF DirectOnce
    <3>3. QED
      BY <2>1, <3>1, <3>2, DirectStays
  <2>4. QED
    BY <2>2, <2>3 DEF AboutWrites, OnceOf
<1>2. QED
  BY <1>1 DEF OnceInv

LEMMA DirectFrame ==
    ASSUME OnceInv, \A r \in Rounds : stored'[r]["direct"] = stored[r]["direct"],
           current' \in Nat, current <= current',
           thread'.pc \in {"started", "heard"} => stored'[thread'.round]["direct"] = 0
    PROVE  \A r \in Rounds : DirectOnce(r)'
BY DirectStays DEF OnceInv, OnceOf

LEMMA OutcomeFacts ==
    \A o \in Outcomes : o.store \in {0, 1} /\ o.report \in {"ok", "error", "raised"}
BY DEF Outcomes

(* ... or stays pending, with one more write of it that has raised.        *)
LEMMA RaisedKeeps ==
    ASSUME OnceTyped, NEW r \in Rounds, AboutWrites(r), r = thread.round, Writing, UNCHANGED cands,
           NEW name \in Names, cands[r][thread.at].name = name, IsPending(cands[r][thread.at]),
           NEW added \in {0, 1},
           stored'[r] = [stored[r] EXCEPT ![name] = @ + added],
           raised'[r] = [raised[r] EXCEPT ![name] = @ + 1],
           closedLoop'[r] = closedLoop[r],
           thread'.pc = thread.pc, thread'.round = thread.round, thread'.at = thread.at + 1
    PROVE  AboutWrites(r)'
<1>0. "text" \in Names /\ "caller" \in Names
  BY DEF Names
<1>1. \A n \in Names : /\ raised'[r][n] = IF n = name THEN raised[r][n] + 1 ELSE raised[r][n]
                       /\ stored'[r][n] = IF n = name THEN stored[r][n] + added ELSE stored[r][n]
                       /\ raised[r][n] \in Nat /\ stored[r][n] \in Nat
  <2>1. DOMAIN raised[r] = Names /\ DOMAIN stored[r] = Names \cup {"direct"}
    BY DEF OnceTyped
  <2>2. QED
    BY <2>1, Typing
<1>2. thread.at \in DOMAIN cands[r] /\ thread.at \in Nat /\ \A i \in DOMAIN cands[r] : i \in Nat
  BY Typing, SMTT(30) DEF OnceTyped, Writing
<1>3. thread.at \in PendingOf(r, name)
  BY <1>2 DEF PendingOf
<1>4. \A n \in Names : PendingOf(r, n)' = PendingOf(r, n)
  BY DEF PendingOf
<1>5. OneProposal(r)' /\ TextDecided(r)'
  BY DEF OneProposal, TextDecided, AboutWrites
<1>6. NotYetStored(r)'
  <2> SUFFICES ASSUME NEW n \in Names
               PROVE  /\ stored'[r][n] <= 1 + raised'[r][n]
                      /\ PendingOf(r, n) # {} => stored'[r][n] <= raised'[r][n]
    BY <1>4 DEF NotYetStored
  <2>1. /\ stored[r][n] <= 1 + raised[r][n]
        /\ PendingOf(r, n) # {} => stored[r][n] <= raised[r][n]
    BY DEF NotYetStored, AboutWrites
  <2>2. CASE n = name
    BY <1>1, <1>3, <2>1, <2>2
  <2>3. CASE n # name
    BY <1>1, <2>1, <2>3
  <2>4. QED
    BY <2>2, <2>3
<1>7. CallerNoted(r)'
  <2>1. CASE name = "caller"
    BY <1>2, <2>1 DEF CallerNoted
  <2>2. CASE name # "caller"
    BY <1>0, <1>1, <2>2 DEF CallerNoted, AboutWrites
  <2>3. QED
    BY <2>1, <2>2
<1>8. CommitsNow(r)' <=> CommitsNow(r)
  BY DEF CommitsNow
<1>9. TextCloses(r)'
  <2>1. TextProposed(r)' => TextProposed(r)
    <3>1. CASE name = "text"
      BY <1>2, <3>1 DEF TextProposed, IsPending, IsProposal
    <3>2. CASE name # "text"
      BY <1>0, <1>1, <3>2 DEF TextProposed
    <3>3. QED
      BY <3>1, <3>2
  <2>2. QED
    BY <1>8, <2>1 DEF TextCloses, AboutWrites
<1>10. PendingAhead(r)'
  <2>1. CASE name = "text"
    <3>1. raised'[r]["text"] > 0
      BY <1>0, <1>1, <2>1
    <3>2. QED
      BY <3>1 DEF PendingAhead
  <2>2. CASE name # "text"
    <3>1. \A i \in PendingOf(r, "text") : i \in Nat /\ i # thread.at
      BY <1>2, <2>2 DEF PendingOf
    <3>2. \A i \in PendingOf(r, "text") : thread.at <= i => thread.at + 1 <= i
      BY <1>2, <3>1
    <3>3. raised'[r]["text"] = raised[r]["text"] /\ PendingOf(r, "text")' = PendingOf(r, "text")
      BY <1>0, <1>1, <1>4, <2>2
    <3>4. QED
      BY <1>8, <3>2, <3>3 DEF PendingAhead, AboutWrites
  <2>3. QED
    BY <2>1, <2>2
<1>11. QED
  BY <1>5, <1>6, <1>7, <1>9, <1>10 DEF AboutWrites

(* One candidate of a commit.                                              *)
LEMMA CommitKeepsOnce ==
    ASSUME OnceInv, NEW outcome \in Outcomes, CommitWriteback(outcome)
    PROVE  OnceInv'
<1>1. PICK r \in Rounds : r = thread.round
  BY DEF OnceInv, OnceTyped, CommitWriteback, Commit, Writing
<1>2. PICK c : c = cands[r][thread.at]
  OBVIOUS
<1>3. /\ OnceTyped /\ AboutWrites(r) /\ Writing /\ IsPending(c) /\ c.policy = "accepted"
      /\ stored' = [stored EXCEPT ![r][c.name] = @ + outcome.store]
      /\ thread' = [thread EXCEPT !.at = @ + 1]
      /\ UNCHANGED <<current, closedLoop>>
  BY <1>1, <1>2 DEF OnceInv, OnceOf, OnceTyped, AboutWrites, CommitWriteback, Commit, Writing, Advance
<1>4. /\ thread' = [pc |-> thread.pc, round |-> thread.round, said |-> thread.said, at |-> thread.at + 1]
      /\ thread.at \in Nat \ {0} /\ thread.at + 1 \in Nat \ {0} /\ current \in Nat /\ r <= current
  <2>1. thread' = [pc |-> thread.pc, round |-> thread.round, said |-> thread.said, at |-> thread.at + 1]
    BY <1>3 DEF OnceTyped, ThreadWhole
  <2>2. thread.at \in Nat \ {0} /\ r <= current
    BY <1>1, <1>3 DEF OnceTyped, Writing
  <2>3. current \in Nat
    BY <1>3, MemoryAssumption DEF OnceTyped, MemoryAssumption
  <2>4. QED
    BY <2>1, <2>2, <2>3
<1>5. /\ thread'.pc = thread.pc /\ thread'.round = r /\ thread'.at = thread.at + 1 /\ ThreadWhole'
      /\ thread.pc \in {"committing", "retrying"}
  BY <1>1, <1>3, <1>4 DEF ThreadWhole, Writing
<1>6. thread.at \in DOMAIN cands[r] /\ c \in Cand /\ c.name \in Names /\ cands \in [Rounds -> Seq(Cand)]
  <2>1. thread.at \in DOMAIN cands[r]
    BY <1>1, <1>3, Typing DEF Writing, OnceTyped
  <2>2. c \in Cand
    BY <1>2, <1>3, <2>1, Typing
  <2>3. QED
    BY <1>3, <2>1, <2>2 DEF Cand, OnceTyped
<1>7. outcome.store \in {0, 1} /\ outcome.report \in {"ok", "error", "raised"}
  BY OutcomeFacts
<1>8. /\ stored' \in [Rounds -> [Names \cup {"direct"} -> Nat]]
      /\ stored'[r]["direct"] = stored[r]["direct"] /\ stored'[r] = [stored[r] EXCEPT ![c.name] = @ + outcome.store]
      /\ \A q \in Rounds \ {r} : stored'[q] = stored[q]
  <2>1. stored[r] \in [Names \cup {"direct"} -> Nat] /\ stored \in [Rounds -> [Names \cup {"direct"} -> Nat]]
    BY <1>3 DEF OnceTyped
  <2>2. c.name # "direct" /\ c.name \in Names \cup {"direct"}
    BY <1>6 DEF Names
  <2>3. stored[r][c.name] + outcome.store \in Nat
    BY <1>7, <2>1, <2>2
  <2>4. [stored[r] EXCEPT ![c.name] = @ + outcome.store] \in [Names \cup {"direct"} -> Nat]
    BY <2>1, <2>2, <2>3
  <2>5. stored' = [stored EXCEPT ![r] = [stored[r] EXCEPT ![c.name] = @ + outcome.store]]
    BY <1>3, <2>1
  <2>6. QED
    BY <2>1, <2>2, <2>4, <2>5
<1>9. \A q \in Rounds \ {r} : ~CommitsNow(q)
  BY <1>1 DEF CommitsNow
<1>10. CASE outcome.report = "raised"
  <2>1. raised' = [raised EXCEPT ![r][c.name] = @ + 1] /\ cands' = cands
    BY <1>1, <1>2, <1>10 DEF CommitWriteback, Commit
  <2>2. /\ raised' \in [Rounds -> [Names -> Nat]] /\ raised'[r] = [raised[r] EXCEPT ![c.name] = @ + 1]
        /\ \A q \in Rounds \ {r} : raised'[q] = raised[q]
    <3>1. raised[r] \in [Names -> Nat] /\ raised \in [Rounds -> [Names -> Nat]]
      BY <1>3 DEF OnceTyped
    <3>2. [raised[r] EXCEPT ![c.name] = @ + 1] \in [Names -> Nat]
      BY <1>6, <3>1
    <3>3. raised' = [raised EXCEPT ![r] = [raised[r] EXCEPT ![c.name] = @ + 1]]
      BY <2>1, <3>1
    <3>4. QED
      BY <3>1, <3>2, <3>3
  <2>3. AboutWrites(r)'
    BY <1>1, <1>2, <1>3, <1>5, <1>6, <1>7, <1>8, <2>1, <2>2, RaisedKeeps
  <2>4. OnceTyped'
    BY <1>3, <1>4, <1>5, <1>8, <2>1, <2>2 DEF OnceTyped
  <2>5. QED
    BY <1>3, <1>4, <1>5, <1>8, <1>9, <2>1, <2>2, <2>3, <2>4, OneRound
<1>11. CASE outcome.report # "raised"
  <2>1. raised' = raised /\ cands' = Settled("ok")
    BY <1>1, <1>2, <1>11 DEF CommitWriteback, Commit
  <2>2. AboutWrites(r)' /\ cands'[r] \in Seq(Cand)
    <3>1. "ok" \in Statuses /\ "ok" \notin {"pending", "deferred"}
      BY DEF Statuses
    <3>2. QED
      BY <1>1, <1>2, <1>3, <1>6, <1>7, <1>8, <2>1, <3>1, SettledKeeps DEF SettlesOne
  <2>3. \A q \in Rounds \ {r} : cands'[q] = cands[q]
    BY <1>1, <1>6, <2>1 DEF Settled
  <2>4. cands' \in [Rounds -> Seq(Cand)]
    <3>1. DOMAIN cands' = Rounds /\ cands' = [q \in DOMAIN cands' |-> cands'[q]]
      BY <1>6, <2>1 DEF Settled
    <3>2. \A q \in Rounds : cands'[q] \in Seq(Cand)
      BY <1>6, <2>2, <2>3
    <3>3. QED
      BY <3>1, <3>2
  <2>5. OnceTyped'
    BY <1>3, <1>4, <1>5, <1>8, <2>1, <2>4 DEF OnceTyped
  <2>6. QED
    BY <1>3, <1>4, <1>5, <1>8, <1>9, <2>1, <2>2, <2>3, <2>5, OneRound
<1>12. QED
  BY <1>10, <1>11

LEMMA TurnDownKeeps ==
    ASSUME OnceInv, TurnDown
    PROVE  OnceInv'
<1>1. PICK r \in Rounds : r = thread.round
  BY DEF OnceInv, OnceTyped, TurnDown, Writing
<1>2. PICK c : c = cands[r][thread.at]
  OBVIOUS
<1>3. /\ OnceTyped /\ AboutWrites(r) /\ Writing /\ IsPending(c) /\ c.policy # "accepted"
      /\ cands' = Settled(c.policy) /\ thread' = [thread EXCEPT !.at = @ + 1]
      /\ UNCHANGED <<current, closedLoop, stored, raised>>
  BY <1>1, <1>2 DEF OnceInv, OnceOf, OnceTyped, AboutWrites, TurnDown, Writing, Advance
<1>4. /\ thread'.pc = thread.pc /\ thread'.round = r /\ thread'.at = thread.at + 1 /\ ThreadWhole'
      /\ thread'.at \in Nat \ {0} /\ r <= current /\ thread.pc \in {"committing", "retrying"}
  <2>1. thread' = [pc |-> thread.pc, round |-> thread.round, said |-> thread.said, at |-> thread.at + 1]
    BY <1>3 DEF OnceTyped, ThreadWhole
  <2>2. thread.at \in Nat \ {0} /\ r <= current /\ thread.pc \in {"committing", "retrying"}
    BY <1>1, <1>3 DEF OnceTyped, Writing
  <2>3. QED
    BY <1>1, <2>1, <2>2 DEF ThreadWhole
<1>5. thread.at \in DOMAIN cands[r] /\ c \in Cand /\ cands \in [Rounds -> Seq(Cand)]
  <2>1. thread.at \in DOMAIN cands[r]
    BY <1>1, <1>3, Typing DEF Writing, OnceTyped
  <2>2. QED
    BY <1>2, <1>3, <2>1, Typing DEF OnceTyped
<1>6. c.policy \in Statuses /\ (c.policy \in {"pending", "deferred"} => c.name # "text") /\ c.name \in Names
  <2>1. c.name = "text" => c.policy # "deferred"
    BY <1>2, <1>3, <1>5 DEF AboutWrites, TextDecided
  <2>2. QED
    BY <1>3, <1>5, <2>1 DEF Cand, Policies, Statuses
<1>7. stored'[r] = [stored[r] EXCEPT ![c.name] = @ + 0]
  <2>1. stored[r] \in [Names \cup {"direct"} -> Nat]
    BY <1>3 DEF OnceTyped
  <2>2. stored[r][c.name] + 0 = stored[r][c.name]
    BY <1>6, <2>1
  <2>3. QED
    BY <1>3, <2>1, <2>2
<1>8. AboutWrites(r)' /\ cands'[r] \in Seq(Cand)
  <2>1. 0 \in {0, 1}
    OBVIOUS
  <2>2. QED
    BY <1>1, <1>2, <1>3, <1>6, <1>7, <2>1, SettledKeeps DEF SettlesOne
<1>9. \A q \in Rounds \ {r} : cands'[q] = cands[q] /\ ~CommitsNow(q)
  BY <1>1, <1>3, <1>5 DEF Settled, CommitsNow
<1>10. cands' \in [Rounds -> Seq(Cand)]
  <2>1. DOMAIN cands' = Rounds /\ cands' = [q \in DOMAIN cands' |-> cands'[q]]
    BY <1>3, <1>5 DEF Settled
  <2>2. \A q \in Rounds : cands'[q] \in Seq(Cand)
    BY <1>5, <1>8, <1>9
  <2>3. QED
    BY <2>1, <2>2
<1>11. OnceTyped'
  BY <1>3, <1>4, <1>10 DEF OnceTyped
<1>12. QED
  BY <1>3, <1>4, <1>8, <1>9, <1>11, OneRound

(* What a recall merges, in a round that nobody commits.                   *)
LEMMA RecallKeeps ==
    ASSUME OnceInv, NEW r \in Rounds, cands' = [cands EXCEPT ![r] = Prefetched(@)],
           UNCHANGED <<current, closedLoop, stored, raised>>,
           thread.pc # "committing",
           ThreadWhole', thread'.at \in Nat \ {0},
           thread'.pc # "idle" => thread'.round \in Rounds /\ thread'.round <= current',
           thread' = thread \/ (thread.pc = "started" /\ thread'.round = thread.round)
    PROVE  OnceInv'
<1>1. OnceTyped /\ AboutWrites(r) /\ cands \in [Rounds -> Seq(Cand)]
  BY DEF OnceInv, OnceOf, AboutWrites, OnceTyped
<1>2. AboutWrites(r)' /\ Prefetched(cands[r]) \in Seq(Cand)
  <2>1. cands'[r] = Prefetched(cands[r]) /\ ~CommitsNow(r)
    BY <1>1 DEF CommitsNow
  <2>2. QED
    BY <1>1, <2>1, PrefetchKeeps
<1>3. cands' \in [Rounds -> Seq(Cand)]
  BY <1>1, <1>2
<1>4. OnceTyped'
  BY <1>1, <1>3 DEF OnceTyped
<1>5. \A q \in Rounds \ {r} : cands'[q] = cands[q] /\ ~CommitsNow(q)
  BY <1>1 DEF CommitsNow
<1>6. QED
  BY <1>2, <1>4, <1>5, OneRound

(* A step of the thread, or of the rounds, that touches no candidate and   *)
(* no write.                                                               *)
LEMMA MoveKeeps ==
    ASSUME OnceInv, UNCHANGED <<cands, closedLoop, stored, raised>>,
           ThreadWhole', thread'.at \in Nat \ {0}, current' \in 0..MaxRounds, current <= current',
           thread'.pc # "idle" => thread'.round \in Rounds /\ thread'.round <= current',
           \A r \in Rounds : CommitsNow(r) => CommitsNow(r)' /\ thread'.at = thread.at,
           thread' = thread \/ thread'.pc \notin {"started", "heard"}
               \/ (thread.pc = "started" /\ thread'.round = thread.round)
               \/ (current < current' /\ thread'.round = current')
    PROVE  OnceInv'
<1>1. current \in Nat /\ current' \in Nat
  BY MemoryAssumption DEF MemoryAssumption, OnceInv, OnceTyped
<1>2. thread'.pc \in {"started", "heard"} => stored'[thread'.round]["direct"] = 0
  <2>1. CASE current < current' /\ thread'.round = current' /\ thread'.pc \in {"started", "heard"}
    <3>1. PICK q \in Rounds : q = thread'.round /\ current < q
      BY <2>1
    <3>2. stored[q]["direct"] \in Nat /\ q \in Nat /\ (stored[q]["direct"] > 0 => q <= current)
      BY Typing DEF OnceInv, OnceOf, DirectOnce
    <3>3. QED
      BY <1>1, <3>1, <3>2
  <2>2. CASE (thread' = thread \/ (thread.pc = "started" /\ thread'.round = thread.round))
             /\ thread'.pc \in {"started", "heard"}
    <3>1. thread.pc \in {"started", "heard"} /\ thread'.round = thread.round /\ thread'.round \in Rounds
      BY <2>2
    <3>2. QED
      BY <3>1 DEF OnceInv, OnceOf, DirectOnce
  <2>3. QED
    BY <2>1, <2>2
<1>3. \A r \in Rounds : DirectOnce(r)'
  BY <1>1, <1>2, DirectFrame
<1>4. stored' \in [Rounds -> [Names \cup {"direct"} -> Nat]]
  BY DEF OnceInv, OnceTyped
<1>5. QED
  BY <1>3, <1>4, FrameKeeps

(* A proposal, of the scheduler's or a caller's.                           *)
LEMMA NewProposalKeeps ==
    ASSUME OnceInv, NEW r \in Rounds, NEW name \in Names, NEW policy \in Policies,
           cands' = [cands EXCEPT ![r] = Append(@, Proposal(name, policy))],
           UNCHANGED <<current, closedLoop, stored, raised>>,
           thread.pc # "committing",
           \A i \in DOMAIN cands[r] : IsProposal(cands[r][i]) => cands[r][i].name # name,
           stored[r][name] = 0,
           ThreadWhole', thread'.at \in Nat \ {0},
           thread'.pc # "idle" => thread'.round \in Rounds /\ thread'.round <= current',
           thread' = thread \/ thread'.pc = "committing",
           name = "text" => policy # "deferred" /\ CommitsNow(r)' /\ thread'.at = 1
    PROVE  OnceInv'
<1>1. OnceTyped /\ AboutWrites(r) /\ cands \in [Rounds -> Seq(Cand)]
  BY DEF OnceInv, OnceOf, AboutWrites, OnceTyped
<1>2. AboutWrites(r)' /\ Append(cands[r], Proposal(name, policy)) \in Seq(Cand)
  <2>1. cands'[r] = Append(cands[r], Proposal(name, policy)) /\ ~CommitsNow(r)
    BY <1>1 DEF CommitsNow
  <2>2. QED
    BY <1>1, <2>1, ProposalKeeps
<1>3. cands' \in [Rounds -> Seq(Cand)]
  BY <1>1, <1>2
<1>4. OnceTyped'
  BY <1>1, <1>3 DEF OnceTyped
<1>5. \A q \in Rounds \ {r} : cands'[q] = cands[q] /\ ~CommitsNow(q)
  BY <1>1 DEF CommitsNow
<1>6. QED
  BY <1>2, <1>4, <1>5, OneRound

LEMMA OnceStep == OnceInv /\ [MemoryNext]_loopVars => OnceInv'
<1> SUFFICES ASSUME OnceInv, [MemoryNext]_loopVars PROVE OnceInv'
  OBVIOUS
<1>0. /\ OnceTyped /\ ThreadWhole /\ current \in Nat /\ current <= MaxRounds /\ MaxRounds \in Nat
      /\ thread.at \in Nat \ {0} /\ (thread.pc # "idle" => thread.round \in Rounds /\ thread.round <= current)
      /\ \A r \in Nat : r \in Rounds <=> r >= 1 /\ r <= MaxRounds
      /\ Rounds \subseteq Nat
  <2>1. MaxRounds \in Nat /\ OnceTyped
    BY MemoryAssumption DEF OnceInv, MemoryAssumption
  <2>2. current \in Nat /\ current <= MaxRounds
    BY <2>1 DEF OnceTyped
  <2>3. Rounds \subseteq Nat /\ \A r \in Nat : r \in Rounds <=> r >= 1 /\ r <= MaxRounds
    BY <2>1 DEF Rounds
  <2>4. QED
    BY <2>1, <2>2, <2>3 DEF OnceTyped
<1>1. CASE StartRound
  <2>1. thread' = [pc |-> "started", round |-> current + 1, said |-> "plain", at |-> 1]
    BY <1>1 DEF StartRound, Idle
  <2>2. /\ ThreadWhole' /\ thread'.at \in Nat \ {0} /\ thread'.round = current' /\ current' = current + 1
        /\ current' \in Rounds /\ current' \in 0..MaxRounds
    <3>1. current' = current + 1 /\ current < MaxRounds
      BY <1>1 DEF StartRound, Open
    <3>2. current' \in Nat /\ current' >= 1 /\ current' <= MaxRounds
      BY <1>0, <3>1
    <3>3. QED
      BY <1>0, <2>1, <3>1, <3>2 DEF ThreadWhole
  <2>3. \A r \in Rounds : ~CommitsNow(r)
    BY <1>1 DEF StartRound, CommitsNow
  <2>4. QED
    BY <1>0, <1>1, <2>2, <2>3, MoveKeeps DEF StartRound
<1>2. ASSUME NEW said \in DOMAIN Utterances, FinalizeAsr(said)
      PROVE  OnceInv'
  <2>1. \A r \in Rounds : ~CommitsNow(r)
    BY <1>2 DEF FinalizeAsr, CommitsNow
  <2>2. CASE live[thread.round]
    <3>1. thread' = [pc |-> "heard", round |-> thread.round, said |-> said, at |-> thread.at]
      BY <1>0, <1>2, <2>2 DEF FinalizeAsr, ThreadWhole
    <3>2. /\ ThreadWhole' /\ thread'.at = thread.at /\ thread'.round = thread.round /\ thread.pc = "started"
          /\ thread.round \in Rounds /\ UNCHANGED <<current, closedLoop, stored, raised>>
      BY <1>0, <1>2, <3>1 DEF FinalizeAsr, ThreadWhole
    <3>3. CASE Utterances[said].recall
      <4>1. cands' = [cands EXCEPT ![thread.round] = Prefetched(@)]
        BY <1>2, <2>2, <3>3 DEF FinalizeAsr
      <4>2. QED
        BY <1>0, <3>2, <4>1, RecallKeeps
    <3>4. CASE ~Utterances[said].recall
      <4>1. cands' = cands /\ current' \in 0..MaxRounds /\ current <= current'
        BY <1>0, <1>2, <2>2, <3>4 DEF FinalizeAsr
      <4>2. QED
        BY <1>0, <2>1, <3>2, <4>1, MoveKeeps
    <3>5. QED
      BY <3>3, <3>4
  <2>3. CASE ~live[thread.round]
    <3>1. /\ thread' = Idle /\ UNCHANGED <<cands, closedLoop, stored, raised, current>>
          /\ current' \in 0..MaxRounds /\ current <= current'
      BY <1>0, <1>2, <2>3 DEF FinalizeAsr
    <3>2. QED
      BY <2>1, <3>1, IdleFacts, MoveKeeps
  <2>4. QED
    BY <2>2, <2>3
<1>3. ASSUME NEW accepted \in BOOLEAN, NEW outcome \in Outcomes, HandleObservation(accepted, outcome)
      PROVE  OnceInv'
  <2>1. PICK r \in Rounds : r = thread.round /\ r <= current /\ stored[r]["direct"] = 0
    BY <1>0, <1>3 DEF HandleObservation, OnceInv, OnceOf, DirectOnce
  <2>2. /\ UNCHANGED <<current, cands, closedLoop, raised>> /\ thread.pc = "heard"
        /\ \A q \in Rounds : ~CommitsNow(q)
    BY <1>3 DEF HandleObservation, CommitsNow
  <2>3. /\ ThreadWhole' /\ thread'.at \in Nat \ {0} /\ thread'.pc \notin {"started", "heard"}
        /\ (thread'.pc # "idle" => thread'.round \in Rounds /\ thread'.round <= current')
    <3>1. thread' = Idle \/ Goto("thought")
      BY <1>3 DEF HandleObservation
    <3>2. QED
      BY <1>0, <2>1, <2>2, <3>1, IdleFacts, GotoFacts
  <2>4. CASE Utterances[thread.said].direct /\ accepted
    <3>1. stored' = [stored EXCEPT ![r]["direct"] = @ + outcome.store]
      BY <1>3, <2>1, <2>4 DEF HandleObservation
    <3>2. stored \in [Rounds -> [Names \cup {"direct"} -> Nat]]
      BY <1>0 DEF OnceTyped
    <3>3. outcome.store \in {0, 1} /\ "direct" \notin Names
      BY OutcomeFacts DEF Names
    <3>4. /\ stored' \in [Rounds -> [Names \cup {"direct"} -> Nat]]
          /\ \A q \in Rounds : \A n \in Names : stored'[q][n] = stored[q][n]
          /\ \A q \in Rounds : q # r => stored'[q]["direct"] = stored[q]["direct"]
          /\ stored'[r]["direct"] \in {0, 1}
      <4>1. stored' = [stored EXCEPT ![r] = [stored[r] EXCEPT !["direct"] = stored[r]["direct"] + outcome.store]]
        BY <3>1, <3>2
      <4>2. [stored[r] EXCEPT !["direct"] = stored[r]["direct"] + outcome.store] \in [Names \cup {"direct"} -> Nat]
        BY <2>1, <3>2, <3>3
      <4>3. stored'[r] = [stored[r] EXCEPT !["direct"] = stored[r]["direct"] + outcome.store]
        BY <2>1, <3>2, <4>1
      <4>4. \A q \in Rounds : q # r => stored'[q] = stored[q]
        BY <3>2, <4>1
      <4>5. /\ stored' \in [Rounds -> [Names \cup {"direct"} -> Nat]]
            /\ stored'[r]["direct"] = outcome.store
        <5>1. stored' \in [Rounds -> [Names \cup {"direct"} -> Nat]]
          BY <3>2, <4>1, <4>2
        <5>2. stored[r] \in [Names \cup {"direct"} -> Nat] /\ stored[r]["direct"] + outcome.store = outcome.store
          <6>1. stored[r] \in [Names \cup {"direct"} -> Nat] /\ stored[r]["direct"] = 0
            BY <2>1, <3>2
          <6>2. 0 + outcome.store = outcome.store
            BY <3>3
          <6>3. QED
            BY <6>1, <6>2
        <5>3. stored'[r]["direct"] = stored[r]["direct"] + outcome.store
          BY <4>3, <5>2
        <5>4. QED
          BY <5>1, <5>2, <5>3
      <4>6. \A n \in Names : stored'[r][n] = stored[r][n]
        BY <2>1, <3>2, <3>3, <4>3
      <4>7. QED
        BY <3>3, <4>4, <4>5, <4>6
    <3>5. ASSUME NEW q \in Rounds
          PROVE  DirectOnce(q)'
      <4>1. CASE q = r
        <5>1. stored'[q]["direct"] <= 1 /\ q <= current'
          BY <2>1, <2>2, <3>4, <4>1
        <5>2. QED
          BY <2>3, <5>1 DEF DirectOnce
      <4>2. CASE q # r
        BY <2>2, <2>3, <3>4, <4>2 DEF OnceInv, OnceOf, DirectOnce
      <4>3. QED
        BY <4>1, <4>2
    <3>6. current' \in 0..MaxRounds /\ current <= current'
      BY <1>0, <2>2
    <3>7. QED
      BY <2>2, <2>3, <3>4, <3>5, <3>6, FrameKeeps
  <2>5. CASE ~(Utterances[thread.said].direct /\ accepted)
    <3>1. stored' = stored /\ current' \in 0..MaxRounds /\ current <= current'
      BY <1>0, <1>3, <2>5 DEF HandleObservation
    <3>2. QED
      BY <2>2, <2>3, <3>1, MoveKeeps
  <2>6. QED
    BY <2>4, <2>5
<1>4. CASE DecideCheck
  <2>1. /\ UNCHANGED <<current, cands, closedLoop, stored, raised>> /\ thread.pc = "thought"
        /\ \A q \in Rounds : ~CommitsNow(q)
    BY <1>4 DEF DecideCheck, CommitsNow
  <2>2. thread' = Idle \/ Goto("decided")
    BY <1>4 DEF DecideCheck
  <2>3. current' \in 0..MaxRounds /\ current <= current'
    BY <1>0, <2>1
  <2>4. QED
    BY <1>0, <2>1, <2>2, <2>3, IdleFacts, GotoFacts, MoveKeeps
<1>5. ASSUME NEW policy \in {"accepted", "rejected"}, AutoCommit(policy)
      PROVE  OnceInv'
  <2>1. PICK r \in Rounds : r = thread.round /\ r <= current
    BY <1>0, <1>5 DEF AutoCommit
  <2>2. /\ UNCHANGED <<current, closedLoop, stored, raised>> /\ thread.pc = "decided"
        /\ \A q \in Rounds : ~CommitsNow(q) /\ current' \in 0..MaxRounds /\ current <= current'
    BY <1>0, <1>5 DEF AutoCommit, CommitsNow
  <2> DEFINE pending == \E i \in DOMAIN cands[r] : IsPending(cands[r][i])
  <2>3. CASE closedLoop[r] \/ ~(pending \/ Utterances[thread.said].write)
    <3>1. Goto("committed") /\ UNCHANGED cands
      BY <1>5, <2>1, <2>3 DEF AutoCommit
    <3>2. QED
      BY <1>0, <2>1, <2>2, <3>1, GotoFacts, MoveKeeps
  <2>4. CASE ~(closedLoop[r] \/ ~(pending \/ Utterances[thread.said].write))
    <3>1. /\ cands' = IF pending THEN cands ELSE [cands EXCEPT ![r] = Append(@, Proposal("text", policy))]
          /\ thread' = [thread EXCEPT !.pc = "committing", !.at = 1]
      BY <1>5, <2>1, <2>4 DEF AutoCommit
    <3>2. thread' = [pc |-> "committing", round |-> thread.round, said |-> thread.said, at |-> 1]
      BY <1>0, <3>1 DEF ThreadWhole
    <3>3. /\ ThreadWhole' /\ thread'.at = 1 /\ thread'.pc = "committing" /\ thread'.round = r
          /\ CommitsNow(r)'
      BY <2>1, <3>2 DEF ThreadWhole, CommitsNow
    <3>4. CASE pending
      BY <2>1, <2>2, <3>1, <3>3, <3>4, MoveKeeps
    <3>5. CASE ~pending
      <4>1. ~TextProposed(r)
        BY <2>2, <2>4 DEF OnceInv, OnceOf, TextCloses
      <4>2. /\ \A i \in DOMAIN cands[r] : IsProposal(cands[r][i]) => cands[r][i].name # "text"
            /\ stored[r]["text"] = 0
        BY <1>0, <4>1, Typing DEF TextProposed, Names
      <4>3. "text" \in Names /\ policy \in Policies /\ policy # "deferred"
        BY DEF Names, Policies
      <4>4. cands' = [cands EXCEPT ![r] = Append(@, Proposal("text", policy))]
        BY <3>1, <3>5
      <4>5. thread'.at \in Nat \ {0} /\ thread'.round \in Rounds /\ thread'.round <= current'
        BY <2>1, <2>2, <3>3
      <4>6. QED
        BY <2>2, <3>3, <4>2, <4>3, <4>4, <4>5, NewProposalKeeps
    <3>6. QED
      BY <3>4, <3>5
  <2>5. QED
    BY <2>3, <2>4
<1>6. CASE PassOver
  <2>1. PICK r \in Rounds : r = thread.round /\ r <= current
    BY <1>0, <1>6 DEF PassOver, Writing
  <2>2. /\ UNCHANGED <<current, cands, closedLoop, stored, raised>> /\ Writing
        /\ ~IsPending(cands[r][thread.at]) /\ thread' = [thread EXCEPT !.at = @ + 1]
    BY <1>6, <2>1 DEF PassOver, Advance
  <2>3. thread' = [pc |-> thread.pc, round |-> thread.round, said |-> thread.said, at |-> thread.at + 1]
    BY <1>0, <2>2 DEF ThreadWhole
  <2>4. /\ ThreadWhole' /\ thread'.at = thread.at + 1 /\ thread'.pc = thread.pc /\ thread'.round = r
        /\ thread.pc \in {"committing", "retrying"} /\ thread'.at \in Nat \ {0}
    BY <1>0, <2>1, <2>2, <2>3 DEF ThreadWhole, Writing
  <2>5. AboutWrites(r) /\ \A q \in Rounds : CommitsNow(q)' <=> CommitsNow(q)
    BY <2>1, <2>4 DEF OnceInv, OnceOf, AboutWrites, CommitsNow
  <2>6. PendingAhead(r)'
    <3>1. \A i \in PendingOf(r, "text") : i \in Nat /\ i # thread.at
      BY <1>0, <2>2, Typing DEF PendingOf
    <3>2. \A i \in PendingOf(r, "text") : thread.at <= i => thread.at + 1 <= i
      BY <1>0, <3>1
    <3>3. PendingOf(r, "text")' = PendingOf(r, "text")
      BY <2>2 DEF PendingOf
    <3>4. QED
      BY <2>2, <2>4, <2>5, <3>2, <3>3 DEF PendingAhead, AboutWrites
  <2>7. AboutWrites(r)'
    BY <2>2, <2>5, <2>6 DEF AboutWrites, OneProposal, NotYetStored, PendingOf, CallerNoted, TextCloses,
                            TextProposed, TextDecided
  <2>8. OnceTyped' /\ \A q \in Rounds \ {r} : ~CommitsNow(q)
    BY <1>0, <2>1, <2>2, <2>4 DEF OnceTyped, CommitsNow
  <2>9. QED
    BY <2>1, <2>2, <2>4, <2>7, <2>8, OneRound
<1>7. CASE TurnDown
  BY <1>7, TurnDownKeeps
<1>8. ASSUME NEW outcome \in Outcomes, CommitWriteback(outcome)
      PROVE  OnceInv'
  BY <1>8, CommitKeepsOnce
<1>9. CASE CommitEnds
  <2>1. PICK r \in Rounds : r = thread.round /\ r <= current
    BY <1>0, <1>9 DEF CommitEnds
  <2>2. /\ UNCHANGED <<current, cands, stored, raised>> /\ ~Writing /\ AboutWrites(r)
        /\ thread.pc \in {"committing", "retrying"}
    BY <1>9 DEF CommitEnds, OnceInv, OnceOf, AboutWrites
  <2>3. CASE thread.pc = "retrying"
    <3>1. thread' = Idle /\ UNCHANGED closedLoop /\ \A q \in Rounds : ~CommitsNow(q)
      BY <1>9, <2>3 DEF CommitEnds, CommitsNow
    <3>2. current' \in 0..MaxRounds /\ current <= current'
      BY <1>0, <2>2
    <3>3. QED
      BY <2>2, <3>1, <3>2, IdleFacts, MoveKeeps
  <2>4. CASE thread.pc = "committing"
    <3>1. closedLoop' = [closedLoop EXCEPT ![r] = TRUE] /\ Goto("committed")
      BY <1>9, <2>1, <2>4 DEF CommitEnds
    <3>2. closedLoop'[r] = TRUE /\ closedLoop' \in [Rounds -> BOOLEAN] /\ \A q \in Rounds \ {r} : closedLoop'[q] = closedLoop[q]
      BY <1>0, <3>1 DEF OnceTyped
    <3>3. /\ thread'.pc = "committed" /\ thread'.round = r /\ ThreadWhole' /\ thread'.at = thread.at
      BY <1>0, <2>1, <3>1, GotoFacts
    <3>4. PendingAhead(r)'
      <4>1. Len(cands[r]) < thread.at /\ Len(cands[r]) \in Nat
        BY <1>0, <2>1, <2>2, Typing DEF Writing
      <4>2. \A i \in PendingOf(r, "text") : i \in Nat /\ i <= Len(cands[r])
        BY <1>0, Typing DEF PendingOf
      <4>3. \A i \in PendingOf(r, "text") : ~(thread.at <= i)
        BY <1>0, <4>1, <4>2
      <4>4. PendingOf(r, "text")' = PendingOf(r, "text")
        BY <2>2 DEF PendingOf
      <4>5. QED
        BY <2>2, <4>3, <4>4 DEF PendingAhead, AboutWrites
    <3>5. TextCloses(r)'
      BY <3>2 DEF TextCloses
    <3>6. AboutWrites(r)'
      BY <2>2, <3>4, <3>5 DEF AboutWrites, OneProposal, NotYetStored, PendingOf, CallerNoted, TextDecided
    <3>7. OnceTyped' /\ \A q \in Rounds \ {r} : ~CommitsNow(q)
      BY <1>0, <2>1, <2>2, <3>2, <3>3 DEF OnceTyped, CommitsNow
    <3>8. QED
      BY <1>0, <2>1, <2>2, <3>2, <3>3, <3>6, <3>7, OneRound
  <2>5. QED
    BY <2>2, <2>3, <2>4
<1>10. CASE RecordReplyUsage
  <2>1. /\ UNCHANGED <<current, cands, closedLoop, stored, raised>> /\ thread' = Idle
        /\ \A q \in Rounds : ~CommitsNow(q)
    BY <1>10 DEF RecordReplyUsage, CommitsNow
  <2>2. current' \in 0..MaxRounds /\ current <= current'
    BY <1>0, <2>1
  <2>3. QED
    BY <2>1, <2>2, IdleFacts, MoveKeeps
<1>11. CASE ObservePartial
  <2>1. /\ UNCHANGED <<current, closedLoop, stored, raised, thread>> /\ thread.pc = "idle"
        /\ current \in Rounds /\ cands' = [cands EXCEPT ![current] = Prefetched(@)]
    BY <1>0, <1>11 DEF ObservePartial, Outside
  <2>2. ThreadWhole'
    BY <1>0, <2>1 DEF ThreadWhole
  <2>3. QED
    BY <1>0, <2>1, <2>2, RecallKeeps
<1>12. ASSUME NEW policy \in Policies, BuildProposal(policy)
       PROVE  OnceInv'
  <2>1. /\ UNCHANGED <<current, closedLoop, stored, raised, thread>> /\ thread.pc = "idle"
        /\ current \in Rounds /\ \A i \in DOMAIN cands[current] : cands[current][i].name # "caller"
        /\ cands' = [cands EXCEPT ![current] = Append(@, Proposal("caller", policy))]
    BY <1>0, <1>12 DEF BuildProposal, Outside
  <2>2. ThreadWhole' /\ "caller" \in Names
    BY <1>0, <2>1 DEF ThreadWhole, Names
  <2>3. stored[current]["caller"] = 0
    BY <1>0, <2>1, <2>2, Typing DEF OnceInv, OnceOf, CallerNoted
  <2>4. QED
    BY <1>0, <2>1, <2>2, <2>3, NewProposalKeeps
<1>13. CASE CommitMemoryCandidates
  <2>1. /\ UNCHANGED <<current, cands, closedLoop, stored, raised>> /\ thread.pc = "idle" /\ current \in Rounds
        /\ thread' = [pc |-> "retrying", round |-> current, said |-> "plain", at |-> 1]
    <3>1. /\ UNCHANGED <<current, cands, closedLoop, stored, raised>> /\ thread.pc = "idle" /\ current > 0
          /\ thread' = [Idle EXCEPT !.pc = "retrying", !.round = current]
      BY <1>13 DEF CommitMemoryCandidates, Outside
    <3>2. current \in Rounds
      BY <1>0, <3>1
    <3>3. QED
      BY <3>1, <3>2 DEF Idle
  <2>2. ThreadWhole' /\ thread'.at = 1 /\ thread'.pc = "retrying" /\ thread'.round = current
    BY <2>1 DEF ThreadWhole
  <2>3. current' \in 0..MaxRounds /\ current <= current' /\ \A q \in Rounds : ~CommitsNow(q)
    BY <1>0, <2>1 DEF CommitsNow
  <2>4. QED
    BY <1>0, <2>1, <2>2, <2>3, MoveKeeps
<1>14. ASSUME NEW said \in DOMAIN Utterances, DecideAgain(said)
       PROVE  OnceInv'
  <2>1. /\ UNCHANGED <<current, cands, closedLoop, stored, raised>> /\ thread.pc = "idle" /\ current \in Rounds
        /\ thread' = [pc |-> "thought", round |-> current, said |-> said, at |-> 1]
    <3>1. /\ UNCHANGED <<current, cands, closedLoop, stored, raised>> /\ thread.pc = "idle" /\ current > 0
          /\ thread' = [Idle EXCEPT !.pc = "thought", !.round = current, !.said = said]
      BY <1>14 DEF DecideAgain, Outside
    <3>2. current \in Rounds
      BY <1>0, <3>1
    <3>3. QED
      BY <3>1, <3>2 DEF Idle
  <2>2. ThreadWhole' /\ thread'.at = 1 /\ thread'.pc = "thought" /\ thread'.round = current
    BY <2>1 DEF ThreadWhole
  <2>3. current' \in 0..MaxRounds /\ current <= current' /\ \A q \in Rounds : ~CommitsNow(q)
    BY <1>0, <2>1 DEF CommitsNow
  <2>4. QED
    BY <1>0, <2>1, <2>2, <2>3, MoveKeeps
<1>15. CASE Interrupt
  <2>1. /\ UNCHANGED <<cands, closedLoop, stored, raised, thread>>
        /\ current' = current + 1 /\ current' \in 0..MaxRounds /\ current <= current'
    BY <1>0, <1>15 DEF Interrupt, Open
  <2>2. ThreadWhole' /\ (thread'.pc # "idle" => thread'.round \in Rounds /\ thread'.round <= current')
    <3>1. thread.pc # "idle" => thread.round \in Nat /\ thread.round <= current + 1
      BY <1>0 DEF Rounds
    <3>2. QED
      BY <1>0, <2>1, <3>1 DEF ThreadWhole
  <2>3. \A q \in Rounds : CommitsNow(q) => CommitsNow(q)' /\ thread'.at = thread.at
    BY <2>1 DEF CommitsNow
  <2>4. QED
    BY <1>0, <2>1, <2>2, <2>3, MoveKeeps
<1>16. CASE UNCHANGED loopVars
  <2>1. UNCHANGED <<current, cands, closedLoop, stored, raised, thread>>
    BY <1>16 DEF loopVars
  <2>2. ThreadWhole' /\ current' \in 0..MaxRounds /\ current <= current'
    BY <1>0, <2>1 DEF ThreadWhole
  <2>3. \A q \in Rounds : CommitsNow(q) => CommitsNow(q)' /\ thread'.at = thread.at
    BY <2>1 DEF CommitsNow
  <2>4. QED
    BY <1>0, <2>1, <2>2, <2>3, MoveKeeps
<1>17. QED
  BY <1>1, <1>2, <1>3, <1>4, <1>5, <1>6, <1>7, <1>8, <1>9, <1>10, <1>11, <1>12, <1>13, <1>14, <1>15, <1>16
     DEF MemoryNext, Iteration

LEMMA OnceHolds == MemorySpec => []OnceInv
BY OnceInit, OnceStep, PTL DEF MemorySpec

(* For any number of rounds and calls, and whatever the server does with   *)
(* each: a proposal reaches it a second time only after a write of it that *)
(* raised (commit_candidates, _auto_commit_decision_memory), and the direct*)
(* write is made once (handle_observation).                                *)
THEOREM WritesOnce == MemorySpec => []StoredOnce
<1>1. OnceInv => StoredOnce
  BY DEF OnceInv, OnceOf, NotYetStored, DirectOnce, StoredOnce
<1> QED BY <1>1, OnceHolds, PTL

(* Between iterations the dialogue of a turn is pending only if a write of *)
(* it raised (commit_candidates).                                          *)
THEOREM SettledAtRest == MemorySpec => []RestMeansSettled
<1>1. OnceInv => RestMeansSettled
  BY DEF OnceInv, OnceOf, PendingAhead, PendingOf, CommitsNow, RestMeansSettled
<1> QED BY <1>1, OnceHolds, PTL
=============================================================================
