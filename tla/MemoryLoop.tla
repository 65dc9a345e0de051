----------------------------- MODULE MemoryLoop -----------------------------
(***************************************************************************)
(* Long-term memory around one utterance: what the turn remembers of its   *)
(* recalls and write proposals (memory_candidates), the two paths on which *)
(* an utterance reaches the memory server, and what becomes of a write     *)
(* whose answer is lost, refused or raises.                                *)
(*                                                                         *)
(*   direct     handle_observation of the cognitive runtime writes before  *)
(*              anybody asks whether the round is still live;              *)
(*   scheduled  decide() of the realtime scheduler proposes and commits    *)
(*              after its check of the round.                              *)
(*                                                                         *)
(* The loop does one thing after the other; a barge-in comes between any   *)
(* two of them, except within _finalize_asr, which holds _turn_lock across *)
(* its recall.  Texts are left out: an utterance is which markers it has,  *)
(* a candidate is named by what the merges compare ("text" for whatever    *)
(* carries the words of the utterance as its query); what a recall finds,  *)
(* which no write depends on, is left out.  What the policy says of a      *)
(* proposal and what the server does with a call are inputs.               *)
(***************************************************************************)
EXTENDS Naturals, Sequences, FiniteSets

CONSTANTS MaxRounds,    \* bound on the rounds
          MaxCalls      \* bound on the calls that come from outside the loop

ASSUME MemoryAssumption == MaxRounds \in Nat \ {0} /\ MaxCalls \in Nat

VARIABLES
    current,    \* the number of the current turn; 0 before the first
    live,       \* live[r]: round r is current and not interrupted
    cands,      \* cands[r]: memory_candidates of the turn
    closedLoop, \* closedLoop[r]: memory_closed_loop_committed of the turn
    items,      \* items[r]: <<proposal, status>> of the writes in its traces
    adapter,    \* status of the adapter's last_writeback_status
    thread,     \* where the loop is
    calls,      \* calls from outside so far
    stored,     \* the server: how often it has stored each proposal
    raised,     \* history: how many writes of each proposal have raised
    checked     \* history: the rounds that decide() has found live

loopVars == <<current, live, cands, closedLoop, items, adapter, thread, calls, stored, raised, checked>>

Rounds == 1..MaxRounds
Names == {"text", "caller"}
Statuses == {"pending", "ok", "deferred", "rejected"}

(* Which markers the words carry: the scheduler recalls on some, proposes  *)
(* a write on others, and the cognitive runtime writes directly on an      *)
(* explicit request only ("negated" is a request that is taken back).      *)
Utterances == [plain    |-> [recall |-> FALSE, write |-> FALSE, direct |-> FALSE],
               question |-> [recall |-> TRUE,  write |-> FALSE, direct |-> FALSE],
               request  |-> [recall |-> TRUE,  write |-> TRUE,  direct |-> TRUE],
               negated  |-> [recall |-> TRUE,  write |-> TRUE,  direct |-> FALSE],
               wish     |-> [recall |-> FALSE, write |-> TRUE,  direct |-> FALSE]]

Request == [kind |-> "recall_request", name |-> "text", status |-> "ok", policy |-> "accepted"]
Proposal(name, policy) ==
    [kind |-> "writeback_proposal", name |-> name, status |-> "pending", policy |-> policy]

IsPending(c) == c.kind = "writeback_proposal" /\ c.status \in {"pending", "deferred"}

Idle == [pc |-> "idle", round |-> 0, said |-> "plain", at |-> 1]

MemoryInit ==
    /\ current = 0
    /\ live = [r \in Rounds |-> FALSE]
    /\ cands = [r \in Rounds |-> <<>>]
    /\ closedLoop = [r \in Rounds |-> FALSE]
    /\ items = [r \in Rounds |-> {}]
    /\ adapter = "idle"
    /\ thread = Idle /\ calls = 0
    /\ stored = [r \in Rounds |-> [n \in Names \cup {"direct"} |-> 0]]
    /\ raised = [r \in Rounds |-> [n \in Names |-> 0]]
    /\ checked = {}

-----------------------------------------------------------------------------
(* Candidates *)

(* A merge keeps the first candidate of each name, in their order.         *)
Firsts(seq) == {i \in DOMAIN seq : \A j \in DOMAIN seq : seq[j].name = seq[i].name => i <= j}

Merge(seq) ==
    LET Rank(i) == Cardinality({j \in Firsts(seq) : j <= i})
    IN  [n \in 1..Cardinality(Firsts(seq)) |-> seq[CHOOSE i \in Firsts(seq) : Rank(i) = n]]

(* The recall of a partial: the request is noted, done at once, and merged *)
(* with what is there.                                                     *)
Prefetched(seq) == Merge(Append(seq, Request))

(* What becomes of a call that writes: stored or not, and what the adapter *)
(* reports; "raised" is an exception that it does not catch.               *)
Outcomes == {[store |-> 1, report |-> "ok"],          \* stored and confirmed
             [store |-> 0, report |-> "error"],       \* refused, or not reached
             [store |-> 1, report |-> "error"],       \* stored, the answer lost
             [store |-> 0, report |-> "raised"],
             [store |-> 1, report |-> "raised"]}

-----------------------------------------------------------------------------
(* The loop *)

Goto(pc) == thread' = [thread EXCEPT !.pc = pc]

Open(r) ==
    /\ current' = r
    /\ live' = [i \in Rounds |-> i = r]

(* A new round supersedes the one before, whose turn is no longer current. *)
StartRound ==
    /\ thread.pc = "idle" /\ current < MaxRounds
    /\ Open(current + 1)
    /\ thread' = [Idle EXCEPT !.pc = "started", !.round = current + 1]
    /\ UNCHANGED <<cands, closedLoop, items, adapter, calls, stored, raised, checked>>

(* _finalize_asr under the lock: the partial recalls if its words ask for  *)
(* it; a round interrupted before is refused, and the iteration ends.      *)
FinalizeAsr(said) ==
    /\ thread.pc = "started"
    /\ IF live[thread.round]
       THEN /\ cands' = IF Utterances[said].recall
                        THEN [cands EXCEPT ![thread.round] = Prefetched(@)] ELSE cands
            /\ thread' = [thread EXCEPT !.pc = "heard", !.said = said]
       ELSE thread' = Idle /\ UNCHANGED cands
    /\ UNCHANGED <<current, live, closedLoop, items, adapter, calls, stored, raised, checked>>

(* handle_observation: an explicit request is written at once, if the      *)
(* policy accepts it, whatever has become of the round meanwhile.  What    *)
(* raises ends the iteration.                                              *)
HandleObservation(accepted, outcome) ==
    /\ thread.pc = "heard"
    /\ IF Utterances[thread.said].direct /\ accepted
       THEN /\ stored' = [stored EXCEPT ![thread.round]["direct"] = @ + outcome.store]
            /\ IF outcome.report = "raised"
               THEN thread' = Idle /\ UNCHANGED adapter
               ELSE adapter' = outcome.report /\ Goto("thought")
       ELSE Goto("thought") /\ UNCHANGED <<stored, adapter>>
    /\ UNCHANGED <<current, live, cands, closedLoop, items, calls, raised, checked>>

(* decide(), as far as its last check of the round.                        *)
DecideUnchecked ==      \* Faulty: a closed round decides like a live one
    /\ thread.pc = "thought" /\ Goto("decided")
    /\ checked' = IF live[thread.round] THEN checked \cup {thread.round} ELSE checked
    /\ UNCHANGED <<current, live, cands, closedLoop, items, adapter, calls, stored, raised>>
DecideCheck ==
    /\ thread.pc = "thought"
    /\ IF live[thread.round]
       THEN Goto("decided") /\ checked' = checked \cup {thread.round}
       ELSE thread' = Idle /\ UNCHANGED checked
    /\ UNCHANGED <<current, live, cands, closedLoop, items, adapter, calls, stored, raised>>

(* _auto_commit_decision_memory: once per turn; what is pending is         *)
(* committed, and only if nothing is does the dialogue become a proposal.  *)
AutoCommit(policy) ==
    /\ thread.pc = "decided"
    /\ LET r == thread.round
           pending == \E i \in DOMAIN cands[r] : IsPending(cands[r][i])
       IN  IF closedLoop[r] \/ ~(pending \/ Utterances[thread.said].write)
           THEN Goto("committed") /\ UNCHANGED cands
           ELSE /\ cands' = IF pending THEN cands
                            ELSE [cands EXCEPT ![r] = Append(@, Proposal("text", policy))]
                /\ thread' = [thread EXCEPT !.pc = "committing", !.at = 1]
    /\ UNCHANGED <<current, live, closedLoop, items, adapter, calls, stored, raised, checked>>

Settled(status) == [cands EXCEPT ![thread.round][thread.at].status = status]
Note(c, status) == [items EXCEPT ![thread.round] = @ \cup {<<c.name, status>>}]
Writing == thread.pc \in {"committing", "retrying"} /\ thread.at <= Len(cands[thread.round])
Advance == thread' = [thread EXCEPT !.at = @ + 1]

(* commit_candidates, one candidate: recalls and what is settled are       *)
(* passed over, ...                                                        *)
PassOver ==
    /\ Writing /\ ~IsPending(cands[thread.round][thread.at])
    /\ Advance
    /\ UNCHANGED <<current, live, cands, closedLoop, items, adapter, calls, stored, raised, checked>>

(* ... what the policy turns down is not sent, ...                         *)
TurnDown ==
    /\ Writing
    /\ LET c == cands[thread.round][thread.at]
       IN  /\ IsPending(c) /\ c.policy # "accepted"
           /\ cands' = Settled(c.policy)
    /\ Advance
    /\ UNCHANGED <<current, live, closedLoop, items, adapter, calls, stored, raised, checked>>

(* ... and the rest is sent; what raises leaves the candidate pending.     *)
Commit(outcome, status, settles) ==
    /\ Writing
    /\ LET r == thread.round
           c == cands[r][thread.at]
       IN  /\ IsPending(c) /\ c.policy = "accepted"
           /\ stored' = [stored EXCEPT ![r][c.name] = @ + outcome.store]
           /\ IF outcome.report = "raised"
              THEN /\ raised' = [raised EXCEPT ![r][c.name] = @ + 1]
                   /\ items' = Note(c, "error")
                   /\ UNCHANGED <<cands, adapter>>
              ELSE /\ adapter' = status
                   /\ items' = Note(c, status)
                   /\ cands' = IF settles THEN Settled("ok") ELSE cands
                   /\ UNCHANGED raised
    /\ Advance
    /\ UNCHANGED <<current, live, closedLoop, calls, checked>>

(* Whatever the adapter reports, the candidate is settled as "ok".         *)
CommitUntilOk(outcome) ==    \* Faulty: what was not confirmed stays pending
    Commit(outcome, outcome.report, outcome.report = "ok")
CommitAsOk(outcome) ==       \* Faulty: an error that is not reported counts as "ok"
    Commit(outcome, IF outcome.report = "error" THEN "ok" ELSE outcome.report, TRUE)
CommitWriteback(outcome) == Commit(outcome, outcome.report, TRUE)

(* The end of the candidates; the trace is recorded on the server, which   *)
(* changes nothing here if it fails.                                       *)
CommitEnds ==
    /\ thread.pc \in {"committing", "retrying"} /\ ~Writing
    /\ IF thread.pc = "committing"
       THEN closedLoop' = [closedLoop EXCEPT ![thread.round] = TRUE] /\ Goto("committed")
       ELSE thread' = Idle /\ UNCHANGED closedLoop
    /\ UNCHANGED <<current, live, cands, items, adapter, calls, stored, raised, checked>>

(* _record_reply_memory_usage marks what the decision refers to among the  *)
(* recalls.                                                                *)
RecordReplyUsage ==
    /\ thread.pc = "committed"
    /\ thread' = Idle
    /\ UNCHANGED <<current, live, cands, closedLoop, items, adapter, calls, stored, raised,
                   checked>>

-----------------------------------------------------------------------------
(* Calls from outside, between two iterations, on the current turn *)

Outside ==
    /\ thread.pc = "idle" /\ current > 0 /\ live[current] /\ calls < MaxCalls
    /\ calls' = calls + 1

(* A late partial of the bridge, with the words of the utterance.          *)
ObservePartial ==
    /\ Outside
    /\ cands' = [cands EXCEPT ![current] = Prefetched(@)]
    /\ UNCHANGED <<current, live, closedLoop, items, adapter, thread, stored, raised, checked>>

(* build_writeback_proposal and its relatives, which only take a note.     *)
BuildProposal(policy) ==
    /\ Outside
    /\ \A i \in DOMAIN cands[current] : cands[current][i].name # "caller"
    /\ cands' = [cands EXCEPT ![current] = Append(@, Proposal("caller", policy))]
    /\ UNCHANGED <<current, live, closedLoop, items, adapter, thread, stored, raised, checked>>

CommitMemoryCandidates ==
    /\ Outside
    /\ thread' = [Idle EXCEPT !.pc = "retrying", !.round = current]
    /\ UNCHANGED <<current, live, cands, closedLoop, items, adapter, stored, raised, checked>>

DecideAgain(said) ==
    /\ Outside
    /\ thread' = [Idle EXCEPT !.pc = "thought", !.round = current, !.said = said]
    /\ UNCHANGED <<current, live, cands, closedLoop, items, adapter, stored, raised, checked>>

(* A barge-in from another thread closes the round and opens the next.     *)
Interrupt ==
    /\ current \in 1..(MaxRounds - 1)
    /\ Open(current + 1)
    /\ UNCHANGED <<cands, closedLoop, items, adapter, thread, calls, stored, raised, checked>>

Policies == {"accepted", "deferred", "rejected"}

Iteration ==
    \/ \E said \in DOMAIN Utterances : FinalizeAsr(said)
    \/ \E accepted \in BOOLEAN, outcome \in Outcomes : HandleObservation(accepted, outcome)
    \/ DecideCheck
    \/ \E policy \in {"accepted", "rejected"} : AutoCommit(policy)
    \/ PassOver \/ TurnDown
    \/ \E outcome \in Outcomes : CommitWriteback(outcome)
    \/ CommitEnds
    \/ RecordReplyUsage

MemoryNext ==
    \/ StartRound \/ Iteration \/ Interrupt
    \/ ObservePartial
    \/ \E policy \in Policies : BuildProposal(policy)
    \/ CommitMemoryCandidates
    \/ \E said \in DOMAIN Utterances : DecideAgain(said)

MemorySpec == MemoryInit /\ [][MemoryNext]_loopVars

-----------------------------------------------------------------------------
(* Properties *)

MemoryTypeOK ==
    /\ current \in 0..MaxRounds
    /\ live \in [Rounds -> BOOLEAN] /\ closedLoop \in [Rounds -> BOOLEAN]
    /\ \A r \in Rounds : \A i \in DOMAIN cands[r] :
           /\ cands[r][i].kind \in {"recall_request", "writeback_proposal"}
           /\ cands[r][i].kind = "writeback_proposal" =>
                  cands[r][i].name \in Names /\ cands[r][i].status \in Statuses
    /\ \A r \in Rounds : items[r] \subseteq (Names \X {"ok", "error"})
    /\ adapter \in {"idle", "ok", "error"}
    /\ thread.round \in 0..current /\ thread.at \in Nat \ {0}
    /\ calls \in 0..MaxCalls
    /\ checked \subseteq Rounds

(* A proposal reaches the server twice only through a write that raised:   *)
(* neither a refused or lost answer, nor a second decide or commit of the  *)
(* same turn, nor a merge that drops the settled proposal from the turn,   *)
(* makes the scheduler send it again.  The direct path writes once, too.   *)
StoredOnce ==
    \A r \in Rounds :
        /\ \A n \in Names : stored[r][n] <= 1 + raised[r][n]
        /\ stored[r]["direct"] <= 1

(* A trace item that says "ok" is on the server, although the status is    *)
(* read from the adapter after the call, where any earlier call left one.  *)
OkItemsAreStored ==
    \A r \in Rounds, n \in Names : <<n, "ok">> \in items[r] => stored[r][n] > 0

(* Between iterations the dialogue of a turn is settled or dropped; only a *)
(* write of it that raised leaves it pending, never one that the server    *)
(* refused or whose answer was lost.                                       *)
RestMeansSettled ==
    thread.pc = "idle" =>
        \A r \in Rounds : \A i \in DOMAIN cands[r] :
            (IsPending(cands[r][i]) /\ cands[r][i].name = "text") => raised[r]["text"] > 0

(* The scheduler writes for a round that was closed before decide() looked *)
(* at it only what a caller's own commit had begun to write.  The direct   *)
(* path does not keep to this.                                             *)
ClosedRoundsStaySilent ==
    [][\A r \in Rounds, n \in Names :
          stored'[r][n] > stored[r][n] => r \in checked \/ live[r] \/ thread.pc = "retrying"]_loopVars
=============================================================================
