------------------------------ MODULE Recalls ------------------------------
(***************************************************************************)
(* What one turn of the realtime scheduler keeps of its memories, and what *)
(* it says it has done with them: the candidates of the turn (recalled     *)
(* memories, requests and proposals), the memories that the decision       *)
(* refers to, and the traces that the memory orchestrator writes of its    *)
(* requests and proposals and of the reply.                                *)
(*                                                                         *)
(* MemoryLoop has the rounds, the retries and what reaches the server;     *)
(* here it is one turn, one call at a time.  A candidate goes by the name  *)
(* that the merges compare, its id or else its words.  The order of the    *)
(* candidates is left out, and with it which of two of equal score comes   *)
(* first and in which order a commit takes them; so are all texts, and     *)
(* how the persona tells which memories it has to guard against.           *)
(***************************************************************************)
EXTENDS Naturals, Sequences, FiniteSets

CONSTANTS Names    \* ids of memories, words of requests and proposals

VARIABLES
    service,   \* a memory service is configured
    cands,     \* memory_candidates, by name
    refs,      \* memory_refs of the decision at hand
    step,      \* where the scheduler is
    todo,      \* the candidates that a commit has yet to come to
    draft,     \* the trace of that commit
    traces,    \* memory_traces
    closedLoop \* memory_closed_loop_committed

recallVars == <<service, cands, refs, step, todo, draft, traces, closedLoop>>

Blank == "none"
Kinds == {"recall", "recall_request", "writeback_proposal"}
Statuses == {Blank, "available", "used", "filtered"}
Stages == {"candidates", "prefetch", "prefetch_result", "policy_decision", "conflict_resolution",
           "write_skipped", "write_committed", "recall_used"}

(* A candidate: "record" is the record id that it names, "barred" that the *)
(* policy's decision about it is to filter, reject or block it.            *)
Candidates == [kind : Kinds, record : Names \union {Blank}, score : Nat, status : Statuses,
               barred : BOOLEAN, guarded : BOOLEAN, used : BOOLEAN,
               settled : BOOLEAN, needed : BOOLEAN, twin : BOOLEAN]

(* What a caller may offer: each has a name of its own by then.            *)
Offers == {offered \in UNION {[some -> Candidates] : some \in SUBSET Names} :
              \A n \in DOMAIN offered : ~offered[n].twin}

NewTrace == [requested |-> {}, answered |-> {}, results |-> {}, decisions |-> {},
             snapshots |-> {}, proposed |-> {}, written |-> {}, confirmed |-> {}, skipped |-> {},
             failed |-> {}, faults |-> {}, used |-> {}, filtered |-> {},
             stages |-> [s \in Stages |-> 0]]

RecallInit ==
    /\ service \in BOOLEAN
    /\ cands = [n \in {} |-> Blank] /\ refs = {} /\ step = "idle"
    /\ todo = {} /\ draft = NewTrace /\ traces = <<>> /\ closedLoop = FALSE

-----------------------------------------------------------------------------
(* Candidates *)

IsRecall(c) == c.kind = "recall"
Recalled(all) == {n \in DOMAIN all : IsRecall(all[n])}
Key(all, n) == IF all[n].record = Blank THEN n ELSE all[n].record

(* What the reasoner does not refer to, and a reply marks as filtered.     *)
Filtered(c) == c.status = "filtered" \/ c.barred \/ c.guarded

(* Of two of one name the first list's stays.  A proposal in the words of  *)
(* another candidate ("twin") is noted beside it, and is there until the   *)
(* next merge drops it.                                                    *)
Joined(first, second) ==
    [n \in DOMAIN first \union DOMAIN second |-> IF n \in DOMAIN first THEN first[n] ELSE second[n]]
Single(all) == {n \in DOMAIN all : ~all[n].twin}
Distinct(all) == [n \in Single(all) |-> all[n]]

Noted(kind, settled) ==
    [kind |-> kind, record |-> Blank, score |-> 0, status |-> Blank, barred |-> FALSE,
     guarded |-> FALSE, used |-> FALSE, settled |-> settled, needed |-> TRUE, twin |-> FALSE]
Noting(all, n, c) == Joined(all, [x \in {n} |-> c])

(* What a service answers: per name what it has found, what the results    *)
(* show of it, and the decisions it tells, about what it has selected and  *)
(* what it has left out; or it fails.                                      *)
Details == [recorded : BOOLEAN, barred : BOOLEAN, score : Nat]
Answers == {a \in [ok : BOOLEAN, found : UNION {[some -> Details] : some \in SUBSET Names},
                   shown : SUBSET Names, told : SUBSET (Names \X {"allow", "filter"})] :
                /\ ~a.ok => DOMAIN a.found = {} /\ a.shown = {} /\ a.told = {}
                /\ a.shown = {} <=> DOMAIN a.found = {}}

FromResult(found) ==
    [n \in DOMAIN found |->
        [kind |-> "recall", record |-> IF found[n].recorded THEN n ELSE Blank,
         score |-> found[n].score, status |-> IF found[n].barred THEN "filtered" ELSE "available",
         barred |-> found[n].barred, guarded |-> FALSE, used |-> FALSE,
         settled |-> FALSE, needed |-> TRUE, twin |-> FALSE]]

-----------------------------------------------------------------------------
(* Traces *)

Staged(t, s) == [t EXCEPT !.stages = [t.stages EXCEPT ![s] = @ + 1]]

Snapshot(t, n) ==
    LET u == [t EXCEPT !.snapshots = @ \union {n}]
    IN  IF t.stages["candidates"] > 0 THEN u ELSE Staged(u, "candidates")

Asked(t, n) ==
    Snapshot(IF n \in t.requested THEN t
             ELSE Staged([t EXCEPT !.requested = @ \union {n}], "prefetch"), n)

Told(t, told) ==
    IF told = {} THEN t
    ELSE Staged([t EXCEPT !.decisions = @ \union told], "policy_decision")

Shown(t, shown) ==
    LET u == [t EXCEPT !.results = @ \union shown]
    IN  IF u.results = {} THEN u ELSE Staged(u, "prefetch_result")

(* A request that the service answers, or that fails.                      *)
Resolved(t, n, a) ==
    IF a.ok THEN [Shown(Told(Asked(t, n), a.told), a.shown) EXCEPT !.answered = @ \union {n}]
    ELSE [Asked(t, n) EXCEPT !.failed = @ \union {n}]

Proposed(t, n) == IF n \in t.proposed THEN t ELSE Snapshot([t EXCEPT !.proposed = @ \union {n}], n)

(* What becomes of a proposal: nobody asked for the write, the policy is   *)
(* against it, the write fails, or the service has an answer to it, which  *)
(* need not be "ok".  What the metadata says of the policy and of a        *)
(* conflict is told with the answer only.                                  *)
Verdicts == [status : {"unneeded", "against", "failed", "ok", "refused"},
             policy : BOOLEAN, conflict : BOOLEAN]

Skipped(t, n) == Staged([t EXCEPT !.skipped = @ \union {n}], "write_skipped")
StagedIf(told, t, s) == IF told THEN Staged(t, s) ELSE t
Written(t, n, v) ==
    CASE v.status = "unneeded" -> Skipped(Proposed(t, n), n)
      [] v.status = "against"  -> Skipped(Staged(Proposed(t, n), "policy_decision"), n)
      [] v.status = "failed"   -> [Proposed(t, n) EXCEPT !.failed = @ \union {n}]
      [] OTHER ->
            LET u == [Proposed(t, n) EXCEPT !.written = @ \union {n},
                                            !.confirmed = IF v.status = "ok" THEN @ \union {n} ELSE @]
            IN  Staged(StagedIf(v.conflict, StagedIf(v.policy, u, "policy_decision"),
                                "conflict_resolution"), "write_committed")

(* The trace goes to the service, too, which may fail.                     *)
Kept(t, fault) == [t EXCEPT !.faults = @ \union fault]
Faults == {{}, {"unrecorded"}}

Status(t) ==
    IF t.failed \union t.faults = {} THEN "ok"
    ELSE IF t.confirmed \union t.results = {} THEN "error" ELSE "partial"

-----------------------------------------------------------------------------
(* The scheduler *)

AtRest == step \in {"idle", "replied"}

(* observe_partial: some words ask for a recall at once, which without a   *)
(* service is a candidate by itself; what the turn has stays first, and    *)
(* what the caller offers comes last.                                      *)
Prefetched(n, a) ==
    IF service THEN Joined(Noting(cands, n, Noted("recall_request", TRUE)), FromResult(a.found))
    ELSE Noting(cands, n, [Noted("recall", FALSE) EXCEPT !.score = 5])

ObservePartial(n, asks, a, offered, fault) ==
    /\ AtRest
    /\ cands' = Joined(Distinct(IF asks THEN Prefetched(n, a) ELSE cands), offered)
    /\ traces' = IF asks /\ service THEN Append(traces, Kept(Resolved(NewTrace, n, a), fault))
                 ELSE traces
    /\ step' = "idle"
    /\ UNCHANGED <<service, refs, todo, draft, closedLoop>>

(* observe_final and decide: what the caller offers comes first.           *)
Offered(offered) == IF DOMAIN offered = {} THEN cands ELSE Joined(offered, Distinct(cands))

ObserveFinal(offered) ==
    /\ AtRest
    /\ cands' = Offered(offered)
    /\ step' = "idle"
    /\ UNCHANGED <<service, refs, todo, draft, traces, closedLoop>>

(* The persona guards itself against some of the candidates, ...           *)
Guarded(all, against) ==
    [n \in DOMAIN all |->
        IF n \in against
        THEN [all[n] EXCEPT !.status = "filtered", !.guarded = TRUE, !.barred = TRUE]
        ELSE all[n]]

(* ... and of the others a decision refers to the three that score best.   *)
Best(all, best) ==
    LET clean == {n \in DOMAIN all : ~Filtered(all[n])}
    IN  /\ best \subseteq clean
        /\ Cardinality(best) = 3 \/ best = clean
        /\ \A n \in best, m \in clean \ best : all[m].score <= all[n].score

Decide(offered, against, best) ==
    /\ AtRest
    /\ cands' = Guarded(Offered(offered), against)
    /\ Best(cands', best)
    /\ refs' = best
    /\ step' = "deciding"
    /\ UNCHANGED <<service, todo, draft, traces, closedLoop>>

(* The turn manager refuses the decision of a cancelled turn.              *)
Refused ==
    /\ step = "deciding" /\ step' = "idle"
    /\ UNCHANGED <<service, cands, refs, todo, draft, traces, closedLoop>>

Open(all) == {n \in DOMAIN all : ~IsRecall(all[n]) /\ ~all[n].settled}
Pending(all) == \E n \in Open(all) : all[n].kind = "writeback_proposal" /\ all[n].needed

(* _auto_commit_decision_memory: once per turn, what is pending, or else   *)
(* the dialogue as a proposal of its own, if its words ask for that.       *)
NoCommit ==
    /\ step = "deciding" /\ step' = "replying"
    /\ UNCHANGED <<service, cands, refs, todo, draft, traces, closedLoop>>

Commit(all, after) ==
    /\ cands' = all
    /\ todo' = Open(all) /\ draft' = NewTrace
    /\ step' = after

Proposal(needed, twin) ==
    [Noted("writeback_proposal", FALSE) EXCEPT !.needed = needed, !.twin = twin]

AutoCommit(n, twin) ==
    /\ step = "deciding" /\ service /\ ~closedLoop
    /\ n \notin DOMAIN cands \/ Pending(cands)
    /\ twin => cands # [x \in {} |-> Blank]
    /\ Commit(IF Pending(cands) THEN cands ELSE Noting(cands, n, Proposal(TRUE, twin)), "committing")
    /\ UNCHANGED <<service, refs, traces, closedLoop>>

(* commit_memory_candidates, from outside, and a proposal from outside.    *)
CommitCandidates ==
    /\ AtRest
    /\ IF service
       THEN Commit(cands, "retrying") /\ UNCHANGED traces
       ELSE /\ traces' = Append(traces, Kept(NewTrace, {"unserved"}))
            /\ step' = "idle"
            /\ UNCHANGED <<cands, todo, draft>>
    /\ UNCHANGED <<service, refs, closedLoop>>

Propose(n, needed, twin) ==
    /\ AtRest /\ n \notin DOMAIN cands
    /\ twin => cands # [x \in {} |-> Blank]
    /\ cands' = Noting(cands, n, Proposal(needed, twin))
    /\ step' = "idle"
    /\ UNCHANGED <<service, refs, todo, draft, traces, closedLoop>>

Committing == step \in {"committing", "retrying"}
Settled(n) == [cands EXCEPT ![n] = [@ EXCEPT !.settled = TRUE]]

(* commit_candidates, one candidate: a request is settled whether or not   *)
(* it fails, and what it finds joins the turn; ...                         *)
CommitRecall(n, a) ==
    /\ Committing /\ n \in todo /\ cands[n].kind = "recall_request"
    /\ cands' = Joined(Settled(n), FromResult(a.found))
    /\ draft' = Resolved(draft, n, a)
    /\ todo' = todo \ {n}
    /\ UNCHANGED <<service, refs, step, traces, closedLoop>>

(* ... a proposal stays open if the write fails or is put off.             *)
CommitWriteback(n, v, deferred) ==
    /\ Committing /\ n \in todo /\ cands[n].kind = "writeback_proposal"
    /\ v.status = "unneeded" <=> ~cands[n].needed
    /\ cands' = IF v.status = "failed" \/ (v.status = "against" /\ deferred) THEN cands
                ELSE Settled(n)
    /\ draft' = Written(draft, n, v)
    /\ todo' = todo \ {n}
    /\ UNCHANGED <<service, refs, step, traces, closedLoop>>

CommitEnds(fault) ==
    /\ Committing /\ todo = {}
    /\ traces' = Append(traces, Kept(draft, fault))
    /\ IF step = "committing" THEN step' = "replying" /\ closedLoop' = TRUE
       ELSE step' = "idle" /\ UNCHANGED closedLoop
    /\ UNCHANGED <<service, cands, refs, todo, draft>>

(* record_reply_memory_usage: the recalls whose key the decision refers to *)
(* are marked as used, or all of them if it refers to nothing; then those  *)
(* that are filtered are marked as such.                                   *)
UsedBy(all) == {n \in Recalled(all) : refs = {} \/ Key(all, n) \in refs}
MarkUsed(all) ==
    [n \in DOMAIN all |-> IF n \in UsedBy(all) THEN [all[n] EXCEPT !.used = TRUE, !.status = "used"]
                          ELSE all[n]]
FilteredIn(all) == {n \in Recalled(all) : Filtered(all[n])}
MarkFiltered(all) ==
    [n \in DOMAIN all |-> IF n \in FilteredIn(all)
                          THEN [all[n] EXCEPT !.used = FALSE, !.status = "filtered"]
                          ELSE all[n]]

(* The reply is noted in the latest trace.                                 *)
Latest == IF traces = <<>> THEN NewTrace ELSE traces[Len(traces)]
Replied(t, used, filtered) == Staged([t EXCEPT !.used = used, !.filtered = filtered], "recall_used")

Reply(fault) ==
    /\ step = "replying" /\ Recalled(cands) # {}
    /\ fault # {} => service
    /\ cands' = MarkFiltered(MarkUsed(cands))
    /\ LET t == Kept(Replied(Latest, UsedBy(cands), FilteredIn(MarkUsed(cands))), fault)
       IN  traces' = IF traces = <<>> THEN <<t>> ELSE [traces EXCEPT ![Len(traces)] = t]
    /\ step' = "replied"
    /\ UNCHANGED <<service, refs, todo, draft, closedLoop>>

NothingToMark ==
    /\ step = "replying" /\ Recalled(cands) = {} /\ step' = "idle"
    /\ UNCHANGED <<service, cands, refs, todo, draft, traces, closedLoop>>

RecallNext ==
    \/ \E n \in Names, asks \in BOOLEAN, a \in Answers, offered \in Offers, fault \in Faults :
           ObservePartial(n, asks, a, offered, fault)
    \/ \E offered \in Offers : ObserveFinal(offered)
    \/ \E offered \in Offers, against, best \in SUBSET Names : Decide(offered, against, best)
    \/ Refused \/ NoCommit \/ CommitCandidates \/ NothingToMark
    \/ \E n \in Names, twin \in BOOLEAN : AutoCommit(n, twin)
    \/ \E n \in Names, needed, twin \in BOOLEAN : Propose(n, needed, twin)
    \/ \E n \in Names, a \in Answers : CommitRecall(n, a)
    \/ \E n \in Names, v \in Verdicts, deferred \in BOOLEAN : CommitWriteback(n, v, deferred)
    \/ \E fault \in Faults : CommitEnds(fault) \/ Reply(fault)

RecallSpec == RecallInit /\ [][RecallNext]_recallVars

-----------------------------------------------------------------------------
(* Properties *)

(* When a reply has been noted, no memory that the policy bars or that the *)
(* persona is guarded against counts as used, each is listed as filtered;  *)
(* and a memory that the decision refers to by its own id is used, listed  *)
(* as used and not as filtered, although the commit that came between may  *)
(* have brought any number of memories.                                    *)
ReplyTellsTheTruth ==
    step = "replied" =>
        LET t == traces[Len(traces)]
        IN  /\ traces # <<>>
            /\ \A n \in Recalled(cands) :
                 /\ Filtered(cands[n]) =>
                        ~cands[n].used /\ cands[n].status = "filtered" /\ n \in t.filtered
                 /\ (n \in refs /\ Key(cands, n) = n) =>
                        cands[n].used /\ n \in t.used /\ n \notin t.filtered

(* A decision refers to nothing that is filtered, up to the reply.         *)
RefersToCleanMemories ==
    step \in {"deciding", "committing", "replying"} =>
        /\ refs \subseteq DOMAIN cands
        /\ \A n \in refs : ~Filtered(cands[n])

(* A trace has lost nothing on its way: each request is answered or has    *)
(* failed, each proposal is written, skipped or has failed, and the stages *)
(* count them; results and decisions have a stage.  So a trace with status *)
(* "ok" has an answer to all that it tells of.                             *)
Accounts(t) ==
    /\ t.answered \union t.failed \union t.written \union t.skipped = t.requested \union t.proposed
    /\ t.requested \subseteq t.answered \union t.failed
    /\ t.proposed \subseteq t.written \union t.skipped \union t.failed
    /\ t.snapshots = t.requested \union t.proposed
    /\ t.confirmed \subseteq t.written
    /\ t.stages["prefetch"] = Cardinality(t.requested)
    /\ t.stages["write_skipped"] = Cardinality(t.skipped)
    /\ t.stages["write_committed"] = Cardinality(t.written)
    /\ t.stages["candidates"] = (IF t.snapshots = {} THEN 0 ELSE 1)
    /\ t.results # {} => t.stages["prefetch_result"] > 0 /\ t.answered # {}
    /\ t.decisions # {} => t.stages["policy_decision"] > 0

TracesAccount == \A i \in DOMAIN traces : Accounts(traces[i])

OkMeansAnswered ==
    \A i \in DOMAIN traces :
        Status(traces[i]) = "ok" =>
            /\ traces[i].requested \subseteq traces[i].answered
            /\ traces[i].proposed \subseteq traces[i].written \union traces[i].skipped

(* No memory leaves the turn.                                              *)
MemoriesStay == [][Recalled(cands) \subseteq DOMAIN cands']_recallVars
=============================================================================
