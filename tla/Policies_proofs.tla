-------------------------- MODULE Policies_proofs ----------------------------
(***************************************************************************)
(* Theorems about the parts that decide, for a single call or a short run  *)
(* of them, what may be done, said, kept, recalled or shown:               *)
(*   - the health of the body and its ears and mouth (Health, EarSharing,  *)
(*     SpeechCache);                                                       *)
(*   - what is kept of the present and recalled of the past (MemoryPolicy, *)
(*     VisualMemory);                                                      *)
(*   - what is made of a look (SceneGraph, VoiceContext, WorldScene,       *)
(*     Workers);                                                           *)
(*   - what is decided, how it is said and to whom it is sent (Reasoning,  *)
(*     Mood, Router, Heads);                                               *)
(*   - what crosses the wire, reaches the console and is recorded          *)
(*     (Protocol, Console, Feedback).                                      *)
(* Most of these modules have no state, and their theorems are about every *)
(* input; where there is state, the invariant stands before its theorem.   *)
(***************************************************************************)
EXTENDS Health, MemoryPolicy, VisualMemory, SpeechCache, EarSharing, Router, SceneGraph, VoiceContext,
        WorldScene, Reasoning, Mood, Heads, Protocol, Console, FiniteSetTheorems, Workers, Feedback, TLAPS

-----------------------------------------------------------------------------
(* The health of the body *)

(* The two derivations of the mode, evaluate and _infer_mode, agree on     *)
(* every body that has its ear, mouth and neck; so it does not matter which*)
(* of the callers of from_capabilities hands the mode on.                  *)
THEOREM ModesAgree ==
    \A s \in Snapshots :
        {"mouth", "neck"} \subseteq s.organs => DegradationMode(s) = InferredMode(s)
<1> SUFFICES ASSUME NEW s \in Snapshots, {"mouth", "neck"} \subseteq s.organs
             PROVE  DegradationMode(s) = InferredMode(s)
    OBVIOUS
<1>1. CanHear(s) => "ear" \in s.organs
    BY DEF CanHear, IsRealOrDegraded, OrganOf
<1> QED BY <1>1 DEF DegradationMode, InferredMode

(* What may run on its own is a conversation on organs that work: every    *)
(* organ of it is installed and its subfunction neither missing nor noop,  *)
(* whichever mode the caller hands on (from_capabilities).                 *)
THEOREM AutorunHasABody ==
    \A s \in Snapshots : \A mode \in {DegradationMode(s), InferredMode(s)} :
        CanAutorun(s, mode) =>
            /\ {"ear", "mouth"} \subseteq s.organs
            /\ \A sub \in {"capture", "asr", "tts_playback"} : s.health[sub] # "none"
            /\ "neck" \in s.organs => s.health["motor"] # "none"
            /\ {"dialogue.listen", "dialogue.respond", "speech.play"} \subseteq Safe(s)
<1> SUFFICES ASSUME NEW s \in Snapshots,
                    NEW mode \in {DegradationMode(s), InferredMode(s)},
                    CanAutorun(s, mode)
             PROVE  /\ {"ear", "mouth"} \subseteq s.organs
                    /\ \A sub \in {"capture", "asr", "tts_playback"} : s.health[sub] # "none"
                    /\ "neck" \in s.organs => s.health["motor"] # "none"
                    /\ {"dialogue.listen", "dialogue.respond", "speech.play"} \subseteq Safe(s)
    OBVIOUS
<1>1. /\ mode = "normal"
      /\ \A a \in Critical : a \notin Disabled(s)
    BY DEF CanAutorun, RequiresConfirmation
<1>2. CanHear(s)
    BY <1>1 DEF Critical, Disabled
<1>3. CanSpeak(s)
    BY <1>1 DEF Critical, Disabled
<1>4. CanTranscribe(s)
    BY <1>1 DEF Critical, Disabled, CanConverse
<1>5. "neck" \in s.organs => CanOrient(s)
    BY <1>1, <1>2, <1>3, <1>4 DEF DegradationMode, InferredMode
<1>6. {"dialogue.listen", "dialogue.respond", "speech.play"} \subseteq Collected(s)
    BY <1>2, <1>3, <1>4 DEF Collected, CanConverse
<1>7. {"dialogue.listen", "dialogue.respond", "speech.play"} \subseteq Safe(s)
    BY <1>1, <1>6 DEF Safe, Critical
<1>8. /\ {"ear", "mouth"} \subseteq s.organs
      /\ \A sub \in {"capture", "asr", "tts_playback"} : s.health[sub] # "none"
      /\ "neck" \in s.organs => s.health["motor"] # "none"
    BY <1>2, <1>3, <1>4, <1>5
    DEF CanHear, CanTranscribe, CanSpeak, CanOrient, IsRealOrDegraded, OrganOf
<1> QED BY <1>7, <1>8

(* A body that may not run on its own says so: it asks for confirmation,   *)
(* unless the reason is that it never had a mouth, an organ whose absence  *)
(* is not counted as degradation (evaluate).                               *)
THEOREM SilentRefusalHasNoMouth ==
    \A s \in Snapshots :
        /\ ~ CanAutorun(s, DegradationMode(s))
        /\ ~ RequiresConfirmation(s, DegradationMode(s))
        => "mouth" \notin s.organs
<1> SUFFICES ASSUME NEW s \in Snapshots,
                    ~ CanAutorun(s, DegradationMode(s)),
                    ~ RequiresConfirmation(s, DegradationMode(s)),
                    "mouth" \in s.organs
             PROVE  FALSE
    OBVIOUS
<1>1. /\ DegradationMode(s) = "normal"
      /\ "dialogue.finalize" \notin Disabled(s)
    BY DEF RequiresConfirmation
<1>2. CanHear(s) /\ CanTranscribe(s)
    BY <1>1 DEF Disabled
<1>3. CanSpeak(s)
    BY <1>1, <1>2 DEF DegradationMode
<1>4. Critical \cap Disabled(s) = {}
    BY <1>1, <1>2, <1>3 DEF Critical, Disabled, CanConverse
<1> QED BY <1>4 DEF CanAutorun

-----------------------------------------------------------------------------
(* The memory of several modalities *)

(* "Without letting modalities pollute each other": no source is allowed   *)
(* and blocked in one context, knowledge is never recalled from, and the   *)
(* audit of other channels only by a task that is a diagnosis and that does*)
(* not come from the eye (build_recall_context).                           *)
THEOREM RecallKeepsToItsLane ==
    \A r \in Requests :
        /\ AllowedSources(r) \cap BlockedSources(r) = {}
        /\ AllowedSources(r) \cap General = {}
        /\ AllowedSources(r) \cap Audit # {} => IsExplicitDiagnostic(r) /\ ~ IsVisual(r)
        /\ AllowedSources(r) \cap Identity # {} => ~ IsActionFeedback(r) \/ IsVisual(r)
                                                   \/ IsExplicitDiagnostic(r)
<1> TAKE r \in Requests
<1> USE DEF AllowedSources, BlockedSources, General, Audit, Personal, Identity
<1>1. CASE Profile(r) = "visual"
    BY <1>1 DEF Profile
<1>2. CASE Profile(r) = "diagnostic"
    BY <1>2 DEF Profile, IsDiagnostic
<1>3. CASE Profile(r) = "action"
    BY <1>3
<1>4. CASE Profile(r) = "dialogue"
    BY <1>4 DEF Profile
<1> QED BY <1>1, <1>2, <1>3, <1>4 DEF Profile

(* Type, retention and eligibility of an event are decided by three        *)
(* separate chains of conditions.  They disagree in one place: a frame that*)
(* somebody asked to remember is eligible for durable memory and short     *)
(* lived at once (_writeback_policy).                                      *)
THEOREM EligibleOutlives ==
    \A e \in Happenings :
        Eligible(e) /\ ShortLived(e) <=>
            e.kind = "frame" /\ e.explicit /\ ~ e.adjustment /\ ~ e.hasStyle
<1> TAKE e \in Happenings
<1>1. ASSUME Eligible(e), ShortLived(e)
      PROVE  e.kind = "frame" /\ e.explicit /\ ~ e.adjustment /\ ~ e.hasStyle
    BY <1>1 DEF Eligible, ShortLived, MemoryType, IsTraining, Class
<1>2. ASSUME e.kind = "frame", e.explicit, ~ e.adjustment, ~ e.hasStyle
      PROVE  Eligible(e) /\ ShortLived(e)
    BY <1>2 DEF Eligible, ShortLived, Class
<1> QED BY <1>1, <1>2

(* The other way round, what is kept for an episode and is yet not eligible*)
(* is the outcome of an action that went well, or failed in its status     *)
(* only, without a word from the user (_writeback_policy).                 *)
THEOREM EpisodesNotWritten ==
    \A e \in Happenings :
        ~ Eligible(e) /\ ~ ShortLived(e) <=>
            Class(e) = "outcome" /\ ~ e.failed /\ ~ e.hasStyle
<1> TAKE e \in Happenings
<1>1. ASSUME ~ Eligible(e), ~ ShortLived(e)
      PROVE  Class(e) = "outcome" /\ ~ e.failed /\ ~ e.hasStyle
    BY <1>1 DEF Eligible, ShortLived, MemoryType, IsTraining, Class
<1>2. ASSUME Class(e) = "outcome", ~ e.failed, ~ e.hasStyle
      PROVE  ~ Eligible(e) /\ ~ ShortLived(e)
    BY <1>2 DEF Eligible, ShortLived, MemoryType, IsTraining, Class
<1> QED BY <1>1, <1>2

(* _remember_candidate_episode never looks at the eligibility of what it   *)
(* writes, and does not need to: all that is said or seen and passes the   *)
(* assessment is eligible, of a type that is not identity or preference,   *)
(* and free of what says how the robot should speak.                       *)
THEOREM DirectWritesAreEligible ==
    \A e \in Happenings :
        WrittenDirectly(e) =>
            /\ Eligible(e) /\ ~ ShortLived(e) /\ ~ e.hasStyle
            /\ MemoryType(e) \in {"semantic_candidate", "world_observation"}
            /\ WrittenSource(e) \notin Personal
<1> SUFFICES ASSUME NEW e \in Happenings, WrittenDirectly(e)
             PROVE  /\ Eligible(e) /\ ~ ShortLived(e) /\ ~ e.hasStyle
                    /\ MemoryType(e) \in {"semantic_candidate", "world_observation"}
                    /\ WrittenSource(e) \notin Personal
    OBVIOUS
<1>1. ~ e.hasStyle
    BY DEF WrittenDirectly, Bucket, AsProposal
<1>2. CASE IsSpoken(e)
  <2>1. Class(e) = "semantic"
      BY <1>2 DEF IsSpoken, Class
  <2> QED BY <1>1, <1>2, <2>1
          DEF IsSpoken, Eligible, ShortLived, MemoryType, WrittenSource, Personal
<1>3. CASE IsSeen(e)
  <2>1. Class(e) = "observation"
      BY <1>3 DEF IsSeen, Class
  <2> QED BY <1>1, <1>3, <2>1
          DEF IsSeen, Eligible, ShortLived, MemoryType, WrittenSource, Personal
<1> QED BY <1>2, <1>3 DEF WrittenDirectly

-----------------------------------------------------------------------------
(* What a frame leaves behind *)

IInv == TypeOK /\ LatestIsSeen /\ CandidatesApart

LEMMA InitHolds == Init => IInv
  BY DEF Init, IInv, TypeOK, LatestIsSeen, CandidatesApart, Never

LEMMA StepHolds ==
    ASSUME Window \in Nat
    PROVE  IInv /\ [Next]_vars => IInv'
<1>1. ASSUME IInv, NEW kind \in EventKinds \cup {"none"}, NEW s \in Subjects, NEW t \in Nat,
             Evaluate(kind, s, t)
      PROVE  IInv'
  <2> DEFINE k == <<kind, s>>
             new == kind # "none" /\ (seen[k] = Never \/ Apart(t, seen[k]))
  <2>0. TypeOK /\ LatestIsSeen /\ CandidatesApart
    BY <1>1 DEF IInv
  <2>1. CASE ~ new
    <3>1. seen' = seen /\ made' = made /\ latest' = t /\ inOrder' = (inOrder /\ t >= latest)
      BY <1>1, <2>1 DEF Evaluate
    <3>2. TypeOK'
      BY <2>0, <3>1 DEF TypeOK
    <3>3. LatestIsSeen'
      <4> SUFFICES ASSUME inOrder' PROVE (\A q \in Keys : seen[q] <= t)
                                         /\ (\A c \in made : c.at <= seen[c.key])
        BY <3>1 DEF LatestIsSeen
      <4>1. inOrder /\ t >= latest /\ latest \in Nat
        BY <2>0, <3>1 DEF TypeOK
      <4>2. \A q \in Keys : seen[q] \in Int /\ seen[q] <= latest
        BY <2>0, <4>1 DEF TypeOK, LatestIsSeen, Never
      <4>3. \A c \in made : c.at <= seen[c.key]
        BY <2>0, <4>1 DEF LatestIsSeen
      <4> QED BY <4>1, <4>2, <4>3
    <3>4. CandidatesApart'
      BY <2>0, <3>1 DEF CandidatesApart, TypeOK
    <3> QED BY <3>2, <3>3, <3>4 DEF IInv
  <2>2. CASE new
    <3>0. k \in Keys
      BY <2>2 DEF Keys
    <3>1. /\ seen' = [seen EXCEPT ![k] = t] /\ made' = made \cup {[key |-> k, at |-> t]}
          /\ latest' = t /\ inOrder' = (inOrder /\ t >= latest)
      BY <1>1, <2>2 DEF Evaluate
    <3>2. TypeOK'
      BY <2>0, <3>0, <3>1 DEF TypeOK
    <3>3. \A q \in Keys : seen[q] \in Int /\ seen'[q] = IF q = k THEN t ELSE seen[q]
      BY <2>0, <3>0, <3>1 DEF TypeOK, Never
    <3>4. \A c \in made : c.key \in Keys /\ c.at \in Nat
      BY <2>0 DEF TypeOK
    <3>5. LatestIsSeen'
      <4> SUFFICES ASSUME inOrder' PROVE (\A q \in Keys : seen'[q] <= latest')
                                         /\ (\A c \in made' : c.at <= seen'[c.key])
        BY DEF LatestIsSeen
      <4>1. inOrder /\ t >= latest /\ latest \in Nat
        BY <2>0, <3>1 DEF TypeOK
      <4>2. \A q \in Keys : seen'[q] <= latest'
        BY <2>0, <3>1, <3>3, <4>1 DEF LatestIsSeen
      <4>3. ASSUME NEW c \in made' PROVE c.at <= seen'[c.key]
        <5>1. CASE c = [key |-> k, at |-> t]
          BY <3>0, <3>3, <5>1
        <5>2. CASE c \in made
          <6>1. c.at <= seen[c.key] /\ seen[c.key] <= latest
            BY <2>0, <3>4, <4>1, <5>2 DEF LatestIsSeen
          <6> QED BY <3>3, <3>4, <4>1, <5>2, <6>1
        <5> QED BY <3>1, <5>1, <5>2
      <4> QED BY <4>2, <4>3
    <3>6. CandidatesApart'
      <4> SUFFICES ASSUME inOrder', NEW c \in made', NEW d \in made', c.key = d.key, c # d
                   PROVE  Apart(c.at, d.at)
        BY DEF CandidatesApart
      <4>1. inOrder /\ t >= latest /\ latest \in Nat
        BY <2>0, <3>1 DEF TypeOK
      <4>2. ASSUME NEW e \in made, e.key = k PROVE Apart(t, e.at)
        <5>1. e.at <= seen[k] /\ seen[k] <= latest /\ e.at \in Nat /\ seen[k] \in Int
          BY <2>0, <3>0, <3>3, <3>4, <4>1, <4>2 DEF LatestIsSeen
        <5>2. Apart(t, seen[k])
          BY <2>2, <5>1 DEF Never
        <5> QED BY <4>1, <5>1, <5>2 DEF Apart
      <4>3. CASE c \in made /\ d \in made
        BY <2>0, <4>1, <4>3 DEF CandidatesApart
      <4>4. CASE c \in made /\ d = [key |-> k, at |-> t]
        BY <3>4, <4>2, <4>4 DEF Apart
      <4>5. CASE d \in made /\ c = [key |-> k, at |-> t]
        BY <3>4, <4>2, <4>5 DEF Apart
      <4> QED BY <3>1, <4>3, <4>4, <4>5
    <3> QED BY <3>2, <3>5, <3>6 DEF IInv
  <2> QED BY <2>1, <2>2
<1>2. ASSUME IInv, UNCHANGED vars PROVE IInv'
  BY <1>2 DEF IInv, TypeOK, LatestIsSeen, CandidatesApart, vars
<1> QED BY <1>1, <1>2 DEF Next

(* Candidates of one key never come closer than the dedupe window.         *)
THEOREM CandidatesKeepApart ==
    ASSUME Window \in Nat
    PROVE  Spec => []CandidatesApart
<1>1. IInv => CandidatesApart
  BY DEF IInv
<1>2. IInv /\ [Next]_vars => IInv'
  BY StepHolds
<1> QED BY <1>1, <1>2, InitHolds, PTL DEF Spec

(* Who goes and who stays is never remembered by the running body: each of *)
(* its frames has a verdict on the follow, and _classify_event asks for    *)
(* that first.                                                             *)
THEOREM OnlyFollowing ==
    \A f \in Frames : FrameKind(f) \in {"follow_success", "follow_failed"}
  BY DEF Frames, FrameKind, FrameEvent, Classify, Followed, Truth

(* The three reports of a frame agree: what is remembered as a successful  *)
(* follow is one for training, a frame that waits for a target is a failed *)
(* follow and a lost target, and no record is held back for its confidence *)
(* (_build_visual_loop_diagnostics).                                       *)
THEOREM ReportsAgree ==
    \A f \in Frames, confident \in BOOLEAN :
        /\ FrameKind(f) = "follow_success" <=> FrameOutcome(f) = "success"
        /\ f.waiting => FrameKind(f) = "follow_failed" /\ FrameOutcome(f) = "lost"
        /\ Writable(FrameFeedback(f), FrameOutcome(f), confident)
<1> SUFFICES ASSUME NEW f \in Frames, NEW confident \in BOOLEAN
             PROVE  /\ FrameKind(f) = "follow_success" <=> FrameOutcome(f) = "success"
                    /\ f.waiting => FrameKind(f) = "follow_failed" /\ FrameOutcome(f) = "lost"
                    /\ Writable(FrameFeedback(f), FrameOutcome(f), confident)
  OBVIOUS
<1>1. f.waiting => ~ FollowSucceeds(f.measures)
  BY DEF Frames, FollowSucceeds
<1>2. FrameKind(f) = IF FollowSucceeds(f.measures) THEN "follow_success" ELSE "follow_failed"
  BY DEF FrameKind, FrameEvent, Classify, Followed, Truth
<1>3. FrameOutcome(f) = IF f.waiting THEN "lost"
                        ELSE IF FollowSucceeds(f.measures) THEN "success" ELSE "failure"
  BY DEF FrameOutcome, FrameFeedback, Outcome, Truth
<1> QED BY <1>1, <1>2, <1>3 DEF Writable, FrameFeedback

(* What is proposed for training is operational, and nothing personal is,  *)
(* whatever kind of event it was (_retention_policy, _privacy_for).        *)
THEOREM TrainingIsOperational ==
    \A kind \in EventKinds : ForTraining(kind) <=> Sensitivity(kind) = "operational"
  BY DEF EventKinds, ForTraining, Sensitivity

-----------------------------------------------------------------------------
(* Audio files *)

(***************************************************************************)
(* Audio files.  What a speaker holds in memory and in its own file is all *)
(* of the audio of its text by the time it is moved or played.             *)
(***************************************************************************)
AudioInHand ==
    \A s \in Speakers :
        /\ at[s] \in {"caching", "writing", "moving", "saving", "filling"}
               => answer[s] \in Good(wants[s])
        /\ at[s] \in {"moving", "playingOwn"} => own[s] \in Good(wants[s])
        /\ at[s] \in {"new", "asking", "caching", "playing", "saving"} => own[s] = None

CacheInv == CacheTypeOK /\ AudioInHand /\ RepliesAreWhole /\ LeftoversHaveACause

LEMMA GoodAudio == \A t \in Texts : Good(t) \subseteq Contents
  BY DEF Good, Whole, Blank, Contents

LEMMA CacheStarts == CacheInit => CacheInv
  BY DEF CacheInit, CacheInv, CacheTypeOK, AudioInHand, RepliesAreWhole, LeftoversHaveACause,
         Places

(* Only a move writes the cache, only the speaker itself its own entries.  *)
LEMMA CacheSteps == CacheInv /\ [CacheNext]_svars => CacheInv'
<1> USE GoodAudio DEF CacheInv, CacheTypeOK, AudioInHand, RepliesAreWhole,
                      LeftoversHaveACause, Goes, Places
<1>1. ASSUME CacheInv, UNCHANGED svars PROVE CacheInv'
  BY <1>1 DEF svars
<1>2. ASSUME CacheInv, NEW s \in Speakers, CacheStep(s) PROVE CacheInv'
  <2>1. CASE Refuse(s)
    BY <1>2, <2>1 DEF Refuse
  <2>2. CASE FromCache(s)
    BY <1>2, <2>2 DEF FromCache
  <2>3. CASE Ask(s)
    BY <1>2, <2>3 DEF Ask
  <2>4. CASE Answer(s)
    BY <1>2, <2>4 DEF Answer, Good
  <2>5. CASE NoAnswer(s)
    BY <1>2, <2>5 DEF NoAnswer
  <2>6. CASE Create(s)
    BY <1>2, <2>6 DEF Create, Good
  <2>7. CASE Write(s)
    BY <1>2, <2>7 DEF Write
  <2>8. CASE WriteFails(s)
    BY <1>2, <2>8 DEF WriteFails
  <2>9. CASE Move(s)
    BY <1>2, <2>9 DEF Move
  <2>10. CASE MoveFails(s)
    BY <1>2, <2>10 DEF MoveFails
  <2>11. CASE Save(s)
    BY <1>2, <2>11 DEF Save, Good
  <2>12. CASE Fill(s)
    BY <1>2, <2>12 DEF Fill
  <2>13. CASE SaveFails(s)
    BY <1>2, <2>13 DEF SaveFails, Part, Contents
  <2>14. CASE Play(s)
    BY <1>2, <2>14 DEF Play
  <2>15. CASE PlayOwn(s)
    BY <1>2, <2>15 DEF PlayOwn
  <2>16. CASE Clean(s)
    BY <1>2, <2>16 DEF Clean
  <2>17. CASE Kill(s)
    BY <1>2, <2>17 DEF Kill, Part, Contents
  <2> QED
    BY <1>2, <2>1, <2>2, <2>3, <2>4, <2>5, <2>6, <2>7, <2>8, <2>9, <2>10, <2>11, <2>12,
       <2>13, <2>14, <2>15, <2>16, <2>17 DEF CacheStep
<1> QED BY <1>1, <1>2 DEF CacheNext

(* No reply is another's or breaks off, whoever is killed and whatever     *)
(* cannot be written, and only mishaps leave files behind.                 *)
THEOREM RepliesStayWhole == CacheSpec => [](RepliesAreWhole /\ LeftoversHaveACause)
<1>1. CacheInv => RepliesAreWhole /\ LeftoversHaveACause
  BY DEF CacheInv
<1> QED BY <1>1, CacheStarts, CacheSteps, PTL DEF CacheSpec
-----------------------------------------------------------------------------
(* The microphone *)

Holding == {"inside", "file", "records", "asks"}

(* A watcher that is past its look at the cache found it empty or old.     *)
EarInv ==
    /\ where \in [Threads -> {"out", "waits"} \union Holding]
    /\ mic \in Threads \union {Free}
    /\ clock \in Nat /\ stamp \in [Threads -> Nat] /\ cachedAt \in Nat \union {Nothing}
    /\ \A t \in Threads : where[t] = "records" <=> mic = t
    /\ \A t \in Watchers : where[t] \in Holding => heartLock = t
    /\ \A t \in Threads : stamp[t] <= clock
    /\ cachedAt <= clock
    /\ \A t \in Watchers : where[t] \in Holding \ {"inside"} => ~IsCached(t)
    /\ \A t \in Watchers : where[t] \in Holding => cachedAt <= stamp[t]

LEMMA FreeIsNoThread == Free \notin Threads
BY NoSetContainsEverything DEF Free

LEMMA EarInOrder ==
    ASSUME Voice \notin Watchers, Ttl \in Nat
    PROVE  EarSpec => []EarInv
<1> USE FreeIsNoThread DEF EarInv, Holding, Nothing, IsCached
<1>1. EarInit => EarInv
    BY DEF EarInit, Threads
<1>2. EarInv /\ [EarNext]_earvars => EarInv'
  <2> SUFFICES ASSUME EarInv, [EarNext]_earvars PROVE EarInv'
      OBVIOUS
  <2> USE DEF To, Leave
  <2>1. ASSUME NEW t \in Watchers, Enter(t) PROVE EarInv'
      BY <2>1 DEF Enter, Threads
  <2>2. ASSUME NEW t \in Watchers, Await(t) PROVE EarInv'
      BY <2>2 DEF Await, Threads
  <2>3. ASSUME NEW t \in Watchers, AnswerCached(t) PROVE EarInv'
      BY <2>3 DEF AnswerCached, Threads
  <2>4. ASSUME NEW t \in Watchers, Keep(t) PROVE EarInv'
      BY <2>4 DEF Keep, Threads
  <2>5. ASSUME NEW t \in Watchers, ProbeRaises(t) PROVE EarInv'
      BY <2>5 DEF ProbeRaises, Threads
  <2>6. ASSUME NEW t \in Threads, Begin(t) PROVE EarInv'
      BY <2>6 DEF Begin, Threads
  <2>7. ASSUME NEW t \in Threads, TakeFile(t) PROVE EarInv'
      BY <2>7 DEF TakeFile, Threads
  <2>8. ASSUME NEW t \in Threads, FileTimesOut(t) PROVE EarInv'
      BY <2>8 DEF FileTimesOut, After, Threads
  <2>9. ASSUME NEW t \in Threads, Recorded(t) PROVE EarInv'
      BY <2>9 DEF Recorded, After, Threads
  <2>10. CASE Tick
      BY <2>10 DEF Tick
  <2>11. CASE UNCHANGED earvars
      BY <2>11 DEF earvars
  <2> QED BY <2>1, <2>2, <2>3, <2>4, <2>5, <2>6, <2>7, <2>8, <2>9, <2>10, <2>11 DEF EarNext
<1> QED BY <1>1, <1>2, PTL DEF EarSpec

(* At most one arecord runs, whoever started it (OneRecorder).             *)
THEOREM RecordersTakeTurns ==
    ASSUME Voice \notin Watchers, Ttl \in Nat
    PROVE  EarSpec => []OneRecorder
<1>1. EarInv => OneRecorder
    BY DEF EarInv, OneRecorder
<1> QED BY <1>1, EarInOrder, PTL

(* Heartbeats that record are an interval apart (WindowsApart).            *)
THEOREM HeartbeatsLeaveRoom ==
    ASSUME Voice \notin Watchers, Ttl \in Nat
    PROVE  EarSpec => WindowsApart
<1>1. EarInv /\ [EarNext]_earvars =>
        [cachedAt' # cachedAt /\ cachedAt # Nothing => cachedAt' >= cachedAt + Ttl]_earvars
  <2> SUFFICES ASSUME EarInv, EarNext, cachedAt' # cachedAt, cachedAt # Nothing
               PROVE  cachedAt' >= cachedAt + Ttl
      BY DEF earvars
  <2>1. PICK t \in Watchers : Keep(t)
      BY DEF EarNext, Enter, Await, AnswerCached, ProbeRaises, Begin, TakeFile, FileTimesOut,
             Recorded, Tick
  <2>2. stamp[t] \in Nat /\ cachedAt \in Nat /\ ~(stamp[t] - cachedAt < Ttl)
      BY <2>1 DEF Keep, EarInv, Holding, IsCached, Threads, Nothing
  <2> QED BY <2>1, <2>2 DEF Keep
<1> QED BY <1>1, EarInOrder, PTL DEF EarSpec, WindowsApart

(* A microphone that is gone is never reported as such: the passive probe  *)
(* of a capture that was never asked says "healthy", so an ear without a   *)
(* window is at worst degraded, and the body still counts as one that      *)
(* hears (_passive_driver_probe, _capture_health).                         *)
THEOREM GoneIsDegraded ==
    \A w \in Windows : CaptureHealth(w) # "unavailable" /\ EarHealth(w) # "unavailable"
<1> SUFFICES ASSUME NEW w \in Windows
             PROVE  CaptureHealth(w) # "unavailable" /\ EarHealth(w) # "unavailable"
    OBVIOUS
<1>1. DOMAIN w.probes \subseteq {"asr"}
    BY DEF Windows
<1>2. CaptureHealth(w) \in {"healthy", "degraded"}
    BY <1>1 DEF CaptureHealth, Unheard, PassiveProbe
<1> QED BY <1>2 DEF EarHealth

(* An ear is reported as healthy for a window in which somebody was        *)
(* understood, and for no other: in a quiet room the same ear is degraded  *)
(* (_asr_health, heartbeat).                                               *)
THEOREM HealthyMeansUnderstood ==
    \A w \in Windows : EarHealth(w) = "healthy" => Transcribed(w)
<1> SUFFICES ASSUME NEW w \in Windows, ~Transcribed(w) PROVE EarHealth(w) # "healthy"
    OBVIOUS
<1>1. AsrHealth(w) # "healthy"
    BY DEF AsrHealth, Unheard
<1> QED BY <1>1 DEF EarHealth

-----------------------------------------------------------------------------
(* The replies of the language model *)

(* The request that is waited for is the one this call has sent last.      *)
RouterInv ==
    /\ stage \in {"idle", "echo", "request", "open", "challenge", "sign", "connect", "agent"}
    /\ DOMAIN asked \subseteq RequestIds
    /\ waitsFor \in DOMAIN asked \union {NoRequest}
    /\ stage \in {"connect", "agent"} =>
          waitsFor \in DOMAIN asked /\ asked[waitsFor] = [method |-> stage, call |-> calls]
    /\ stage # "idle" => reply = Blankness
    /\ AnswersThisPrompt
    /\ reply \in RequestIds => reply \in DOMAIN asked
    /\ OkHasText

LEMMA RouterInOrder ==
    ASSUME {NoRequest, Blankness, "echo", "answer"} \intersect RequestIds = {}
    PROVE  RouterSpec => []RouterInv
<1> USE DEF RouterInv, AnswersThisPrompt, OkHasText
<1>0. Blankness # "echo" /\ Blankness # "answer"
    BY DEF Blankness
<1>1. RouterInit => RouterInv
    BY DEF RouterInit
<1>2. RouterInv /\ [RouterNext]_rvars => RouterInv'
  <2> SUFFICES ASSUME RouterInv, [RouterNext]_rvars PROVE RouterInv'
      OBVIOUS
  <2>1. ASSUME NEW prompt, Generate(prompt) PROVE RouterInv'
      BY <2>1 DEF Generate
  <2>2. ASSUME NEW r \in {"echo", "answer", Blankness}, Return(r), stage # "idle" PROVE RouterInv'
      BY <1>0, <2>2 DEF Return
  <2>3. CASE Expected
      BY <2>3 DEF Expected
  <2>4. CASE Unexpected
      BY <2>4 DEF Unexpected
  <2>5. CASE Open
      BY <2>5 DEF Open
  <2>6. ASSUME NEW f \in GatewayFrames, Challenged(f) PROVE RouterInv'
      BY <2>6 DEF Challenged
  <2>7. ASSUME NEW id \in RequestIds, NEW method \in {"connect", "agent"}, stage # "idle",
               Send(id, method)
        PROVE  RouterInv'
      BY <2>7 DEF Send
  <2>8. ASSUME NEW f \in GatewayFrames, AgentAnswers(f) PROVE RouterInv'
    <3>1. CASE f.text
      <4>1. f.id = waitsFor /\ waitsFor \in RequestIds
          BY <2>8 DEF AgentAnswers, IsResponse
      <4> QED BY <2>8, <3>1, <4>1 DEF AgentAnswers, Return
    <3>2. CASE ~f.text
        BY <2>8, <3>2, <2>2 DEF AgentAnswers
    <3> QED BY <3>1, <3>2
  <2>9. CASE UNCHANGED rvars
      BY <2>9 DEF rvars
  <2> QED
      BY <2>1, <2>2, <2>3, <2>4, <2>5, <2>6, <2>7, <2>8, <2>9
      DEF RouterNext, Echo, Answered, Signed, Connected
<1> QED BY <1>1, <1>2, PTL DEF RouterSpec

(* A reply of the gateway is the answer to the prompt of this call, even   *)
(* when frames of other requests arrive in between (AnswersThisPrompt).    *)
THEOREM RepliesToThePrompt ==
    ASSUME {NoRequest, Blankness, "echo", "answer"} \intersect RequestIds = {}
    PROVE  RouterSpec => []AnswersThisPrompt
<1>1. RouterInv => AnswersThisPrompt
    BY DEF RouterInv
<1> QED BY <1>1, RouterInOrder, PTL

(* A router that reports "ok" without a text reports an older call: the    *)
(* last one has raised what generate does not expect (OkHasText).          *)
THEOREM StaleStatusMeansRaised ==
    ASSUME {NoRequest, Blankness, "echo", "answer"} \intersect RequestIds = {}
    PROVE  RouterSpec => []OkHasText
<1>1. RouterInv => OkHasText
    BY DEF RouterInv
<1> QED BY <1>1, RouterInOrder, PTL

-----------------------------------------------------------------------------
(* The graph of a scene *)

SceneObjects ==
    [id : Names, label : Names, kind : {"person", "object"}, details : SUBSET Details]

GraphInv ==
    /\ objects \subseteq SceneObjects
    /\ \A o \in objects : o.id \in seenIds
    /\ IdsDistinct

LEMMA MergeKeepsIdentity ==
    ASSUME NEW target \in SceneObjects, NEW item \in SceneObjects
    PROVE  /\ MergeObjectExtras(target, item) \in SceneObjects
           /\ MergeObjectExtras(target, item).id = target.id
           /\ MergeObjectExtras(target, item).label = target.label
           /\ MergeObjectExtras(target, item).kind = target.kind
           /\ target.details \subseteq MergeObjectExtras(target, item).details
BY DEF MergeObjectExtras, SceneObjects

LEMMA RawsBecomeObjects ==
    ASSUME NEW raw \in Raws, NEW id \in Names
    PROVE  NormalizeObject(raw, id) \in SceneObjects /\ NormalizeObject(raw, id).id = id
BY DEF Raws, NormalizeObject, SceneObjects

LEMMA IdsAreNames == \A raw \in Raws : PlainId(raw) \in Names
BY DEF Raws, PlainId, GivenId

LEMMA AddObjectGrows ==
    ASSUME NEW raw \in Raws, GraphInv, AddObject(raw)
    PROVE  GraphInv' /\ objects \subseteq objects'
<1>1. CASE raw.valid
  <2>1. PICK id \in ObjectIds(raw) :
           /\ objects' = objects \union {NormalizeObject(raw, id)}
           /\ seenIds' = seenIds \union {id}
      BY <1>1 DEF AddObject
  <2>2. id \notin seenIds /\ id \in Names BY <2>1, IdsAreNames DEF ObjectIds
  <2>3. NormalizeObject(raw, id) \in SceneObjects /\ NormalizeObject(raw, id).id = id
      BY <2>2, RawsBecomeObjects
  <2> QED BY <2>1, <2>2, <2>3 DEF GraphInv, IdsDistinct
<1>2. CASE ~raw.valid
  BY <1>2 DEF AddObject, GraphInv, IdsDistinct
<1> QED BY <1>1, <1>2

LEMMA MergeKeepsObjects ==
    ASSUME NEW raw \in Raws, GraphInv, MergeDetection(raw)
    PROVE  /\ GraphInv'
           /\ \A o \in objects : \E p \in objects' :
                 /\ p.id = o.id /\ p.label = o.label /\ p.kind = o.kind
                 /\ o.details \subseteq p.details
<1>1. PICK target \in objects :
         objects' = IF raw.valid
                    THEN (objects \ {target}) \union
                            {MergeObjectExtras(target, NormalizeObject(raw, PlainId(raw)))}
                    ELSE objects
    BY DEF MergeDetection
<1>2. seenIds' = seenIds BY DEF MergeDetection
<1>3. CASE raw.valid
  <2> DEFINE item == NormalizeObject(raw, PlainId(raw))
             new == MergeObjectExtras(target, item)
  <2>1. item \in SceneObjects BY IdsAreNames, RawsBecomeObjects
  <2>2. target \in SceneObjects BY <1>1 DEF GraphInv
  <2>3. /\ new \in SceneObjects /\ new.id = target.id
        /\ new.label = target.label /\ new.kind = target.kind
        /\ target.details \subseteq new.details
      BY <2>1, <2>2, MergeKeepsIdentity
  <2> HIDE DEF new
  <2>4. objects' = (objects \ {target}) \union {new} BY <1>1, <1>3 DEF new
  <2>5. \A o \in objects \ {target} : o.id # target.id BY <1>1 DEF GraphInv, IdsDistinct
  <2>6. GraphInv' BY <1>1, <1>2, <2>3, <2>4, <2>5 DEF GraphInv, IdsDistinct
  <2>7. new \in objects' BY <2>4
  <2>8. ASSUME NEW o \in objects
        PROVE  \E p \in objects' : /\ p.id = o.id /\ p.label = o.label /\ p.kind = o.kind
                                   /\ o.details \subseteq p.details
    <3>1. CASE o = target BY <2>3, <2>7, <3>1
    <3>2. CASE o # target
      <4>1. o \in objects' BY <2>4, <3>2
      <4> QED BY <4>1
    <3> QED BY <3>1, <3>2
  <2> QED BY <2>6, <2>8
<1>4. CASE ~raw.valid
  <2>1. objects' = objects BY <1>1, <1>4
  <2>2. GraphInv' BY <1>2, <2>1 DEF GraphInv, IdsDistinct
  <2> QED BY <2>1, <2>2
<1> QED BY <1>3, <1>4

(* The two facts about one step: the invariant stays, and so does everyone.*)
LEMMA GraphStep ==
    ASSUME GraphInv, [GraphNext]_gvars
    PROVE  /\ GraphInv'
           /\ \A o \in objects : \E p \in objects' :
                 /\ p.id = o.id /\ p.label = o.label /\ p.kind = o.kind
                 /\ o.details \subseteq p.details
<1>1. ASSUME NEW raw \in Raws, AddTrack(raw) \/ AddDetection(raw)
      PROVE  GraphInv' /\ objects \subseteq objects'
  BY <1>1, AddObjectGrows DEF AddTrack, AddDetection
<1>2. CASE NextPart \/ UNCHANGED gvars
  BY <1>2 DEF NextPart, gvars, GraphInv, IdsDistinct
<1>3. CASE \E raw \in Raws : MergeDetection(raw)
  BY <1>3, MergeKeepsObjects
<1>4. CASE \E raw \in Raws : AddTrack(raw) \/ AddDetection(raw)
  BY <1>4, <1>1
<1> QED BY <1>2, <1>3, <1>4 DEF GraphNext, NextPart, gvars

(* Two objects of a scene never share an id, however the tracks and the    *)
(* detections of its frame were named (_build_objects).                    *)
THEOREM SceneIdsDistinct == GraphSpec => []IdsDistinct
<1>1. GraphInit => GraphInv
  BY DEF GraphInit, GraphInv, IdsDistinct
<1>2. GraphInv /\ [GraphNext]_gvars => GraphInv'
  BY GraphStep
<1>3. GraphInv => IdsDistinct
  BY DEF GraphInv
<1> QED BY <1>1, <1>2, <1>3, PTL DEF GraphSpec

(* An object keeps its id, label and kind and what is known of it, whatever*)
(* detections are merged into it (_merge_object_extras).                   *)
THEOREM SceneIdentityKept == GraphSpec => IdentityKept
<1>1. GraphInit => GraphInv
  BY DEF GraphInit, GraphInv, IdsDistinct
<1>2. GraphInv /\ [GraphNext]_gvars => GraphInv'
  BY GraphStep
<1>3. GraphInv /\ [GraphNext]_gvars =>
         [\A o \in objects : \E p \in objects' :
             /\ p.id = o.id /\ p.label = o.label /\ p.kind = o.kind
             /\ o.details \subseteq p.details]_gvars
  BY GraphStep
<1> QED BY <1>1, <1>2, <1>3, PTL DEF GraphSpec, IdentityKept

LEMMA GapsAreSymmetric ==
    \A a, b \in Boxes : BboxGapSquare(a, b) = BboxGapSquare(b, a)
<1> SUFFICES ASSUME NEW a \in Boxes, NEW b \in Boxes
             PROVE  BboxGapSquare(a, b) = BboxGapSquare(b, a)
    OBVIOUS
<1>1. HorizontalGap(a, b) = HorizontalGap(b, a)
    BY DEF Boxes, HorizontalGap, Larger
<1>2. VerticalGap(a, b) = VerticalGap(b, a)
    BY DEF Boxes, VerticalGap, Larger
<1> QED BY <1>1, <1>2 DEF BboxGapSquare

(* Every relation is told from both sides: who is left of another has that *)
(* one on its right, and nearness and overlap are mutual (_relation_types).*)
THEOREM RelationsMirror ==
    ASSUME NEW aside \in Nat, NEW apart \in Nat, NEW gapSquare \in Nat,
           NEW a \in Boxes, NEW b \in Boxes,
           NEW r \in RelationTypes(a, b, aside, apart, gapSquare)
    PROVE  Mirror(r) \in RelationTypes(b, a, aside, apart, gapSquare)
<1>1. OverlapArea(a, b) => OverlapArea(b, a)
    BY DEF OverlapArea, Smaller, Larger, Boxes
<1>2. Dx(b, a) = -Dx(a, b) /\ Dy(b, a) = -Dy(a, b) /\ Dx(a, b) \in Int /\ Dy(a, b) \in Int
    BY DEF Dx, Dy, Boxes
<1>3. BboxGapSquare(a, b) = BboxGapSquare(b, a) BY GapsAreSymmetric
<1> QED BY <1>1, <1>2, <1>3 DEF RelationTypes, Mirror

(* Boxes that overlap are near, and no box is on two opposite sides of     *)
(* another (_relation_types).                                              *)
THEOREM RelationsAgree ==
    ASSUME NEW aside \in Nat, NEW apart \in Nat, NEW gapSquare \in Nat,
           NEW a \in Boxes, NEW b \in Boxes
    PROVE  LET rs == RelationTypes(a, b, aside, apart, gapSquare)
           IN  /\ "overlaps" \in rs => "near" \in rs
               /\ ~({"left_of", "right_of"} \subseteq rs)
               /\ ~({"above", "below"} \subseteq rs)
<1>1. ASSUME OverlapArea(a, b) PROVE BboxGapSquare(a, b) = 0
  <2>1. HorizontalGap(a, b) = 0 /\ VerticalGap(a, b) = 0
      BY <1>1 DEF OverlapArea, Boxes, HorizontalGap, VerticalGap, Larger, Smaller
  <2> QED BY <2>1 DEF BboxGapSquare
<1>2. Dx(a, b) \in Int /\ Dy(a, b) \in Int BY DEF Dx, Dy, Boxes
<1> QED BY <1>1, <1>2 DEF RelationTypes

(* Of two scenes, what appeared in the one had disappeared in the other    *)
(* way round, and an object of either scene that is not at rest is told of *)
(* by exactly one event (_temporal_analysis).                              *)
THEOREM AppearingMirrorsDisappearing ==
    ASSUME NEW previous, NEW current, NEW moved, NEW motion \in Nat, NEW approach \in Int
    PROVE  LET there == TemporalStates(TRUE, previous, current, moved, motion, approach)
               back == TemporalStates(TRUE, current, previous, moved, motion, approach)
           IN  /\ DOMAIN there = DOMAIN back
               /\ \A k \in DOMAIN there : there[k] = "appeared" <=> back[k] = "disappeared"
               /\ \A k \in DOMAIN there \ TemporalEvents(there) :
                     k \in DOMAIN previous /\ k \in DOMAIN current
                     /\ previous[k].region = current[k].region
<1> DEFINE there == TemporalStates(TRUE, previous, current, moved, motion, approach)
           back == TemporalStates(TRUE, current, previous, moved, motion, approach)
<1>1. \A m, n, f, t : MatchedState(m, n, f, t, motion, approach) \in
         {"approaching", "moving", "stationary"}
    BY DEF MatchedState
<1>2. \A m, n, f, t : MatchedState(m, n, f, t, motion, approach) = "stationary" => f = t
    BY DEF MatchedState
<1>3. /\ DOMAIN there = DOMAIN previous \union DOMAIN current
      /\ DOMAIN back = DOMAIN previous \union DOMAIN current
    BY DEF TemporalStates
<1>4. ASSUME NEW k \in DOMAIN there
      PROVE  there[k] = "appeared" <=> back[k] = "disappeared"
    BY <1>1, <1>3 DEF TemporalStates
<1>5. ASSUME NEW k \in DOMAIN there \ TemporalEvents(there)
      PROVE  /\ k \in DOMAIN previous /\ k \in DOMAIN current
             /\ previous[k].region = current[k].region
    BY <1>1, <1>2, <1>3 DEF TemporalStates, TemporalEvents
<1> QED BY <1>3, <1>4, <1>5

-----------------------------------------------------------------------------
(* What the voice chain is told of the scene *)

(* "This" and "there" are resolved only in a view that is fresh, or whose  *)
(* age is unknown, whose target is not lost, and in which there is a person*)
(* or a target; and following is told of a target that is locked now.      *)
THEOREM GroundingIsFresh ==
    \A v \in Views :
        /\ CanResolveDeictic(v) =>
              /\ v.age = Unknown \/ v.age <= v.staleAfter
              /\ ~(v.target.given /\ v.target.lost)
              /\ HasPerson(v) \/ v.target.given
        /\ Following(v) => CanResolveDeictic(v) /\ v.target.locked /\ ~v.target.lost
        /\ ReferenceReason(v) = "fresh_visual_grounding" <=> CanResolveDeictic(v)
<1> SUFFICES ASSUME NEW v \in Views
             PROVE  /\ CanResolveDeictic(v) =>
                          /\ v.age = Unknown \/ v.age <= v.staleAfter
                          /\ ~(v.target.given /\ v.target.lost)
                          /\ HasPerson(v) \/ v.target.given
                    /\ Following(v) => CanResolveDeictic(v) /\ v.target.locked /\ ~v.target.lost
                    /\ ReferenceReason(v) = "fresh_visual_grounding" <=> CanResolveDeictic(v)
    OBVIOUS
<1>1. v.age \in Nat \union {Unknown} /\ v.staleAfter \in Nat BY DEF Views
<1>2. ~IsStale(v) => v.age = Unknown \/ v.age <= v.staleAfter
    BY <1>1 DEF IsStale
<1>3. CanResolveDeictic(v) => ~(v.target.given /\ v.target.lost)
    BY DEF CanResolveDeictic, TargetStatus
<1>4. CanResolveDeictic(v) => HasPerson(v) \/ v.target.given
    BY DEF CanResolveDeictic, TargetStatus
<1>5. Following(v) => CanResolveDeictic(v) /\ v.target.locked /\ ~v.target.lost
    BY DEF CanResolveDeictic, TargetStatus, Following
<1>6. ReferenceReason(v) = "fresh_visual_grounding" <=> CanResolveDeictic(v)
    BY DEF ReferenceReason, CanResolveDeictic
<1> QED BY <1>2, <1>3, <1>4, <1>5, <1>6 DEF CanResolveDeictic

(* A view that cannot resolve them is never more reliable than 0.49, and a *)
(* stale one never more than 0.147, however confident its detector is.     *)
THEOREM UngroundedIsUnreliable ==
    \A v \in Views : \A r \in Int :
        IsReliability(v, r) =>
            /\ ~CanResolveDeictic(v) => r <= 490
            /\ IsStale(v) => r <= 147
<1> SUFFICES ASSUME NEW v \in Views, NEW r \in Int, IsReliability(v, r)
             PROVE  /\ ~CanResolveDeictic(v) => r <= 490
                    /\ IsStale(v) => r <= 147
    OBVIOUS
<1>1. PICK base \in Confidences :
         LET capped == IF ~CanResolveDeictic(v) /\ base > 490 THEN 490 ELSE base
         IN  r = IF IsStale(v) THEN (capped * 3) \div 10 ELSE capped
    BY DEF IsReliability
<1>2. IsStale(v) => ~CanResolveDeictic(v) BY DEF CanResolveDeictic
<1>3. base \in 0..1000 BY DEF Confidences
<1>4. CASE ~CanResolveDeictic(v)
  <2> DEFINE capped == IF base > 490 THEN 490 ELSE base
  <2>1. capped \in 0..490 BY <1>3
  <2>2. r = IF IsStale(v) THEN (capped * 3) \div 10 ELSE capped BY <1>1, <1>4
  <2> HIDE DEF capped
  <2>3. (capped * 3) \div 10 <= 147 BY <2>1
  <2> QED BY <2>1, <2>2, <2>3
<1>5. CASE CanResolveDeictic(v) BY <1>2, <1>5
<1> QED BY <1>4, <1>5

(* The running body gives no target, so there a lock that was lost never   *)
(* keeps the voice from saying "this": what counts is a person in a view   *)
(* that is not stale (_build_visual_loop_diagnostics).                     *)
THEOREM BodyGroundsOnPersons ==
    \A v \in BodyViews :
        /\ CanResolveDeictic(v) <=> ~IsStale(v) /\ \E o \in v.scene : o.label = "person"
        /\ TrackingStatus(v) = "idle"
BY DEF BodyViews, Views, CanResolveDeictic, TargetStatus, HasPerson, CompactObjects,
       TrackingStatus, Following

-----------------------------------------------------------------------------
(* The scenes that a turn remembers *)

MatchInv ==
    /\ matches \subseteq SameLabel /\ left \subseteq SameLabel
    /\ OneToOne
    /\ matches \intersect left = {}
    /\ \A pair \in SameLabel \ left : \A other \in left : FarApart[pair] <= FarApart[other]
    /\ \A pair \in SameLabel \ left :
          FarApart[pair] <= Reach =>
              \E m \in matches :
                  (m[1] = pair[1] \/ m[2] = pair[2]) /\ FarApart[m] <= FarApart[pair]

LEMMA MatchingStep ==
    ASSUME FarApart \in [SameLabel -> Int], Reach \in Int, MatchInv, [MatchNext]_mvars
    PROVE  MatchInv'
<1>1. CASE UNCHANGED mvars
  BY <1>1 DEF mvars, MatchInv, OneToOne
<1>2. CASE MatchNext
  <2>1. PICK pair \in left : Consider(pair) BY <1>2 DEF MatchNext
  <2>2. pair \in SameLabel BY <2>1 DEF MatchInv
  <2>3. \A p \in SameLabel : FarApart[p] \in Int OBVIOUS
  <2>4. left' = left \ {pair} BY <2>1 DEF Consider
  <2>5. \A other \in left' : FarApart[pair] <= FarApart[other]
      BY <2>1, <2>4 DEF Consider, Nearest
  <2>6. \A p \in SameLabel \ left : FarApart[p] <= FarApart[pair]
      BY <2>1 DEF MatchInv
  <2>7. \A p \in SameLabel \ left' : \A other \in left' : FarApart[p] <= FarApart[other]
      BY <2>4, <2>5, <2>1 DEF MatchInv
  <2>8. CASE \/ FarApart[pair] > Reach
             \/ pair[1] \in UsedCurrent \/ pair[2] \in UsedPrevious
    <3>1. matches' = matches BY <2>1, <2>8 DEF Consider
    <3>2. ASSUME FarApart[pair] <= Reach
          PROVE  \E m \in matches :
                     (m[1] = pair[1] \/ m[2] = pair[2]) /\ FarApart[m] <= FarApart[pair]
      <4>1. pair[1] \in UsedCurrent \/ pair[2] \in UsedPrevious
          BY <2>2, <2>3, <2>8, <3>2
      <4>2. PICK m \in matches : m[1] = pair[1] \/ m[2] = pair[2]
          BY <4>1 DEF UsedCurrent, UsedPrevious
      <4>3. m \in SameLabel \ left BY DEF MatchInv
      <4> QED BY <2>6, <4>2, <4>3
    <3> QED BY <2>4, <2>7, <3>1, <3>2 DEF MatchInv, OneToOne
  <2>9. CASE ~(\/ FarApart[pair] > Reach
               \/ pair[1] \in UsedCurrent \/ pair[2] \in UsedPrevious)
    <3>1. matches' = matches \union {pair} BY <2>1, <2>9 DEF Consider
    <3>2. \A m \in matches : m[1] # pair[1] /\ m[2] # pair[2]
        BY <2>9 DEF UsedCurrent, UsedPrevious
    <3>3. OneToOne' BY <3>1, <3>2 DEF MatchInv, OneToOne
    <3>4. FarApart[pair] <= FarApart[pair] BY <2>2, <2>3
    <3>5. \A p \in SameLabel \ left' :
             FarApart[p] <= Reach =>
                 \E m \in matches' : (m[1] = p[1] \/ m[2] = p[2]) /\ FarApart[m] <= FarApart[p]
        BY <2>4, <3>1, <3>4 DEF MatchInv
    <3>6. /\ matches' \subseteq SameLabel /\ left' \subseteq SameLabel
          /\ matches' \intersect left' = {}
        BY <2>2, <2>4, <3>1 DEF MatchInv
    <3> QED BY <2>7, <3>3, <3>5, <3>6 DEF MatchInv
  <2> QED BY <2>8, <2>9
<1> QED BY <1>1, <1>2

(* However many objects the scenes have and wherever they are: no object   *)
(* is matched twice or told of twice, and two objects of one label within  *)
(* reach stay unmatched only beside a match that is as near                *)
(* (_match_objects, _build_events).                                        *)
THEOREM ScenesAreMatched ==
    ASSUME FarApart \in [SameLabel -> Int], Reach \in Int
    PROVE  MatchSpec => [](OneToOne /\ MatchesAreStable /\ OneEventEach)
<1>1. MatchInit => MatchInv
  BY DEF MatchInit, MatchInv, OneToOne
<1>2. MatchInv /\ [MatchNext]_mvars => MatchInv'
  BY MatchingStep
<1>3. MatchInv => OneToOne /\ MatchesAreStable /\ OneEventEach
  BY DEF MatchInv, OneToOne, MatchesAreStable, OneEventEach, Moved, Appeared, Disappeared,
         UsedCurrent, UsedPrevious
<1> QED BY <1>1, <1>2, <1>3, PTL DEF MatchSpec

(* The score never needs its cap: half a point for everyone who came, went *)
(* or moved is at most a point for each object of the larger scene         *)
(* (_change_score); matched objects are in both scenes and move at most    *)
(* half a point each.                                                      *)
THEOREM ScoreNeedsNoCap ==
    ASSUME NEW current \in Nat, NEW previous \in Nat, NEW matched \in Nat,
           matched <= current, matched <= previous, NEW moved \in 0..(50 * matched)
    PROVE  ChangePoints(current - matched, previous - matched, moved)
              <= 100 * Denominator(current, previous)
BY DEF ChangePoints, Denominator

(* Somebody who comes into a scene where something else stays as it was is *)
(* never written, and neither is somebody who leaves one or more others;   *)
(* a scene that is exchanged for another always is.                        *)
THEOREM NewcomersAreNotWritten ==
    ASSUME NEW others \in Nat \ {0}, NEW same \in BOOLEAN
    PROVE  /\ ~Remembered(FALSE, same, ChangePoints(1, 0, 0), Denominator(others + 1, others))
           /\ ~Remembered(FALSE, same, ChangePoints(0, 1, 0), Denominator(others, others + 1))
           /\ Remembered(FALSE, FALSE, ChangePoints(others, others, 0), Denominator(others, others))
BY DEF Remembered, ShouldWrite, Significant, ChangePoints, Denominator

-----------------------------------------------------------------------------
LEMMA ScaledIsInteger ==
    ASSUME NEW n \in Int, NEW other \in Int, NEW size \in Nat, NEW unit \in Nat
    PROVE  Scaled(n, other, size, unit) \in Int
<1>1. size > 0 => n \div size \in Int OBVIOUS
<1> QED BY <1>1 DEF Scaled

(* Whatever four numbers a detector gives for a box and whatever they are  *)
(* taken for: what is kept is a box inside the frame with its corners in   *)
(* order, as every relation and area supposes (_normalize_bbox).           *)
THEOREM BoxesAreInTheFrame ==
    ASSUME NEW l \in [1..4 -> Int], NEW hint, NEW width \in Nat, NEW height \in Nat,
           NEW unit \in Nat
    PROVE  LET b == NormalizeBbox(Corners(l, hint, unit), width, height, unit)
           IN  /\ b \in Boxes
               /\ b.x_min >= 0 /\ b.y_min >= 0 /\ b.x_max <= unit /\ b.y_max <= unit
<1> DEFINE c == Corners(l, hint, unit)
<1>1. c[1] \in Int /\ c[2] \in Int /\ c[3] \in Int /\ c[4] \in Int
  <2>1. l[1] \in Int /\ l[2] \in Int /\ l[3] \in Int /\ l[4] \in Int OBVIOUS
  <2> QED BY <2>1 DEF Corners
<1> HIDE DEF c
<1> DEFINE x1 == Scaled(c[1], c[3], width, unit)
           x2 == Scaled(c[3], c[1], width, unit)
           y1 == Scaled(c[2], c[4], height, unit)
           y2 == Scaled(c[4], c[2], height, unit)
<1>2. x1 \in Int /\ x2 \in Int /\ y1 \in Int /\ y2 \in Int
    BY <1>1, ScaledIsInteger
<1>3. NormalizeBbox(c, width, height, unit) =
         [x_min |-> Clipped(Smaller(x1, x2), unit), x_max |-> Clipped(Larger(x1, x2), unit),
          y_min |-> Clipped(Smaller(y1, y2), unit), y_max |-> Clipped(Larger(y1, y2), unit)]
    BY DEF NormalizeBbox
<1> HIDE DEF x1, x2, y1, y2
<1>4. \A m, n \in Int :
         /\ Clipped(Smaller(m, n), unit) \in Int /\ Clipped(Larger(m, n), unit) \in Int
         /\ 0 <= Clipped(Smaller(m, n), unit)
         /\ Clipped(Smaller(m, n), unit) <= Clipped(Larger(m, n), unit)
         /\ Clipped(Larger(m, n), unit) <= unit
    BY DEF Clipped, Smaller, Larger
<1>5. /\ NormalizeBbox(c, width, height, unit) \in Boxes
      /\ NormalizeBbox(c, width, height, unit).x_min >= 0
      /\ NormalizeBbox(c, width, height, unit).y_min >= 0
      /\ NormalizeBbox(c, width, height, unit).x_max <= unit
      /\ NormalizeBbox(c, width, height, unit).y_max <= unit
    BY <1>2, <1>3, <1>4 DEF Boxes
<1> QED BY <1>5 DEF c

-----------------------------------------------------------------------------
(* From what was heard to what is decided *)

(* The hypotheses of a round: those of all its partial texts, as nothing   *)
(* is taken back when the recogniser changes its mind.                     *)
RoundHypotheses(signals) == UNION {FastHypotheses(s) : s \in signals}

LEMMA HypothesesOfASignal ==
    \A s \in Signals :
        /\ FastHypotheses(s) # {}
        /\ Hypothesis("possible_action_request", 66) \in FastHypotheses(s) <=> s.text /\ s.action
        /\ \A h \in FastHypotheses(s) :
              /\ h.confidence \in 0..66
              /\ h.intent \in {"possible_question", "possible_action_request",
                    "possible_memory_writeback", "continue_listening",
                    "possible_environment_context", "supportive_tone_hint", "waiting_for_signal"}
              /\ h.confidence = 66 <=> h.intent = "possible_action_request"
              /\ h.intent = "possible_action_request" => h = Hypothesis("possible_action_request", 66)
<1> SUFFICES ASSUME NEW s \in Signals
             PROVE  /\ FastHypotheses(s) # {}
                    /\ Hypothesis("possible_action_request", 66) \in FastHypotheses(s) <=> s.text /\ s.action
                    /\ \A h \in FastHypotheses(s) :
                          /\ h.confidence \in 0..66
                          /\ h.intent \in {"possible_question", "possible_action_request",
                                "possible_memory_writeback", "continue_listening",
                                "possible_environment_context", "supportive_tone_hint", "waiting_for_signal"}
                          /\ h.confidence = 66 <=> h.intent = "possible_action_request"
                          /\ h.intent = "possible_action_request" => h = Hypothesis("possible_action_request", 66)
    OBVIOUS
<1>1. FastHypotheses(s) # {} BY DEF FastHypotheses
<1>2. \A h \in FastHypotheses(s) :
         h \in {Hypothesis("possible_question", 58), Hypothesis("possible_action_request", 66),
                Hypothesis("possible_memory_writeback", 62), Hypothesis("continue_listening", 41),
                Hypothesis("possible_environment_context", 48), Hypothesis("supportive_tone_hint", 64),
                Hypothesis("supportive_tone_hint", 45), Hypothesis("waiting_for_signal", 30)}
    BY DEF FastHypotheses, TextHypotheses
<1>3. s.text /\ s.action => Hypothesis("possible_action_request", 66) \in TextHypotheses(s)
  <2>1. Hypothesis("possible_action_request", 66).intent = "possible_action_request" BY DEF Hypothesis
  <2> QED BY <2>1 DEF TextHypotheses
<1>4. Hypothesis("possible_action_request", 66) \in TextHypotheses(s) => s.text /\ s.action
    BY DEF TextHypotheses, Hypothesis
<1>5. Hypothesis("possible_action_request", 66) \in FastHypotheses(s)
         <=> Hypothesis("possible_action_request", 66) \in TextHypotheses(s)
  <2>1. /\ Hypothesis("possible_action_request", 66) # Hypothesis("possible_environment_context", 48)
        /\ Hypothesis("possible_action_request", 66) # Hypothesis("supportive_tone_hint", 64)
        /\ Hypothesis("possible_action_request", 66) # Hypothesis("supportive_tone_hint", 45)
        /\ Hypothesis("possible_action_request", 66) # Hypothesis("waiting_for_signal", 30)
      BY DEF Hypothesis
  <2> QED BY <2>1 DEF FastHypotheses
<1>6. \A h \in FastHypotheses(s) :
         /\ h.confidence \in 0..66
         /\ h.intent \in {"possible_question", "possible_action_request",
               "possible_memory_writeback", "continue_listening",
               "possible_environment_context", "supportive_tone_hint", "waiting_for_signal"}
         /\ h.confidence = 66 <=> h.intent = "possible_action_request"
         /\ h.intent = "possible_action_request" => h = Hypothesis("possible_action_request", 66)
    BY <1>2 DEF Hypothesis
<1> QED BY <1>1, <1>3, <1>4, <1>5, <1>6

(* What a round decides: an action is asked for by the final text, or by   *)
(* any partial text of a round whose final text asks for nothing, even by  *)
(* one that the recogniser took back and even if there is no final text;   *)
(* a reminder is made of a final text only (SlowReasoner._pick_intent).    *)
THEOREM DecisionOfARound ==
    ASSUME NEW signals \in SUBSET Signals, NEW final \in Finals,
           NEW intent \in PickIntents(final, RoundHypotheses(signals))
    PROVE  /\ intent = "action_oriented" <=>
                 \/ final = "action"
                 \/ final \in {"plain", "empty"} /\ \E s \in signals : s.text /\ s.action
           /\ intent = "create_reminder" <=> final = "reminder"
           /\ HasActionPlan(intent) /\ intent # "remember" =>
                 final \in {"action", "reminder"} \/ \E s \in signals : s.text /\ s.action
<1> DEFINE hs == RoundHypotheses(signals)
<1>1. \A h \in hs :
         /\ h.confidence \in 0..66
         /\ h.intent \in {"possible_question", "possible_action_request",
               "possible_memory_writeback", "continue_listening",
               "possible_environment_context", "supportive_tone_hint", "waiting_for_signal"}
         /\ h.confidence = 66 <=> h.intent = "possible_action_request"
         /\ h.intent = "possible_action_request" => h = Hypothesis("possible_action_request", 66)
    BY HypothesesOfASignal DEF RoundHypotheses
<1>2. (\E h \in hs : h.intent = "possible_action_request") <=> \E s \in signals : s.text /\ s.action
  <2>1. ASSUME NEW h \in hs, h.intent = "possible_action_request"
        PROVE  \E s \in signals : s.text /\ s.action
    <3>1. PICK s \in signals : h \in FastHypotheses(s) BY DEF RoundHypotheses
    <3>2. h = Hypothesis("possible_action_request", 66) BY <1>1, <2>1
    <3> QED BY <3>1, <3>2, HypothesesOfASignal
  <2>2. ASSUME NEW s \in signals, s.text /\ s.action
        PROVE  \E h \in hs : h.intent = "possible_action_request"
    <3>1. Hypothesis("possible_action_request", 66) \in FastHypotheses(s)
        BY <2>2, HypothesesOfASignal
    <3>2. Hypothesis("possible_action_request", 66) \in hs BY <3>1 DEF RoundHypotheses
    <3>3. Hypothesis("possible_action_request", 66).intent = "possible_action_request"
        BY DEF Hypothesis
    <3> QED BY <3>2, <3>3
  <2> QED BY <2>1, <2>2
<1> HIDE DEF hs
<1>3. CASE final \notin {"plain", "empty"}
  <2>1. intent = HeuristicIntent(final) BY <1>3 DEF PickIntents
  <2> QED BY <1>3, <2>1 DEF HeuristicIntent, Finals, HasActionPlan
<1>4. CASE final \in {"plain", "empty"} /\ hs = {}
  <2>1. intent = HeuristicIntent(final) BY <1>4 DEF PickIntents, hs
  <2>2. ~\E s \in signals : s.text /\ s.action BY <1>2, <1>4
  <2> QED BY <1>4, <2>1, <2>2 DEF HeuristicIntent, Finals, HasActionPlan
<1>5. CASE final \in {"plain", "empty"} /\ hs # {}
  <2>1. PICK h \in hs : IsBest(h, hs) /\ intent = DecisionOf(final, h.intent)
      BY <1>5 DEF PickIntents, hs
  <2>2. h.intent = "possible_action_request" <=> \E g \in hs : g.intent = "possible_action_request"
    <3>1. ASSUME NEW g \in hs, g.intent = "possible_action_request"
          PROVE  h.intent = "possible_action_request"
      <4>1. g.confidence = 66 /\ g.confidence <= h.confidence /\ h.confidence \in 0..66
          BY <1>1, <2>1, <3>1 DEF IsBest
      <4>2. h.confidence = 66 BY <4>1
      <4> QED BY <1>1, <4>2
    <3> QED BY <3>1
  <2>3. h.intent \in {"possible_question", "possible_action_request",
               "possible_memory_writeback", "continue_listening",
               "possible_environment_context", "supportive_tone_hint", "waiting_for_signal"}
      BY <1>1
  <2>4. intent = "action_oriented" <=> h.intent = "possible_action_request"
      BY <1>5, <2>1, <2>3 DEF DecisionOf, HeuristicIntent, Finals
  <2>5. intent # "create_reminder"
      BY <1>5, <2>1, <2>3 DEF DecisionOf, HeuristicIntent, Finals
  <2> QED BY <1>2, <1>5, <2>2, <2>4, <2>5 DEF HasActionPlan, Finals
<1> QED BY <1>3, <1>4, <1>5

(* No memory that would change the persona is referred to in a reply, and  *)
(* none of them keeps a better one out (_apply_persona_memory_guardrails,  *)
(* SlowReasoner's _memory_refs).                                           *)
THEOREM DriftIsNeverReferred ==
    ASSUME NEW candidates \in SUBSET Candidates, NEW refs,
           AreMemoryRefs(refs, {Guarded(c) : c \in candidates})
    PROVE  /\ \A r \in refs : ~r.drifts /\ ~r.protectedKey
           /\ \A c \in candidates : \A r \in refs :
                 ~CandidateFiltered(Guarded(c)) /\ c \notin refs => c.score <= r.score
<1>1. \A c \in candidates : c.drifts \/ c.protectedKey => CandidateFiltered(Guarded(c))
    BY DEF Guarded, CandidateFiltered, Candidates
<1>2. \A c \in candidates : Guarded(c).drifts = c.drifts /\ Guarded(c).protectedKey = c.protectedKey
    BY DEF Guarded, Candidates
<1>3. \A c \in candidates : ~CandidateFiltered(Guarded(c)) => Guarded(c) = c
    BY <1>1 DEF Guarded
<1>4. \A r \in refs : \E c \in candidates : r = Guarded(c) /\ ~CandidateFiltered(r)
    BY DEF AreMemoryRefs
<1>5. ASSUME NEW c \in candidates, NEW r \in refs,
             ~CandidateFiltered(Guarded(c)), c \notin refs
      PROVE  c.score <= r.score
  <2>1. c = Guarded(c) BY <1>3, <1>5
  <2>2. c \in {d \in {Guarded(e) : e \in candidates} : ~CandidateFiltered(d)} BY <1>5, <2>1
  <2> QED BY <1>5, <2>2 DEF AreMemoryRefs
<1> QED BY <1>1, <1>2, <1>4, <1>5

(* A plan never acts beside an excuse: if a tool is unavailable or an      *)
(* action failed, no action is ready, the excuse is spoken, and the plan   *)
(* counts as aligned; and an action is ready only in a plan without one    *)
(* (SpeechActionPlanner.plan).                                             *)
THEOREM ExcusesStopActions ==
    ASSUME NEW tools \in SUBSET [id : Nat, available : BOOLEAN],
           NEW results \in SUBSET [ok : BOOLEAN],
           NEW speech \in BOOLEAN, NEW final \in BOOLEAN, NEW named
    PROVE  /\ Fallback(tools, results) =>
                 /\ \A t \in tools : ActionStatus(t, tools, results) # "ready"
                 /\ SpeechSource(tools, results, speech, final) \notin {"slow_reasoner", "safe_ack", "none"}
                 /\ Aligned(tools, results, speech, named)
           /\ ~Fallback(tools, results) => \A t \in tools : ActionStatus(t, tools, results) = "ready"
BY DEF Fallback, ActionStatus, SpeechSource, Aligned

(* The lanes of a turn never contradict each other: speaking is ready only *)
(* of a committed decision that the arbiter approved, and then nothing     *)
(* waits; what is blocked still counts as waiting (_lane_snapshots).       *)
THEOREM LanesAgree ==
    \A t \in TurnViews :
        /\ SpeakingLane(t) = "ready" =>
              SlowLane(t) = "stable_committed" /\ ArbiterLane(t) = "approved" /\ SpeakingPending(t) = 0
        /\ SpeakingLane(t) = "blocked" <=> SpeakingPending(t) > 0
        /\ ArbiterLane(t) = "idle" <=> SlowLane(t) # "stable_committed"
<1> SUFFICES ASSUME NEW t \in TurnViews
             PROVE  /\ SpeakingLane(t) = "ready" =>
                          /\ SlowLane(t) = "stable_committed"
                          /\ ArbiterLane(t) = "approved"
                          /\ SpeakingPending(t) = 0
                    /\ SpeakingLane(t) = "blocked" <=> SpeakingPending(t) > 0
                    /\ ArbiterLane(t) = "idle" <=> SlowLane(t) # "stable_committed"
    OBVIOUS
<1>1. /\ t.segments \in Nat
      /\ t.verdict \in {"", "approved", "blocked"}
      /\ t.segments > 0 => t.decisions > 0
      /\ t.verdict # "" => t.decisions > 0
    BY DEF TurnViews
<1>2. SlowLane(t) = "stable_committed" <=> t.decisions > 0 BY DEF SlowLane
<1>3. SpeakingLane(t) = "ready" <=> t.segments > 0 /\ t.verdict = "approved" BY DEF SpeakingLane
<1>4. SpeakingLane(t) = "blocked" <=> t.segments > 0 /\ t.verdict # "approved" BY DEF SpeakingLane
<1>5. SpeakingPending(t) > 0 <=> t.segments > 0 /\ t.verdict # "approved"
  <2>1. CASE t.segments > 0 /\ t.verdict # "approved"
    <3>1. SpeakingPending(t) = t.segments BY <2>1 DEF SpeakingPending
    <3> QED BY <2>1, <3>1
  <2>2. CASE ~(t.segments > 0 /\ t.verdict # "approved")
    <3>1. SpeakingPending(t) = 0 BY <2>2 DEF SpeakingPending
    <3> QED BY <2>2, <3>1
  <2> QED BY <2>1, <2>2
<1>6. t.verdict = "approved" => ArbiterLane(t) = "approved" /\ SpeakingPending(t) = 0
    BY DEF ArbiterLane, SpeakingPending
<1>7. ArbiterLane(t) = "idle" <=> ~(t.decisions > 0) BY <1>1 DEF ArbiterLane
<1> QED BY <1>1, <1>2, <1>3, <1>4, <1>5, <1>6, <1>7

-----------------------------------------------------------------------------
(* Mood and persona *)

(* The three places that judge the room agree: speech is suppressed        *)
(* exactly if another channel is preferred, nothing is said at length      *)
(* then, and what must be very short is deferred (_response_strategy,      *)
(* _proactive_policy).                                                     *)
THEOREM GuidanceAgrees ==
    ASSUME NEW h \in Hints
    PROVE  /\ SuppressSpeech(h) <=> ConstrainedChannel(h)
           /\ StrategyBrevity(h) = "normal" => ~SuppressSpeech(h)
           /\ StrategyBrevity(h) = "very_concise" => Priority(h) = "defer"
<1>1. SuppressSpeech(h) <=> ConstrainedChannel(h)
    BY DEF SuppressSpeech, SuppressionReasons, ConstrainedChannel
<1>2. StrategyBrevity(h) = "normal" => ~ConstrainedChannel(h) BY DEF StrategyBrevity
<1>3. StrategyBrevity(h) = "very_concise"
         => Noise(h) = "high" /\ (h.time = "night" \/ Proximity(h) = "far")
    BY DEF StrategyBrevity
<1>4. Noise(h) = "high" /\ (h.time = "night" \/ Proximity(h) = "far") => Priority(h) = "defer"
    BY <1>1 DEF Priority, ConstrainedChannel
<1> QED BY <1>1, <1>2, <1>3, <1>4

(* Who is stressed is spoken to gently by both tones; they differ the      *)
(* other way only for an angry or a stressed face that the mood overlooks  *)
(* (_response_strategy, _response_style).                                  *)
THEOREM TonesAgreeOnStress ==
    ASSUME NEW h \in Hints
    PROVE  /\ HintLabel(h) = "stressed" => StrategyTone(h) = "gentle" /\ StyleTone(h) = "gentle"
           /\ StyleTone(h) = "gentle" /\ StrategyTone(h) = "warm" =>
                 h.expression \in {"angry", "stressed"} /\ HintLabel(h) = "concerned"
<1>1. HintLabel(h) = "stressed" => Vulnerable(h) BY DEF Vulnerable, MoodOf
<1>2. HintLabel(h) = "concerned"
         => h.expression \in {"tired", "sad", "concerned", "angry", "stressed"}
    BY DEF HintLabel
<1>3. h.expression \in {"tired", "sad", "concerned"} => Vulnerable(h)
    BY DEF Vulnerable, MoodOf
<1>4. StyleTone(h) = "gentle" => HintLabel(h) \in {"stressed", "concerned"} BY DEF StyleTone
<1>5. StrategyTone(h) = "warm" => ~Vulnerable(h) BY DEF StrategyTone
<1> QED BY <1>1, <1>2, <1>3, <1>4, <1>5 DEF StyleTone, StrategyTone

(* The night wins over noise: the voice is at its quietest then and never  *)
(* loud, and it is loud only where speaking up unasked is suppressed       *)
(* (_voice_style_name, _VOICE_STYLE_PRESETS).                              *)
THEOREM NightIsQuiet ==
    ASSUME NEW h \in Hints
    PROVE  /\ "night" \in SuppressionReasons(h) <=> Volume[VoiceStyle(h)] = 50
           /\ Volume[VoiceStyle(h)] > 76 => "high_noise" \in SuppressionReasons(h) /\ h.time # "night"
<1>1. VoiceStyle(h) \in {"night", "noisy", "tired", "warm"} BY DEF VoiceStyle
<1>2. "night" \in SuppressionReasons(h) <=> h.time = "night" BY DEF SuppressionReasons
<1>3. "high_noise" \in SuppressionReasons(h) <=> Noise(h) = "high" BY DEF SuppressionReasons
<1>4. VoiceStyle(h) = "night" <=> h.time = "night" BY DEF VoiceStyle
<1>5. VoiceStyle(h) = "noisy" => Noise(h) = "high" /\ h.time # "night" BY DEF VoiceStyle
<1>6. Volume["warm"] = 76 /\ Volume["tired"] = 64 /\ Volume["noisy"] = 92 /\ Volume["night"] = 50
    BY DEF Volume
<1> QED BY <1>1, <1>2, <1>3, <1>4, <1>5, <1>6

(* A reply that is shaped is never longer than its persona allows, the     *)
(* dots that mark the cut included (PersonaRuntime.shape_reply).           *)
THEOREM ReplyIsShort ==
    ASSUME NEW n \in Nat, NEW max \in Nat \ {0}, NEW length \in LimitedLengths(n, max)
    PROVE  length <= max
<1>1. CASE n <= max BY <1>1 DEF LimitedLengths
<1>2. CASE ~(n <= max) /\ max <= 3 BY <1>2 DEF LimitedLengths
<1>3. CASE ~(n <= max) /\ ~(max <= 3)
  <2>1. PICK k \in 0..(max - 3) : length = 3 + k BY <1>3 DEF LimitedLengths
  <2> QED BY <2>1
<1> QED BY <1>1, <1>2, <1>3

(* What the guardrails have done when some keys are still unchecked: the   *)
(* other protected keys are out, and a section is gone only if it had      *)
(* entries and lost them all.                                              *)
GuardInv ==
    /\ IsContext(recalled)
    /\ unchecked \subseteq ProtectedKeys
    /\ accepted.entries = recalled.entries \ (ProtectedKeys \ unchecked)
    /\ accepted.sections =
          {s \in recalled.sections :
              \/ \E e \in accepted.entries : e.section = s
              \/ \A e \in recalled.entries : e.section # s}
    /\ rejected = recalled.entries \intersect (ProtectedKeys \ unchecked)

(* Nothing that memory says changes the persona: once all protected keys   *)
(* are checked, none is left in the context, all that memory said of them  *)
(* is reported as rejected, and nothing else was lost, whatever the order  *)
(* of the keys (apply_memory_guardrails).                                  *)
PersonaIsKept ==
    unchecked = {} =>
        /\ accepted.entries \intersect ProtectedKeys = {}
        /\ accepted.entries \union rejected = recalled.entries
        /\ \A s \in recalled.sections \ accepted.sections :
              \E key \in rejected : key.section = s

(* The guardrails keep the persona in every state of every pass over the   *)
(* protected keys (apply_memory_guardrails).                               *)
THEOREM PersonaSurvives == GuardSpec => []PersonaIsKept
<1>1. GuardInit => GuardInv
  <2> SUFFICES ASSUME GuardInit PROVE GuardInv
      OBVIOUS
  <2>1. PICK sections, entries :
           recalled = [sections |-> sections, entries |-> entries] /\ IsContext(recalled)
      BY DEF GuardInit
  <2>2. accepted = recalled /\ rejected = {} /\ unchecked = ProtectedKeys BY DEF GuardInit
  <2>3. recalled.sections = sections /\ recalled.entries = entries BY <2>1
  <2>4. \A s \in recalled.sections :
           (\E e \in recalled.entries : e.section = s) \/ (\A e \in recalled.entries : e.section # s)
      OBVIOUS
  <2> QED BY <2>1, <2>2, <2>4 DEF GuardInv
<1>2. GuardInv /\ [GuardNext]_guardVars => GuardInv'
  <2> SUFFICES ASSUME GuardInv, [GuardNext]_guardVars PROVE GuardInv'
      OBVIOUS
  <2>1. CASE UNCHANGED guardVars BY <2>1 DEF GuardInv, IsContext, guardVars
  <2>2. ASSUME NEW key \in unchecked, CheckKey(key), key \in accepted.entries
        PROVE  GuardInv'
    <3>1. /\ recalled' = recalled
          /\ unchecked' = unchecked \ {key}
          /\ accepted' = Popped(accepted, key)
          /\ rejected' = rejected \union {key}
        BY <2>2 DEF CheckKey
    <3>2. /\ accepted'.entries = accepted.entries \ {key}
          /\ accepted'.sections =
                accepted.sections \ {s \in {key.section} :
                                        \A e \in accepted.entries \ {key} : e.section # s}
        BY <3>1 DEF Popped
    <3>3. key \in ProtectedKeys /\ key \in recalled.entries BY <2>2 DEF GuardInv
    <3>4. (ProtectedKeys \ unchecked)' = (ProtectedKeys \ unchecked) \union {key}
        BY <3>1, <3>3 DEF ProtectedKeys
    <3>5. accepted'.entries = recalled'.entries \ (ProtectedKeys \ unchecked)'
        BY <3>1, <3>2, <3>4 DEF GuardInv
    <3>6. rejected' = recalled'.entries \intersect (ProtectedKeys \ unchecked)'
        BY <3>1, <3>3, <3>4 DEF GuardInv
    <3>7. ASSUME NEW s
          PROVE  s \in accepted'.sections <=>
                   /\ s \in recalled'.sections
                   /\ \/ \E e \in accepted'.entries : e.section = s
                      \/ \A e \in recalled'.entries : e.section # s
      <4>1. s \in accepted.sections <=>
               /\ s \in recalled.sections
               /\ \/ \E e \in accepted.entries : e.section = s
                  \/ \A e \in recalled.entries : e.section # s
          BY DEF GuardInv
      <4>2. CASE s = key.section
        <5>1. s \in accepted.sections /\ s \in recalled.sections
            BY <2>2, <3>3, <4>1, <4>2 DEF GuardInv, IsContext
        <5>2. s \in accepted'.sections <=> \E e \in accepted.entries \ {key} : e.section = s
            BY <3>2, <4>2, <5>1
        <5> QED BY <3>1, <3>2, <3>3, <4>2, <5>1, <5>2
      <4>3. CASE s # key.section
        <5>1. s \in accepted'.sections <=> s \in accepted.sections BY <3>2, <4>3
        <5>2. (\E e \in accepted'.entries : e.section = s)
                 <=> \E e \in accepted.entries : e.section = s
            BY <3>2, <4>3
        <5> QED BY <3>1, <4>1, <5>1, <5>2
      <4> QED BY <4>2, <4>3
    <3>8. accepted'.sections =
             {s \in recalled'.sections :
                 \/ \E e \in accepted'.entries : e.section = s
                 \/ \A e \in recalled'.entries : e.section # s}
        BY <3>7
    <3>9. IsContext(recalled') /\ unchecked' \subseteq ProtectedKeys
        BY <3>1 DEF GuardInv, IsContext
    <3> QED BY <3>4, <3>5, <3>6, <3>8, <3>9 DEF GuardInv, IsContext, ProtectedKeys
  <2>3. ASSUME NEW key \in unchecked, CheckKey(key), key \notin accepted.entries
        PROVE  GuardInv'
    <3>1. /\ recalled' = recalled /\ accepted' = accepted /\ rejected' = rejected
          /\ unchecked' = unchecked \ {key}
        BY <2>3 DEF CheckKey
    <3>2. key \notin recalled.entries BY <2>3 DEF GuardInv
    <3>3. recalled.entries \intersect (ProtectedKeys \ unchecked')
             = recalled.entries \intersect (ProtectedKeys \ unchecked)
        BY <3>1, <3>2
    <3>4. recalled.entries \ (ProtectedKeys \ unchecked')
             = recalled.entries \ (ProtectedKeys \ unchecked)
        BY <3>1, <3>2
    <3> QED BY <3>1, <3>3, <3>4 DEF GuardInv, IsContext, ProtectedKeys, Key
  <2> QED BY <2>1, <2>2, <2>3 DEF GuardNext
<1>3. GuardInv => PersonaIsKept
  <2> SUFFICES ASSUME GuardInv, unchecked = {} PROVE PersonaIsKept
      BY DEF PersonaIsKept
  <2>1. /\ accepted.entries = recalled.entries \ ProtectedKeys
        /\ rejected = recalled.entries \intersect ProtectedKeys
      BY DEF GuardInv
  <2>2. ASSUME NEW s \in recalled.sections, s \notin accepted.sections
        PROVE  \E key \in rejected : key.section = s
    <3>1. /\ ~\E e \in accepted.entries : e.section = s
          /\ ~\A e \in recalled.entries : e.section # s
        BY <2>2 DEF GuardInv
    <3> QED BY <2>1, <3>1
  <2> QED BY <2>1, <2>2 DEF PersonaIsKept
<1> QED BY <1>1, <1>2, <1>3, PTL DEF GuardSpec

-----------------------------------------------------------------------------
(* Heads *)

(* What holds of the registry all the time; "private" are the keys that    *)
(* only their own component is announced under.                            *)
RegistryInv(private) ==
    /\ DOMAIN headStatus = NodeIds
    /\ DOMAIN capabilities = NodeIds
    /\ DOMAIN headErrors = NodeIds
    /\ headStatus = [n \in NodeIds |-> headStatus[n]]
    /\ capabilities = [n \in NodeIds |-> capabilities[n]]
    /\ headErrors = [n \in NodeIds |-> headErrors[n]]
    /\ todo # Quiet => /\ todo.node \in NodeIds
                       /\ todo.components \in Seq(Components)
                       /\ todo.status # "degraded"
                       /\ todo = [node |-> todo.node, source |-> todo.source,
                                  components |-> todo.components, status |-> todo.status,
                                  errors |-> todo.errors]
    /\ pull # Quiet => /\ pull.effective \in NodeIds
                       /\ pull.statusOf \in NodeIds
                       /\ pull.given \in NodeIds \union {NoNode}
                       /\ pull = [asks |-> pull.asks, given |-> pull.given,
                                  effective |-> pull.effective, statusOf |-> pull.statusOf]
    /\ \A n \in NodeIds : headStatus[n] = "degraded" => headErrors[n] # {}
    /\ \A n \in NodeIds : \A k \in DOMAIN capabilities[n] :
          k \in private => capabilities[n][k].id = k

(* What the registry does not lose: nodes, keys of their indexes, errors.  *)
NothingForgotten ==
    [][/\ nodes \subseteq nodes'
       /\ \A n \in NodeIds : /\ DOMAIN capabilities[n] \subseteq DOMAIN capabilities'[n]
                             /\ headErrors[n] \subseteq headErrors'[n]]_headVars

LEMMA NodeIdFromIsANode ==
    ASSUME DefaultNode \in NodeIds,
           NEW id \in NodeIds \union {NoNode}, NEW given \in NodeIds \union {NoNode}
    PROVE  NodeIdFrom(id, given) \in NodeIds
BY DEF NodeIdFrom

LEMMA MergedKeepsId ==
    ASSUME NEW key, NEW old, NEW new \in [id : {key}, category : STRING, items : {{}}],
           old.id = key
    PROVE  MergedEntry(key, old, new).id = key
BY DEF MergedEntry

LEMMA RegistryStep ==
    ASSUME DefaultNode \in NodeIds, "degraded" \notin HeadStatuses, NEW private,
           Components \subseteq [key : STRING, entry : [id : STRING, category : STRING, items : {{}}]],
           \A c \in Components : c.key \in private => c.entry.id = c.key,
           RegistryInv(private), RegistryNext
    PROVE  /\ RegistryInv(private)'
           /\ nodes \subseteq nodes'
           /\ \A n \in NodeIds : /\ DOMAIN capabilities[n] \subseteq DOMAIN capabilities'[n]
                                 /\ headErrors[n] \subseteq headErrors'[n]
<1>1. ASSUME NEW source, NEW p \in HeadPayloads, NEW node \in NodeIds, TakeIn(source, p, node),
             pull' # Quiet => /\ pull'.effective \in NodeIds
                              /\ pull'.statusOf \in NodeIds
                              /\ pull'.given \in NodeIds \union {NoNode}
                              /\ pull' = [asks |-> pull'.asks, given |-> pull'.given,
                                          effective |-> pull'.effective, statusOf |-> pull'.statusOf]
      PROVE  /\ RegistryInv(private)'
             /\ nodes \subseteq nodes'
             /\ \A n \in NodeIds : /\ DOMAIN capabilities[n] \subseteq DOMAIN capabilities'[n]
                                   /\ headErrors[n] \subseteq headErrors'[n]
  <2>1. p.components \in Seq(Components) /\ p.status # "degraded" BY DEF HeadPayloads
  <2> QED BY <1>1, <2>1 DEF TakeIn, RegistryInv
<1>2. ASSUME NEW p \in HeadPayloads
      PROVE  /\ SafeNodeId(p) \in NodeIds \union {NoNode}
             /\ UnwrappedNodeId(p) \in NodeIds \union {NoNode}
    BY DEF HeadPayloads, SafeNodeId, UnwrappedNodeId
<1>3. ASSUME NEW source \in {"manifest", "status"}, NEW p \in HeadPayloads,
             NEW given \in NodeIds \union {NoNode}, TakeUpdate(source, p, given)
      PROVE  /\ RegistryInv(private)'
             /\ nodes \subseteq nodes'
             /\ \A n \in NodeIds : /\ DOMAIN capabilities[n] \subseteq DOMAIN capabilities'[n]
                                   /\ headErrors[n] \subseteq headErrors'[n]
  <2> DEFINE id == IF source = "manifest" THEN UnwrappedNodeId(p) ELSE SafeNodeId(p)
  <2>1. NodeIdFrom(id, given) \in NodeIds BY <1>2, NodeIdFromIsANode
  <2>2. TakeIn(source, p, NodeIdFrom(id, given)) /\ pull' = pull /\ pull = Quiet
      BY <1>3 DEF TakeUpdate
  <2> QED BY <1>1, <2>1, <2>2
<1>4. CASE IndexOne
  <2> DEFINE c == Head(todo.components)
             node == todo.node
  <2>1. /\ todo # Quiet /\ todo.components # <<>>
        /\ capabilities' = [capabilities EXCEPT ![node] = Upsert(@, c.key, c.entry)]
        /\ todo' = [todo EXCEPT !.components = Tail(@)]
        /\ nodes' = nodes /\ headStatus' = headStatus /\ headErrors' = headErrors /\ pull' = pull
      BY <1>4 DEF IndexOne
  <2>2. /\ node \in NodeIds
        /\ todo.components \in Seq(Components)
        /\ DOMAIN capabilities = NodeIds
      BY <2>1 DEF RegistryInv
  <2>3. c \in Components /\ Tail(todo.components) \in Seq(Components) BY <2>1, <2>2
  <2>4. /\ DOMAIN capabilities' = NodeIds
        /\ capabilities' = [n \in NodeIds |-> capabilities'[n]]
        /\ \A n \in NodeIds : n # node => capabilities'[n] = capabilities[n]
        /\ capabilities'[node] = Upsert(capabilities[node], c.key, c.entry)
      BY <2>1, <2>2
  <2>7. todo' = [node |-> todo.node, source |-> todo.source,
                 components |-> Tail(todo.components), status |-> todo.status,
                 errors |-> todo.errors]
      BY <2>1 DEF RegistryInv
  <2>8. todo # Quiet => todo.node \in NodeIds /\ todo.status # "degraded" BY DEF RegistryInv
  <2> HIDE DEF c, node
  <2>9. /\ DOMAIN capabilities'[node] = DOMAIN capabilities[node] \union {c.key}
        /\ \A k \in DOMAIN capabilities[node] :
              k # c.key => capabilities'[node][k] = capabilities[node][k]
        /\ capabilities'[node][c.key] =
              IF c.key \in DOMAIN capabilities[node]
              THEN MergedEntry(c.key, capabilities[node][c.key], c.entry) ELSE c.entry
    <3> DEFINE old == capabilities[node]
    <3>1. /\ DOMAIN Upsert(old, c.key, c.entry) = DOMAIN old \union {c.key}
          /\ \A k \in DOMAIN old : k # c.key => Upsert(old, c.key, c.entry)[k] = old[k]
          /\ Upsert(old, c.key, c.entry)[c.key] =
                IF c.key \in DOMAIN old THEN MergedEntry(c.key, old[c.key], c.entry) ELSE c.entry
      <4> HIDE DEF old
      <4> QED BY DEF Upsert, SetEntry
    <3> DEFINE new == Upsert(old, c.key, c.entry)
    <3>2. capabilities'[node] = new BY <2>4
    <3>3. /\ DOMAIN new = DOMAIN old \union {c.key}
          /\ \A k \in DOMAIN old : k # c.key => new[k] = old[k]
          /\ new[c.key] = IF c.key \in DOMAIN old THEN MergedEntry(c.key, old[c.key], c.entry) ELSE c.entry
        BY <3>1
    <3> HIDE DEF new
    <3> QED BY <3>2, <3>3
  <2>5. \A n \in NodeIds : DOMAIN capabilities[n] \subseteq DOMAIN capabilities'[n]
      BY <2>4, <2>9
  <2>6. ASSUME NEW n \in NodeIds, NEW k \in DOMAIN capabilities'[n], k \in private
        PROVE  capabilities'[n][k].id = k
    <3>1. CASE n # node BY <2>4, <2>6, <3>1 DEF RegistryInv
    <3>2. CASE n = node /\ k # c.key
      <4>1. k \in DOMAIN capabilities[n] /\ capabilities'[n][k] = capabilities[n][k]
          BY <2>6, <2>9, <3>2
      <4> QED BY <2>6, <4>1 DEF RegistryInv
    <3>3. CASE n = node /\ k = c.key
      <4>1. c.entry \in [id : {k}, category : STRING, items : {{}}]
          BY <2>3, <2>6, <3>3
      <4>2. CASE k \in DOMAIN capabilities[n]
        <5>1. capabilities[n][k].id = k BY <2>6, <4>2 DEF RegistryInv
        <5>2. capabilities'[n][k] = MergedEntry(k, capabilities[n][k], c.entry)
            BY <2>9, <3>3, <4>2
        <5> QED BY <4>1, <5>1, <5>2, MergedKeepsId
      <4>3. CASE k \notin DOMAIN capabilities[n]
        <5>1. capabilities'[n][k] = c.entry BY <2>9, <3>3, <4>3
        <5> QED BY <4>1, <5>1
      <4> QED BY <4>2, <4>3
    <3> QED BY <3>1, <3>2, <3>3
  <2>10. todo' # Quiet =>
            /\ todo'.node \in NodeIds
            /\ todo'.components \in Seq(Components)
            /\ todo'.status # "degraded"
            /\ todo' = [node |-> todo'.node, source |-> todo'.source,
                        components |-> todo'.components, status |-> todo'.status,
                        errors |-> todo'.errors]
      BY <2>1, <2>3, <2>7, <2>8
  <2> QED BY <2>1, <2>4, <2>5, <2>6, <2>10 DEF RegistryInv
<1>5. CASE FinishUpdate
  <2>1. /\ todo # Quiet
        /\ headStatus' = [headStatus EXCEPT ![todo.node] = StatusAfter(@, todo)]
        /\ headErrors' = [headErrors EXCEPT ![todo.node] = @ \union todo.errors]
        /\ todo' = Quiet
        /\ nodes' = nodes /\ capabilities' = capabilities /\ pull' = pull
      BY <1>5 DEF FinishUpdate
  <2>2. todo.node \in NodeIds /\ todo.status # "degraded" BY <2>1 DEF RegistryInv
  <2>3. /\ DOMAIN headStatus' = NodeIds /\ DOMAIN headErrors' = NodeIds
        /\ headStatus' = [n \in NodeIds |-> headStatus'[n]]
        /\ headErrors' = [n \in NodeIds |-> headErrors'[n]]
        /\ \A n \in NodeIds : n # todo.node =>
              headStatus'[n] = headStatus[n] /\ headErrors'[n] = headErrors[n]
        /\ headStatus'[todo.node] = StatusAfter(headStatus[todo.node], todo)
        /\ headErrors'[todo.node] = headErrors[todo.node] \union todo.errors
      BY <2>1, <2>2 DEF RegistryInv
  <2>4. headStatus'[todo.node] = "degraded" => headErrors'[todo.node] # {}
      BY <2>2, <2>3 DEF StatusAfter, RegistryInv
  <2> QED BY <2>1, <2>2, <2>3, <2>4, SMTT(30) DEF RegistryInv
<1>6. ASSUME NEW node \in NodeIds, NEW operation, NEW message,
             RecordClientError(node, operation, message),
             pull' # Quiet => /\ pull'.effective \in NodeIds
                              /\ pull'.statusOf \in NodeIds
                              /\ pull'.given \in NodeIds \union {NoNode}
                              /\ pull' = [asks |-> pull'.asks, given |-> pull'.given,
                                          effective |-> pull'.effective, statusOf |-> pull'.statusOf]
      PROVE  /\ RegistryInv(private)'
             /\ nodes \subseteq nodes'
             /\ \A n \in NodeIds : /\ DOMAIN capabilities[n] \subseteq DOMAIN capabilities'[n]
                                   /\ headErrors[n] \subseteq headErrors'[n]
  <2>1. /\ nodes' = nodes \union {node} /\ capabilities' = capabilities /\ todo' = todo
        /\ headStatus' = [headStatus EXCEPT ![node] = "degraded"]
        /\ headErrors' = [headErrors EXCEPT ![node] =
                            @ \union {[operation |-> operation, message |-> message]}]
      BY <1>6 DEF RecordClientError
  <2>2. /\ DOMAIN headStatus' = NodeIds /\ DOMAIN headErrors' = NodeIds
        /\ headStatus' = [n \in NodeIds |-> headStatus'[n]]
        /\ headErrors' = [n \in NodeIds |-> headErrors'[n]]
        /\ \A n \in NodeIds : n # node =>
              headStatus'[n] = headStatus[n] /\ headErrors'[n] = headErrors[n]
        /\ headErrors'[node] = headErrors[node] \union {[operation |-> operation, message |-> message]}
      BY <2>1 DEF RegistryInv
  <2>3. \A n \in NodeIds : headStatus'[n] = "degraded" => headErrors'[n] # {}
      BY <2>2 DEF RegistryInv
  <2> QED BY <1>6, <2>1, <2>2, <2>3, ZenonT(30) DEF RegistryInv
<1>7. ASSUME NEW given \in NodeIds \union {NoNode}, Pull(given)
      PROVE  /\ RegistryInv(private)'
             /\ nodes \subseteq nodes'
             /\ \A n \in NodeIds : /\ DOMAIN capabilities[n] \subseteq DOMAIN capabilities'[n]
                                   /\ headErrors[n] \subseteq headErrors'[n]
  <2>1. NodeIdFrom(NoNode, given) \in NodeIds BY NodeIdFromIsANode
  <2> QED BY <1>7, <2>1 DEF Pull, RegistryInv
<1>8. ASSUME NEW p \in HeadPayloads, CapabilitiesArrive(p)
      PROVE  /\ RegistryInv(private)'
             /\ nodes \subseteq nodes'
             /\ \A n \in NodeIds : /\ DOMAIN capabilities[n] \subseteq DOMAIN capabilities'[n]
                                   /\ headErrors[n] \subseteq headErrors'[n]
  <2> DEFINE node == NodeIdFrom(UnwrappedNodeId(p), pull.given)
             of == IF SafeNodeId(p) # NoNode THEN NodeIdFrom(SafeNodeId(p), pull.given) ELSE node
  <2>1. /\ pull # Quiet
        /\ TakeIn("manifest", p, node)
        /\ pull' = [pull EXCEPT !.asks = "get_status", !.effective = node, !.statusOf = of]
      BY <1>8 DEF CapabilitiesArrive
  <2>2. pull.given \in NodeIds \union {NoNode} BY <2>1 DEF RegistryInv
  <2>3. node \in NodeIds /\ of \in NodeIds BY <1>2, <2>2, NodeIdFromIsANode
  <2>4. pull' = [asks |-> "get_status", given |-> pull.given, effective |-> node, statusOf |-> of]
      BY <2>1 DEF RegistryInv
  <2> HIDE DEF node, of
  <2> QED BY <1>1, <2>1, <2>2, <2>3, <2>4
<1>9. ASSUME NEW r \in HeadResponses, CapabilitiesFail(r)
      PROVE  /\ RegistryInv(private)'
             /\ nodes \subseteq nodes'
             /\ \A n \in NodeIds : /\ DOMAIN capabilities[n] \subseteq DOMAIN capabilities'[n]
                                   /\ headErrors[n] \subseteq headErrors'[n]
  <2>1. /\ pull # Quiet
        /\ RecordClientError(pull.effective, "get_capabilities", RequestJson(r))
        /\ pull' = [pull EXCEPT !.asks = "get_status"]
      BY <1>9 DEF CapabilitiesFail
  <2>2. /\ pull.effective \in NodeIds /\ pull.statusOf \in NodeIds
        /\ pull.given \in NodeIds \union {NoNode}
        /\ pull' = [asks |-> "get_status", given |-> pull.given, effective |-> pull.effective,
                    statusOf |-> pull.statusOf]
      BY <2>1 DEF RegistryInv
  <2> QED BY <1>6, <2>1, <2>2
<1>10. ASSUME NEW p \in HeadPayloads, StatusArrives(p)
       PROVE  /\ RegistryInv(private)'
              /\ nodes \subseteq nodes'
              /\ \A n \in NodeIds : /\ DOMAIN capabilities[n] \subseteq DOMAIN capabilities'[n]
                                    /\ headErrors[n] \subseteq headErrors'[n]
  <2>1. pull # Quiet /\ TakeIn("status", p, pull.statusOf) /\ pull' = Quiet
      BY <1>10 DEF StatusArrives
  <2>2. pull.statusOf \in NodeIds BY <2>1 DEF RegistryInv
  <2> QED BY <1>1, <2>1, <2>2
<1>11. ASSUME NEW r \in HeadResponses, StatusFails(r)
       PROVE  /\ RegistryInv(private)'
              /\ nodes \subseteq nodes'
              /\ \A n \in NodeIds : /\ DOMAIN capabilities[n] \subseteq DOMAIN capabilities'[n]
                                    /\ headErrors[n] \subseteq headErrors'[n]
  <2>1. /\ pull # Quiet /\ pull' = Quiet
        /\ RecordClientError(pull.effective, "get_status", RequestJson(r))
      BY <1>11 DEF StatusFails
  <2>2. pull.effective \in NodeIds BY <2>1 DEF RegistryInv
  <2> QED BY <1>6, <2>1, <2>2
<1> QED BY <1>3, <1>4, <1>5, <1>7, <1>8, <1>9, <1>10, <1>11 DEF RegistryNext

(* Nothing is ever forgotten of a head; a head that does not call itself   *)
(* degraded is degraded only with an error to show for it; and a component *)
(* stays found under its own key, whatever other components of its kind or *)
(* category are merged or grouped, as long as no kind is also the key of a *)
(* component (HeadRegistry).                                               *)
THEOREM HeadsAreKept ==
    ASSUME DefaultNode \in NodeIds, "degraded" \notin HeadStatuses, NEW private,
           Components \subseteq [key : STRING, entry : [id : STRING, category : STRING, items : {{}}]],
           \A c \in Components : c.key \in private => c.entry.id = c.key
    PROVE  RegistrySpec =>
              /\ NothingForgotten
              /\ [](\A n \in NodeIds : headStatus[n] = "degraded" => headErrors[n] # {})
              /\ [](\A n \in NodeIds : \A k \in DOMAIN capabilities[n] :
                      k \in private => capabilities[n][k].id = k)
<1>1. RegistryInit => RegistryInv(private) BY DEF RegistryInit, RegistryInv
<1>2. RegistryInv(private) /\ [RegistryNext]_headVars => RegistryInv(private)'
  <2>1. RegistryInv(private) /\ RegistryNext => RegistryInv(private)' BY RegistryStep
  <2>2. RegistryInv(private) /\ UNCHANGED headVars => RegistryInv(private)' BY DEF RegistryInv, headVars
  <2> QED BY <2>1, <2>2
<1>3. RegistryInv(private) /\ [RegistryNext]_headVars =>
         [/\ nodes \subseteq nodes'
          /\ \A n \in NodeIds : /\ DOMAIN capabilities[n] \subseteq DOMAIN capabilities'[n]
                                /\ headErrors[n] \subseteq headErrors'[n]]_headVars
    BY RegistryStep
<1>4. RegistryInv(private) =>
         /\ \A n \in NodeIds : headStatus[n] = "degraded" => headErrors[n] # {}
         /\ \A n \in NodeIds : \A k \in DOMAIN capabilities[n] :
               k \in private => capabilities[n][k].id = k
    BY DEF RegistryInv
<1> QED BY <1>1, <1>2, <1>3, <1>4, PTL DEF RegistrySpec, NothingForgotten

-----------------------------------------------------------------------------
(* The bridge to the event protocol *)

(* An event that is taken for a payload again goes to the handler that     *)
(* made it and to no other, by its name or by any kind of that handler     *)
(* (_EVENT_KIND_ROUTING).                                                  *)
THEOREM NamesRouteBack ==
    \A handler, other \in Handlers : \A kind \in RoutedKinds[handler] \union {EventNames[handler]} :
        Routes(kind, other) <=> other = handler
BY DEF Handlers, EventNames, RoutedKinds, Routes

(* Nothing tells two reports of one node apart but their number: whatever  *)
(* they say, and whichever of the handlers with a fallback makes them,     *)
(* events of one subject have one id unless the caller gives another.      *)
THEOREM ReportsShareAnId ==
    \A handler \in {"status", "frame", "scene", "event", "policy"} :
        \A p, q \in EventPayloads : \A given, other \in Givens :
            p.token = q.token /\ given.event = other.event =>
                PayloadEvent(handler, p, given).id = PayloadEvent(handler, q, other).id
<1> SUFFICES ASSUME NEW handler \in {"status", "frame", "scene", "event", "policy"},
                    NEW p \in EventPayloads, NEW q \in EventPayloads,
                    NEW given \in Givens, NEW other \in Givens,
                    p.token = q.token, given.event = other.event
             PROVE  PayloadEvent(handler, p, given).id = PayloadEvent(handler, q, other).id
    OBVIOUS
<1>1. \A prefix, token : EventId(given, prefix, token) = EventId(other, prefix, token)
    BY DEF EventId, OrId, OwnId
<1>2. CASE handler = "status"
    BY <1>1, <1>2 DEF PayloadEvent, StatusEvent, Envelope
<1>3. CASE handler = "frame"
    BY <1>1, <1>3 DEF PayloadEvent, VisionFrameEvent, Envelope
<1>4. CASE handler = "scene"
    BY <1>1, <1>4 DEF PayloadEvent, SceneEvent, GenericEvent, Envelope
<1>5. CASE handler = "event"
    BY <1>1, <1>5 DEF PayloadEvent, VisionEvent, GenericEvent, Envelope
<1>6. CASE handler = "policy"
    BY <1>1, <1>6 DEF PayloadEvent, PolicyEvent, GenericEvent, Envelope
<1> QED BY <1>2, <1>3, <1>4, <1>5, <1>6

(* All events of one trace answer one request, whichever handler or        *)
(* message makes them, unless the caller or a payload without a schema     *)
(* names another.                                                          *)
THEOREM TracesAreRequests ==
    \A given \in Givens : given.request = "" =>
        /\ \A handler \in Handlers : \A p \in EventPayloads :
               p.trace # "" /\ p.request = "" =>
                   PayloadEvent(handler, p, given).request = OwnId(p.trace)
        /\ \A m \in HeadMessages : m.trace # "" =>
               /\ ManifestEvent(m, given).request = OwnId(m.trace)
               /\ TurnEvent(m, given).request = OwnId(m.trace)
               /\ ObservationEvent(m, given).request = OwnId(m.trace)
               /\ ActionEvent(m, given).envelope.request = OwnId(m.trace)
               /\ OutcomeEvent(m, given).envelope.request = OwnId(m.trace)
<1> SUFFICES ASSUME NEW given \in Givens, given.request = ""
             PROVE  /\ \A handler \in Handlers : \A p \in EventPayloads :
                           p.trace # "" /\ p.request = "" =>
                               PayloadEvent(handler, p, given).request = OwnId(p.trace)
                    /\ \A m \in HeadMessages : m.trace # "" =>
                           /\ ManifestEvent(m, given).request = OwnId(m.trace)
                           /\ TurnEvent(m, given).request = OwnId(m.trace)
                           /\ ObservationEvent(m, given).request = OwnId(m.trace)
                           /\ ActionEvent(m, given).envelope.request = OwnId(m.trace)
                           /\ OutcomeEvent(m, given).envelope.request = OwnId(m.trace)
    OBVIOUS
<1>1. ASSUME NEW handler \in Handlers, NEW p \in EventPayloads, p.trace # "", p.request = ""
      PROVE  PayloadEvent(handler, p, given).request = OwnId(p.trace)
    BY <1>1 DEF PayloadEvent, StatusEvent, VisionFrameEvent, HypothesisEvent, DecisionEvent, SceneEvent,
        VisionEvent, PolicyEvent, GenericEvent, Envelope, OrId, Handlers, EventNames
<1>2. ASSUME NEW m \in HeadMessages, m.trace # ""
      PROVE  /\ ManifestEvent(m, given).request = OwnId(m.trace)
             /\ TurnEvent(m, given).request = OwnId(m.trace)
             /\ ObservationEvent(m, given).request = OwnId(m.trace)
             /\ ActionEvent(m, given).envelope.request = OwnId(m.trace)
             /\ OutcomeEvent(m, given).envelope.request = OwnId(m.trace)
    BY <1>2 DEF ManifestEvent, TurnEvent, ObservationEvent, ActionEvent, OutcomeEvent,
        MessageEvent, OrId
<1> QED BY <1>1, <1>2

(* A request and the outcome of its action, sent with nothing given, are   *)
(* in one round exactly if they share a session or, without one, a trace;  *)
(* the id of the action alone does not join them, for the round then falls *)
(* back on the ids of their own events (_resolve_round_id).                *)
THEOREM OutcomeJoinsItsAction ==
    \A given \in Givens : \A request, outcome \in HeadMessages :
        (given.event = "" /\ request.id = outcome.id /\ request.session = outcome.session
                          /\ request.trace = outcome.trace) =>
            (ActionEvent(request, given).envelope.round = OutcomeEvent(outcome, given).envelope.round
                <=> (request.session # "" \/ request.trace # ""))
<1> SUFFICES ASSUME NEW given \in Givens, NEW request \in HeadMessages, NEW outcome \in HeadMessages,
                    given.event = "", request.id = outcome.id,
                    request.session = outcome.session, request.trace = outcome.trace
             PROVE  ActionEvent(request, given).envelope.round = OutcomeEvent(outcome, given).envelope.round
                        <=> (request.session # "" \/ request.trace # "")
    OBVIOUS
<1> DEFINE a == EventId(given, "head_action", Or(request.id, request.trace))
           o == EventId(given, "execution_outcome", Or(outcome.id, outcome.trace))
<1>1. /\ ActionEvent(request, given).envelope.round = MessageRound(request, a)
      /\ OutcomeEvent(outcome, given).envelope.round = MessageRound(outcome, o)
    BY DEF ActionEvent, OutcomeEvent, MessageEvent
<1>2. a[1] = "head_action" /\ o[1] = "execution_outcome"
    BY DEF EventId, OrId
<1>3. a # o
    BY <1>2
<1> QED BY <1>1, <1>3 DEF MessageRound, OrId, OwnId

(* Sending an action again, in whatever session and trace, keeps its key   *)
(* if it has an id or a key of its own; its policy is never one that asks, *)
(* even for an action that requires a policy (head_action_to_...).         *)
THEOREM RetriesShareTheKey ==
    \A given, later \in Givens : \A m \in HeadMessages : \A trace, session \in STRING :
        LET again == [m EXCEPT !.trace = trace, !.session = session]
        IN  /\ (m.id # "" \/ m.key # "") =>
                   ActionEvent(again, later).idempotencyKey = ActionEvent(m, given).idempotencyKey
            /\ ActionEvent(m, given).policy.decision = "not_required"
<1> SUFFICES ASSUME NEW given \in Givens, NEW later \in Givens, NEW m \in HeadMessages,
                    NEW trace \in STRING, NEW session \in STRING
             PROVE  LET again == [m EXCEPT !.trace = trace, !.session = session]
                    IN  /\ (m.id # "" \/ m.key # "") =>
                              ActionEvent(again, later).idempotencyKey = ActionEvent(m, given).idempotencyKey
                        /\ ActionEvent(m, given).policy.decision = "not_required"
    OBVIOUS
<1> DEFINE again == [m EXCEPT !.trace = trace, !.session = session]
<1>1. again.id = m.id /\ again.key = m.key
    BY DEF HeadMessages
<1>2. /\ ActionEvent(m, given).idempotencyKey =
             OrId(m.key, OrId(m.id, EventId(given, "head_action", Or(m.id, m.trace))))
      /\ ActionEvent(again, later).idempotencyKey =
             OrId(again.key, OrId(again.id, EventId(later, "head_action", Or(again.id, again.trace))))
    BY DEF ActionEvent
<1>3. ActionEvent(m, given).policy.decision = "not_required"
    BY DEF ActionEvent
<1>4. (m.id # "" \/ m.key # "") =>
          ActionEvent(again, later).idempotencyKey = ActionEvent(m, given).idempotencyKey
    BY <1>1, <1>2 DEF OrId
<1> QED BY <1>3, <1>4

(* What the bridge calls the status of a head and what the registry does   *)
(* differ only for a report that gives two.                                *)
THEOREM StatusesAgree ==
    \A p \in EventPayloads :
        StatusValue(p) # ExtractStatus(p) =>
            p.status # "" /\ p.overall # "" /\ p.status # p.overall
BY DEF StatusValue, ExtractStatus, Or

(* What a payload without a schema says reaches the content, except under  *)
(* the keys of the envelope and the aliases of what its handler reads; the *)
(* envelope's keys never do (_generic_payload_content).                    *)
THEOREM NothingElseIsDropped ==
    \A handler \in {"scene", "event", "policy"} : \A keys, content \in SUBSET STRING :
        AreContentKeys(content, keys, handler) =>
            /\ keys \subseteq content \union ControlKeys \union Aliases(handler)
            /\ content \intersect ControlKeys = {}
<1> SUFFICES ASSUME NEW handler \in {"scene", "event", "policy"},
                    NEW keys \in SUBSET STRING, NEW content \in SUBSET STRING,
                    AreContentKeys(content, keys, handler)
             PROVE  /\ keys \subseteq content \union ControlKeys \union Aliases(handler)
                    /\ content \intersect ControlKeys = {}
    OBVIOUS
<1>1. OwnKeys(handler) \intersect ControlKeys = {}
    BY DEF OwnKeys, ControlKeys
<1> QED BY <1>1 DEF AreContentKeys

(* Numbers are positive unless the caller gives a payload another; a       *)
(* message's are whatever the caller gives.                                *)
THEOREM NumbersArePositive ==
    \A given \in Givens :
        /\ \A handler \in Handlers : \A p \in EventPayloads :
               ~given.numbered => PayloadEvent(handler, p, given).sequence > 0
        /\ \A m \in HeadMessages : TurnEvent(m, given).sequence > 0
<1> SUFFICES ASSUME NEW given \in Givens
             PROVE  /\ \A handler \in Handlers : \A p \in EventPayloads :
                           ~given.numbered => PayloadEvent(handler, p, given).sequence > 0
                    /\ \A m \in HeadMessages : TurnEvent(m, given).sequence > 0
    OBVIOUS
<1>1. \A p \in EventPayloads : ~given.numbered => PayloadSequence(p, given) > 0
    BY DEF PayloadSequence, Positive, EventPayloads
<1>2. MessageSequence(given) > 0
    BY DEF MessageSequence, Positive, Givens
<1>3. ASSUME NEW handler \in Handlers, NEW p \in EventPayloads, ~given.numbered
      PROVE  PayloadEvent(handler, p, given).sequence = PayloadSequence(p, given)
    BY DEF PayloadEvent, StatusEvent, VisionFrameEvent, HypothesisEvent, DecisionEvent, SceneEvent,
        VisionEvent, PolicyEvent, GenericEvent, Envelope, Handlers, EventNames
<1> QED BY <1>1, <1>2, <1>3 DEF TurnEvent, MessageEvent

(* The events of a snapshot are numbered in a row from the first; they     *)
(* come in the order of the stages, no stage but those of the prefetches   *)
(* and of the memory gives more than one, and only an event of memory is   *)
(* of another round than the first, which is the current one.              *)
EventsInOrder ==
    /\ \A i \in 1..Len(events) : events[i].sequence = first + i - 1
    /\ \A i, j \in 1..Len(events) : i < j =>
           \/ events[i].stage < events[j].stage
           \/ events[i].stage = events[j].stage /\ events[i].stage \in {2, 3}

EventsOfTheRound ==
    \A i \in 1..Len(events) : events[i].round = snapshot.round \/ events[i].stage = 3

EventsTyped ==
    /\ snapshot \in EventSnapshots
    /\ eventStage \in 1..7
    /\ first \in Nat \ {0}
    /\ events \in Seq([stage : 1..6, round : STRING, sequence : Nat])
    /\ sequence = first + Len(events)

EventsSoFar ==
    \A i \in 1..Len(events) :
        \/ events[i].stage < eventStage
        \/ events[i].stage = eventStage /\ eventStage \in {2, 3}

EventsInv == EventsTyped /\ EventsInOrder /\ EventsOfTheRound /\ EventsSoFar

LEMMA StageNumbers ==
    ASSUME NEW k \in 1..7
    PROVE  /\ Stages[k] = "prefetch" <=> k = 2
           /\ Stages[k] = "memory" <=> k = 3
           /\ Stages[k] = "done" <=> k = 7
<1>1. k = 1 \/ k = 2 \/ k = 3 \/ k = 4 \/ k = 5 \/ k = 6 \/ k = 7
    OBVIOUS
<1> QED BY <1>1 DEF Stages

LEMMA StagesOfEvents ==
    ASSUME EventsTyped
    PROVE  \A i \in 1..Len(events) : events[i].stage \in 1..6
<1> DEFINE E == [stage : 1..6, round : STRING, sequence : Nat]
<1>1. events \in Seq(E)
    BY DEF EventsTyped
<1>2. \A i \in 1..Len(events) : events[i] \in E
    <2> HIDE DEF E
    <2> QED BY <1>1
<1> QED BY <1>2

LEMMA AnEventMore ==
    ASSUME EventsInv, NEW round \in STRING, EmitEvent(round), UNCHANGED first,
           eventStage \in 1..6, snapshot' \in EventSnapshots, snapshot'.round = snapshot.round,
           round = snapshot.round \/ eventStage = 3,
           \/ eventStage' = eventStage /\ eventStage \in {2, 3}
           \/ eventStage' = eventStage + 1
    PROVE  EventsInv'
<1> DEFINE e == [stage |-> eventStage, round |-> round, sequence |-> sequence]
<1>1. /\ events' = Append(events, e) /\ sequence' = sequence + 1
      /\ e \in [stage : 1..6, round : STRING, sequence : Nat]
    BY DEF EmitEvent, EventsInv, EventsTyped
<1>2. /\ Len(events') = Len(events) + 1
      /\ \A i \in 1..Len(events) : events'[i] = events[i]
      /\ events'[Len(events) + 1] = e
      /\ events' \in Seq([stage : 1..6, round : STRING, sequence : Nat])
    BY <1>1 DEF EventsInv, EventsTyped
<1>3. EventsTyped'
    BY <1>1, <1>2, SMTT(30) DEF EventsInv, EventsTyped
<1>4. \A i \in 1..Len(events') : i \in 1..Len(events) \/ i = Len(events) + 1
    BY <1>2 DEF EventsInv, EventsTyped
<1>5. EventsInOrder'
    <2>1. \A i \in 1..Len(events') : events'[i].sequence = first' + i - 1
        <3>1. \A i \in 1..Len(events) : events[i].sequence = first + i - 1
            BY DEF EventsInv, EventsInOrder
        <3>2. sequence = first + Len(events) /\ first \in Nat /\ first' = first
            BY DEF EventsInv, EventsTyped
        <3>3. e.sequence = sequence
            OBVIOUS
        <3>4. Len(events) \in Nat
            BY DEF EventsInv, EventsTyped
        <3>5. ASSUME NEW i \in 1..Len(events')
              PROVE  events'[i].sequence = first' + i - 1
            <4>1. CASE i \in 1..Len(events)
                BY <1>2, <3>1, <3>2, <4>1
            <4>2. CASE i = Len(events) + 1
                BY <1>2, <3>2, <3>3, <3>4, <4>2
            <4> QED BY <1>4, <4>1, <4>2
        <3> QED BY <3>5
    <2>2. ASSUME NEW i \in 1..Len(events'), NEW j \in 1..Len(events'), i < j
          PROVE  \/ events'[i].stage < events'[j].stage
                 \/ events'[i].stage = events'[j].stage /\ events'[i].stage \in {2, 3}
        <3>1. i \in 1..Len(events)
            BY <1>4, <2>2, <1>2 DEF EventsInv, EventsTyped
        <3>2. CASE j \in 1..Len(events)
            BY <1>2, <2>2, <3>1, <3>2, ZenonT(30) DEF EventsInv, EventsInOrder
        <3>3. CASE j = Len(events) + 1
            BY <1>2, <3>1, <3>3 DEF EventsInv, EventsSoFar
        <3> QED BY <1>4, <3>2, <3>3
    <2> QED BY <2>1, <2>2 DEF EventsInOrder
<1>6. EventsOfTheRound'
    BY <1>2, <1>4, SMTT(30) DEF EventsInv, EventsOfTheRound
<1>7. EventsSoFar'
    <2>1. ASSUME NEW i \in 1..Len(events)
          PROVE  \/ events'[i].stage < eventStage'
                 \/ events'[i].stage = eventStage' /\ eventStage' \in {2, 3}
        <3>1. events[i].stage \in 1..6
            BY StagesOfEvents DEF EventsInv
        <3>2. \/ events[i].stage < eventStage
              \/ events[i].stage = eventStage /\ eventStage \in {2, 3}
            BY DEF EventsInv, EventsSoFar
        <3>3. (eventStage' = eventStage /\ eventStage \in {2, 3}) \/ eventStage' = eventStage + 1
            OBVIOUS
        <3>4. events'[i] = events[i]
            BY <1>2
        <3>5. CASE eventStage' = eventStage /\ eventStage \in {2, 3}
            BY <3>2, <3>4, <3>5
        <3>6. CASE eventStage' = eventStage + 1
            BY <3>1, <3>2, <3>4, <3>6
        <3> QED BY <3>3, <3>5, <3>6
    <2>2. e.stage = eventStage
        OBVIOUS
    <2> QED BY <1>2, <1>4, <2>1, <2>2 DEF EventsSoFar
<1> QED BY <1>3, <1>5, <1>6, <1>7 DEF EventsInv

LEMMA NoEventMore ==
    ASSUME EventsInv, UNCHANGED <<events, first, sequence>>,
           eventStage \in 1..6, snapshot' \in EventSnapshots, snapshot'.round = snapshot.round,
           eventStage' \in {eventStage, eventStage + 1}
    PROVE  EventsInv'
<1>1. \A i \in 1..Len(events) : events[i].stage \in 1..6
    BY StagesOfEvents DEF EventsInv
<1>2. EventsSoFar'
    BY <1>1 DEF EventsInv, EventsSoFar
<1>3. EventsTyped'
    BY DEF EventsInv, EventsTyped
<1>4. EventsInOrder' /\ EventsOfTheRound'
    BY DEF EventsInv, EventsInOrder, EventsOfTheRound
<1> QED BY <1>2, <1>3, <1>4 DEF EventsInv

LEMMA RestOfSeq ==
    ASSUME NEW S, NEW q \in Seq(S), q # <<>>
    PROVE  Head(q) \in S /\ Tail(q) \in Seq(S)
OBVIOUS

LEMMA SnapshotRest ==
    ASSUME snapshot \in EventSnapshots
    PROVE  /\ snapshot.prefetches # <<>> =>
                  /\ [snapshot EXCEPT !.prefetches = Tail(@)] \in EventSnapshots
                  /\ [snapshot EXCEPT !.prefetches = Tail(@)].round = snapshot.round
           /\ snapshot.memory # <<>> =>
                  /\ [snapshot EXCEPT !.memory = Tail(@)] \in EventSnapshots
                  /\ [snapshot EXCEPT !.memory = Tail(@)].round = snapshot.round
                  /\ Head(snapshot.memory).round \in STRING
<1> DEFINE M == [kind : {"recall", "write"}, tells : BOOLEAN, round : STRING]
<1>1. snapshot.prefetches \in Seq(STRING) /\ snapshot.memory \in Seq(M)
    BY DEF EventSnapshots
<1>2. ASSUME snapshot.prefetches # <<>>
      PROVE  /\ [snapshot EXCEPT !.prefetches = Tail(@)] \in EventSnapshots
             /\ [snapshot EXCEPT !.prefetches = Tail(@)].round = snapshot.round
    <2>1. Tail(snapshot.prefetches) \in Seq(STRING)
        BY <1>1, <1>2, RestOfSeq
    <2> QED BY <2>1 DEF EventSnapshots
<1>3. ASSUME snapshot.memory # <<>>
      PROVE  /\ [snapshot EXCEPT !.memory = Tail(@)] \in EventSnapshots
             /\ [snapshot EXCEPT !.memory = Tail(@)].round = snapshot.round
             /\ Head(snapshot.memory).round \in STRING
    <2>1. Tail(snapshot.memory) \in Seq(M) /\ Head(snapshot.memory) \in M
        <3> HIDE DEF M
        <3> QED BY <1>1, <1>3, RestOfSeq
    <2> QED BY <2>1 DEF EventSnapshots
<1> QED BY <1>2, <1>3

LEMMA EventStep ==
    ASSUME EventsInv, EventsNext
    PROVE  EventsInv'
<1>1. snapshot \in EventSnapshots /\ snapshot.round \in STRING
    BY DEF EventsInv, EventsTyped, EventSnapshots
<1>2. eventStage \in 1..6
    <2>1. eventStage \in 1..7 /\ Stages[eventStage] # "done"
        BY DEF EventsInv, EventsTyped, EventsNext
    <2> QED BY <2>1, StageNumbers
<1>3. ASSUME NEW told, EmitIf(told, snapshot.round)
      PROVE  EventsInv'
    <2>1. CASE told
        BY <1>1, <1>2, <1>3, <2>1, AnEventMore DEF EmitIf
    <2>2. CASE ~told
        BY <1>1, <1>2, <1>3, <2>2, NoEventMore DEF EmitIf
    <2> QED BY <2>1, <2>2
<1>4. CASE EmitPrefetch
    <2>1. eventStage = 2
        <3>1. Stages[eventStage] = "prefetch"
            BY <1>4 DEF EmitPrefetch
        <3>2. eventStage \in 1..7
            BY <1>2
        <3> QED BY <3>1, <3>2, StageNumbers
    <2>2. /\ snapshot' \in EventSnapshots /\ snapshot'.round = snapshot.round
          /\ eventStage' = eventStage /\ first' = first
        BY <1>1, <1>4, SnapshotRest DEF EmitPrefetch
    <2>3. CASE Head(snapshot.prefetches) # ""
        <3>1. EmitEvent(snapshot.round)
            BY <1>4, <2>3 DEF EmitPrefetch
        <3> QED BY <1>1, <1>2, <2>1, <2>2, <3>1, AnEventMore
    <2>4. CASE Head(snapshot.prefetches) = ""
        <3>1. events' = events /\ sequence' = sequence
            BY <1>4, <2>4 DEF EmitPrefetch
        <3> QED BY <1>2, <2>2, <3>1, NoEventMore
    <2> QED BY <2>3, <2>4
<1>5. CASE EmitMemory
    <2>1. eventStage = 3
        BY <1>2, <1>5, StageNumbers DEF EmitMemory
    <2>2. /\ snapshot' \in EventSnapshots /\ snapshot'.round = snapshot.round
          /\ eventStage' = eventStage /\ first' = first
          /\ Head(snapshot.memory).round \in STRING
        BY <1>1, <1>5, SnapshotRest DEF EmitMemory
    <2>3. CASE Head(snapshot.memory).tells
        <3>1. Or(Head(snapshot.memory).round, snapshot.round) \in STRING
            BY <1>1, <2>2 DEF Or
        <3>2. EmitEvent(Or(Head(snapshot.memory).round, snapshot.round))
            BY <1>5, <2>3 DEF EmitMemory
        <3> QED BY <1>2, <2>1, <2>2, <3>1, <3>2, AnEventMore
    <2>4. CASE ~Head(snapshot.memory).tells
        BY <1>5, <2>1, <2>2, <2>4, NoEventMore DEF EmitMemory
    <2> QED BY <2>3, <2>4
<1>6. CASE NoMore
    BY <1>1, <1>2, <1>6, NoEventMore DEF NoMore
<1>7. CASE EmitEmotion \/ EmitPlan \/ EmitActivity \/ EmitCancellation
    BY <1>3, <1>7 DEF EmitEmotion, EmitPlan, EmitActivity, EmitCancellation
<1> QED BY <1>4, <1>5, <1>6, <1>7 DEF EventsNext

(* The events of a snapshot come in the order of their stages, numbered    *)
(* one by one, and all of them name the round they are of, the memory      *)
(* traces with a round of their own excepted (events_from_snapshot).       *)
THEOREM EventsAreNumbered == EventsSpec => [](EventsInOrder /\ EventsOfTheRound)
<1>1. EventsInit => EventsInv
    BY DEF EventsInit, EventsInv, EventsTyped, EventsInOrder, EventsOfTheRound, EventsSoFar
<1>2. EventsInv /\ UNCHANGED eventVars => EventsInv'
    BY DEF eventVars, EventsInv, EventsTyped, EventsInOrder, EventsOfTheRound, EventsSoFar
<1>3. EventsInv => EventsInOrder /\ EventsOfTheRound
    BY DEF EventsInv
<1> QED BY <1>1, <1>2, <1>3, EventStep, PTL DEF EventsSpec

(* The bridge tells of no cancellation from a snapshot of the scheduler    *)
(* whose current round is live, so of none at all of those it takes of     *)
(* itself (OneLiveRound): what such a snapshot says of the token of its    *)
(* current turn comes before anything else and is not applied.             *)
THEOREM LiveSnapshotsNeverCancel ==
    \A s \in EventSnapshots : IsLiveSnapshot(s) => ~IsCancellation(s)
BY DEF IsLiveSnapshot, IsCancellation, CancellationOf

-----------------------------------------------------------------------------
(* Console *)

LEMMA EarPartsTyped ==
    ASSUME NEW sub \in EarParts, NEW d \in EarDetails, NEW t \in AudioTraces
    PROVE  /\ d.status \in Maybe(EarStatuses) /\ t.asrStatus \in Maybe(EarStatuses)
           /\ d.elapsed \in Int /\ TraceElapsed(sub, t) \in Int
           /\ \A k \in EarKeys : d.keys[k] \in Flag /\ t.keys[k] \in Flag
BY DEF EarParts, EarDetails, AudioTraces, TraceElapsed, Number, Millis

(* An ear whose probe was skipped delivers data exactly while the voice    *)
(* loop runs: then each of its parts is taken for live, whatever it heard, *)
(* but for a recogniser of which the last transcript says otherwise.  With *)
(* the loop at rest a skipped probe is never taken for data.               *)
THEOREM SkippedEarFollowsLoop ==
    \A sub \in EarParts, d \in EarDetails, t \in AudioTraces, running \in Flag, health \in PartHealths :
        d.status = "live_probe_skipped" =>
            LET ofEar == EarSeen(running, sub, d, t)
                dataHealth == DataHealth(EarDataStatus(OrElse(ofEar.status, health), ofEar), health)
            IN /\ running # "true" => dataHealth # "healthy"
               /\ running = "true" /\ (sub # "asr" \/ t.asrStatus = "none") => dataHealth = "healthy"
<1> SUFFICES ASSUME NEW sub \in EarParts, NEW d \in EarDetails, NEW t \in AudioTraces,
                    NEW running \in Flag, NEW health \in PartHealths, d.status = "live_probe_skipped"
             PROVE  LET ofEar == EarSeen(running, sub, d, t)
                        dataHealth == DataHealth(EarDataStatus(OrElse(ofEar.status, health), ofEar), health)
                    IN /\ running # "true" => dataHealth # "healthy"
                       /\ running = "true" /\ (sub # "asr" \/ t.asrStatus = "none")
                          => dataHealth = "healthy"
  OBVIOUS
<1>1. ASSUME running # "true"
      PROVE  DataHealth(EarDataStatus(OrElse(EarSeen(running, sub, d, t).status, health),
                                      EarSeen(running, sub, d, t)), health) # "healthy"
  <2>1. EarSeen(running, sub, d, t) = d /\ OrElse(d.status, health) = "live_probe_skipped"
    BY <1>1 DEF EarSeen, OrElse
  <2>2. EarDataStatus("live_probe_skipped", d) = "waiting_for_data"
    BY DEF EarDataStatus
  <2> QED BY <2>1, <2>2 DEF DataHealth
<1>2. ASSUME running = "true", sub # "asr" \/ t.asrStatus = "none"
      PROVE  DataHealth(EarDataStatus(OrElse(EarSeen(running, sub, d, t).status, health),
                                      EarSeen(running, sub, d, t)), health) = "healthy"
  <2>1. EarSeen(running, sub, d, t).status = "listening_loop"
    BY <1>2 DEF EarSeen, Annotated, AnnotatedStatus
  <2>2. OrElse(EarSeen(running, sub, d, t).status, health) = "listening_loop"
    BY <2>1 DEF OrElse
  <2>3. \A ofEar : EarDataStatus("listening_loop", ofEar) = "live"
    BY DEF EarDataStatus, LiveEarStatuses
  <2> QED BY <2>2, <2>3 DEF DataHealth
<1> QED BY <1>1, <1>2

(* The annotation of the ear is settled: a report built again from organs  *)
(* that were annotated already, with the same trace, says the same.        *)
THEOREM AnnotatingTwiceChangesNothing ==
    \A sub \in EarParts, d \in EarDetails, t \in AudioTraces :
        Annotated(sub, Annotated(sub, d, t), t) = Annotated(sub, d, t)
<1> SUFFICES ASSUME NEW sub \in EarParts, NEW d \in EarDetails, NEW t \in AudioTraces
             PROVE  Annotated(sub, Annotated(sub, d, t), t) = Annotated(sub, d, t)
  OBVIOUS
<1> DEFINE a == Annotated(sub, d, t)
           b == Annotated(sub, a, t)
<1>1. b.status = a.status
  <2>1. a.status = AnnotatedStatus(sub, d, t) /\ b.status = AnnotatedStatus(sub, a, t)
    BY DEF Annotated
  <2> HIDE DEF a, b
  <2> QED BY <2>1 DEF AnnotatedStatus, OrElse
<1>2. b.elapsed = a.elapsed
  <2>1. a.elapsed = Number(TraceElapsed(sub, t), d.elapsed)
        /\ b.elapsed = Number(TraceElapsed(sub, t), a.elapsed)
    BY DEF Annotated
  <2> HIDE DEF a, b
  <2> QED BY <2>1, EarPartsTyped DEF Number
<1>3. b.captured = a.captured
  <2>1. /\ a.captured = IF sub = "asr" /\ d.captured = "none" THEN t.captured ELSE d.captured
        /\ b.captured = IF sub = "asr" /\ a.captured = "none" THEN t.captured ELSE a.captured
    BY DEF Annotated
  <2> HIDE DEF a, b
  <2> QED BY <2>1
<1>4. b.keys = a.keys
  <2> DEFINE NewKey(old, k) ==
         IF k \in {"listening", "loop"} THEN OrElse(old[k], "true")
         ELSE IF k = "transcript" /\ sub = "asr" /\ t.keys[k] = "true" THEN "true"
         ELSE IF k \in TakenKeys(sub) THEN OrElse(old[k], t.keys[k])
         ELSE old[k]
  <2>1. a.keys = [k \in EarKeys |-> NewKey(d.keys, k)] /\ b.keys = [k \in EarKeys |-> NewKey(a.keys, k)]
    BY DEF Annotated
  <2>2. \A k \in EarKeys : NewKey(a.keys, k) = a.keys[k]
    <3> TAKE k \in EarKeys
    <3>1. a.keys[k] = NewKey(d.keys, k)
      BY <2>1
    <3> HIDE DEF a, b
    <3> QED BY <3>1 DEF OrElse
  <2> HIDE DEF a, b, NewKey
  <2> QED BY <2>1, <2>2
<1>5. \A p : Annotated(sub, p, t) = [status |-> Annotated(sub, p, t).status,
             elapsed |-> Annotated(sub, p, t).elapsed, captured |-> Annotated(sub, p, t).captured,
             keys |-> Annotated(sub, p, t).keys]
  BY DEF Annotated
<1> HIDE DEF a
<1>6. a = [status |-> a.status, elapsed |-> a.elapsed, captured |-> a.captured, keys |-> a.keys]
  BY <1>5 DEF a
<1>7. b = [status |-> b.status, elapsed |-> b.elapsed, captured |-> b.captured, keys |-> b.keys]
  BY <1>5
<1> HIDE DEF b
<1>8. b = a
  BY <1>1, <1>2, <1>3, <1>4, <1>6, <1>7
<1> QED BY <1>8 DEF a, b

(* Every part of every organ is counted in exactly one way: it delivers    *)
(* data, it is waited for, or it is unavailable; and its driver is either  *)
(* a real one or none.                                                     *)
THEOREM CardsAddUp ==
    \A entries \in SUBSET Entries : IsFiniteSet(entries) =>
        /\ RuntimeOverview(entries).subfunctions
           = RuntimeOverview(entries).live + RuntimeOverview(entries).waiting
             + Cardinality({e \in entries : e.dataHealth = "unavailable"})
        /\ RuntimeOverview(entries).subfunctions
           = RuntimeOverview(entries).real + RuntimeOverview(entries).noop
<1> SUFFICES ASSUME NEW entries \in SUBSET Entries, IsFiniteSet(entries)
             PROVE  /\ RuntimeOverview(entries).subfunctions
                       = RuntimeOverview(entries).live + RuntimeOverview(entries).waiting
                         + Cardinality({e \in entries : e.dataHealth = "unavailable"})
                    /\ RuntimeOverview(entries).subfunctions
                       = RuntimeOverview(entries).real + RuntimeOverview(entries).noop
  OBVIOUS
<1> DEFINE L == LiveEntries(entries)
           W == WaitingEntries(entries)
           U == {e \in entries : e.dataHealth = "unavailable"}
           R == {e \in entries : e.driver # "noop"}
           N == {e \in entries : e.driver = "noop"}
<1>1. \A e \in entries : e.dataHealth \in {"healthy", "degraded", "unavailable"}
  BY DEF Entries, PartHealths
<1>2. entries = (L \union W) \union U /\ L \intersect W = {} /\ (L \union W) \intersect U = {}
      /\ entries = R \union N /\ R \intersect N = {}
  BY <1>1 DEF LiveEntries, WaitingEntries
<1>3. IsFiniteSet(L) /\ IsFiniteSet(W) /\ IsFiniteSet(U) /\ IsFiniteSet(R) /\ IsFiniteSet(N)
  <2>1. L \subseteq entries /\ W \subseteq entries /\ U \subseteq entries /\ R \subseteq entries /\ N \subseteq entries
    BY DEF LiveEntries, WaitingEntries
  <2> HIDE DEF L, W, U, R, N
  <2> QED BY <2>1, FS_Subset
<1> HIDE DEF L, W, U, R, N
<1>4. \A S, T : IsFiniteSet(S) /\ IsFiniteSet(T) /\ S \intersect T = {} =>
         /\ IsFiniteSet(S \union T) /\ Cardinality(S) \in Nat /\ Cardinality(T) \in Nat
         /\ Cardinality(S \union T) = Cardinality(S) + Cardinality(T)
  <2> SUFFICES ASSUME NEW S, NEW T, IsFiniteSet(S), IsFiniteSet(T), S \intersect T = {}
               PROVE  /\ IsFiniteSet(S \union T) /\ Cardinality(S) \in Nat /\ Cardinality(T) \in Nat
                      /\ Cardinality(S \union T) = Cardinality(S) + Cardinality(T)
    OBVIOUS
  <2>1. IsFiniteSet(S \union T)
        /\ Cardinality(S \union T) = Cardinality(S) + Cardinality(T) - Cardinality(S \intersect T)
    BY FS_Union
  <2>2. Cardinality(S \intersect T) = 0
    BY FS_EmptySet
  <2>3. Cardinality(S) \in Nat /\ Cardinality(T) \in Nat
    BY FS_CardinalityType
  <2> QED BY <2>1, <2>2, <2>3
<1>5. Cardinality(entries) = Cardinality(L) + Cardinality(W) + Cardinality(U)
  <2>1. Cardinality(L \union W) = Cardinality(L) + Cardinality(W) /\ IsFiniteSet(L \union W)
    BY <1>2, <1>3, <1>4
  <2>2. Cardinality((L \union W) \union U) = Cardinality(L \union W) + Cardinality(U)
    BY <1>2, <1>3, <1>4, <2>1
  <2> QED BY <1>2, <2>1, <2>2
<1>6. Cardinality(entries) = Cardinality(R) + Cardinality(N)
  <2>1. Cardinality(R \union N) = Cardinality(R) + Cardinality(N)
    BY <1>2, <1>3, <1>4
  <2> QED BY <1>2, <2>1
<1> QED BY <1>5, <1>6 DEF RuntimeOverview, L, W, U, R, N

(* A report without a reason to complain of the eye either sees, sleeps,   *)
(* or knows of nobody: a registered person whom no frame shows is a reason,*)
(* but an eye that has shown nothing and knows nobody is not missed.       *)
THEOREM RegisteredPersonsAreMissed ==
    \A v \in VisualViews :
        /\ v.registered = "true" /\ v.frame # "true" /\ VisualDataStatus(v) # "sleeping"
           => "vision.data_health" \in VisionReasons(v)
        /\ "true" \notin {v.registered, v.frame, v.detections, v.candidates} => VisionReasons(v) = {}
<1> SUFFICES ASSUME NEW v \in VisualViews
             PROVE  /\ v.registered = "true" /\ v.frame # "true" /\ VisualDataStatus(v) # "sleeping"
                       => "vision.data_health" \in VisionReasons(v)
                    /\ "true" \notin {v.registered, v.frame, v.detections, v.candidates}
                       => VisionReasons(v) = {}
  OBVIOUS
<1>1. ASSUME v.registered = "true", v.frame # "true", VisualDataStatus(v) # "sleeping"
      PROVE  "vision.data_health" \in VisionReasons(v)
  <2>1. VisualDataStatus(v) = "waiting_for_frame"
    BY <1>1 DEF VisualDataStatus
  <2>2. VisualDiagnostics(v).enabled = "true" /\ VisualDiagnostics(v).dataHealth = "waiting"
    BY <1>1, <2>1 DEF VisualDiagnostics
  <2> QED BY <2>2 DEF VisionReasons, Reason
<1>2. ASSUME "true" \notin {v.registered, v.frame, v.detections, v.candidates}
      PROVE  VisionReasons(v) = {}
  BY <1>2 DEF VisionReasons, VisualDiagnostics, HasCandidates
<1> QED BY <1>1, <1>2

(* What a benchmark finds wrong never stands alone: where the report names *)
(* a stop that is not ready or rounds that leak, it calls the live trace   *)
(* not ready as well, and it does so exactly if the chain is not ready.    *)
THEOREM BenchmarkReasonsAgree ==
    \A c \in VoiceChains, b \in Benchmarks :
        LET reasons == VoiceReasons(OfBenchmark(c, b))
        IN /\ ("voice.live_trace" \in reasons) <=> ~IsReady(b)
           /\ reasons \intersect {"voice.interrupt_stop_ready", "voice.round_leak_count"} # {}
              => "voice.live_trace" \in reasons
<1> SUFFICES ASSUME NEW c \in VoiceChains, NEW b \in Benchmarks
             PROVE  LET reasons == VoiceReasons(OfBenchmark(c, b))
                    IN /\ ("voice.live_trace" \in reasons) <=> ~IsReady(b)
                       /\ reasons \intersect {"voice.interrupt_stop_ready", "voice.round_leak_count"} # {}
                          => "voice.live_trace" \in reasons
  OBVIOUS
<1> DEFINE o == OfBenchmark(c, b)
           reasons == VoiceReasons(o)
<1>1. /\ o.interruptStop = InterruptStopReady(b) /\ o.leaks = b.leaks /\ o.summary = BenchmarkSummary(b)
      /\ b.leaks \in Nat
  BY DEF OfBenchmark, VoiceChains, Benchmarks
<1>2. BenchmarkSummary(b) \in NotReadySummaries <=> ~IsReady(b)
  BY DEF BenchmarkSummary, NotReadySummaries
<1>3. b.leaks > 0 => ~IsReady(b)
  BY <1>1 DEF IsReady
<1>4. InterruptStopReady(b) = "false" => ~IsReady(b)
  <2>1. b.metrics \in [{"interruptStopMs", "others"} -> Flag]
    BY DEF Benchmarks
  <2> QED BY <2>1 DEF InterruptStopReady, OrElse, IsReady, FailedMetrics
<1>5. VoiceObserved(o)
  BY <1>1 DEF VoiceObserved
<1> HIDE DEF o
<1>6. /\ "voice.live_trace" \in reasons <=> o.summary \in NotReadySummaries
      /\ "voice.interrupt_stop_ready" \in reasons <=> o.interruptStop = "false"
      /\ "voice.round_leak_count" \in reasons <=> o.leaks > 0
  BY <1>5 DEF VoiceReasons, Reason
<1> HIDE DEF reasons
<1>7. /\ ("voice.live_trace" \in reasons) <=> ~IsReady(b)
      /\ reasons \intersect {"voice.interrupt_stop_ready", "voice.round_leak_count"} # {}
         => "voice.live_trace" \in reasons
  BY <1>1, <1>2, <1>3, <1>4, <1>6
<1> QED BY <1>7 DEF reasons, o

(* The two words for the echo canceller agree as long as the capture says  *)
(* nothing of its own: healthy is "ready", waiting is "disabled".          *)
THEOREM EchoWordsAgree ==
    \A f \in Frontends : f.ready = "none" /\ f.state = "none" =>
        /\ AecReadiness(f) = "healthy" <=> AecStatus(f) = "ready"
        /\ AecReadiness(f) = "waiting" <=> AecStatus(f) = "disabled"
        /\ AecReadiness(f) = "unavailable" <=> AecStatus(f) = "unavailable"
BY DEF Frontends, Flag, AecReadiness, AecStatus

(* The overhead of a turn completes its stages to the total, or they are   *)
(* the longer already; and it is blamed only if it is longer than each of  *)
(* them, so that one that is never measured blames a stage.                *)
THEOREM OverheadIsBlamedLast ==
    \A stages \in [TurnStages \union {"total"} -> Millis] :
        LET parts == StageOr(stages, "listen_asr") + StageOr(stages, "think") + StageOr(stages, "speak")
        IN /\ parts <= StageOr(stages, "total") => parts + Overhead(stages) = StageOr(stages, "total")
           /\ parts > StageOr(stages, "total") => Overhead(stages) = 0
           /\ IsLongest(Derived(stages), 4) => \A n \in TurnStages : stages[n] < Overhead(stages)
<1> SUFFICES ASSUME NEW stages \in [TurnStages \union {"total"} -> Millis]
             PROVE  LET parts == StageOr(stages, "listen_asr") + StageOr(stages, "think") + StageOr(stages, "speak")
                    IN /\ parts <= StageOr(stages, "total") => parts + Overhead(stages) = StageOr(stages, "total")
                       /\ parts > StageOr(stages, "total") => Overhead(stages) = 0
                       /\ IsLongest(Derived(stages), 4) => \A n \in TurnStages : stages[n] < Overhead(stages)
  OBVIOUS
<1>1. \A n \in TurnStages \union {"total"} : StageOr(stages, n) \in Nat
  BY DEF StageOr, Number, Millis
<1>2. /\ StageOr(stages, "listen_asr") \in Int /\ StageOr(stages, "think") \in Int
      /\ StageOr(stages, "speak") \in Int /\ StageOr(stages, "total") \in Int
  BY <1>1 DEF TurnStages
<1>3. ASSUME IsLongest(Derived(stages), 4)
      PROVE  \A n \in TurnStages : stages[n] < Overhead(stages)
  <2> DEFINE latency == Derived(stages)
  <2>1. latency["overhead"] = Overhead(stages) /\ \A n \in TurnStages : latency[n] = stages[n]
    BY DEF Derived, TurnStages
  <2> HIDE DEF latency
  <2>2. \A j \in 1..4 : j < 4 => latency[StageNames[j]] < latency[StageNames[4]]
    BY <1>3 DEF IsLongest, latency
  <2>3. /\ latency["listen_asr"] < latency["overhead"] /\ latency["think"] < latency["overhead"]
        /\ latency["speak"] < latency["overhead"]
    BY <2>2 DEF StageNames
  <2> QED BY <2>1, <2>3 DEF TurnStages
<1> QED BY <1>2, <1>3 DEF Overhead

(* What is shown of a recall hangs together: the count is that of the      *)
(* records and of their sources, unless the snapshot gives the one and the *)
(* trace, which always has a count, gives the other.                       *)
THEOREM CountsAreOfTheRecords ==
    \A r \in Recalls :
        /\ RecordsOrigin(r) # "none" /\ r.sources # "true" => SourcesOrigin(r) = RecordsOrigin(r)
        /\ CountOrigin(r) # RecordsOrigin(r) =>
              \/ r.count = "true" /\ r.records # "true"
              \/ r.count = "none" /\ r.trace = "true" /\ (r.records = "true" \/ r.traceRecords # "true")
BY DEF RecordsOrigin, SourcesOrigin, CountOrigin, Origin

(* A trace with an error that is the latest makes the report name both its *)
(* status and its count, whatever else the trace claims to have done.      *)
THEOREM TraceErrorsAreNamed ==
    \A conflicts \in Nat, t \in MemoryTraces, guardrail \in STRING :
        LET reasons == MemoryReasons(conflicts, t, guardrail)
        IN "memory.trace_status" \in reasons <=> "memory.trace_error_count" \in reasons
BY DEF MemoryReasons, Reason, TraceStatus, MemoryTraces

(* All traces that are merged or still to be merged.                       *)
GivenTraces == Shown(merged) \union {tr \in ConsoleTraces : \E i \in DOMAIN sources : tr \in Shown(sources[i].traces)}
MergeTyped ==
    /\ merged \in Seq(ConsoleTraces)
    /\ traceCount \in Nat
    /\ sources \in Seq(MemorySources)
MergeKeeps ==
    /\ GivenTraces' = GivenTraces
    /\ traceCount' >= traceCount
    /\ \/ merged' = merged
       \/ \E trace \in ConsoleTraces : trace \notin Shown(merged) /\ merged' = Append(merged, trace)

LEMMA MergeIsTyped == MergeTyped /\ [MergeNext]_memoryVars => MergeTyped'
<1> SUFFICES ASSUME MergeTyped, [MergeNext]_memoryVars PROVE MergeTyped'
  OBVIOUS
<1>1. CASE MergeTrace
  <2>1. Head(sources) \in MemorySources /\ Tail(sources) \in Seq(MemorySources)
    BY <1>1 DEF MergeTrace, MergeTyped
  <2>2. Head(Head(sources).traces) \in ConsoleTraces /\ Tail(Head(sources).traces) \in Seq(ConsoleTraces)
        /\ Head(sources).count \in Nat
    BY <1>1, <2>1 DEF MergeTrace, MemorySources
  <2>3. <<[traces |-> Tail(Head(sources).traces), count |-> Head(sources).count]>> \in Seq(MemorySources)
    BY <2>2 DEF MemorySources
  <2> QED BY <1>1, <2>1, <2>2, <2>3 DEF MergeTrace, MergeTyped
<1>2. CASE FinishSource
  <2>1. Head(sources) \in MemorySources /\ Tail(sources) \in Seq(MemorySources)
    BY <1>2 DEF FinishSource, MergeTyped
  <2> QED BY <1>2, <2>1 DEF FinishSource, MergeTyped, MemorySources
<1>3. CASE UNCHANGED memoryVars
  BY <1>3 DEF memoryVars, MergeTyped
<1> QED BY <1>1, <1>2, <1>3 DEF MergeNext

LEMMA AppendShows ==
    ASSUME NEW S, NEW s \in Seq(S), NEW e \in S
    PROVE  Shown(Append(s, e)) = Shown(s) \union {e}
<1>1. Len(Append(s, e)) = Len(s) + 1 /\ Append(s, e) \in Seq(S)
  OBVIOUS
<1>2. \A i \in 1..Len(s) : Append(s, e)[i] = s[i]
  OBVIOUS
<1>3. Append(s, e)[Len(s) + 1] = e
  OBVIOUS
<1>4. DOMAIN s = 1..Len(s) /\ DOMAIN Append(s, e) = 1..(Len(s) + 1) /\ Len(s) \in Nat
  OBVIOUS
<1> HIDE DEF Shown
<1>5. \A i \in 1..(Len(s) + 1) : i \in 1..Len(s) \/ i = Len(s) + 1
  BY <1>4
<1> QED BY <1>2, <1>3, <1>4, <1>5 DEF Shown

LEMMA HeadAndTailShow ==
    ASSUME NEW S, NEW s \in Seq(S), s # <<>>
    PROVE  /\ Shown(s) = {Head(s)} \union Shown(Tail(s))
           /\ DOMAIN s = 1..Len(s) /\ Len(s) \in Nat \ {0} /\ DOMAIN Tail(s) = 1..(Len(s) - 1)
           /\ Head(s) = s[1] /\ \A i \in 1..(Len(s) - 1) : Tail(s)[i] = s[i + 1]
<1>1. /\ DOMAIN s = 1..Len(s) /\ Len(s) \in Nat \ {0} /\ DOMAIN Tail(s) = 1..(Len(s) - 1)
      /\ Head(s) = s[1] /\ \A i \in 1..(Len(s) - 1) : Tail(s)[i] = s[i + 1]
  OBVIOUS
<1>2. \A i \in 1..Len(s) : i = 1 \/ (i - 1 \in 1..(Len(s) - 1) /\ s[i] = Tail(s)[i - 1])
  BY <1>1
<1>3. \A i \in 1..(Len(s) - 1) : i + 1 \in 1..Len(s)
  BY <1>1
<1>4. Shown(s) = {Head(s)} \union Shown(Tail(s))
  <2>1. Shown(s) = {s[i] : i \in 1..Len(s)} /\ Shown(Tail(s)) = {Tail(s)[i] : i \in 1..(Len(s) - 1)}
    BY <1>1 DEF Shown
  <2>2. ASSUME NEW e \in Shown(s) PROVE e \in {Head(s)} \union Shown(Tail(s))
    <3>1. PICK i \in 1..Len(s) : e = s[i]
      BY <2>1, <2>2
    <3> QED BY <3>1, <1>1, <1>2, <2>1
  <2>3. ASSUME NEW e \in {Head(s)} \union Shown(Tail(s)) PROVE e \in Shown(s)
    <3>1. CASE e = Head(s)
      BY <3>1, <1>1, <2>1
    <3>2. CASE e \in Shown(Tail(s))
      <4>1. PICK i \in 1..(Len(s) - 1) : e = Tail(s)[i]
        BY <3>2, <2>1
      <4> QED BY <4>1, <1>1, <1>3, <2>1
    <3> QED BY <2>3, <3>1, <3>2
  <2> QED BY <2>2, <2>3
<1> QED BY <1>1, <1>4

(* Merging the body's memory traces into those of cognition loses nothing, *)
(* shows none of them twice beside those that are there, and never lets    *)
(* the count shrink: in whatever order the sources come, what is merged    *)
(* and what is left are together what was given.                           *)
THEOREM TracesAreKept == MergeSpec => [][MergeKeeps]_memoryVars
<1>1. MergeInit => MergeTyped
  BY DEF MergeInit, MergeTyped
<1>2. MergeTyped /\ [MergeNext]_memoryVars => [MergeKeeps]_memoryVars
  <2> SUFFICES ASSUME MergeTyped, MergeNext PROVE MergeKeeps \/ UNCHANGED memoryVars
    OBVIOUS
  <2> DEFINE Left(i) == Shown(sources[i].traces)
  <2>1. CASE MergeTrace
    <3> DEFINE firstSource == Head(sources)
               trace == Head(firstSource.traces)
               rest == [traces |-> Tail(firstSource.traces), count |-> firstSource.count]
    <3>1. /\ DOMAIN sources = 1..Len(sources) /\ Len(sources) \in Nat \ {0}
          /\ DOMAIN Tail(sources) = 1..(Len(sources) - 1) /\ firstSource = sources[1]
          /\ \A i \in 1..(Len(sources) - 1) : Tail(sources)[i] = sources[i + 1]
      BY <2>1, HeadAndTailShow DEF MergeTrace, MergeTyped
    <3>2. firstSource \in MemorySources /\ firstSource.traces \in Seq(ConsoleTraces) /\ firstSource.traces # <<>>
      <4>1. firstSource \in MemorySources
        BY <2>1 DEF MergeTrace, MergeTyped
      <4> QED BY <4>1, <2>1 DEF MergeTrace, MemorySources
    <3>3. Shown(firstSource.traces) = {trace} \union Shown(rest.traces) /\ trace \in ConsoleTraces
      <4>1. Shown(firstSource.traces) = {Head(firstSource.traces)} \union Shown(Tail(firstSource.traces))
        BY <3>2, HeadAndTailShow
      <4>2. Head(firstSource.traces) \in ConsoleTraces
        BY <3>2
      <4> QED BY <4>1, <4>2
    <3>4. Shown(merged') = Shown(merged) \union {trace}
      <4>1. CASE trace \in Shown(merged)
        BY <4>1, <2>1 DEF MergeTrace
      <4>2. CASE trace \notin Shown(merged)
        <5>1. merged' = Append(merged, trace) /\ merged \in Seq(ConsoleTraces)
          BY <4>2, <2>1 DEF MergeTrace, MergeTyped
        <5> QED BY <5>1, <3>3, AppendShows
      <4> QED BY <4>1, <4>2
    <3>5. /\ DOMAIN sources' = DOMAIN sources /\ sources'[1] = rest
          /\ \A i \in DOMAIN sources : i # 1 => sources'[i] = sources[i]
      <4>1. sources' = <<rest>> \o Tail(sources)
        BY <2>1 DEF MergeTrace
      <4>2. Tail(sources) \in Seq(MemorySources)
        BY <2>1 DEF MergeTrace, MergeTyped
      <4> HIDE DEF rest, firstSource
      <4>3. /\ Len(<<rest>> \o Tail(sources)) = 1 + Len(Tail(sources))
            /\ (<<rest>> \o Tail(sources))[1] = rest
            /\ DOMAIN (<<rest>> \o Tail(sources)) = 1..(1 + Len(Tail(sources)))
            /\ \A i \in 1..Len(Tail(sources)) : (<<rest>> \o Tail(sources))[i + 1] = Tail(sources)[i]
        BY <4>2
      <4>4. Len(Tail(sources)) = Len(sources) - 1
        BY <2>1 DEF MergeTrace, MergeTyped
      <4>5. \A i \in DOMAIN sources : i # 1 => i - 1 \in 1..(Len(sources) - 1) /\ (i - 1) + 1 = i
        BY <3>1
      <4> QED BY <4>1, <4>3, <4>4, <4>5, <3>1
    <3>6. GivenTraces' = GivenTraces
      <4> HIDE DEF trace, rest, firstSource
      <4>1. 1 \in DOMAIN sources
        BY <3>1
      <4> QED BY <3>1, <3>3, <3>4, <3>5, <4>1 DEF GivenTraces
    <3>7. traceCount' >= traceCount
      BY <2>1 DEF MergeTrace, MergeTyped
    <3>8. merged' = merged \/ (trace \notin Shown(merged) /\ merged' = Append(merged, trace))
      BY <2>1 DEF MergeTrace
    <3> QED BY <3>3, <3>6, <3>7, <3>8 DEF MergeKeeps
  <2>2. CASE FinishSource
    <3>1. /\ DOMAIN sources = 1..Len(sources) /\ Len(sources) \in Nat \ {0}
          /\ DOMAIN Tail(sources) = 1..(Len(sources) - 1) /\ Head(sources) = sources[1]
          /\ \A i \in 1..(Len(sources) - 1) : Tail(sources)[i] = sources[i + 1]
      BY <2>2, HeadAndTailShow DEF FinishSource, MergeTyped
    <3>2. Shown(sources[1].traces) = {}
      BY <2>2, <3>1 DEF FinishSource, Shown
    <3>3. \A i \in 1..Len(sources) : i = 1 \/ (i - 1 \in 1..(Len(sources) - 1) /\ sources[i] = Tail(sources)[i - 1])
      BY <3>1
    <3>4. \A i \in 1..(Len(sources) - 1) : i + 1 \in 1..Len(sources)
      BY <3>1
    <3>5. GivenTraces' = GivenTraces
      <4>1. sources' = Tail(sources) /\ merged' = merged
        BY <2>2 DEF FinishSource
      <4> QED BY <3>1, <3>2, <3>3, <3>4, <4>1 DEF GivenTraces
    <3>6. traceCount' >= traceCount /\ merged' = merged
      <4>1. Head(sources) \in MemorySources
        BY <2>2 DEF FinishSource, MergeTyped
      <4>2. Head(sources).count \in Nat
        BY <4>1 DEF MemorySources
      <4> QED BY <4>2, <2>2 DEF FinishSource, MergeTyped
    <3> QED BY <3>5, <3>6, <2>2 DEF MergeKeeps
  <2> QED BY <2>1, <2>2 DEF MergeNext
<1> QED BY <1>1, <1>2, MergeIsTyped, PTL DEF MergeSpec

-----------------------------------------------------------------------------
(* The programs of the body                                                *)

WorkInv ==
    /\ workFiles \subseteq {"raw", "request", "wav"}
    /\ Worker = "sherpa" => "wav" \notin workFiles
    /\ workAt = "start" => workFiles = {}
    /\ workAt \in {"samples", "request"} => workFiles = {"raw"}
    /\ workAt = "left" => workFiles \subseteq {"raw"}
    /\ workAt \in {"dump", "child"} => {"raw", "request"} \subseteq workFiles
    /\ workAt \in {"clean2", "clean3", "done"} => "raw" \notin workFiles
    /\ workAt \in {"clean3", "done"} => "request" \notin workFiles
    /\ workAt = "done" => "wav" \notin workFiles
    /\ workAt \in {"samples", "request", "dump", "child", "start"} => workAnswer = "none"
    /\ workAt = "left" => workAnswer = "raised"

(* No temporary file outlives a transcription, whatever its child did and  *)
(* whatever was raised, unless writing the samples themselves failed or    *)
(* the body was killed (transcribe_pcm_with_faster_whisper_subprocess,     *)
(* transcribe_pcm_with_sherpa_subprocess).                                 *)
THEOREM NoFileIsLeft ==
    ASSUME Worker \in {"whisper", "sherpa"}
    PROVE  WorkSpec => [](/\ workAt = "done" => workFiles = {}
                          /\ workAt = "left" => workAnswer = "raised" /\ workFiles \subseteq {"raw"})
<1>1. WorkInit => WorkInv
  BY DEF WorkInit, WorkInv
<1>2. WorkInv /\ [WorkNext]_workvars => WorkInv'
  <2> SUFFICES ASSUME WorkInv, [WorkNext]_workvars
               PROVE  WorkInv'
    OBVIOUS
  <2> USE DEF WorkInv
  <2>1. CASE CreateSamples \/ SamplesFail \/ SamplesWritten \/ CreateRequest \/ RequestWritten
    BY <2>1 DEF CreateSamples, SamplesFail, SamplesWritten, CreateRequest, RequestWritten
  <2>2. CASE WaveWritten
    BY <2>2 DEF WaveWritten
  <2>3. CASE (\E e \in WorkerEnds : ChildEnds(e)) \/ Raises
    BY <2>3 DEF ChildEnds, Raises
  <2>4. CASE CleanUp
    BY <2>4 DEF CleanUp, Unlink
  <2>5. CASE BodyKilled
    BY <2>5 DEF BodyKilled
  <2>6. CASE UNCHANGED workvars
    BY <2>6 DEF workvars
  <2> QED
    BY <2>1, <2>2, <2>3, <2>4, <2>5, <2>6 DEF WorkNext
<1>3. WorkInv => /\ workAt = "done" => workFiles = {}
                 /\ workAt = "left" => workAnswer = "raised" /\ workFiles \subseteq {"raw"}
  BY DEF WorkInv
<1> QED
  BY <1>1, <1>2, <1>3, PTL DEF WorkSpec

(* The error of a recogniser never is without words, and speaks of a       *)
(* timeout exactly when there was one                                      *)
(* (faster_whisper_recognizer.py:44-49).                                   *)
THEOREM TimeoutsAreNamed ==
    ASSUME Worker = "whisper", NEW end \in {"failed", "timeout"}, NEW printed
    PROVE  /\ RaisedWords(end, printed) \in {"stderr", "faster_whisper_timeout", "faster_whisper_failed"}
           /\ RaisedWords(end, printed) = "faster_whisper_timeout" <=> end = "timeout"
BY DEF RaisedWords, WorkerStderr, WorkerReason

LookInv ==
    /\ lookAt \in [Lookers -> {"out", "opening", "writing", "detect", "report"}]
    /\ lookStamp \in [Lookers -> Int] /\ lookSeen \in [Lookers -> Int]
    /\ shot \in [at : Int, whole : {"yes", "no"}]
    /\ lookCached \in [at : Int, seen : Int]
    /\ lookClock \in Nat
    /\ \A t \in Lookers :
         /\ lookStamp[t] <= lookClock
         /\ lookAt[t] \in {"writing", "detect"} => shot.at >= lookStamp[t]
         /\ lookAt[t] = "report" => lookSeen[t] = Unseen \/ lookSeen[t] >= lookStamp[t]
         /\ lookAt[t] \in {"opening", "writing", "detect"} => lookSeen[t] = Unseen
    /\ lookCached.seen = Unseen \/ lookCached.seen >= lookCached.at

(* However the heartbeats of a live camera overlap, the detections of one  *)
(* are never of a frame older than the time the heartbeat is stamped with; *)
(* what they may be of is a newer frame, taken by another heartbeat        *)
(* (organs/eye/organ.py:54-83).                                            *)
THEOREM DetectionsAreNoOlder ==
    ASSUME CameraKind = "live"
    PROVE  LookSpec => [](lookCached.seen = Unseen \/ lookCached.seen >= lookCached.at)
<1>1. LookInit => LookInv
  BY DEF LookInit, LookInv, Unseen, NoHeartbeat
<1>2. LookInv /\ [LookNext]_lookvars => LookInv'
  <2> SUFFICES ASSUME LookInv, [LookNext]_lookvars
               PROVE  LookInv'
    OBVIOUS
  <2> USE DEF LookInv, Unseen
  <2>1. ASSUME NEW t \in Lookers, Look(t)
        PROVE  LookInv'
    BY <2>1 DEF Look, Goto
  <2>2. ASSUME NEW t \in Lookers, OpenShot(t)
        PROVE  LookInv'
    BY <2>2 DEF OpenShot, Goto
  <2>3. ASSUME NEW t \in Lookers, WriteShot(t)
        PROVE  LookInv'
    <3>1. PICK w \in {"yes", "no"} : shot' = [at |-> lookClock, whole |-> w]
      BY <2>3 DEF WriteShot
    <3> QED
      BY <2>3, <3>1 DEF WriteShot, Goto
  <2>4. ASSUME NEW t \in Lookers, ShotFails(t)
        PROVE  LookInv'
    BY <2>4 DEF ShotFails, Goto
  <2>5. ASSUME NEW t \in Lookers, DetectInShot(t)
        PROVE  LookInv'
    BY <2>5 DEF DetectInShot, Goto
  <2>6. ASSUME NEW t \in Lookers, DetectFails(t) \/ LookRaises(t)
        PROVE  LookInv'
    BY <2>6 DEF DetectFails, LookRaises, Goto
  <2>7. ASSUME NEW t \in Lookers, ReportLook(t)
        PROVE  LookInv'
    BY <2>7 DEF ReportLook, Goto
  <2>8. CASE LookTick
    BY <2>8 DEF LookTick
  <2>9. CASE UNCHANGED lookvars
    BY <2>9 DEF lookvars
  <2> QED
    BY <2>1, <2>2, <2>3, <2>4, <2>5, <2>6, <2>7, <2>8, <2>9 DEF LookNext
<1>3. LookInv => lookCached.seen = Unseen \/ lookCached.seen >= lookCached.at
  BY DEF LookInv
<1> QED
  BY <1>1, <1>2, <1>3, PTL DEF LookSpec

(* A detection or a face always comes from a camera and a detector that    *)
(* are healthy: the faults of either leave none behind                     *)
(* (organs/eye/organ.py:314-433).                                          *)
THEOREM FacesNeedHealthyEyes ==
    ASSUME NEW c \in FrameTakes, NEW i \in Inferences, NEW camera, NEW probe,
           NEW rows, NEW threshold,
           CaptureResult(c) # "raised",
           \/ LookDetections(c, i, rows, threshold) # {}
           \/ IdentityStatus(c, i, camera, probe, rows, threshold) = "observing_unknown_face"
    PROVE  /\ CameraHealth(c, camera) = "healthy"
           /\ DetectionHealth(c, i, camera, probe) = "healthy"
           /\ IdentityHealth(c, i, camera, probe) = "healthy"
           /\ c.file # "none" /\ i.image = "good" /\ i.model = "good" /\ i.device = "good"
<1>1. CaptureResult(c) = "ok" /\ Inferred(i) = "ok"
  BY DEF LookDetections, IdentityStatus, FaceCandidates, DetectionsOf
<1>2. i.importable \in {"true", "false"} /\ i.python \in {"none", "bare", "hailo"}
      /\ i.model \in {"good", "bad"} /\ i.image \in {"none", "bad", "good"}
      /\ i.device \in {"good", "bad"} /\ i.chatter \in {"true", "false"}
  BY DEF Inferences
<1>3. i.image = "good" /\ i.model = "good" /\ i.device = "good"
  BY <1>1, <1>2 DEF Inferred, InferredHere, InferredThere, ImageFault
<1>4. c.file # "none"
  BY <1>1 DEF CaptureResult
<1> QED
  BY <1>1, <1>3, <1>4 DEF CameraHealth, DetectionHealth, IdentityHealth

(* The same fault of the model or of the device is an error where the      *)
(* runtime is another process, and an exception where it is this one       *)
(* (runtime_linux.py:858-1137).                                            *)
THEOREM FaultsRaiseOnlyHere ==
    ASSUME NEW i \in Inferences, i.image = "good", i.model = "bad" \/ i.device = "bad"
    PROVE  /\ i.importable = "true" => Inferred(i) = "raised"
           /\ i.importable = "false" /\ i.python # "none" =>
                Inferred(i) = "hailo_runtime_unavailable"
<1>1. i.importable \in {"true", "false"} /\ i.python \in {"none", "bare", "hailo"}
      /\ i.model \in {"good", "bad"} /\ i.device \in {"good", "bad"} /\ i.chatter \in {"true", "false"}
  BY DEF Inferences
<1> QED
  BY <1>1 DEF Inferred, InferredHere, InferredThere

(* The detector of the vision service and the heartbeat of the eye agree   *)
(* on what is well and on what is seen (vision_hailo_service.py:160-196).  *)
THEOREM DetectorsAgree ==
    ASSUME NEW c \in FrameTakes, NEW i \in Inferences, NEW camera, NEW probe,
           NEW rows, NEW threshold, DetectOnceStatus(c, i) # "raised"
    PROVE  /\ DetectOnceStatus(c, i) = "ok" <=> DetectionHealth(c, i, camera, probe) = "healthy"
           /\ DetectOnceFinds(c, i, rows, threshold) = LookDetections(c, i, rows, threshold)
<1>1. CaptureResult(c) \in {"ok", "error", "raised"}
  BY DEF CaptureResult
<1> QED
  BY <1>1 DEF DetectOnceStatus, DetectOnceFinds, DetectionHealth, CameraHealth, LookDetections,
              DetectionsOf, Unwell

(* A preview without a camera is never taken for one that ran its time     *)
(* (runtime_linux.py:772-816).                                             *)
THEOREM PreviewsNeedACamera ==
    ASSUME NEW p \in Previews
    PROVE  /\ PreviewStatus(p) = "ok" => p.noCamera = "false"
           /\ PreviewReason(p) = "timed_out_after_start" => PreviewStatus(p) = "ok"
<1>1. p.noCamera \in {"true", "false"} /\ p.code \in {0, 1, 124}
  BY DEF Previews
<1> QED
  BY <1>1 DEF PreviewStatus, PreviewReason

-----------------------------------------------------------------------------
(* Records of what was done                                                *)

(* Whatever is known of an execution is written for good, unless the       *)
(* caller asks for another kind: a record that is only kept for a while    *)
(* has no outcome, no words and no adjustment                              *)
(* (build_head_feedback_record).                                           *)
THEOREM KnownOutcomesAreKept ==
    ASSUME NEW x \in Executions, x.kind = "none"
    PROVE  /\ IsRecorded(x)
           /\ IsDurable(MemoryKind(x)) <=>
                \/ Succeeded(x) # "none" \/ x.words = "true" \/ x.adjustment = "true"
           /\ Promotion(x) = "candidate" <=> x.adjustment = "true"
           /\ Succeeded(x) = "false" => RetentionFor(MemoryKind(x)) # "short_lived"
<1>1. x.words \in Yes /\ x.adjustment \in Yes
  BY DEF Executions
<1>2. MemoryKind(x) = InferredKind(x)
  BY DEF MemoryKind, Given
<1> QED
  BY <1>1, <1>2 DEF IsRecorded, Kinds3, IsDurable, InferredKind, Promotion, RetentionFor, Yes

(* What failed is tagged an incident, but only an episode without a        *)
(* category of its own is filed as one; and an episode may be filed as an  *)
(* incident without being tagged, if it succeeded with an error            *)
(* (_infer_category, _tags_for).                                           *)
THEOREM IncidentsAreTagged ==
    ASSUME NEW x \in Executions
    PROVE  /\ Category(x) = "head.execution_incident" /\ x.error = "none" =>
                Succeeded(x) = "false"
           /\ Category(x) = "head.execution_outcome" /\ IsRecorded(x) =>
                Succeeded(x) # "false" /\ x.error = "none"
<1>1. /\ x.error \in Yes /\ x.category \in Yes /\ x.kind \in {"none", "unknown"} \union Kinds3
      /\ InferredKind(x) \in Kinds3
  BY DEF Executions, InferredKind, Kinds3
<1>2. MemoryKind(x) \in {"unknown"} \union Kinds3
  BY <1>1 DEF MemoryKind, Given
<1> QED
  BY <1>1, <1>2 DEF Category, IsRecorded, Yes, Kinds3

(* Where no trace and no event is named, a record is filed under the same  *)
(* id twice: the request or the turn is taken for both.                    *)
THEOREM IdsFallTogether ==
    ASSUME NEW outcome, NEW details, NEW action, NEW feedback,
           \A m \in {outcome, details, action, feedback} :
               m.trace = "none" /\ m.source = "none" /\ m.event = "none"
    PROVE  FeedbackTrace("none", outcome, details, action, feedback)
             = SourceEvent(outcome, details, action, feedback)
BY DEF FeedbackTrace, SourceEvent, TraceIn, EventIn, Given

(* A visual record is withheld only if it is an observation nobody is sure *)
(* of, and what is handed to the memory says the same as the record.       *)
THEOREM OnlyDoubtIsWithheld ==
    ASSUME NEW v \in VisualRecords, NEW session, NEW event
    PROVE  /\ FeedbackParams(v, session, event) = {} =>
                /\ ~ v.confident
                /\ VisualRecord(v).outcome = "observed" \/ v.type = "observed"
           /\ VisualRecord(v).success => VisualRecord(v).outcome = "success" /\ v.said # "no"
           /\ v.corrected => VisualRecord(v).importance = 100
<1>1. /\ v.said \in {"yes", "no", "none"} /\ v.score \in {"yes", "no", "none"}
      /\ v.corrected \in BOOLEAN /\ v.confident \in BOOLEAN
  BY DEF VisualRecords
<1>2. ASSUME FeedbackParams(v, session, event) = {}
      PROVE  ~ v.confident /\ (RecordOutcome(v) = "observed" \/ v.type = "observed")
  <2>1. ~ VisualRecord(v).eligible
    BY <1>2 DEF FeedbackParams
  <2>2. ~ Writable(v.type, RecordOutcome(v), v.confident)
    BY <2>1 DEF VisualRecord
  <2> QED
    BY <2>2 DEF Writable
<1>3. RecordOutcome(v) = "success" => v.said # "no"
  BY <1>1 DEF RecordOutcome, Outcome
<1>4. v.corrected => RecordImportance(v) = 100
  BY <1>1 DEF RecordImportance
<1>5. /\ VisualRecord(v).outcome = RecordOutcome(v) /\ VisualRecord(v).importance = RecordImportance(v)
      /\ VisualRecord(v).success <=> RecordOutcome(v) = "success"
  BY DEF VisualRecord
<1> QED
  BY <1>2, <1>3, <1>4, <1>5

(* Of one event of a session the memory keeps one record of each type: a   *)
(* second one has the key of the first, whatever it says (the idempotency  *)
(* key of build_eimemory_visual_feedback_params).                          *)
THEOREM LaterRecordsReplace ==
    ASSUME NEW v \in VisualRecords, NEW w \in VisualRecords, NEW session, NEW event,
           v.type = w.type,
           NEW p \in FeedbackParams(v, session, event),
           NEW q \in FeedbackParams(w, session, event)
    PROVE  p.key = q.key
<1>1. p.key = IdempotencyKey(session, event, v.type)
  BY DEF FeedbackParams
<1>2. q.key = IdempotencyKey(session, event, w.type)
  BY DEF FeedbackParams
<1> QED
  BY <1>1, <1>2

(* The records of the running body are all of one weight and all of them   *)
(* are written: the reason that every follow score has is taken for an     *)
(* error (apps/body_runtime/app.py:1466-1478, visual_feedback.py:53).      *)
THEOREM FramesWeighTheSame ==
    ASSUME NEW f \in Frames, NEW confident \in BOOLEAN
    PROVE  /\ RecordImportance(RecordOfFrame(f, confident)) = 85
           /\ VisualRecord(RecordOfFrame(f, confident)).eligible
<1> DEFINE v == RecordOfFrame(f, confident)
<1>1. /\ v.type \in {"target_lost", "follow_result"} /\ v.corrected = FALSE /\ v.error = TRUE
      /\ v.said \in {"yes", "no"}
  BY DEF RecordOfFrame, FrameFeedback, Truth
<1>2. RecordOutcome(v) \in {"lost", "success", "failure"}
  BY <1>1 DEF RecordOutcome, Outcome
<1>3. RecordImportance(v) = 85
  BY <1>1 DEF RecordImportance
<1>4. VisualRecord(v).eligible
  BY <1>1, <1>2 DEF VisualRecord, Writable
<1> QED
  BY <1>3, <1>4

(* What is remembered of an event outlives the window in which no second   *)
(* candidate of its key is made, as long as the window is shorter than     *)
(* three days; what is put forward for promotion lives longest             *)
(* (_retention_policy, VisualMemoryPolicy.dedupe_window_ms).               *)
THEOREM CandidatesOutliveTheWindow ==
    ASSUME NEW e, NEW l, NEW score, NEW session, NEW t, NEW content,
           NEW m \in MemoryCandidates(e, l, score, session, t, content),
           Window \in Nat, Window < 3 * Day
    PROVE  /\ m.ttl > Window
           /\ m.training => m.promoted /\ m.sensitivity = "operational"
           /\ \A n \in MemoryCandidates(e, l, score, session, t, content) :
                m.promoted /\ ~ n.promoted => m.ttl > n.ttl
<1>1. /\ m.ttl = TtlOf(m.kind) /\ m.promoted = IsPromoted(m.kind) /\ m.training = ForTraining(m.kind)
      /\ m.sensitivity = Sensitivity(m.kind)
  BY DEF MemoryCandidates
<1>2. TtlOf(m.kind) \in Nat /\ TtlOf(m.kind) >= 3 * Day
  BY DEF TtlOf, Day
<1>3. m.training => m.promoted /\ m.sensitivity = "operational"
  BY <1>1 DEF IsPromoted, ForTraining, Sensitivity
<1>4. \A n \in MemoryCandidates(e, l, score, session, t, content) : n.promoted = m.promoted
  BY DEF MemoryCandidates
<1>5. m.ttl > Window
  BY <1>1, <1>2 DEF Day
<1> QED
  BY <1>3, <1>4, <1>5

(* Feedback without a text is filed under one key for a whole session, so  *)
(* that one candidate a window is made of all of it (_target_id).          *)
THEOREM WordlessFeedbackIsOne ==
    ASSUME NEW session, NEW t, NEW u, NEW content, NEW other, t.words = u.words
    PROVE  CandidateKey("user_feedback", session, t, content)
             = CandidateKey("user_feedback", session, u, other)
<1>1. /\ TargetOf("user_feedback", t) = Given(t.words, "no words")
      /\ TargetOf("user_feedback", u) = Given(t.words, "no words")
  BY DEF TargetOf
<1>2. Given(t.words, "no words") # "none"
  BY DEF Given
<1> QED
  BY <1>1, <1>2 DEF CandidateKey

=============================================================================
