# eibrain in TLA+

A verification project for `eibrain`, the embodied brain runtime: TLA+ models of
the parts that hold state and have to get their order right, and of the functions
that decide what may be said, done, seen and remembered; TLC runs on small
instances, and TLAPS proofs for instances of every size. Paths below are relative
to the repository.

1. [The system](#1-the-system)
2. [What can go wrong](#2-what-can-go-wrong)
3. [The modules](#3-the-modules)
4. [The runs](#4-the-runs)
5. [Where the code and its documents disagree](#5-where-the-code-and-its-documents-disagree)
6. [The proofs](#6-the-proofs)
7. [Not modelled](#7-not-modelled)
8. [Plan](#8-plan)

## 1. The system

`eibrain` runs a robot head with a microphone, a speaker, a camera and a neck.
One process (`apps/operator_console/__main__.py`) composes a *body runtime*
(organs and their drivers), a *cognitive runtime*, a *voice loop* thread, a
*visual loop* thread, a wake-word pipeline of two more threads, and an HTTP
server whose handlers run in threads of their own. The *vision service* is a
second process; recognisers, detectors, players and recorders are started as
children.

### Parts, their state, how they interact

| part | source | state | operations | talks to |
|---|---|---|---|---|
| realtime turn manager | `eibrain/cognition/realtime/turn.py`, `interruption.py`, `arbiter.py` | the current turn, the history of turns, a cancellation token per turn | start a round, observe partial and final text, write a hypothesis, commit a decision, interrupt, allow or block speech | scheduler, voice loop, voice runtime bridge |
| realtime cognitive scheduler | `eibrain/cognition/realtime/scheduler.py` with `fast.py`, `slow.py`, `planner.py` | none of its own: it writes the turn | observe_partial, observe_final, decide, interrupt, commit_memory_candidates | turn manager, memory orchestrator, activity manager |
| persona, emotion, activity | `persona.py`, `emotion.py`, `activity.py` of the same directory | what the robot did unasked and when; the rest are functions | propose an activity, feedback, guard the persona, guide the voice | scheduler |
| realtime memory orchestrator | `eibrain/cognition/realtime/memory.py` | candidates and traces in the turn, the adapter's last status | prefetch, propose, commit, finish a round | scheduler, RPC adapter |
| voice dialogue loop | `apps/body_runtime/voice_dialogue_loop.py` | `conversation_active`, the realtime session, last microfeedback, last engagement state, rolling chunk count; `_turn_lock` | one thread, one iteration per utterance; `request_interrupt` for any thread; start and stop | everything below |
| realtime voice session | `eibrain/body/realtime_voice.py` | phase, ids, interrupted flag, cancellation chain, events; no lock | listening, final transcript, reply deltas, speaking, interrupt, complete, fail; each checks the ids it is given | voice loop |
| realtime audio | `eibrain/body/realtime_audio.py`, `ear_stream.py`, `vad_policy.py` | ring buffer (locked), capture thread, detector thread, observation queue; counters of a window; a lock file | append, snapshot, poll, pause and resume; one window of speech | voice loop, ear |
| engagement state | `apps/body_runtime/engagement_state.py` | one JSON file, replaced atomically | written by the voice loop, read by the visual loop | both loops |
| body runtime | `apps/body_runtime/app.py`, `eibrain/body/organs`, `eibrain/body/drivers` | speech-busy deadline, dialogue state, tracking episode, organs | dispatch actions, stop speech, track or pause tracking, heartbeats | both loops, organs |
| head tracking | `eibrain/body/neck_fusion.py`, `neck_control.py`, `organs/neck`, `apps/body_runtime/visual_tracking_loop.py` | planner's last action, neck's last command, misses and recentering of the episode; no lock | one frame per iteration; head movements of replies from the voice loop | engagement file, motor driver |
| target lock, follow score | `eibrain/body/visual_target_lock.py`, `visual_follow_score.py` | locked target, keys and since when they are seen | one frame | body runtime |
| vision service | `apps/body_runtime/vision_hailo_service.py` | detector, slot of the last result, a state file | frames in, detections out, sleep while nobody talks | eye organ, through the file |
| vision cognition | `eibrain/cognition/vision_*.py`, `world/` | tracks and attention; dedupe window; last scene | detections to tracks, scenes, events, context of the voice chain | body runtime, cognitive runtime |
| ear and eye organs | `eibrain/body/organs/ear`, `eye` | a cached heartbeat each, a lock in the ear | heartbeat, window | console, both loops |
| device access | `eibrain/body/runtime_linux.py` | files: the audio cache, temporary files, the last frame | speak, transcribe, take and look at a frame | organs, speak command |
| body health | `eibrain/body/health` | none | capabilities, degradation mode, fallback policy | body runtime, console |
| voice runtime bridge | `eibrain/cognition/realtime/voice_runtime_bridge.py` | health of the voice queues | translate events of a voice runtime into scheduler calls | scheduler |
| cognitive runtime, dialogue | `apps/cognitive_runtime/app.py`, `eibrain/cognition/dialogue`, `policy` | last scene written, last visual event; the router's last status | observation to reply; recall and direct writes | voice loop, memory, model providers |
| memory | `eibrain/memory` | times of the visual candidates, RPC adapter status | recall, write back, feedback records | scheduler, cognition, body |
| heads, protocol | `eibrain/infra`, `eibrain/protocol` | registry of heads: status, capabilities, errors | manifest, status, client errors, summary; messages to events | console, tests |
| kernel | `eibrain/kernel` | services and their state, timed tasks | register, start, stop; schedule, cancel, tick | nobody in this tree but tests |
| operator console | `apps/operator_console` | a view of everything | HTTP reads and commands | everything |

`PROJECT.json` lists all 28 components with their files, and says of each
whether it is modelled.

### How the parts meet

* **Calls under a lock.** The voice loop takes `_turn_lock` to start a round, to
  finalize a transcript, to ask whether its round is current and around the
  arbiter. Cognition, `scheduler.decide()`, half of the speaking gate and the
  final dispatch run without it. `request_interrupt` closes a round under it. The
  ear's heartbeat runs under a lock of its own.
* **Calls without one.** Realtime sessions, the planner, the neck and the eye's
  heartbeat are called from two threads each and have no lock.
* **Files.** The engagement file carries "somebody is being talked to" from the
  voice loop to the visual loop and the vision service, and outlives them. The
  vision service's state file carries detections to the eye. A lock file keeps two
  recorders from one microphone. The speak commands share a cache of audio files.
* **Deadlines and windows.** `_speech_busy_until` tells the loop not to listen to
  itself; caches of the organs, dedupe windows of events and memory candidates,
  cooldowns and caps of activities, timeouts of a lost target.
* **Threads that are joined with a timeout.** Loops, capture thread, detector.

### What makes each part correct

| part | it is correct when |
|---|---|
| turn manager, scheduler | one round is live; what arrives late for a closed round changes nothing; a round is closed for one reason; a decision is for the round it is found on; a closed round says nothing |
| bridge | no reply is played in a round it was not made for |
| memory orchestrator | a proposal is stored once; what says "ok" is stored; a turn that rests has nothing pending; a closed round writes nothing |
| voice session | an interrupt reaches the session of the round it closed, and no other; every iteration closes the session it opened |
| voice loop's lives | a stopped loop has no thread, and a restarted one begins where the other ended |
| wake pipeline, ear | the microphone has one owner; a sleeping loop can be woken; a word starts one conversation; who speaks long enough is heard from the first frame |
| engagement | the file follows the conversation whatever fails; the head rests when nobody is talked to |
| speech | the gate is closed while a reply is dispatched, and opens again; a reply is that of its text and whole |
| head tracking | what planner and neck believe about the head is so; steps are small; a lost target brings the head home |
| target lock, scenes | the target, the tracks' identities and the attention do not change without a cause; who was told of a target is told of its loss |
| activities | nothing unasked beyond caps, cooldowns and the quiet time, nor before the time announced |
| memory policy | what is recalled keeps to its lane; what is kept is eligible; one candidate per window |
| reports | what two parts say of one thing agrees; an error has a reason; nothing healthy without evidence |

## 2. What can go wrong

`PROJECT.json` "hazards" lists 40 places, each at its line, with the properties
that would notice. In short:

* a barge-in between a check and what it guards: `commit_stable_decision`
  (`turn.py:258`), the dispatch of a reply (`voice_dialogue_loop.py:1872`), any
  call of a session (`realtime_voice.py:255`), the direct write of a memory
  (`cognitive_runtime/app.py:202`), the neck's command interval
  (`neck_control.py:125`);
* a belief that is stale when used: the planner's angle (`app.py:763`), the
  neck's last command after a motor call that failed, the loop's idea of the
  engagement file after a restart, the detections of a vision service that died,
  a display recomputed from a lock that was released;
* a step of several that fails: an engagement write, a stop of speech, a start of
  the microphone, a write to memory whose answer is lost or which raises after it
  has arrived, a recentering noted as done before it is tried;
* events that come late, twice or without ids (voice runtime), or are dropped by a
  window and not made up for (vision events);
* a join that times out and leaves its thread running on a stop event that the
  next start clears;
* two counters of the same thing with limits of their own: frames of a window,
  misses of a target, emissions and what is remembered of them;
* a queue that nobody drains while a conversation goes on.

Each module took the hazards of its part as the list of its properties.

## 3. The modules

State machines that a run explores:

| module | what it is | extends |
|---|---|---|
| `Rounds` | abstract specification: what the round protocol promises | |
| `TurnManager` | turn manager, interruption controller, arbiter, scheduler; one call at a time; implements `Rounds` | |
| `VoiceBridge` | the voice runtime bridge: late, repeated and untagged events | `TurnManager` |
| `StaleRounds` | turn manager and scheduler taken apart against a barge-in from another thread, inside an iteration of the voice loop | |
| `VoiceSessions` | the sessions of the loop, against the same barge-in | |
| `MemoryLoop` | what a round remembers, on its two ways to the server | |
| `LoopLives` | start, stop and join of the voice loop | |
| `WakePipeline` | ring, capture thread, detector threads, queue, and the loop that sleeps and talks | |
| `VadCapture` | one window of the ear and its endpoint policy | |
| `Engagement` | the file, its writer, its reader, and the lives of the process | |
| `Speech` | gate, mouth, driver; one reply at a time against stops | |
| `HeadTracking` | planner, neck policy, neck organ, motor; two threads | |
| `TargetLock`, `VisionFeed` | which face is looked at; what is told of it through the dedupe window | the second the first |
| `VisualFollow` | vision service, state file, eye cache, visual loop, display | |
| `SceneTracks` | tracks and attention of the realtime scene | |
| `Proactive` | caps, cooldowns and quiet time of unasked activities | |
| `MCParts` | `VoiceBridge`, `SceneTracks`, `Proactive`, `VadCapture` and `LoopLives` in one run | all five |

Functions and smaller machines, about which theorems speak and no run; the
theorems hold for every input, which no bound of a run would give:

| module | what it is |
|---|---|
| `Health` | capabilities, degradation mode, fallback policy |
| `EarSharing` | heartbeats of the ear and the two recorders of one microphone; what a window makes of the ear's health |
| `Workers` | children that recognise and detect, their files, the eye's overlapping heartbeats |
| `SpeechCache` | audio files of the replies, over any number of speak commands |
| `Reasoning`, `Mood` | hints, decision and plan of a round; emotional guidance and persona guard |
| `Router` | one prompt to a reply, the gateway's conversation in frames |
| `MemoryPolicy`, `VisualMemory`, `Feedback` | what is recalled from where, what an event is remembered as; what a frame leaves; what is recorded of actions |
| `SceneGraph`, `VoiceContext`, `WorldScene` | objects, relations and changes of a scene; what the voice chain is told of it; which scenes are written |
| `Heads`, `Protocol` | the registry of heads; events, their ids and numbers |
| `Console` | the judgement of a status report |
| `VoiceStream` | one session with the adapter that feeds it the events of a voice stream |
| `Recalls` | what one turn keeps of its memories, refers to, and tells of them in its traces |

Proof modules:

| module | proves about |
|---|---|
| `TurnManager_proofs` | `TurnManager` and its refinement of `Rounds` |
| `VoiceLoop_proofs` | `StaleRounds`, `LoopLives`, `Engagement`, `Recalls` |
| `Listening_proofs` | `VoiceSessions`, `WakePipeline`, `VoiceStream` |
| `Iteration_proofs` | `Speech`, `MemoryLoop` |
| `Vision_proofs` | `HeadTracking`, `VisualFollow`, `TargetLock`, `VisionFeed` |
| `Parts_proofs` | `VoiceBridge` (on `TurnManager_proofs`), `Proactive`, `SceneTracks`, `VadCapture` |
| `Policies_proofs` | the rest of the second table |

`Numbers` has the lemmas about sets of numbers that several of them
need; the first of them, that a set of naturals has a least member, stands in for
induction.

A definition preceded by "Faulty:" is a bug that the code does not have. It
stands next to the definition it would replace, is used by no specification, and
shows that a property can fail (`PROJECT.json` "mutants").

### Rounds and TurnManager

`Rounds` knows three things of every round: how it ended, how many there are, how
many contributions each accepted. `TurnManager` has one variable, the manager,
with the fields of `RealtimeTurnManager`; a turn keeps of `TurnBlackboard` what
tells turns apart (state, token, the reason it was cancelled for, counts of
hypotheses and decisions, the last decision's round, the status of its plan, the
verdict). Actions are the calls of the voice loop and of the scheduler, under any
pair of ids a caller may hold: those of any round issued so far, mixed up, or
none. `ImplementsRounds` is the refinement: a round's fate is read off its
turn's state, its contributions are hypotheses and decisions.

### VoiceBridge

The voice runtime is outside this code and promises nothing: an event that was
sent stays deliverable for ever, and delivering it takes nothing away, which is
late, repeated, reordered and lost at once. Transcripts and interrupts are applied
to whatever round is current; speech is compared with the ids it carries, each of
which may be missing. An utterance is known by the round that was current when it
was said, so that `RepliesStayInTheirRound` can compare a reply with the round it
is played in.

### StaleRounds

A turn is identified by its token. (Two overlapping `start_round` calls may give
two turns the same `round_id`; every check compares the token too.) The voice loop
and `request_interrupt` are two threads with a `pc` each. What the loop does
without the lock is split at every read and write of the manager: `decide()` has
eight steps, the gate three, the dispatch one. What runs under the lock on the
loop's side is one step, as the interrupt waits for it; the interrupt is split at
every write, as `decide()` does not wait for it. The loop itself calls
`request_interrupt` too, when it hears somebody during the tail of a playback
(`voice_dialogue_loop.py:1186`); any other thread may, as it is public and guarded
by the lock, and `tests/body/test_voice_dialogue_loop.py:198` does.

### VoiceSessions

One session per iteration, opened for its round and then installed
(`_start_realtime_session`). Every operation checks the ids (`CheckIds`) and then
writes (`Write`), with the other thread in between. `todo` is what the loop has
still to do in the iteration: the order in which `_run` calls the session for a
transcript of each kind (`Path`). Errors of the body or of the cognition are
`Raise`, and go to the handler that fails whatever session is installed without
ids. The turn manager is reduced to which round is live.

### MemoryLoop

An utterance is which markers it has. On an explicit request the cognitive runtime
writes directly, before anybody asks whether the round is live; the scheduler
proposes in `decide()` and commits at the end. A write is stored and answered,
refused, stored with its answer lost, or raises before or after it was stored; the
adapter keeps the status of its last call, and that is what the trace reads. A
barge-in comes between any two steps but those of `_finalize_asr`, and a caller
from outside may observe a partial, propose, commit or decide too (`calls`).

### LoopLives

`start` clears the event that `stop` has set, and `stop` forgets a thread that
outlives its join of three seconds (a reply may take a minute). `threads` is all
of them, `handle` the one the object still knows; whether somebody talks to the
robot survives both calls.

### WakePipeline

A chunk is the number of the wake word in it, or 0. The ring, its sequence number
and the detector's `_last_sequence` are the code's. The detector takes its
snapshot and compares sequence numbers in one step (the ring is locked); the
recogniser takes as long as it likes, hears a word or does not, or raises. The
pause joins for two seconds: a detector that is still decoding by then is given up
and stays alive, and finds the shared stop event cleared by the next start. The
capture thread is always joined: a read takes a frame's time, and stopping the
source ends one that hangs. A start of the microphone may raise
(`_resume_realtime_wake_source` notes the error and goes on).

### VadCapture

A window frame by frame: silent, faint or voice. The loop counts the frames of one
burst, the policy all the voice so far, each with limits of its own; the pre-roll
is kept until the capture is triggered. `SpeechIsKept` says which sound must be
among what is captured, with and without a policy, and that it is then decoded.

### Engagement

Crash, stop and restart are actions; the file survives them. The write and the
belief that follows it are one step, because nobody else writes and `stop()`
joins the loop first.

### Speech

The gate is the busy deadline, as open, a tail of 0.75 s or two minutes. The two
minutes never run out during a call: the longest driver call is a minute. The two
calls that stop speech, `BodyRuntimeApp.request_voice_interrupt` and
`VoiceDialogueLoop.request_interrupt`, take the same way to the driver and differ
in what they do with its answer. Every stop may or may not reach the playback: the
command driver of this tree ignores the operation, an HTTP backend may not. A
command that is killed for its time leaves the player it started behind
(`OrphanEnds`).

### HeadTracking

Three controllers on top of each other and two threads. `NeckPolicy.decide` checks
(`Pass`) and commits (`Commit`) in two steps; the motor call is a third, and may
fail or raise with or without having moved the head. How far a pan goes is left
open between one and its limit. `NeckFusionPolicy`'s cooldown is left out: it is
asked for only with an error beyond the threshold, and holds only within it.

### TargetLock and VisionFeed

A candidate keeps its track number; whether its face is recognised may change with
every frame, and with it the key under which the selector remembers since when it
has seen it. Scores, distances and times are small integers, as all the code asks
is whether one beats another by the hysteresis, whether something is within reach
and how long ago it was. `VisionFeed` gives every result to the event shaper, which
drops what repeats within its window, and keeps what a consumer was told last.

### VisualFollow

From camera to display over what each place still holds: the service's result
slot, the state file, the eye's cache, the visual loop's misses (two counters) and
lock, and the mode that the voice loop recomputes from the lock. In view is nobody,
somebody the detector doubts, or somebody it is sure of. The service may die and
come back with its file as it was.

### SceneTracks and Proactive

`SceneTracks` is the greedy matching of detections to tracks by distance, the
deletion of tracks after too many misses, and the attention that moves only to a
track that wins a number of frames in a row. Objects are told from tracks, so that
`IdentitiesStick` can say that they keep together, as long as they move slowly (what
an object moves in the frames that a track may miss, and one more, is within the
match distance) and keep apart (by more than twice that distance); `steady` is the
history of whether they have. `Proactive` is the answer of the manager to a
situation, with emissions pruned as it goes; `emitted` is the history that it has
forgotten, over which `WithinLimits` is stated. An emission is numbered, so that a
set of them tells two of one moment apart.

### VoiceStream

The session has one variable with its fields, and one action for each of its
methods, under any ids a caller may hold or none: a call that names nothing is let
in at any time, which is why some properties are stated for rounds whose callers
do (`tagged`). The adapter takes an event of the stream to the call it makes, and
counts signals and traces; one that the session refuses is counted nowhere but in
the history `refused`. `VoiceSessions` has many sessions and two threads, and of a
session only its phase and ids.

### Recalls

A turn's candidates by the name that the merges compare (an id, or else the
words), the references of the decision, and the traces, in the order in which the
scheduler calls the orchestrator. `memory_refs` carry ids only, so that a recall
whose id is not its record's is referred to but never marked as used; without
references every recall is marked as used, and then those that were filtered are
marked again. `twin` is a proposal in the words of another candidate, which a merge
leaves in the turn beside it. The order in which a commit takes the candidates is
any; `MemoryLoop` has it, with the rounds and what reaches the server.

### Policies about the body: Health, EarSharing, Workers, SpeechCache

`Health` is a function of a snapshot of the organs. `EarSharing` has the threads
that ask for a heartbeat, the organ's lock, the file lock with its timeout and the
voice loop, and then, as functions, what one window makes of the ear. `Workers`
has the temporary files of a transcription as a machine (`WorkSpec`), overlapping
heartbeats of the eye over one frame file as another (`LookSpec`), and what each
fault of a child is reported as. `SpeechCache` has any number of speak commands
that write a temporary file and move it, fail, or are killed at any step.

### Policies about a round: Reasoning, Mood, Router

`Reasoning` takes a text as what its markers say and follows it through the fast
and the slow lane to plan and verdict. `Mood` has the tables of `emotion.py` with
their thresholds, and the guard of the persona as a machine over recalled
memories. `Router` is a call of `generate`: challenge, signature by another
process, connect, request, accepted, answered, with frames of others in between;
an error of an unexpected kind leaves what was noted of the call before.

### Policies about memory: MemoryPolicy, VisualMemory, Feedback

Allowed and blocked sources of a recall, class and eligibility of an event, bucket
of a proposal; the candidate that a frame leaves, with the dedupe times as a
machine; the records of an action of the head and of a follow, and the parameters
they become. Texts are flags of what is looked for in them.

### Policies about what is seen: SceneGraph, VoiceContext, WorldScene

`SceneGraph` builds the objects of a frame one raw item at a time, and has the
relations of two boxes, the conversion of a raw box and the changes between scenes
as functions. `VoiceContext` says whether "this" can be resolved and how reliable a
view is. `WorldScene` is the matching of two scenes, nearest pair first, and what
is written of the change.

### Policies about reports: Heads, Protocol, Console

`Heads` is the registry, with every way a payload may name its node. `Protocol` has
which handler an event goes to, its ids, round and number, and the conversion of a
scheduler's snapshot as a machine of stages. `Console` has what becomes a reason
for "degraded", the annotated ear, and the merge of memory traces as a machine.

## 4. The runs

| run | states | asks |
|---|---|---|
| `turn_manager` | 13 009 | `OneLiveRound`, `ClosedForOneReason`, `ClosedRoundsAreFrozen`, and that `Rounds` is implemented (`ImplementsRounds`) |
| `stale_rounds` | 58 586 | what an interrupt at any point can do: decisions go astray only on rounds an interrupt began, and rounds that `decide()` starts beside it stay empty (`StraysAreContained`); a stray is never approved (`ApprovedHasItsDecision`); a round closed before the last check is silent (`ClosedBeforeLastCheckIsSilent`); both threads come to an end (`ThreadsEnd`) |
| `voice_sessions` | 39 158 | only the session of the interrupted turn is interrupted (`InterruptedTurnFirst`); only a blocked plan leaves a session open (`OpenOnlyIfBlocked`); an interrupt, however early, closes its session in the end (`InterruptReachesSession`) |
| `memory_loop` | 301 353 | a proposal is stored twice only by a write that raised (`StoredOnce`); an item that says "ok" is on the server (`OkItemsAreStored`); at rest only such a write is pending (`RestMeansSettled`); the scheduler writes nothing for a round that was closed before it looked (`ClosedRoundsStaySilent`) |
| `wake_pipeline` | 136 137 | `MicrophoneIsFree` during a conversation; a sleeping loop is heard (`AsleepIsHeard`); `OnlyLeftoversWakeAgain`; what was heard is taken (`HeardIsTaken`) |
| `engagement` | 1 845 | `WriterKnowsFile`, `FileFollowsConversation`, `HeadComesToRest` |
| `speech` | 7 572 | only an interrupt opens the gate of a reply (`GateCoversReply`); it opens in the end (`GateOpens`); a mouth that is busy at rest has a cause (`BusyAtRestHasACause`) |
| `head_tracking` | 529 139 | when the beliefs of neck and planner are true (`NeckKnowsHead`, `PlannerKnowsHead`), and that steps are small then (`StepsAreSmall`) |
| `vision_feed` | 49 127 | the target changes only for one that has earned it (`SwitchIsEarned`); what a consumer was told agrees with the lock, but for named losses in one window (`ConsumerKnowsLock`) |
| `visual_follow` | 54 648 | a head that is home has no lock (`LockedHeadStays`); who left, or whom nobody talks to, is forgotten (`ForgottenInTheEnd`); who stays is looked at (`SeenInTheEnd`) |
| `parts` | 155 163 | five components one at a time: `RepliesStayInTheirRound` (bridge), `IdentitiesStick` and `AttentionIsEarned` (scene), `WithinLimits` and `AnnouncedIsKept` (activities), `SpeechIsKept` (ear), `LivesAreSeparate` (lives of the loop) |
| `stale_commit` | violated | see section 5 |

Every invariant and action property of the passing runs is also a theorem
(section 6). The type invariants are parts of the inductive invariants there, and
are not checked again by the runs.

### Bounds

* **Rounds, listens, interrupts.** Three rounds are one that is closed, one that
  is live and one whose ids are mixed up with theirs. Three listens and two
  interrupts: one that overlaps another round's `decide()`, and one that comes after
  what the first left behind. `voice_sessions` has four rounds, as an interrupt uses
  one up, and one error, as the handler is the same for all. The bridge has two
  rounds, the one an event was made for and the one it is late in.
* **Memory.** Two rounds (the second begins while the first is being written) and
  two calls from outside: a late partial, a proposal, a commit, or a second
  `decide()` of the round.
* **Wake words.** Two words, six chunks, a ring of four and a look-back of two: a
  word can be in the look-back, in the ring only, gone, queued twice, and held by a
  detector that was given up. One join that times out gives two live detectors.
* **A window of sound.** Seven frames with a pre-roll of two, a voice of two, an
  end of two and a minimum of three: a burst can be too short, begin inside the
  pre-roll, follow a dropped one, or touch the last frame.
* **Failures and restarts.** Three of each in `engagement`: the retry of a retry
  is a new state, the next one is not. The loop is started three times, with one
  join given up.
* **Replies and stops.** Two each: a stop of the first reply may answer during the
  second.
* **Angles.** Four, with the home angle inside and steps of one; intervals of two
  ticks, so that a command is held back once and then not.
* **Targets.** Two tracks at two places, hysteresis, age and timeout of one and
  pauses of one: each comparison comes out both ways. A dedupe window of four
  frames holds a loss, a find and a loss. Three misses for each of the two counters
  of `visual_follow`, as the code's second limit is reached after the first.
* **Scenes.** Two objects on three places, of which one is out of reach, one miss,
  a cooldown of two, three tracks: a crossing, a return within and after the miss, a
  newcomer that wins once and twice.
* **Activities.** A cooldown longer than its cap's window, caps of one and two, and
  a quiet time of two within four ticks: pruning happens before every limit expires.

The bounds of these models are bounds on how often something happens and on
sizes; section 6 removes them where it can.

### Fairness

Weak fairness of the loops' own steps: the interpreter schedules a thread that can
run. Driver calls end, with a result or at their timeout, and the 0.75 s of the
tail pass; a recogniser answers in the end. Nobody is obliged to speak, to
interrupt, to say the sleep word or to end the process; a failure may happen but
only a bounded number of times.

* `stale_rounds`: the loop, and an interrupt that has begun.
* `voice_sessions`: the loop, and the check and the write of a barge-in.
* `wake_pipeline`: capture thread, loop and each detector.
* `engagement`: start, the idle iteration, both writes and the visual loop.
  `HeadComesToRest` uses that a write or a pause is tried again at every idle
  iteration.
* `speech`: a reply, its tail, what an orphaned player still says, a stop.
* `visual_follow`: weak fairness of the visual loop, of the cache's expiry, of the
  voice loop's writes and of the service's restart. Strong fairness of the service's
  look, of a detection while the detector runs, and of locking on: each is repeated
  at its interval for as long as it can be, but a look may be interrupted by a
  restart and a lock by a miss.

Runs without liveness use a specification without fairness. Deadlock is checked
where the system runs on for ever or has a last step of its own (`Done`, `Deaf`);
`memory_loop` and `parts` stop when their bounds are used up, and do not check it.

## 5. Where the code and its documents disagree

| run | what happens | what is promised |
|---|---|---|
| `stale_commit` | `commit_stable_decision` checks the ids and then reads the current turn again; an interrupt in between puts the cancelled round's decision on the new round | "Ensure cancelled old rounds cannot commit new stable decisions." (`docs/superpowers/plans/2026-05-05-realtime-cognitive-scheduler.md:90`) |

What is wrong in it is bounded by `StraysAreContained` and
`ApprovedHasItsDecision`: a stray decision lands only where an interrupt has just
begun a round, and is never approved.

Seen while modelling. These are not runs: the properties of the passing runs and
the theorems are stated so that they hold beside them.

*Rounds and speech*

* The last check and the dispatch are two steps: a reply may be dispatched after
  its round was interrupted (`voice_dialogue_loop.py:1872`, against
  `arbiter.py:11`); its round was closed after the last check, says
  `ClosedBeforeLastCheckIsSilent`.
* `decide()` writes the action plan again after the commit and undoes an
  interrupt's cancellation of it (`scheduler.py:239`).
* The command driver answers "ok" for a stop it ignores (`device_ops.py:126`,
  against `docs/realtime-cognitive-scheduler-audit.md:106`); a stop that the driver
  reports as failed is answered with the default "ok" and opens the gate
  (`organs/mouth/organ.py:171`, against
  `tests/body/test_body_runtime_voice_realtime.py:362`).
* A session that was accepted before a barge-in writes its phase over "barge_in"
  (the interrupted flag stays); the error handler, without ids, may mark a
  completed session as failed (`voice_dialogue_loop.py:1943`); the microfeedback
  may be `None` when it is read the second time (`:1594`).
* The sleep word followed by more text keeps the conversation active (`:1732`).
* A plain final text takes the best hypothesis as the decision itself: a partial
  with an action marker that the recogniser took back decides an unmarked final
  (`slow.py:188`).
* Bridge: speech without ids is played once the new round has a transcript
  (`voice_runtime_bridge.py:387`); a repeated interrupt closes the new round (`:219`).
* Activities: the quota is used when something is proposed, not when it is done, and
  a refusal names only the first limit that blocks (`activity.py:290`).
* Emotion: an angry or stressed face makes the style tone gentle and the strategy
  tone warm. `EmotionContextBuilder` and `PersonaRuntime.shape_reply` are used by
  tests only, and the latter's tone looks at a flat mood only.

*Audio*

* A wake word is queued by every poll that sees it, and neither ring nor queue is
  cleared for a conversation, so after the sleep word it may wake the loop again
  (`realtime_audio.py:309`, `:337`; `OnlyLeftoversWakeAgain` says how far this goes).
  A resume that raises leaves the loop asleep and deaf (`voice_dialogue_loop.py:382`).
* A voice burst shorter than the minimum is dropped, and one that starts with the
  last frame counts as a miss (`ear_stream.py:126`); an `arecord` that hangs holds
  the capture lock without a limit (`:113`); `last_vad_triggered` is stale after a
  lock timeout (`:175`).
* Ear: a microphone that is gone is degraded, never unavailable
  (`organs/ear/organ.py:349`), and a quiet one is degraded too;
  `transcribe_audio_window` resets the cached heartbeat without the lock while
  `heartbeat` reads it twice (`app.py:286`, `organ.py:40`, `:46`).
* Speech cache: a second speaker of a text whose answer is blank replaces the good
  file (`runtime_linux.py:396`); a missing key refuses before the cache is looked at
  (`:240`); a failed write or a kill leaves a temporary file (`:402`).
* Recogniser children: samples whose own write fails stay behind (`:1151`,
  `:1255`).

*Head, eye and scene*

* The planner's rate limit is forgotten by the first frame that holds
  (`neck_fusion.py:245`); a command of the same angle as one whose motor call failed
  is left out (`neck_control.py:123`); a recentering that the neck leaves out is
  noted as done (`app.py:865`, against
  `tests/body/test_body_runtime_integration.py:689`).
* A process that ends during a conversation leaves an active engagement file, the
  next one believes it inactive and the head tracks while the loop sleeps
  (`voice_dialogue_loop.py:278`, `:490`, against
  `tests/body/test_visual_tracking_loop.py:59`). `VisualTrackingLoop` never clears
  its stop event and cannot be started again.
* A target that is lost twice within a dedupe window is not reported the second time
  (`vision_events.py:421`); one missed frame hands the attention over
  (`vision_realtime.py:279`).
* Eye: a failed capture still carries the path and a current time of the frame
  (`organs/eye/organ.py:300`); a camera configured "noop" is healthy, so detection
  looks at whatever frame file is left over (`:326`); overlapping heartbeats may read
  a newer or half-written frame, and an older one may overwrite the cache (`:54-83`);
  the passive heartbeat ignores the cache's age (`:42`); a missing `ffmpeg` raises
  (`runtime_linux.py:728`).
* Detector: a fault raises in process and is an error in the fallback; anything a
  library prints makes the fallback "hailo_runtime_unavailable" (`:1121`), and it has
  no timeout (`:1114`). The sherpa helper and `compute_tracking_pan_angle` have no
  caller.
* Scene graph: the body gives no frame size, so boxes in pixels would be cut to the
  corner (`app.py:1425`); four numbers without a format are read as corners whenever
  they could be (`vision_scene_graph.py:752`).
* Voice context: the body hands on no target, and an unknown time counts as fresh.
* World scene: the first scene is written even if empty (`cognitive_runtime/app.py:522`),
  a newcomer beside others never (`scene_builder.py:62`), and two objects of a label
  in one cell share an id.

*Memory and reports*

* A write that was refused or lost says "ok" and is never tried again
  (`memory.py:554`); the summary of an outage may become a recall candidate (`:833`);
  `_last_visual_event_key` is noted before the write (`cognitive_runtime/app.py:928`).
* Policy: a request to remember a raw frame is eligible and short-lived
  (`multimodal_memory.py:880`); a rejected successor is given the reason "accepted"
  (`:635`); proposals of one batch are not compared with each other.
* Follow records: the running body only ever remembers success or failure of a
  follow, and a frame that waits or recenters is a failed one; the reason of the
  score is taken for an error, so all weigh the same (`visual_feedback.py:53`); the
  idempotency key ignores what is said (`:116`); feedback without text is one
  candidate per window and session (`visual_memory.py:395`).
* Head records: the outcome's request id outranks the action's trace id
  (`head_feedback.py:100`); parameters are built for ineligible records too (`:189`);
  a success with an error is an incident without the tag. Used by tests only.
* Router: `TimeoutExpired` of the device identity and the web socket's timeout are
  not caught (`llm_router.py:126`), and `last_status` stays that of the call before;
  a failed vision request is answered with a made-up text (`:174`).
* Heads: without a node given, a failed pull files its error under the default node
  (`head_registry.py:120`); two components of a category are merged under it, and one
  whose id is another's kind is overwritten; errors are never cleared;
  `IncompleteRead` is not wrapped (`head_client.py:125`).
* Protocol: every status report of a node has the same event id
  (`eiprotocol_bridge.py:152`), and the partials and the final of one trace share one
  (`:648`); messages have no round of their own (`:1103`); "not_required" even if
  `requiresPolicy` (`:967`); an explicit sequence of 0 or less is passed on (`:1526`);
  a memory trace under two keys is emitted twice (`:1341`); boxes and scores are
  filtered separately (`:1685`); a snapshot of a live round never reports a
  cancellation (`:491`). The bridge prefers `status`, the registry `overall_status`.
* Console: every GET, `/livez` too, builds the whole report, so that a snapshot that
  raises fails the liveness probe (`web.py:37`); an eye without a frame that knows
  nobody gives no reason, and a registered person without a frame makes the report
  degraded (`app.py:159`, `:774`); `degraded_organs` is computed before the ear is
  annotated (`:50`); parts of the ear without a status are "recent_trace" without any
  trace; "latest" is last by source, not by time.
* Kernel: a task that schedules itself again under its own name is lost
  (`scheduler.py:79`); a callback that raises blocks the later tasks of its tick
  (`:76`); a service that fails to stop leaves the earlier ones running
  (`lifecycle.py:68`).

## 6. The proofs

TLAPS checks these for every value of the constants. Assumptions are the named
ones of the modules that runs extend (`TurnAssumption`, `RaceAssumption` and so on,
which TLC evaluates): bounds are naturals; sizes, lengths and the number of rounds
positive where the code needs them so; sets of objects and tracks finite; the home
angle in the range; a quality less than a step of priority. Modules without a run
have theirs in the theorem's own hypotheses. `PROJECT.json` "theorems" lists the
results a reader should know of; the proof modules have others beside them.

**TurnManager.** The invariants are not inductive one by one. `IInv` says what a
manager in order is: the last turn is current and live with nothing wrong about
it, all others are closed. `StartRoundInOrder`, `InterruptInOrder` and
`WriteInOrder` show that the three ways to change a manager keep it so and leave
closed turns alone; every action is one of them after `_active_turn`. From that:
`TypeCorrect`, `OneLiveRoundHolds`, `ClosedForOneReasonHolds`, `DecisionsHold`,
`FrozenHolds`, and `Refinement`: `Spec` implements `Rounds`, each step mapped to a
step or a stutter. `DecisionsHold` speaks of one call at a time, and no run repeats
it: with two threads it is false (section 5).

**VoiceBridge** builds on that proof, as every event is a call of the manager.
Speech without ids is let through by what the current round has heard or decided,
so `BridgeInv` adds that a round has heard or decided only what landed in it.
Theorem: `RepliesStay`.

**StaleRounds** (`VoiceLoop_proofs`, first part). With the reads and writes of two
threads interleaved, what a decision may land on depends on which round is current
while `decide()` writes, and that on how far the interrupt is. `RaceInv` has four
parts: who holds the lock and what each thread's variables refer to
(`LocalsInOrder`); a listening round is live only while it is current, and a round
that `decide()` starts is never written to (`Strays`); between the start of a round
and its becoming current the round before it is closed, or is an empty one of the
same kind, and a decision about to be appended finds its own round or an empty one
of an interrupt (`Installs`); between the commit and the gate the loop's round holds
its decision as long as it is current (`Approvals`). There is one lemma per action.
Theorems: `StraysContained`, `ApprovedDecided`, and `SilentOnceClosed` for the
action property. The bounds on turns and interrupts are not used.

**LoopLives** (second part). `LeftBehind` counts the living threads other than the
one the object knows; `SourceInStep` says, for a history without a join given up,
what the wake source does at each place of the caller and of the thread. Theorem:
`LivesSeparate`, for any number of restarts.

**Engagement** (third part). `BeliefInStep` says what the loop believes at each
place of an iteration when nothing has failed; with it `WriterKnows` and
`FileFollows` are inductive.

**VoiceSessions.** A call of a session is two steps. `SafetyInv` says what a call
may still do that has passed its check: a barge-in's names a turn that is
interrupted already (`TurnBeforeSession`). `EndInv` says of what is left of an
iteration that it closes the session, whatever kind of transcript it is
(`OpenForACause`).

**Speech.** A stop that failed writes back a busy it had read before, and a stop
that worked brings none with it (`StopCarriesBusy`); so a mouth that is busy after
its reply has ended has been spoilt by one (`BusyAfterEnd`). Theorems:
`TypeCorrect`, `GateCovers`, `BusyHasACause`.

**MemoryLoop.** `MemoryInv` says that a thread past the check of `decide()` is on a
round it found live (`PastTheCheck`) and that every item called "ok" was stored when
it was noted; whatever the server and the policy do, an answer "ok" comes with the
write (`OkIsStored`). Theorems: `OkMeansStored`, `ClosedStaySilent`.

`StoredOnce` and `RestMeansSettled` need more, as a turn sends a proposal again for
as long as it is pending. `OnceInv` says for each name that what is pending has been
stored by writes that raised, only (`NotYetStored`); that there is one proposal of a
name (`OneProposal`), because the dialogue is proposed in the commit that closes the
turn and in no other (`TextCloses`), and what a caller has proposed stays where it
was proposed (`CallerNoted`); that the policy never defers the dialogue
(`TextDecided`); and that a pending dialogue is ahead of the thread unless its write
has raised (`PendingAhead`). What a merge keeps of a list is proved from the
definition of the merge by the least place at which it would fail
(`Numbers!LeastNumber`). Theorems: `WritesOnce`, `SettledAtRest`.

**WakePipeline.** `IInv` adds to the types what holds between the two starts
(`StartedInOrder`), that no word is anywhere before it is spoken (`Known`), and
that a waiting pipeline holds no word that has begun a conversation but the
leftovers (`OldAreLeftover`). The heart is `NewestOnly`: after a chunk is appended
and the ring trimmed, its last part has gained no word but the new one; it is
proved from the places of the chunks, for any ring and look-back. Theorems:
`TypeCorrect`, `MicrophoneFree`, `AsleepHeard`, `LeftoversOnly`.

**HeadTracking.** What the neck and the planner believe must be carried through a
motor call that is under way: `Beliefs` says, for a thread that is past its
commit and alone, that its goal is what the neck believes and within a step of
where the head is. `NeckKnows`, `PlannerKnows`, `SmallSteps` follow, and
`TypeCorrect` says that no controller ever asks for an angle out of range.

**VisualFollow.** Two parts of the code count the frames without a face, the lock
and the loop, and they count different frames. `FollowInv` ties them: while there is
a lock, the loop's misses are no more than the lock's (a doubtful frame is a miss to
both, and only a sure one clears them), which are below the limit. Theorem:
`LockedStays`, with the hypothesis `UnlockAfter <= RecenterAfterMisses`, under which
the code runs by default (3 and 3). The second may be configured lower; then the head
goes home with a lock, as TLC finds at once.

**TargetLock, VisionFeed.** `LockInv` says that the ages the selector remembers, and
prunes, are how long each key has been in view without a break (`AgesAreSteady`).
Theorem for the action property: `SwitchEarned`. The found candidate is one of three
searches' results, and each of them can be taken for the holder (`FoundFacts`).
`FeedInv` adds that the shaper knows the lock and on whom it was (`ShaperKnows`), and
that no loss was emitted after a track's last one (`LossesNoted`).
Theorem: `ConsumerKnows`.

**SceneTracks.** While the objects move slowly and apart, a track is no farther from
its object than the frames it misses allow (`Steady`), so that a detection within
reach of a track is of its object, and no other is: the greedy order of the matches
does not matter. Theorem: `TracksStick`, for any number of objects and any distances.
For the attention, the candidate's count of frames is no more than the frames in which
it has beaten the holder (`CandidateCounts`). Theorem: `AttentionEarned`.

**Proactive.** `Remembered` says that what is pruned is older than every window that
is still looked at, `CapsKept` that every cap holds at each moment of the past, by
counting the emissions of a window before and after one more, and `Promised` that of
the time that was announced one limit is left which holds so long. Theorems:
`LimitsKept`, `PromisesKept`.

**VadCapture.** Before the trigger, the pending frames are the last ones, all voice,
and what is before them is not (`WaitsWell`); no burst so far was long enough. From
the trigger on, everything since the beginning of that burst is captured (`KeptFrom`).
The policy counts voice of its own, and more of it: it triggers no later. Theorem:
`NothingSpokenIsLost`, for any lengths.

**VoiceStream.** `StreamInv` says of a session's events that each step of a
cancellation is told once and that an ended round says nothing more if its callers
name it, and of its times that they are in order. Theorem `SessionsEndOnce`:
`ChainTellsSteps`, `NothingAfterTheEnd`, `LatenciesAreTimes`, `ClosedLoopIsWhole`,
`SignalsAreAccountedFor`.

**Recalls.** `CandidatesInv` says that a commit's candidates are in the turn for as
long as it runs and that the references are to clean ones; `TracesInv` that each trace
is `Sound`: every stage is counted as often as its set says, and every request and
proposal it names is answered, written, skipped or failed. A commit comes to no name
twice. One lemma for each thing that a trace can note. Theorem
`RecallsAreAccountedFor`: `ReplyTellsTheTruth`, `RefersToCleanMemories`,
`TracesAccount`, `OkMeansAnswered`, and that no recalled memory leaves the turn
(`MemoriesStay`).

**Policies.** `Policies_proofs` is about the second table of section 3. Where a
module is functions, the theorem is about every input:

| of | theorems |
|---|---|
| `Health` | two derivations of the mode agree (`ModesAgree`), a body that may act alone has what it takes (`AutorunHasABody`), `SilentRefusalHasNoMouth` |
| `EarSharing` | `GoneIsDegraded`, `HealthyMeansUnderstood` |
| `Workers` | `TimeoutsAreNamed`, `FacesNeedHealthyEyes`, `FaultsRaiseOnlyHere`, `DetectorsAgree`, `PreviewsNeedACamera` |
| `Reasoning` | a decision is of its round whatever the lane (`DecisionOfARound`, `LanesAgree`), `DriftIsNeverReferred`, `ExcusesStopActions` |
| `Mood` | two guidances of one feeling agree (`GuidanceAgrees`, `TonesAgreeOnStress`), `NightIsQuiet`, `ReplyIsShort` |
| `Router` | `StaleStatusMeansRaised` |
| `MemoryPolicy` | `RecallKeepsToItsLane`, `EligibleOutlives`, `EpisodesNotWritten`, `DirectWritesAreEligible` |
| `VisualMemory`, `Feedback` | `OnlyFollowing`, `ReportsAgree`, `TrainingIsOperational`; `KnownOutcomesAreKept`, `IncidentsAreTagged`, `IdsFallTogether`, `OnlyDoubtIsWithheld`, `LaterRecordsReplace`, `FramesWeighTheSame`, `CandidatesOutliveTheWindow`, `WordlessFeedbackIsOne` |
| `SceneGraph` | `RelationsMirror`, `RelationsAgree`, `BoxesAreInTheFrame`, `AppearingMirrorsDisappearing` |
| `VoiceContext`, `WorldScene` | `GroundingIsFresh`, `UngroundedIsUnreliable`, `BodyGroundsOnPersons`; `ScoreNeedsNoCap`, `NewcomersAreNotWritten` |
| `Protocol` | `NamesRouteBack`, `ReportsShareAnId`, `TracesAreRequests`, `OutcomeJoinsItsAction`, `RetriesShareTheKey`, `StatusesAgree`, `NothingElseIsDropped`, `NumbersArePositive`, `LiveSnapshotsNeverCancel` |
| `Console` | `SkippedEarFollowsLoop`, `AnnotatingTwiceChangesNothing`, `CardsAddUp`, `RegisteredPersonsAreMissed`, `BenchmarkReasonsAgree`, `EchoWordsAgree`, `OverheadIsBlamedLast`, `CountsAreOfTheRecords`, `TraceErrorsAreNamed` |

Where it is a machine, it is about every behaviour, from an inductive invariant:

| of | theorem | invariant, assumption |
|---|---|---|
| `SpeechCache` | no reply is cut short, however many commands write and die (`RepliesStayWhole`) | `CacheInv` |
| `EarSharing` | `RecordersTakeTurns`, `HeartbeatsLeaveRoom` | `EarInv`; a thread's number is not "free" |
| `Workers` | `NoFileIsLeft`, for every way a recogniser ends; `DetectionsAreNoOlder`, for a live camera | `WorkInv`, `LookInv` |
| `VisualMemory` | within a window, one candidate for one thing (`CandidatesKeepApart`) | `Window \in Nat` |
| `SceneGraph` | `SceneIdsDistinct`, `SceneIdentityKept` for raw items in any order | `GraphInv` |
| `WorldScene` | the pairs are of one label, near each other, and no more can be made (`ScenesAreMatched`) | `MatchInv`; distances are integers |
| `Mood` | memory never changes the persona (`PersonaSurvives`) | `GuardInv` |
| `Router` | a reply is to the prompt that was sent (`RepliesToThePrompt`) | the stages of a call |
| `Heads` | an update of one head leaves the others and never loses an error (`HeadsAreKept`) | `RegistryInv`; the default node is a node |
| `Protocol` | events in the order of their stages, numbered in a row (`EventsAreNumbered`) | `EventsInv` |
| `Console` | merging traces loses and repeats nothing (`TracesAreKept`) | `MergeTyped` |

**Only model-checked:** the seven liveness properties (`ThreadsEnd`,
`HeadComesToRest`, `GateOpens`, `HeardIsTaken`, `InterruptReachesSession`,
`ForgottenInTheEnd`, `SeenInTheEnd`): fairness and ENABLED are beyond the prover.

Two limits of the prover have shaped the models. The library's induction theorems
take an operator as a parameter, which no installed prover can instantiate; the
proofs go by a least counterexample instead (`LeastNumber`), and most recursions over
a list are machines that take one element per step. A fold or a filter of a sequence
is reasoned about only by what its definition says of each place.

## 7. Not modelled

* **External or pure input and output:** speech recognition, synthesis, inference,
  device files, shell commands, HTTP pages. Their outcomes are choices of the
  models.
* **Texts, scores, latencies, published state.** A text is which of its markers a
  function looks for, a score a small integer where only comparisons matter. The
  voice state that both loops write for the console without a lock is listed as a
  hazard and not modelled: it is only shown.
* **Command line tools, benchmarks, soak tests, learning loops, deployment,
  configuration:** they run once, read a report and write another.
* **Code without a caller in this tree:** the kernel (`eibrain/kernel`, only tests
  build it) and the joyinside voice protocol. What was noticed in reading them is in
  section 5. (The streaming adapter of the voice loop, which only a self test uses, is
  modelled in `VoiceStream`, as its session is the voice loop's.)
* **Shaping of what is shown:** panels and HTML of the console, the events of a
  scene that only travel to a log.

Components whose status is `partly` have their state and their decisions modelled
and such parts left out; the note of each says which.

## 8. Plan

What is left, most important first.

1. `VoiceBridge` implements `Rounds`: its events are calls of the manager, and
   their histories would have to be mapped.
2. `MemoryLoop` on `StaleRounds`: the memory writes of a round against the same
   interleavings, in place of a turn that is closed in one step.
3. `VoiceStream` with the two threads of `VoiceSessions`: its session's fields
   against a barge-in between a check and its write.
4. `Kernel`, as soon as an entry point builds it: tasks rescheduled by their
   callbacks, services that raise while they stop.
