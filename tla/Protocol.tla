------------------------------ MODULE Protocol ------------------------------
(***************************************************************************)
(* The bridge to the event protocol (protocol/eiprotocol_bridge.py): what  *)
(* an event is called, which id, round and sequence number it gets, and    *)
(* how a snapshot of the scheduler becomes a run of events.  Texts are     *)
(* compared as values, "" is the missing one, and the contents of events   *)
(* are the keys they have.                                                 *)
(***************************************************************************)
EXTENDS Integers, Sequences

(* _first_text                                                             *)
Or(text, other) == IF text # "" THEN text ELSE other

-----------------------------------------------------------------------------
(* _EVENT_KIND_ROUTING: kinds and names of payloads, to handlers that give *)
(* their events one name each.                                             *)
EventNames ==
    [status |-> "ei.observation.head.status.report", frame |-> "ei.observation.vision.frame",
     hypothesis |-> "ei.dialogue.fast_hypothesis", decision |-> "ei.dialogue.decision.stable",
     scene |-> "ei.observation.vision.scene", event |-> "ei.observation.vision.event",
     policy |-> "ei.memory.policy.report"]

RoutedKinds ==
    [status |-> {"head_status_report", "head_status"},
     frame |-> {"realtime_vision_frame", "vision_frame", "vision_observation"},
     hypothesis |-> {"dialogue_fast_hypothesis", "fast_hypothesis"},
     decision |-> {"dialogue_decision_stable", "stable_decision"},
     scene |-> {"vision_scene"}, event |-> {"vision_event"},
     policy |-> {"memory_policy_report"}]

Handlers == DOMAIN EventNames
Routes(kind, handler) == kind = EventNames[handler] \/ kind \in RoutedKinds[handler]

(* What a payload says of itself; token is what its handler names it by: a *)
(* node, a frame, a hypothesis, a decision, a scene, an event, a policy.   *)
(* The sequence 0 stands for one that is missing.                          *)
EventPayloads ==
    [token : STRING, trace : STRING, text : STRING, basis : STRING,
     session : STRING, round : STRING, correlation : STRING, request : STRING,
     sequence : Int, status : STRING, overall : STRING, state : STRING, health : STRING]

(* What the caller says explicitly, a sequence only if it is numbered.     *)
Givens == [event : STRING, request : STRING, numbered : BOOLEAN, sequence : Int]

(* _resolve_event_id.  An id is a text of somebody's own, or a prefix and  *)
(* a token.                                                                *)
OwnId(text) == <<"", text>>
OrId(text, id) == IF text # "" THEN OwnId(text) ELSE id
EventId(given, prefix, token) == OrId(given.event, <<prefix, Or(token, prefix)>>)

(* _positive_sequence and _resolve_sequence                                *)
Positive(n) == IF n > 0 THEN n ELSE 1
PayloadSequence(p, given) == IF given.numbered THEN given.sequence ELSE Positive(p.sequence)
MessageSequence(given) == IF given.numbered THEN Positive(given.sequence) ELSE 1

(* The envelope of a payload whose handler reads neither a request nor     *)
(* leaves out what the payload says of its session and round.              *)
Envelope(name, id, p, given) ==
    [name |-> name, id |-> id, request |-> OrId(given.request, OrId(p.trace, id)),
     sequence |-> PayloadSequence(p, given), session |-> p.session, round |-> p.round,
     correlation |-> p.correlation, trace |-> p.trace]

StatusEvent(p, given) ==
    [Envelope(EventNames.status, EventId(given, "head_status_report", Or(p.token, "honjia")), p, given)
        EXCEPT !.session = "", !.round = "", !.correlation = ""]

VisionFrameEvent(p, given) ==
    Envelope(EventNames.frame, EventId(given, "realtime_vision_frame", Or(p.token, "frame")), p, given)

HypothesisEvent(p, given) ==
    [Envelope(EventNames.hypothesis,
              EventId(given, "dialogue_fast_hypothesis", Or(p.token, Or(p.trace, p.text))), p, given)
        EXCEPT !.correlation = Or(p.correlation, p.basis)]

DecisionEvent(p, given) ==
    Envelope(EventNames.decision,
             EventId(given, "dialogue_stable_decision", Or(p.token, p.trace)), p, given)

(* _generic_payload_to_event                                               *)
GenericEvent(name, id, p, given) ==
    [Envelope(name, id, p, given)
        EXCEPT !.request = OrId(given.request, OrId(p.request, OrId(p.trace, id)))]

SceneEvent(p, given) ==
    [GenericEvent(EventNames.scene, EventId(given, "vision_scene", Or(p.token, "scene")), p, given)
        EXCEPT !.round = ""]

VisionEvent(p, given) ==
    [GenericEvent(EventNames.event, EventId(given, "vision_event", Or(p.token, "vision_event")), p, given)
        EXCEPT !.round = ""]

PolicyEvent(p, given) ==
    GenericEvent(EventNames.policy,
                 EventId(given, "memory_policy_report", Or(p.token, "memory_policy_report")), p, given)

(* payload_to_eiprotocol_event, once the kind has found its handler        *)
PayloadEvent(handler, p, given) ==
    CASE handler = "status" -> StatusEvent(p, given) [] handler = "frame" -> VisionFrameEvent(p, given)
      [] handler = "hypothesis" -> HypothesisEvent(p, given)
      [] handler = "decision" -> DecisionEvent(p, given)
      [] handler = "scene" -> SceneEvent(p, given) [] handler = "event" -> VisionEvent(p, given)
      [] OTHER -> PolicyEvent(p, given)

(* _status_value of an event, and _extract_status of the head registry.    *)
StatusValue(p) == Or(p.status, Or(p.overall, Or(p.state, Or(p.health, "unknown"))))
ExtractStatus(p) == Or(p.overall, Or(p.status, Or(p.state, Or(p.health, "unknown"))))

(* The payloads of no schema: their content is what is left of them        *)
(* without the keys of the envelope and the aliases of the handler, and    *)
(* then the keys that the handler sets itself.                             *)
ControlKeys ==
    {"causation_id", "correlation_id", "device_id", "event_name", "extensions", "kind", "mode",
     "name", "policy", "priority", "request_id", "round_id", "sequence", "session_id", "source",
     "target", "time", "timestamp_ms", "trace_id", "ttl_ms", "type"}

Aliases(handler) ==
    CASE handler = "scene" -> {"detections", "id", "objects", "observed_at", "relationships",
                               "scene_id", "summary"}
      [] handler = "event" -> {"event", "event_id", "event_type", "id", "observed_at", "subject",
                               "vision_event_id"}
      [] OTHER -> {"decision", "id", "policy_id", "reason", "report_id", "scope", "writebacks", "writes"}

OwnKeys(handler) ==
    CASE handler = "scene" -> {"scene_id", "observed_at", "summary", "objects", "relationships"}
      [] handler = "event" -> {"event_id", "event_type", "observed_at", "subject"}
      [] OTHER -> {"policy_id", "scope", "decision", "reason", "writes"}

AreContentKeys(content, keys, handler) ==
    \E set \in SUBSET OwnKeys(handler) :
        content = (keys \ (ControlKeys \union Aliases(handler))) \union set

-----------------------------------------------------------------------------
(* Messages of the head as objects.  They carry a session and a trace but  *)
(* no round and no number.  id is the node of a manifest, the frame of an  *)
(* observation, the action of a request and of its outcome.                *)
HeadMessages ==
    [id : STRING, trace : STRING, session : STRING, text : STRING, final : BOOLEAN,
     key : STRING, risk : STRING, requiresPolicy : BOOLEAN, outcome : STRING, success : BOOLEAN]

(* _resolve_round_id                                                       *)
MessageRound(m, id) == OrId(m.session, OrId(m.trace, id))

(* _event                                                                  *)
MessageEvent(name, id, m, given) ==
    [name |-> name, id |-> id, request |-> OrId(given.request, OrId(m.trace, id)),
     sequence |-> MessageSequence(given), session |-> m.session,
     round |-> MessageRound(m, id), trace |-> m.trace]

ManifestEvent(m, given) ==
    [MessageEvent("ei.capability.manifest.report",
                  EventId(given, "capability_manifest", Or(m.id, m.trace)), m, given)
        EXCEPT !.round = OwnId("")]

TurnEvent(m, given) ==
    MessageEvent(IF m.final THEN "ei.dialogue.asr.final" ELSE "ei.dialogue.asr.partial",
                 EventId(given, "audio_turn", Or(m.trace, m.text)), m, given)

ObservationEvent(m, given) ==
    [MessageEvent(EventNames.frame, EventId(given, "vision_observation", Or(m.id, m.trace)), m, given)
        EXCEPT !.round = OwnId("")]

(* A request carries a key of its own, or its action, and a policy that is *)
(* set whatever the request says of it.                                    *)
ActionEvent(m, given) ==
    LET id == EventId(given, "head_action", Or(m.id, m.trace))
        risk == Or(m.risk, "L1")
    IN  [envelope |-> MessageEvent("ei.action.request", id, m, given),
         action |-> m.id, idempotencyKey |-> OrId(m.key, OrId(m.id, id)),
         riskLevel |-> risk, requiresPolicy |-> m.requiresPolicy,
         policy |-> [decision |-> "not_required", riskLevel |-> risk]]

OutcomeEvent(m, given) ==
    [envelope |-> MessageEvent("ei.outcome.execution",
                               EventId(given, "execution_outcome", Or(m.id, m.trace)), m, given),
     action |-> m.id, success |-> m.success,
     outcome |-> OrId(m.outcome, IF m.id # "" THEN <<"outcome", m.id>> ELSE OwnId(Or(m.trace, "outcome")))]

-----------------------------------------------------------------------------
(* scheduler_snapshot_to_eiprotocol_events.  A snapshot has the round and  *)
(* the token of its current turn, its requests for memory (only those with *)
(* a query become events), the items of its memory traces with rounds of   *)
(* their own, and the first of raw, current and scheduler that tells of a  *)
(* cancellation.                                                           *)
SnapshotCancellations == [told : BOOLEAN, applied : BOOLEAN, round : STRING, token : STRING]

EventSnapshots ==
    [round : STRING, token : STRING, emotion : BOOLEAN, prefetches : Seq(STRING),
     memory : Seq([kind : {"recall", "write"}, tells : BOOLEAN, round : STRING]),
     plan : BOOLEAN, activity : BOOLEAN,
     raw : SnapshotCancellations, current : SnapshotCancellations, scheduler : SnapshotCancellations]

(* _first_mapping                                                          *)
CancellationOf(s) ==
    IF s.raw.told THEN s.raw ELSE IF s.current.told THEN s.current ELSE s.scheduler

(* _cancellation_is_applied, and what the event must have                  *)
IsCancellation(s) ==
    LET c == CancellationOf(s)
    IN  c.told /\ c.applied /\ c.round # "" /\ Or(c.token, s.token) # ""

(* What RealtimeCognitiveScheduler.snapshot tells of cancellations: that   *)
(* of the current turn and no other; here it is live.                      *)
IsLiveSnapshot(s) == ~s.raw.told /\ ~s.scheduler.told /\ s.current.told /\ ~s.current.applied

VARIABLES snapshot,     \* what is left of the one that is converted
          eventStage,   \* how far it is
          events,       \* the events so far
          first,        \* the number of the first
          sequence      \* the number of the next

eventVars == <<snapshot, eventStage, events, first, sequence>>

Stages == <<"emotion", "prefetch", "memory", "plan", "activity", "cancellation", "done">>

EventsInit ==
    /\ snapshot \in EventSnapshots
    /\ eventStage = 1
    /\ events = <<>>
    /\ first \in Nat \ {0}
    /\ sequence = first

EmitEvent(round) ==
    /\ events' = Append(events, [stage |-> eventStage, round |-> round, sequence |-> sequence])
    /\ sequence' = sequence + 1

EmitIf(told, round) ==
    /\ IF told THEN EmitEvent(round) ELSE UNCHANGED <<events, sequence>>
    /\ eventStage' = eventStage + 1
    /\ UNCHANGED <<snapshot, first>>

EmitEmotion == Stages[eventStage] = "emotion" /\ EmitIf(snapshot.emotion, snapshot.round)

EmitPrefetch ==
    /\ Stages[eventStage] = "prefetch" /\ snapshot.prefetches # <<>>
    /\ IF Head(snapshot.prefetches) # "" THEN EmitEvent(snapshot.round) ELSE UNCHANGED <<events, sequence>>
    /\ snapshot' = [snapshot EXCEPT !.prefetches = Tail(@)]
    /\ UNCHANGED <<eventStage, first>>

EmitMemory ==
    /\ Stages[eventStage] = "memory" /\ snapshot.memory # <<>>
    /\ LET item == Head(snapshot.memory)
       IN  IF item.tells THEN EmitEvent(Or(item.round, snapshot.round))
           ELSE UNCHANGED <<events, sequence>>
    /\ snapshot' = [snapshot EXCEPT !.memory = Tail(@)]
    /\ UNCHANGED <<eventStage, first>>

NoMore ==
    /\ \/ Stages[eventStage] = "prefetch" /\ snapshot.prefetches = <<>>
       \/ Stages[eventStage] = "memory" /\ snapshot.memory = <<>>
    /\ eventStage' = eventStage + 1
    /\ UNCHANGED <<snapshot, events, first, sequence>>

EmitPlan == Stages[eventStage] = "plan" /\ EmitIf(snapshot.plan, snapshot.round)
EmitActivity == Stages[eventStage] = "activity" /\ EmitIf(snapshot.activity, snapshot.round)

EmitCancellation ==
    Stages[eventStage] = "cancellation" /\ EmitIf(IsCancellation(snapshot), snapshot.round)

EventsNext ==
    /\ Stages[eventStage] # "done"
    /\ \/ EmitEmotion \/ EmitPrefetch \/ EmitMemory \/ NoMore
       \/ EmitPlan \/ EmitActivity \/ EmitCancellation
EventsSpec == EventsInit /\ [][EventsNext]_eventVars

=============================================================================
