------------------------------ MODULE Console ------------------------------
(***************************************************************************)
(* What the operator console makes of a snapshot of the body, a snapshot of*)
(* cognition and the recent events (operator_console/app.py), for one call *)
(* of build_status_report: the ear is annotated from the running voice     *)
(* loop and the last transcript, each part of an organ is judged by the    *)
(* data it delivers, and what is wrong anywhere becomes a reason.          *)
(* All of it is a function of its inputs but the merge of the memory       *)
(* traces, which is written as steps.  "none" is a key that is missing or  *)
(* None; flags are "true", "false" or "none"; wording, rounding and layout *)
(* are left out.  The body hands on copies of its organs, so that the      *)
(* annotation stays in the report.                                         *)
(***************************************************************************)
EXTENDS Integers, Sequences, FiniteSets

CONSTANTS ConsoleTraces  \* memory traces, compared by their content

Flag == {"true", "false", "none"}
Maybe(S) == S \union {"none"}
OrElse(value, default) == IF value # "none" THEN value ELSE default

-----------------------------------------------------------------------------
(* The ear while the voice loop runs.  The details of a part: its status,  *)
(* how long it took, when it captured ("recent" is at most 8 s ago), and   *)
(* for its other keys whether they are missing, empty or say something.    *)

PartHealths == {"healthy", "degraded", "unavailable", "unknown"}
EarParts == {"capture", "vad", "asr"}
LiveEarStatuses == {"listening", "listening_loop", "no_transcript", "short_transcript_ignored",
                    "transcribed", "below_asr_threshold", "silence"}
EarStatuses == LiveEarStatuses \union {"live_probe_skipped", "recent_trace", "error"} \union PartHealths
Evidence == {"transcript", "payload_bytes", "voice_activity", "streaming_vad", "vad_triggered"}
EarKeys == Evidence \union {"dbfs", "levels", "speech_window_summary", "listening", "loop"}
Millis == Nat \union {-1}    \* -1: no number
Captures == {"recent", "old", "none"}

EarDetails ==
    [status : Maybe(EarStatuses), elapsed : Millis, captured : Captures, keys : [EarKeys -> Flag]]
AudioTraces ==
    [asrStatus : Maybe(EarStatuses), capture : Millis, asr : Millis, decode : Millis, vad : Millis,
     captured : Captures, keys : [EarKeys -> Flag]]
Number(new, old) == IF new >= 0 THEN new ELSE old

(* The keys that a part takes from the trace where it has none itself.     *)
TakenKeys(sub) ==
    CASE sub = "capture" -> {"dbfs", "levels", "payload_bytes", "voice_activity", "streaming_vad",
                             "vad_triggered", "speech_window_summary"}
      [] sub = "asr" -> {"voice_activity", "speech_window_summary"}
      [] sub = "vad" -> {"voice_activity", "streaming_vad", "vad_triggered", "speech_window_summary"}

TraceElapsed(sub, t) ==
    CASE sub = "capture" -> t.capture
      [] sub = "asr" -> Number(t.decode, t.asr)
      [] sub = "vad" -> t.vad

(* _latest_audio_trace_details: the last final transcript, or nothing.     *)
NoAudioTrace == [asrStatus |-> "none", capture |-> -1, asr |-> -1, decode |-> -1, vad |-> -1,
                 captured |-> "none", keys |-> [k \in EarKeys |-> "none"]]

(* The status is taken over where the probe was skipped, by the recogniser *)
(* from the trace, and "recent_trace" where there is none, trace or not.   *)
AnnotatedStatus(sub, d, t) ==
    IF sub = "asr" /\ t.asrStatus # "none" THEN t.asrStatus
    ELSE IF d.status = "live_probe_skipped" THEN "listening_loop"
    ELSE OrElse(d.status, "recent_trace")

(* _annotate_live_voice_loop *)
Annotated(sub, d, t) ==
    [status |-> AnnotatedStatus(sub, d, t),
     elapsed |-> Number(TraceElapsed(sub, t), d.elapsed),
     captured |-> IF sub = "asr" /\ d.captured = "none" THEN t.captured ELSE d.captured,
     keys |-> [k \in EarKeys |->
                 IF k \in {"listening", "loop"} THEN OrElse(d.keys[k], "true")
                 ELSE IF k = "transcript" /\ sub = "asr" /\ t.keys[k] = "true" THEN "true"
                 ELSE IF k \in TakenKeys(sub) THEN OrElse(d.keys[k], t.keys[k])
                 ELSE d.keys[k]]]

EarSeen(running, sub, d, t) == IF running = "true" THEN Annotated(sub, d, t) ELSE d

-----------------------------------------------------------------------------
(* Does a part of an organ deliver data?                                   *)

EarDataStatus(status, d) ==
    IF status = "live_probe_skipped" THEN "waiting_for_data"
    ELSE IF \/ status \in LiveEarStatuses \/ d.captured = "recent"
            \/ (\E k \in Evidence : d.keys[k] = "true") \/ d.elapsed >= 0
         THEN "live" ELSE status

(* The other organs: what they have to show, "frame", "played", "planned", *)
(* "tracked", "angle" or nothing.                                          *)
DataStatus(organ, status, shows) ==
    IF status = "live_probe_skipped" THEN "waiting_for_data"
    ELSE CASE organ = "eye" -> IF "frame" \in shows THEN "live" ELSE "waiting_for_frame"
           [] organ = "mouth" -> IF "played" \in shows THEN "played"
                                 ELSE IF "planned" \in shows THEN "planned" ELSE "waiting_for_action"
           [] organ = "neck" -> IF shows \intersect {"tracked", "angle"} # {}
                                THEN "live" ELSE "waiting_for_target"

(* _data_health: whatever it does not know is degraded.                    *)
DataHealth(dataStatus, health) ==
    IF dataStatus \in {"live", "recent_trace", "played", "planned"} THEN "healthy"
    ELSE IF health = "unavailable" THEN "unavailable" ELSE "degraded"

(* _build_organ_cards: the entries of an organ, a set of records that name *)
(* their part, and the figures of its card.                                *)
Entries == [name : STRING, health : PartHealths, dataHealth : PartHealths \ {"unknown"}, driver : STRING]
LiveEntries(entries) == {e \in entries : e.dataHealth = "healthy"}
WaitingEntries(entries) == {e \in entries : e.dataHealth = "degraded"}
HealthyEntries(entries) == {e \in entries : e.health = "healthy"}

CardStatus(entries) ==
    IF LiveEntries(entries) # {} THEN "live"
    ELSE IF WaitingEntries(entries) # {} THEN "waiting_for_data" ELSE "no_data"
CardHealth(organ, health, entries) ==
    IF organ = "eye" /\ CardStatus(entries) = "waiting_for_data" /\ health = "healthy" THEN "waiting"
    ELSE DataHealth(CardStatus(entries), health)

(* _build_runtime_overview over the entries of all organs, and the probes  *)
(* of the same parts, by their driver.                                     *)
RuntimeOverview(entries) ==
    [subfunctions |-> Cardinality(entries),
     healthy |-> Cardinality(HealthyEntries(entries)),
     live |-> Cardinality(LiveEntries(entries)),
     waiting |-> Cardinality(WaitingEntries(entries)),
     real |-> Cardinality({e \in entries : e.driver # "noop"}),
     noop |-> Cardinality({e \in entries : e.driver = "noop"})]

(* _probe_sort_key: the worst come first, what is unknown last.            *)
ProbePriority(health) ==
    CASE health = "unavailable" -> 0 [] health = "degraded" -> 1
      [] health = "healthy" -> 2 [] OTHER -> 3

-----------------------------------------------------------------------------
VisionStatuses == PartHealths \union {"ok", "live", "sleeping"}

(* The eye: what its details, the tracking and the registry know.          *)
VisualViews ==
    [frame : Flag, detections : Flag, candidates : Flag, registered : Flag,
     registeredTarget : Flag, detectionService : Maybe(VisionStatuses),
     cameraService : Maybe(VisionStatuses),
     camera : VisionStatuses, detection : VisionStatuses,
     targetFps : Millis, interval : Millis, frameAge : Millis, captureAge : Millis]

VisionServiceStatus(v) == OrElse(v.detectionService, OrElse(v.cameraService, v.camera))

(* Rates in thousandths; -1 is a rate nobody gives, and each is the other's*)
(* reciprocal where only one is given.                                     *)
Reciprocal(x) == 1000000 \div x
TargetFps(v) == IF v.targetFps < 0 /\ v.interval > 0 THEN Reciprocal(v.interval) ELSE v.targetFps
LoopInterval(v) == IF v.interval < 0 /\ TargetFps(v) > 0 THEN Reciprocal(TargetFps(v)) ELSE v.interval
FrameAge(v) == Number(v.frameAge, v.captureAge)

(* A registered person is a candidate of its own where it has a target.    *)
HasCandidates(v) ==
    v.candidates = "true" \/ (v.registered = "true" /\ v.registeredTarget = "true")

VisualDataStatus(v) ==
    IF "sleeping" \in {VisionServiceStatus(v), v.camera, v.detection} THEN "sleeping"
    ELSE IF v.frame = "true" THEN "live" ELSE "waiting_for_frame"

VisualDiagnostics(v) ==
    [enabled |-> IF v.frame = "true" \/ v.detections = "true" \/ HasCandidates(v)
                    \/ v.registered = "true" THEN "true" ELSE "false",
     dataHealth |-> IF VisualDataStatus(v) = "waiting_for_frame" THEN "waiting" ELSE "healthy",
     serviceStatus |-> VisionServiceStatus(v)]

-----------------------------------------------------------------------------
(* The voice chain: what a benchmark says of it (voice/readiness.py), the  *)
(* providers and the echo canceller.                                       *)

Benchmarks ==
    [metrics : [{"interruptStopMs", "others"} -> Flag],   \* "pass" of these
     leaks : Nat, turns : Int, streaming : Flag, interrupt : Flag]

FailedMetrics(b) == {m \in DOMAIN b.metrics : b.metrics[m] = "false"}
IsReady(b) ==
    /\ b.turns # 0 /\ b.leaks = 0 /\ FailedMetrics(b) = {}
    /\ b.streaming # "false" /\ b.interrupt # "false"

(* _summary, by what it begins with                                        *)
BenchmarkSummary(b) ==
    IF IsReady(b) THEN "ready"
    ELSE IF FailedMetrics(b) # {} THEN "not ready: metrics"
    ELSE IF b.leaks # 0 THEN "not ready: round leak"
    ELSE IF b.streaming = "false" THEN "not ready: streaming"
    ELSE IF b.interrupt = "false" THEN "not ready: interrupt stop"
    ELSE IF b.turns <= 0 THEN "not ready: no live turns" ELSE "not ready"
NotReadySummaries == {"not ready: metrics", "not ready: round leak", "not ready: streaming",
                      "not ready: interrupt stop", "not ready: no live turns", "not ready"}

(* The stop of an interrupt falls back on its metric.                      *)
InterruptStopReady(b) == OrElse(b.interrupt, b.metrics["interruptStopMs"])

ProviderReadiness(providers, configured) ==
    IF providers = {} THEN "unknown"
    ELSE IF providers \subseteq configured THEN "healthy" ELSE "degraded"

Frontends ==
    [ready : Flag, state : Maybe({"aec_unavailable", "unavailable", "missing", "warming"}),
     enabled : Flag, available : Flag]

AecReadiness(f) ==
    CASE f.ready = "true" -> "healthy"
      [] f.ready = "false" -> IF f.state \in {"aec_unavailable", "unavailable", "missing"}
                              THEN "unavailable" ELSE "waiting"
      [] f.ready = "none" -> IF f.enabled = "false" THEN "waiting"
                             ELSE CASE f.available = "true" -> "healthy"
                                    [] f.available = "false" -> "unavailable"
                                    [] OTHER -> "unknown"
AecStatus(f) ==
    IF f.state # "none" THEN f.state
    ELSE IF f.enabled = "false" THEN "disabled"
    ELSE CASE f.available = "true" -> "ready" [] f.available = "false" -> "unavailable"
           [] OTHER -> "unknown"

(* _build_audio_diagnostics, of the ear as it is reported: whatever has not*)
(* been captured or understood is filled in from the trace.                *)
IsTrace(t) == t # NoAudioTrace
CaptureStatus(d, t, health) ==
    IF IsTrace(t) /\ d.keys["dbfs"] = "none" THEN "recent_trace" ELSE OrElse(d.status, health)
AsrStatus(d, t, health) ==
    IF IsTrace(t) /\ d.keys["transcript"] # "true"
    THEN OrElse(t.asrStatus, IF t.keys["transcript"] = "true" THEN "transcribed" ELSE "no_transcript")
    ELSE OrElse(d.status, health)
HasDetails(d) == d # [status |-> "none", elapsed |-> -1, captured |-> "none",
                      keys |-> [k \in EarKeys |-> "none"]]
AudioEnabled(capture, asr, t) ==
    IF IsTrace(t) \/ HasDetails(capture) \/ HasDetails(asr) THEN "true" ELSE "false"

-----------------------------------------------------------------------------
(* The stages of the last turn of the voice loop, in ms.                   *)
TurnStages == {"listen_asr", "think", "speak"}
StageNames == <<"listen_asr", "think", "speak", "overhead">>
StageOr(stages, name) == Number(stages[name], 0)

(* _derive_stage_latency_ms, where at least one is known: -1 is unknown.   *)
Overhead(stages) ==
    LET rest == StageOr(stages, "total") - StageOr(stages, "listen_asr")
                - StageOr(stages, "think") - StageOr(stages, "speak")
    IN IF rest > 0 THEN rest ELSE 0
Derived(stages) ==
    [n \in TurnStages \union {"overhead"} |-> IF n = "overhead" THEN Overhead(stages) ELSE stages[n]]

(* _bottleneck_stage: the first of the longest, the overhead comes last.   *)
IsLongest(latency, i) ==
    /\ \A j \in 1..4 : latency[StageNames[j]] <= latency[StageNames[i]]
    /\ \A j \in 1..4 : j < i => latency[StageNames[j]] < latency[StageNames[i]]

-----------------------------------------------------------------------------
(* Memory.  _build_memory_monitor_snapshot: the traces that cognition shows*)
(* come first, then those of the body's sources one after the other, each  *)
(* unless it is there already; the count only grows.                       *)

VARIABLES
    merged,        \* merged_traces
    traceCount,    \* scheduler_count
    sources        \* the sources that are left, each its traces and count

memoryVars == <<merged, traceCount, sources>>

MemorySources == [traces : Seq(ConsoleTraces), count : Nat]

MergeInit ==
    /\ merged \in Seq(ConsoleTraces)
    /\ traceCount \in Nat
    /\ sources \in Seq(MemorySources)

Shown(traces) == {traces[i] : i \in DOMAIN traces}

MergeTrace ==
    /\ sources # <<>> /\ Head(sources).traces # <<>>
    /\ LET trace == Head(Head(sources).traces)
       IN merged' = IF trace \in Shown(merged) THEN merged ELSE Append(merged, trace)
    /\ sources' = <<[traces |-> Tail(Head(sources).traces), count |-> Head(sources).count]>>
                  \o Tail(sources)
    /\ UNCHANGED traceCount

FinishSource ==
    /\ sources # <<>> /\ Head(sources).traces = <<>>
    /\ traceCount' = IF Head(sources).count > traceCount THEN Head(sources).count ELSE traceCount
    /\ sources' = Tail(sources)
    /\ UNCHANGED merged

MergeNext == MergeTrace \/ FinishSource
MergeSpec == MergeInit /\ [][MergeNext]_memoryVars

(* _extract_memory_traces of the merged snapshot, whose "current" now holds*)
(* all of them: what stood beside "current" is shown once more.            *)
PanelTraces(top, all, diagnostics) == top \o all \o diagnostics
PanelCount(panel, count) == IF count > Len(panel) THEN count ELSE Len(panel)

(* _normalize_memory_trace: how many recalls, writes that were not skipped *)
(* and errors a trace lists, and how many it says there were (-1: nothing).*)
MemoryTraces ==
    [recalls : Nat, writes : Nat, errors : Nat, recallCount : Int, writeCount : Int]
TraceCount(given, listed) == Number(given, listed)
TraceStatus(t) ==
    IF t.errors > 0 THEN "error"
    ELSE IF TraceCount(t.recallCount, t.recalls) # 0 \/ TraceCount(t.writeCount, t.writes) # 0
         THEN "ok" ELSE "waiting"

(* _build_memory_diagnostics: where the parts that are shown of a recall   *)
(* come from: "snapshot", the latest "trace", or nowhere.  The records     *)
(* stand in for their sources and their count.                             *)
Recalls ==
    [records : Flag, sources : Flag, writeback : Flag,
     count : {"true", "odd", "none"},             \* "odd" is no number
     trace : Flag, traceRecords : Flag, traceSources : Flag, traceWriteback : Flag]
Origin(given, traced) ==
    IF given = "true" THEN "snapshot" ELSE IF traced = "true" THEN "trace" ELSE "none"
RecordsOrigin(r) == Origin(r.records, r.traceRecords)
SourcesOrigin(r) ==
    IF r.sources = "true" THEN "snapshot"
    ELSE IF RecordsOrigin(r) # "none" THEN RecordsOrigin(r) ELSE Origin("none", r.traceSources)
CountOrigin(r) ==
    IF r.count = "true" THEN "snapshot"
    ELSE IF r.count = "none" /\ r.trace = "true" THEN "trace" ELSE RecordsOrigin(r)
WritebackOrigin(r) == Origin(r.writeback, r.traceWriteback)

-----------------------------------------------------------------------------
(* _system_health: all the reasons there are not to call it healthy.       *)
Reason(name, condition) == IF condition THEN {name} ELSE {}
Bad == {"degraded", "unavailable", "error"}

VisionReasons(v) ==
    IF VisualDiagnostics(v).enabled # "true" THEN {}
    ELSE Reason("vision.data_health", VisualDiagnostics(v).dataHealth # "healthy")
         \union Reason("vision.service_status",
                       VisionServiceStatus(v) \notin {"ok", "healthy", "live", "sleeping"})

(* What is known of the voice chain, in the flags and diagnostics of the   *)
(* dialogue and of the ear.  summary and leaks are of its readiness; what  *)
(* no benchmark and no explicit report says is "waiting" and -1.           *)
VoiceChains ==
    [audioEnabled : Flag, enabled : Flag, running : Flag, interruptStop : Flag, leaks : Int,
     summary : NotReadySummaries \union {"ready", "waiting"},
     provider : {"unknown", "healthy", "degraded"},
     aec : {"unknown", "healthy", "waiting", "unavailable"}]
VoiceObserved(c) ==
    "true" \in {c.audioEnabled, c.enabled, c.running} \/ c.interruptStop # "none" \/ c.leaks # -1
VoiceReasons(c) ==
    IF ~VoiceObserved(c) THEN {}
    ELSE UNION {Reason("voice.live_trace", c.summary \in NotReadySummaries),
                Reason("voice.provider_readiness", c.provider \in Bad),
                Reason("audio.aec_readiness", c.aec \in Bad),
                Reason("voice.interrupt_stop_ready", c.interruptStop = "false"),
                Reason("voice.round_leak_count", c.leaks > 0)}

MemoryReasons(conflicts, latest, guardrail) ==
    UNION {Reason("memory.conflict_detected", conflicts > 0),
           Reason("memory.trace_status", TraceStatus(latest) = "error"),
           Reason("memory.trace_error_count", latest.errors > 0),
           Reason("persona.guardrail", guardrail \in {"blocked", "rejected", "degraded", "violated"})}

BodyReasons(mode, warnings, degradedOrgans) ==
    UNION {Reason("degradation_mode", mode # "normal"), warnings,
           {<<"organ", o>> : o \in degradedOrgans}}

(* The chain of a benchmark, as the diagnostics of the ear report it.      *)
OfBenchmark(c, b) ==
    [c EXCEPT !.interruptStop = InterruptStopReady(b), !.leaks = b.leaks,
              !.summary = BenchmarkSummary(b)]

(* _build_neck_control_diagnostics: where the control of the neck is found *)
NeckControl(control, bodyState, organs) ==
    IF control # "none" THEN control ELSE IF bodyState # "none" THEN bodyState ELSE organs
NeckEnabled(control, bodyState, organs, canOrient) ==
    NeckControl(control, bodyState, organs) # "none" \/ canOrient = "true"

(* _availability_payload, of a mapping with a status, an available flag or *)
(* neither.                                                                *)
PresentWords == {"ok", "ready", "available", "present", "live", "healthy", "enabled"}
WaitingWords == {"missing", "false", "unavailable", "disabled", "pending"}
Availability(status, available) ==
    LET word == IF status # "none" THEN status
                ELSE CASE available = "true" -> "present" [] available = "false" -> "waiting"
                       [] OTHER -> "none"
    IN IF word \in PresentWords THEN "present"
       ELSE IF word \in WaitingWords THEN "waiting"
       ELSE OrElse(word, "unknown")

=============================================================================
