------------------------------ MODULE Workers --------------------------------
(***************************************************************************)
(* The programs the body starts to hear and to see                         *)
(* (eibrain/body/runtime_linux.py), and what its callers make of them.     *)
(*                                                                         *)
(* Speech is recognised by a python of its own that is handed its input in *)
(* temporary files; a frame is taken by ffmpeg, which overwrites one file, *)
(* and looked at by the Hailo runtime, in the same process or in a python  *)
(* of its own.  The heartbeats of the eye may overlap: the visual loop and *)
(* the threads of the console ask for them, and nothing keeps one from the *)
(* frame of another (organs/eye/organ.py).                                 *)
(***************************************************************************)
EXTENDS Integers, FiniteSets

CONSTANTS
    Worker,         \* "whisper" or "sherpa"
    Lookers,        \* threads that ask for a heartbeat of the eye
    CameraKind,     \* "live", or "noop" for a camera that is not configured
    LookTtl         \* refresh_interval_s

VARIABLES
    workAt,         \* where one transcription is
    workFiles,      \* its temporary files on disk
    workAnswer,     \* what it returns or raises
    lookAt,         \* where each heartbeat is
    lookStamp,      \* now_ts of each heartbeat
    lookSeen,       \* when the frame was taken its detections are of, or Unseen
    shot,           \* latest.jpg: when it was written, and if all of it was
    lookCached,     \* _cached_heartbeat: its now_ts and its detections' frame
    lookClock

workvars == <<workAt, workFiles, workAnswer>>
lookvars == <<lookAt, lookStamp, lookSeen, shot, lookCached, lookClock>>

-----------------------------------------------------------------------------
(* One transcription                                                       *)

WorkerEnds == {"ok", "failed", "timeout"}

WorkInit ==
    /\ workAt = "start" /\ workFiles = {} /\ workAnswer = "none"

(* The samples are written before the try block: what goes wrong there is  *)
(* raised with the file left behind.                                       *)
CreateSamples ==
    /\ workAt = "start" /\ workAt' = "samples" /\ workFiles' = {"raw"}
    /\ UNCHANGED workAnswer
SamplesFail ==
    /\ workAt \in {"start", "samples"} /\ workAt' = "left" /\ workAnswer' = "raised"
    /\ UNCHANGED workFiles
SamplesWritten ==
    /\ workAt = "samples" /\ workAt' = "request"
    /\ UNCHANGED <<workFiles, workAnswer>>

CreateRequest ==
    /\ workAt = "request" /\ workAt' = "dump"
    /\ workFiles' = workFiles \union {"request"}
    /\ UNCHANGED workAnswer
RequestWritten ==
    /\ workAt = "dump" /\ workAt' = "child"
    /\ UNCHANGED <<workFiles, workAnswer>>

(* The child of faster-whisper writes a wav file beside the samples.       *)
WaveWritten ==
    /\ workAt = "child" /\ Worker = "whisper"
    /\ workFiles' = workFiles \union {"wav"}
    /\ UNCHANGED <<workAt, workAnswer>>

(* The child ends, or is killed after its time; only the line it printed   *)
(* on success is an answer.  Whatever else is raised passes the finally.   *)
ChildEnds(e) ==
    /\ workAt = "child" /\ workAt' = "clean1" /\ workAnswer' = e
    /\ UNCHANGED workFiles
Raises ==
    /\ workAt \in {"request", "dump", "child"}
    /\ workAt' = "clean1" /\ workAnswer' = "raised"
    /\ UNCHANGED workFiles

(* finally: one file after the other.  The wav file is whisper's.          *)
Unlink(from, file, to) ==
    /\ workAt = from /\ workAt' = to /\ workFiles' = workFiles \ {file}
    /\ UNCHANGED workAnswer
CleanUp ==
    \/ Unlink("clean1", "raw", "clean2")
    \/ Unlink("clean2", "request", IF Worker = "whisper" THEN "clean3" ELSE "done")
    \/ Unlink("clean3", "wav", "done")

(* The body is killed: nothing is cleaned up.                              *)
BodyKilled ==
    /\ workAt \notin {"done", "left", "dead"} /\ workAt' = "dead"
    /\ UNCHANGED <<workFiles, workAnswer>>

WorkNext ==
    \/ CreateSamples \/ SamplesFail \/ SamplesWritten
    \/ CreateRequest \/ RequestWritten
    \/ WaveWritten \/ (\E e \in WorkerEnds : ChildEnds(e)) \/ Raises
    \/ CleanUp \/ BodyKilled

WorkSpec == WorkInit /\ [][WorkNext]_workvars

(* The details of what is not a success, of which the first that is not    *)
(* blank is the reason: only a timeout has a reason of its own with        *)
(* faster-whisper, while sherpa names both.                                *)
ErrorWords == {"none", "stderr", "faster_whisper_timeout", "sherpa_subprocess_failed",
               "sherpa_subprocess_timeout"}
WorkerReason(end) ==
    CASE Worker = "whisper" /\ end = "timeout" -> "faster_whisper_timeout"
      [] Worker = "sherpa" /\ end = "timeout"  -> "sherpa_subprocess_timeout"
      [] Worker = "sherpa" /\ end = "failed"   -> "sherpa_subprocess_failed"
      [] OTHER -> "none"
WorkerStderr(end, printed) == IF end = "failed" /\ printed = "true" THEN "stderr" ELSE "none"

(* FasterWhisperRecognizer.transcribe: in this process if a model is there *)
(* or can be had, by the worker if not.  Its errors are raised as words.   *)
UsesWorker(model, importable) == model = "none" /\ importable = "false"
RaisedWords(end, printed) ==
    IF WorkerStderr(end, printed) # "none" THEN WorkerStderr(end, printed)
    ELSE IF WorkerReason(end) # "none" THEN WorkerReason(end)
    ELSE "faster_whisper_failed"

(* resolve_faster_whisper_model_path: a path that exists, the newest of    *)
(* the snapshots in the hub's cache, or the name as it is.                 *)
IsNewest(s, snapshots, modified) == \A o \in snapshots : modified[s] >= modified[o]
ModelPaths(name, exists, snapshots, modified) ==
    IF exists THEN {name}
    ELSE IF snapshots # {} THEN {s \in snapshots : IsNewest(s, snapshots, modified)}
    ELSE {name}
(* probe_faster_whisper *)
WhisperProbe(exists, returncode) ==
    IF exists /\ returncode = 0 THEN "healthy" ELSE "degraded"
(* probe_binary_device *)
DeviceProbe(binary, device) ==
    CASE binary /\ device   -> "healthy"
      [] ~binary /\ ~device -> "unavailable"
      [] OTHER              -> "degraded"

-----------------------------------------------------------------------------
(* Heartbeats of the eye without a vision service                          *)

Unseen == -1
NoHeartbeat == [at |-> Unseen, seen |-> Unseen]

LookInit ==
    /\ lookAt = [t \in Lookers |-> "out"]
    /\ lookStamp = [t \in Lookers |-> 0]
    /\ lookSeen = [t \in Lookers |-> Unseen]
    /\ shot = [at |-> Unseen, whole |-> "no"]
    /\ lookCached = NoHeartbeat
    /\ lookClock = 0

Goto(t, place) == lookAt' = [lookAt EXCEPT ![t] = place]
IsFreshLook == lookCached # NoHeartbeat /\ lookClock - lookCached.at < LookTtl

(* heartbeat: the cached answer changes nothing.  No lock: any thread that *)
(* finds it too old takes a frame of its own.                              *)
Look(t) ==
    /\ lookAt[t] = "out" /\ ~IsFreshLook
    /\ lookStamp' = [lookStamp EXCEPT ![t] = lookClock]
    /\ lookSeen' = [lookSeen EXCEPT ![t] = Unseen]
    /\ Goto(t, IF CameraKind = "live" THEN "opening" ELSE "detect")
    /\ UNCHANGED <<shot, lookCached, lookClock>>

(* capture_frame: ffmpeg truncates the file, then writes it.  With another *)
(* that writes, there is no telling what is in the file.                   *)
OpenShot(t) ==
    /\ lookAt[t] = "opening" /\ Goto(t, "writing")
    /\ shot' = [at |-> lookClock, whole |-> "no"]
    /\ UNCHANGED <<lookStamp, lookSeen, lookCached, lookClock>>
WriteShot(t) ==
    /\ lookAt[t] = "writing" /\ Goto(t, "detect")
    /\ \E w \in {"yes"} \union {x \in {"no"} : \E o \in Lookers \ {t} : lookAt[o] = "writing"} :
         shot' = [at |-> lookClock, whole |-> w]
    /\ UNCHANGED <<lookStamp, lookSeen, lookCached, lookClock>>
(* Its exit code, or its time is over and it is killed: the camera is not  *)
(* healthy and nothing is looked for in the frame.                         *)
ShotFails(t) ==
    /\ lookAt[t] \in {"opening", "writing"} /\ Goto(t, "report")
    /\ UNCHANGED <<lookStamp, lookSeen, shot, lookCached, lookClock>>

(* run_hailo_frame_inference reads the file that is there now.             *)
DetectInShot(t) ==
    /\ lookAt[t] = "detect" /\ Goto(t, "report")
    /\ lookSeen' = [lookSeen EXCEPT ![t] = IF shot.whole = "yes" THEN shot.at ELSE Unseen]
    /\ UNCHANGED <<lookStamp, shot, lookCached, lookClock>>
DetectFails(t) ==
    /\ lookAt[t] = "detect" /\ Goto(t, "report")
    /\ UNCHANGED <<lookStamp, lookSeen, shot, lookCached, lookClock>>
(* No ffmpeg, or the device raises: the heartbeat is not made.             *)
LookRaises(t) ==
    /\ lookAt[t] \in {"opening", "detect"} /\ Goto(t, "out")
    /\ UNCHANGED <<lookStamp, lookSeen, shot, lookCached, lookClock>>

ReportLook(t) ==
    /\ lookAt[t] = "report" /\ Goto(t, "out")
    /\ lookCached' = [at |-> lookStamp[t], seen |-> lookSeen[t]]
    /\ UNCHANGED <<lookStamp, lookSeen, shot, lookClock>>

LookTick ==
    /\ lookClock' = lookClock + 1
    /\ UNCHANGED <<lookAt, lookStamp, lookSeen, shot, lookCached>>

LookNext ==
    \/ \E t \in Lookers :
         \/ Look(t) \/ OpenShot(t) \/ WriteShot(t) \/ ShotFails(t)
         \/ DetectInShot(t) \/ DetectFails(t) \/ LookRaises(t) \/ ReportLook(t)
    \/ LookTick

LookSpec == LookInit /\ [][LookNext]_lookvars

-----------------------------------------------------------------------------
(* What one run of each program tells                                      *)

(* capture_frame: how ffmpeg ended, and if there is a file, of this        *)
(* capture or of an earlier one.                                           *)
FrameTakes == [end : {"zero", "other", "timeout", "missing"}, file : {"none", "old", "new"}]
CaptureResult(c) ==
    CASE c.end = "missing" -> "raised"
      [] c.end = "zero" /\ c.file # "none" -> "ok"
      [] OTHER -> "error"

(* run_hailo_frame_inference: its runtime, the python it falls back to,    *)
(* the model, the frame and the device; output is what libraries print.    *)
Inferences ==
    [importable : {"true", "false"}, python : {"none", "bare", "hailo"},
     model : {"good", "bad"}, image : {"none", "bad", "good"},
     device : {"good", "bad"}, chatter : {"true", "false"}]

ImageFault(i) ==
    CASE i.image = "none" /\ i.importable = "true" -> "image_load_failed"
      [] OTHER -> "image_decode_failed"

(* In the process a bad model or device raises, ...                        *)
InferredHere(i) ==
    CASE i.image = "none" -> ImageFault(i)
      [] i.image # "none" /\ i.model = "bad" -> "raised"
      [] i.image = "bad" /\ i.model = "good" -> ImageFault(i)
      [] i.image = "good" /\ i.model = "good" /\ i.device = "bad" -> "raised"
      [] OTHER -> "ok"
(* ... in the python it falls back to it is an error of the runtime, as is *)
(* an answer with anything printed before it.                              *)
InferredThere(i) ==
    CASE i.python = "none" -> "raised"
      [] i.python # "none" /\ (i.python = "bare" \/ i.model = "bad" \/ i.chatter = "true") ->
           "hailo_runtime_unavailable"
      [] i.python = "hailo" /\ i.model = "good" /\ i.chatter = "false" /\ i.image # "good" ->
           ImageFault(i)
      [] i.python = "hailo" /\ i.model = "good" /\ i.chatter = "false" /\ i.image = "good"
           /\ i.device = "bad" -> "hailo_runtime_unavailable"
      [] OTHER -> "ok"
Inferred(i) == IF i.importable = "true" THEN InferredHere(i) ELSE InferredThere(i)

(* parse_hailo_nms_output: the rows with a score that is high enough, the  *)
(* best first.  A class without a label is named by its number.            *)
Kept(rows, threshold) == {r \in rows : r.score >= threshold}
IsTopRow(r, rows, threshold) ==
    r \in Kept(rows, threshold) /\ \A o \in Kept(rows, threshold) : r.score >= o.score
RowLabel(class, labels) ==
    IF class \in DOMAIN labels THEN labels[class] ELSE <<"class", class>>
DetectionsOf(i, rows, threshold) == IF Inferred(i) = "ok" THEN Kept(rows, threshold) ELSE {}

(* run_hailo_detection: the words of rpicam say more than its exit code,   *)
(* and 124 is the timeout that was asked for.                              *)
Previews == [adding : {"true", "false"}, noCamera : {"true", "false"}, code : {0, 1, 124}]
PreviewStatus(p) ==
    CASE p.noCamera = "true" -> "degraded"
      [] p.noCamera = "false" /\ p.code = 1 -> "error"
      [] OTHER -> "ok"
PreviewReason(p) ==
    CASE p.noCamera = "true" /\ p.adding = "true"  -> "uvc_camera_not_usable_by_rpicam"
      [] p.noCamera = "true" /\ p.adding = "false" -> "rpicam_no_cameras_available"
      [] p.noCamera = "false" /\ p.code = 124      -> "timed_out_after_start"
      [] OTHER -> "none"

(* The three parts of a heartbeat.  probe is what the driver says of       *)
(* itself; it only matters when the work failed.                           *)
Unwell(probe) == IF probe = "unavailable" THEN "unavailable" ELSE "degraded"
CameraHealth(c, probe) == IF CaptureResult(c) = "ok" THEN "healthy" ELSE Unwell(probe)
DetectionHealth(c, i, camera, probe) ==
    IF CameraHealth(c, camera) # "healthy" THEN "unavailable"
    ELSE IF Inferred(i) = "ok" THEN "healthy" ELSE Unwell(probe)
LookDetections(c, i, rows, threshold) ==
    IF CaptureResult(c) = "ok" THEN DetectionsOf(i, rows, threshold) ELSE {}
FaceCandidates(c, i, rows, threshold) ==
    {r \in LookDetections(c, i, rows, threshold) : r.label = "face"}
IdentityStatus(c, i, camera, probe, rows, threshold) ==
    CASE DetectionHealth(c, i, camera, probe) # "healthy" -> "detection_unavailable"
      [] DetectionHealth(c, i, camera, probe) = "healthy"
           /\ FaceCandidates(c, i, rows, threshold) # {} -> "observing_unknown_face"
      [] OTHER -> "no_face_candidates"
IdentityHealth(c, i, camera, probe) ==
    IF DetectionHealth(c, i, camera, probe) = "healthy" THEN "healthy" ELSE "unavailable"
EyeHealth(parts) ==
    CASE parts = {"healthy"} -> "healthy"
      [] parts # {"healthy"} /\ parts \intersect {"healthy", "degraded"} # {} -> "degraded"
      [] OTHER -> "unavailable"

(* SingleFrameHailoDetector.detect_once, of the vision service             *)
DetectOnceStatus(c, i) ==
    CASE CaptureResult(c) = "raised" \/ (CaptureResult(c) = "ok" /\ Inferred(i) = "raised") -> "raised"
      [] CaptureResult(c) = "error" -> "capture_failed"
      [] CaptureResult(c) = "ok" /\ Inferred(i) = "ok" -> "ok"
      [] OTHER -> "inference_failed"
DetectOnceFinds(c, i, rows, threshold) ==
    IF DetectOnceStatus(c, i) = "ok" THEN Kept(rows, threshold) ELSE {}

=============================================================================
