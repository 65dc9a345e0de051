----------------------------- MODULE LoopLives -------------------------------
(***************************************************************************)
(* The lives of the voice loop: start() and stop() of VoiceDialogueLoop    *)
(* (apps/body_runtime/voice_dialogue_loop.py) against the iterations of the*)
(* thread between them.                                                    *)
(*                                                                         *)
(* stop() sets an event, joins the thread for three seconds and forgets it,*)
(* whether it has ended or not; start() clears the event.  A thread that   *)
(* was in a long call meanwhile (a reply may take a minute) goes on with   *)
(* its iteration, and finds the event as the latest call has left it.      *)
(* Whether somebody talks to the robot survives both calls.                *)
(*                                                                         *)
(* The wake source is told to listen or not to; what comes of that is the  *)
(* subject of WakePipeline.                                                *)
(***************************************************************************)
EXTENDS Naturals, FiniteSets

CONSTANTS
    Starts,     \* bound on the threads started
    Stalls      \* bound on the joins that time out

ASSUME LivesAssumption == Starts \in Nat /\ Stalls \in Nat

VARIABLES
    owner,      \* where the caller of start() and stop() is
    stopping,   \* _stop_event
    handle,     \* _thread, 0 for None
    threads,    \* where each thread is
    talking,    \* conversation_active
    source,     \* the wake source was told to listen
    phase,      \* of the voice state: "stopped", or anything else
    givenUp     \* history: how many joins have timed out

Threads == 1..Starts
Alive == {t \in Threads : threads[t] \notin {"new", "ended"}}

LivesInit ==
    /\ owner = "stopped" /\ stopping = FALSE /\ handle = 0
    /\ threads = [t \in Threads |-> "new"]
    /\ talking = FALSE /\ source = FALSE /\ phase = "stopped" /\ givenUp = 0

-----------------------------------------------------------------------------
(* The caller *)

(* A call of start() that finds the thread alive changes nothing.          *)
Start ==
    /\ owner = "stopped" /\ handle \notin Alive
    /\ stopping' = FALSE
    /\ owner' = "startSource"
    /\ UNCHANGED <<handle, threads, talking, source, phase, givenUp>>

(* _start_realtime_wake_source                                             *)
StartSource ==
    /\ owner = "startSource"
    /\ source' = (source \/ ~ talking)
    /\ owner' = "spawn"
    /\ UNCHANGED <<stopping, handle, threads, talking, phase, givenUp>>

Spawn ==
    /\ owner = "spawn"
    /\ phase' = "running"
    /\ \E t \in Threads : /\ threads[t] = "new" /\ \A u \in Threads : u < t => threads[u] # "new"
                          /\ threads' = [threads EXCEPT ![t] = "top"] /\ handle' = t
    /\ owner' = "started"
    /\ UNCHANGED <<stopping, talking, source, givenUp>>

Stop ==
    /\ owner = "started"
    /\ stopping' = TRUE
    /\ owner' = "join"
    /\ UNCHANGED <<handle, threads, talking, source, phase, givenUp>>

(* Faulty: nobody waits.                                                   *)
JoinAtOnce ==
    /\ owner = "join"
    /\ handle' = 0
    /\ owner' = "stopSource"
    /\ UNCHANGED <<stopping, threads, talking, source, phase, givenUp>>

(* The thread has ended, or is within an iteration that takes too long.    *)
Join ==
    /\ owner = "join"
    /\ \/ handle \notin Alive /\ UNCHANGED givenUp
       \/ /\ handle \in Alive /\ threads[handle] # "top"
          /\ givenUp < Stalls /\ givenUp' = givenUp + 1
    /\ handle' = 0
    /\ owner' = "stopSource"
    /\ UNCHANGED <<stopping, threads, talking, source, phase>>

StopSource ==
    /\ owner = "stopSource"
    /\ source' = FALSE
    /\ owner' = "publish"
    /\ UNCHANGED <<stopping, handle, threads, talking, phase, givenUp>>

Publish ==
    /\ owner = "publish"
    /\ phase' = "stopped"
    /\ owner' = "stopped"
    /\ UNCHANGED <<stopping, handle, threads, talking, source, givenUp>>

-----------------------------------------------------------------------------
(* A thread *)

Goes(t, to) == threads' = [threads EXCEPT ![t] = to]

Top(t) ==
    /\ threads[t] = "top"
    /\ Goes(t, IF stopping THEN "ended" ELSE "listen")
    /\ UNCHANGED <<owner, stopping, handle, talking, source, phase, givenUp>>

(* Nothing that changes the conversation was said, or what was raised.     *)
Listen(t) ==
    /\ threads[t] = "listen"
    /\ phase' = "running"
    /\ Goes(t, "top")
    /\ UNCHANGED <<owner, stopping, handle, talking, source, givenUp>>

(* The wake word, and then _pause_realtime_wake_source; what was said after*)
(* the word is taken up in the same iteration ...                          *)
Woken(t) ==
    /\ threads[t] = "listen" /\ ~ talking
    /\ talking' = TRUE
    /\ Goes(t, "pause")
    /\ UNCHANGED <<owner, stopping, handle, source, phase, givenUp>>

Pause(t) ==
    /\ threads[t] = "pause"
    /\ source' = FALSE
    /\ Goes(t, "heard")
    /\ UNCHANGED <<owner, stopping, handle, talking, phase, givenUp>>

(* ... or the sleep word, and then _resume_realtime_wake_source ...        *)
Dismissed(t) ==
    /\ (threads[t] = "listen" /\ talking) \/ threads[t] = "heard"
    /\ talking' = FALSE
    /\ Goes(t, "resume")
    /\ UNCHANGED <<owner, stopping, handle, source, phase, givenUp>>

Resume(t) ==
    /\ threads[t] = "resume"
    /\ source' = TRUE
    /\ Goes(t, "answer")
    /\ UNCHANGED <<owner, stopping, handle, talking, phase, givenUp>>

(* ... and in the end what the robot says to it.                           *)
Answer(t) ==
    /\ threads[t] \in {"heard", "answer"}
    /\ phase' = "running"
    /\ Goes(t, "top")
    /\ UNCHANGED <<owner, stopping, handle, talking, source, givenUp>>

Iteration(t) ==
    Top(t) \/ Listen(t) \/ Woken(t) \/ Pause(t) \/ Dismissed(t) \/ Resume(t) \/ Answer(t)

LivesNext ==
    \/ Start \/ StartSource \/ Spawn \/ Stop \/ Join \/ StopSource \/ Publish
    \/ \E t \in Threads : Iteration(t)

livesVars == <<owner, stopping, handle, threads, talking, source, phase, givenUp>>

LivesSpec == LivesInit /\ [][LivesNext]_livesVars

-----------------------------------------------------------------------------
(* Properties *)

(* While no join was given up the lives of the loop are separate: a stopped*)
(* loop has no thread, has no wake source listening and says that it has    *)
(* stopped, and one that begins an iteration has the wake source on        *)
(* whenever nobody talks to it, through any number of restarts.  Only a    *)
(* join that was given up leaves a second thread (start, stop).            *)
LivesAreSeparate ==
    /\ Cardinality(Alive) <= 1 + givenUp
    /\ givenUp = 0 /\ owner = "stopped" => Alive = {} /\ ~ source /\ phase = "stopped"
    /\ givenUp = 0 /\ owner = "started" =>
          (\A t \in Alive : threads[t] = "top" => source = ~ talking)
=============================================================================
