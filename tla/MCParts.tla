------------------------------- MODULE MCParts --------------------------------
(***************************************************************************)
(* Five components that share no state with each other, for one run of TLC:*)
(* a behaviour chooses one of them and takes the steps of that one, while  *)
(* the other four stay where they were.  What a component does in this run *)
(* is what it does alone.                                                  *)
(***************************************************************************)
EXTENDS VoiceBridge, LoopLives, SceneTracks, Proactive, VadCapture

VARIABLE part       \* the component that this behaviour is about

partVars == <<part, bridgeVars, sceneVars, proactiveVars, vadVars, livesVars>>

(* Two objects; three places, of which the third is out of reach of the    *)
(* others.                                                                 *)
SomeObjects == {1, 2}
SomePlaces == {0, 1, 6}
SomeSaliences == {1, 2}

(* Speaking has a cooldown that is longer than its window, one of the types*)
(* of event a limit of two, and another none.                              *)
SomeCooldowns == [speak |-> 3, visual_only |-> 0]
SomeChannelCaps == [speak |-> [limit |-> 1, window |-> 2],
                    visual_only |-> [limit |-> 1, window |-> 1]]
SomeEventCaps == [memory_nudge |-> [limit |-> 2, window |-> 3],
                  execution_follow_up |-> [limit |-> 1, window |-> 2]]

(* A long silence and something to remember, so that it depends on the     *)
(* follow-up and on whether speech is suppressed what the manager wants.   *)
SomeSituations ==
    [idle : {"speak"}, low : {FALSE}, importance : {9}, failed : {FALSE},
     followup : BOOLEAN, muted : BOOLEAN, objection : {"none", "negative", "interrupt"}]

-----------------------------------------------------------------------------
PartInit ==
    /\ part \in {"bridge", "scene", "proactive", "ear", "lives"}
    /\ BridgeInit
    /\ SceneInit /\ (part # "scene" => where = [o \in Objects |-> 0])
    /\ ProactiveInit
    /\ VadInit /\ (part # "ear" => policy.on)
    /\ LivesInit

OnlyThat(p) ==
    /\ part = p /\ part' = p
    /\ p # "bridge" => UNCHANGED bridgeVars
    /\ p # "scene" => UNCHANGED sceneVars
    /\ p # "proactive" => UNCHANGED proactiveVars
    /\ p # "ear" => UNCHANGED vadVars
    /\ p # "lives" => UNCHANGED livesVars

PartNext ==
    \/ OnlyThat("bridge") /\ BridgeNext
    \/ OnlyThat("scene") /\ SceneNext
    \/ OnlyThat("proactive") /\ ProactiveNext
    \/ OnlyThat("ear") /\ VadNext
    \/ OnlyThat("lives") /\ LivesNext

PartSpec == PartInit /\ [][PartNext]_partVars
=============================================================================
