----------------------------- MODULE SpeechCache -----------------------------
(***************************************************************************)
(* The audio files of a reply: speak_text of eibrain/body/runtime_linux.py *)
(* with the speech service (its other backend never uses the cache).       *)
(*                                                                         *)
(* Every reply is spoken by a process of its own, the speak command, which *)
(* CommandDriver kills when it runs into its timeout.  All of them share   *)
(* the cache directory, where audio is kept under a digest of everything   *)
(* that was asked for.  A file is written under a temporary name and then  *)
(* moved to its place, so that a process that is killed, or fails, halfway *)
(* leaves a temporary file behind and no broken reply in the cache.        *)
(*                                                                         *)
(* Content is what an audio file holds: the text and whether all of it is  *)
(* there.  The service may answer with audio of no bytes (blanks decode to *)
(* it); a cache file of no bytes is not a hit.                             *)
(***************************************************************************)
CONSTANTS
    Speakers,   \* speak commands, each for one reply
    Texts       \* what is asked for: the text with its voice and its format

Whole(t) == [text |-> t, is |-> "whole"]
Part(t) == [text |-> t, is |-> "part"]
Blank(t) == [text |-> t, is |-> "blank"]
None == [text |-> "none", is |-> "none"]

Contents == [text : Texts, is : {"whole", "part", "blank"}]

VARIABLES
    at,         \* where each speaker is
    wants,      \* the text of each
    answer,     \* the audio it has in memory
    cache,      \* the file of each text in the cache directory
    own,        \* the temporary file each speaker works with
    played,     \* history: what each has sent to the speaker of the robot
    mishap      \* history: who was killed or failed to write

svars == <<at, wants, answer, cache, own, played, mishap>>

Places == {"new", "asking", "caching", "writing", "moving", "saving", "filling",
           "playing", "playingOwn", "cleaning", "ended"}

CacheInit ==
    /\ at = [s \in Speakers |-> "new"]
    /\ wants \in [Speakers -> Texts]
    /\ answer = [s \in Speakers |-> None]
    /\ cache = [t \in Texts |-> None]
    /\ own = [s \in Speakers |-> None]
    /\ played = [s \in Speakers |-> None]
    /\ mishap = {}

Goes(s, place) == at' = [at EXCEPT ![s] = place]

-----------------------------------------------------------------------------
(* No key, or no format that can be played: refused, though the reply may  *)
(* be in the cache.                                                        *)
Refuse(s) ==
    /\ at[s] = "new" /\ Goes(s, "ended")
    /\ UNCHANGED <<wants, answer, cache, own, played, mishap>>

Hit(t) == cache[t].is \notin {"none", "blank"}

FromCache(s) ==
    /\ at[s] = "new" /\ Hit(wants[s]) /\ Goes(s, "playing")
    /\ UNCHANGED <<wants, answer, cache, own, played, mishap>>

Ask(s) ==
    /\ at[s] = "new" /\ ~ Hit(wants[s]) /\ Goes(s, "asking")
    /\ UNCHANGED <<wants, answer, cache, own, played, mishap>>

(* synthesize_minimax_speech: audio of all of the text, of no bytes, or an *)
(* error.  Without a cache directory the audio goes to a file of its own.  *)
Answer(s) ==
    /\ at[s] = "asking"
    /\ \E audio \in {Whole(wants[s]), Blank(wants[s])} : answer' = [answer EXCEPT ![s] = audio]
    /\ \E place \in {"caching", "saving"} : Goes(s, place)
    /\ UNCHANGED <<wants, cache, own, played, mishap>>

NoAnswer(s) ==
    /\ at[s] = "asking" /\ Goes(s, "ended")
    /\ UNCHANGED <<wants, answer, cache, own, played, mishap>>

-----------------------------------------------------------------------------
(* _write_audio_cache.  What it cannot do is made up for by a file outside *)
(* the cache.                                                              *)

Create(s) ==
    /\ at[s] = "caching" /\ Goes(s, "writing")
    /\ own' = [own EXCEPT ![s] = Blank(wants[s])]
    /\ UNCHANGED <<wants, answer, cache, played, mishap>>

Write(s) ==
    /\ at[s] = "writing" /\ Goes(s, "moving")
    /\ own' = [own EXCEPT ![s] = answer[s]]
    /\ UNCHANGED <<wants, answer, cache, played, mishap>>

(* The name of the temporary file is noted after the write: if that fails, *)
(* nobody knows the file any more and nobody removes it.                   *)
WriteFails(s) ==
    /\ at[s] \in {"caching", "writing"} /\ Goes(s, "saving")
    /\ own' = [own EXCEPT ![s] = None]
    /\ mishap' = mishap \cup {s}
    /\ UNCHANGED <<wants, answer, cache, played>>

Move(s) ==
    /\ at[s] = "moving" /\ Goes(s, "playing")
    /\ cache' = [cache EXCEPT ![wants[s]] = own[s]]
    /\ own' = [own EXCEPT ![s] = None]
    /\ UNCHANGED <<wants, answer, played, mishap>>

MoveFails(s) ==
    /\ at[s] = "moving" /\ Goes(s, "saving")
    /\ own' = [own EXCEPT ![s] = None]
    /\ mishap' = mishap \cup {s}
    /\ UNCHANGED <<wants, answer, cache, played>>

-----------------------------------------------------------------------------
(* _write_temp_audio; a failure here ends the command.                     *)

Save(s) ==
    /\ at[s] = "saving" /\ Goes(s, "filling")
    /\ own' = [own EXCEPT ![s] = Blank(wants[s])]
    /\ UNCHANGED <<wants, answer, cache, played, mishap>>

Fill(s) ==
    /\ at[s] = "filling" /\ Goes(s, "playingOwn")
    /\ own' = [own EXCEPT ![s] = answer[s]]
    /\ UNCHANGED <<wants, answer, cache, played, mishap>>

SaveFails(s) ==
    /\ at[s] \in {"saving", "filling"} /\ Goes(s, "ended")
    /\ own' = [own EXCEPT ![s] = IF at[s] = "filling" THEN Part(wants[s]) ELSE @]
    /\ mishap' = mishap \cup {s}
    /\ UNCHANGED <<wants, answer, cache, played>>

-----------------------------------------------------------------------------
(* _play_audio_file: the player opens the file, whatever it holds by then; *)
(* or it fails.                                                            *)

Play(s) ==
    /\ at[s] = "playing" /\ Goes(s, "ended")
    /\ played' \in {played, [played EXCEPT ![s] = cache[wants[s]]]}
    /\ UNCHANGED <<wants, answer, cache, own, mishap>>

PlayOwn(s) ==
    /\ at[s] = "playingOwn" /\ Goes(s, "cleaning")
    /\ played' \in {played, [played EXCEPT ![s] = own[s]]}
    /\ UNCHANGED <<wants, answer, cache, own, mishap>>

Clean(s) ==
    /\ at[s] = "cleaning" /\ Goes(s, "ended")
    /\ own' = [own EXCEPT ![s] = None]
    /\ UNCHANGED <<wants, answer, cache, played, mishap>>

(* CommandDriver.invoke: a command that runs into its timeout is killed,   *)
(* in the middle of a write if it happens so, and cleans up nothing.       *)
Kill(s) ==
    /\ at[s] \notin {"new", "ended"} /\ Goes(s, "ended")
    /\ own' = [own EXCEPT ![s] = IF at[s] \in {"writing", "filling"} THEN Part(wants[s]) ELSE @]
    /\ mishap' = mishap \cup {s}
    /\ UNCHANGED <<wants, answer, cache, played>>

CacheStep(s) ==
    \/ Refuse(s) \/ FromCache(s) \/ Ask(s) \/ Answer(s) \/ NoAnswer(s)
    \/ Create(s) \/ Write(s) \/ WriteFails(s) \/ Move(s) \/ MoveFails(s)
    \/ Save(s) \/ Fill(s) \/ SaveFails(s)
    \/ Play(s) \/ PlayOwn(s) \/ Clean(s) \/ Kill(s)

CacheNext == \E s \in Speakers : CacheStep(s)

CacheSpec == CacheInit /\ [][CacheNext]_svars

-----------------------------------------------------------------------------
(* Properties *)

Good(t) == {Whole(t), Blank(t)}

CacheTypeOK ==
    /\ at \in [Speakers -> Places] /\ wants \in [Speakers -> Texts]
    /\ answer \in [Speakers -> Contents \cup {None}]
    /\ cache \in [Texts -> Contents \cup {None}]
    /\ own \in [Speakers -> Contents \cup {None}]
    /\ played \in [Speakers -> Contents \cup {None}]
    /\ mishap \in SUBSET Speakers

(* Whoever is killed, and whatever cannot be written: the cache holds all  *)
(* of the audio of a text under that text, and no reply is another's or    *)
(* breaks off (_write_audio_cache, _minimax_audio_cache_path).             *)
RepliesAreWhole ==
    /\ \A t \in Texts : cache[t] \in Good(t) \cup {None}
    /\ \A s \in Speakers : played[s] \in Good(wants[s]) \cup {None}

(* A speaker that was not killed and could write leaves no file behind.    *)
LeftoversHaveACause ==
    \A s \in Speakers : at[s] = "ended" /\ own[s] # None => s \in mishap
=============================================================================
