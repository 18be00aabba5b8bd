--------------------------------- MODULE Volume ---------------------------------
(***************************************************************************)
(* The volume (MediaManager, media_play_set_volume, MediaBase and the      *)
(* spoken commands of dcl_volume_decode.cpp).  Three threads change it:    *)
(* main's with the keys, the speech service's with spoken commands, and    *)
(* that of the media with a changed voice, which is played at full volume. *)
(*                                                                         *)
(* VOLUME is what was asked for, s_volume what is believed to be set, and  *)
(* the codec is told only while it listens.  Nothing is locked but the     *)
(* codec.                                                                  *)
(***************************************************************************)
EXTENDS Integers

CONSTANTS
    MIN_VOLUME, DEFAULT_VOLUME, MAX_VOLUME,
    UNIT_VOLUME,  \* what a key adds
    MaxChanges    \* bound: changes of the player's status

VARIABLES
    VOLUME, s_volume,
    told,      \* history: what the codec was told last
    status,    \* s_media_player_status, or ENDING: playing what the codec still has
    call,      \* what each thread is about to set, and where it is
    changes,   \* changes of the status so far
    deaf       \* history: the codec did not listen when it was told last

volumeVars == <<VOLUME, s_volume, told, status, call, changes, deaf>>

Threads == {"main", "speech", "media"}
Statuses == {"IDLE", "PLAYING", "ENDING", "RECORDING", "BT"}
Nobody == [at |-> "idle", vol |-> 0]
Listens == status \in {"IDLE", "PLAYING"}

VolumeInit ==
    /\ VOLUME = MAX_VOLUME /\ s_volume = MAX_VOLUME /\ told = MAX_VOLUME
    /\ status = "IDLE" /\ changes = 0
    /\ call = [t \in Threads |-> Nobody] /\ deaf = FALSE
-----------------------------------------------------------------------------
(* MediaManager::set_volume of a volume, after it was read.                *)
SetsTo(t, vol) ==
    /\ call' = [call EXCEPT ![t] = [at |-> "set", vol |-> vol]]
    /\ UNCHANGED <<VOLUME, s_volume, told, status, changes, deaf>>
Idle(t) == call[t].at = "idle"

Least(a, b) == IF a < b THEN a ELSE b
Most(a, b) == IF a > b THEN a ELSE b
\* Without the upper end.
HigherAlways == s_volume + UNIT_VOLUME
Higher == Least(s_volume + UNIT_VOLUME, MAX_VOLUME)
\* Without the lower end.
LowerAlways == s_volume - UNIT_VOLUME
Lower == Most(s_volume - UNIT_VOLUME, MIN_VOLUME)

\* voice_up_repeat, for the one key there is on some toys: round and round.
VoiceUpRepeat(t) ==
    /\ Idle(t) /\ status # "BT"
    /\ SetsTo(t, IF s_volume < MAX_VOLUME THEN Higher ELSE MIN_VOLUME)

\* In Bluetooth the keys go to the other device, volume_down as "up", too.
VoiceUp(t) ==
    /\ Idle(t) /\ status # "BT" /\ s_volume < MAX_VOLUME
    /\ SetsTo(t, Higher)
VoiceDown(t) ==
    /\ Idle(t) /\ status # "BT" /\ s_volume > MIN_VOLUME
    /\ SetsTo(t, Lower)

\* dcl_nlp_volume_cmd_decode with a status OK and an attribute that names a
\* control; the scale that may be said with it is not used.
SpokenFixed ==
    /\ Idle("speech")
    /\ \E vol \in {DEFAULT_VOLUME, MAX_VOLUME, MIN_VOLUME} : SetsTo("speech", vol)
SpokenStep == VoiceUp("speech") \/ VoiceDown("speech")

\* yt_voice_change_play: a changed voice begins.
MagicVoice == Idle("media") /\ status # "BT" /\ SetsTo("media", MAX_VOLUME)

\* play_url, play_local, play_data, play_magic_voice: with the volume asked for.
PlayUrl ==
    /\ Idle("main") /\ status \notin {"BT", "RECORDING"}
    /\ call' = [call EXCEPT !["main"] = [at |-> "say", vol |-> VOLUME]]
    /\ UNCHANGED <<VOLUME, s_volume, told, status, changes, deaf>>
-----------------------------------------------------------------------------
\* set_volume: only VOLUME while the player records or is a loudspeaker.
SetVolume(t) ==
    /\ call[t].at = "set" /\ VOLUME' = call[t].vol
    /\ call' = [call EXCEPT ![t] =
          IF status \in {"BT", "RECORDING"} THEN Nobody ELSE [@ EXCEPT !.at = "say"]]
    /\ UNCHANGED <<s_volume, told, status, changes, deaf>>

\* media_play_set_volume. VOLUME is read again.
SayVolume(t) ==
    /\ call[t].at = "say"
    /\ s_volume' = VOLUME
    /\ call' = [call EXCEPT ![t] = IF s_volume = VOLUME THEN Nobody ELSE [@ EXCEPT !.at = "tell"]]
    /\ UNCHANGED <<VOLUME, told, status, changes, deaf>>

\* The volume that was read at the call.
TellCodecOld(t) ==
    /\ call[t].at = "tell" /\ told' = IF Listens THEN call[t].vol ELSE told
    /\ call' = [call EXCEPT ![t] = Nobody] /\ deaf' = (deaf /\ ~Listens)
    /\ UNCHANGED <<VOLUME, s_volume, status, changes>>
\* MediaBase::regulate_voice(s_volume)
TellCodec(t) ==
    /\ call[t].at = "tell" /\ call' = [call EXCEPT ![t] = Nobody]
    /\ told' = IF Listens THEN s_volume ELSE told
    /\ deaf' = ~Listens
    /\ UNCHANGED <<VOLUME, s_volume, status, changes>>
-----------------------------------------------------------------------------
\* The player goes on, whatever a thread is at.
PlayerChanges ==
    /\ changes < MaxChanges /\ changes' = changes + 1
    /\ status' \in CASE status = "IDLE" -> {"PLAYING", "RECORDING", "BT"}
                     [] status = "PLAYING" -> {"IDLE", "ENDING"}
                     [] OTHER -> {"IDLE"}
    /\ UNCHANGED <<VOLUME, s_volume, told, call, deaf>>

VolumeNext ==
    \/ VoiceUpRepeat("main") \/ VoiceUp("main") \/ VoiceDown("main") \/ PlayUrl
    \/ SpokenFixed \/ SpokenStep
    \/ MagicVoice
    \/ \E t \in Threads : SetVolume(t) \/ SayVolume(t) \/ TellCodec(t)
    \/ PlayerChanges
VolumeSpec == VolumeInit /\ [][VolumeNext]_volumeVars
-----------------------------------------------------------------------------
(* When no thread is about to set the volume, what is heard is what        *)
(* s_volume says, in spite of three threads without a lock; unless the     *)
(* codec was told while it was ending a medium or recording, which is not  *)
(* made good before the next change.  And no order of keys, commands and   *)
(* voices takes the volume out of its range.                               *)
VolumeIsHeard ==
    /\ {VOLUME, s_volume, told} \subseteq MIN_VOLUME..MAX_VOLUME
    /\ (\A t \in Threads : Idle(t)) /\ s_volume # told => deaf
-----------------------------------------------------------------------------
Volumes == MIN_VOLUME..MAX_VOLUME
VolumeInv ==
    /\ VOLUME \in Volumes /\ s_volume \in Volumes /\ told \in Volumes /\ deaf \in BOOLEAN
    /\ call \in [Threads -> {Nobody} \cup [at : {"set", "say", "tell"}, vol : Volumes]]
    \* The codec was told what is believed, or a thread is about to tell it.
    /\ s_volume # told => deaf \/ \E t \in Threads : call[t].at = "tell"
=============================================================================
