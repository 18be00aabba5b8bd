------------------------------- MODULE SongQueue -------------------------------
(***************************************************************************)
(* The songs an answer has named: s_music_queue of yt_src/YTManage.cpp, a  *)
(* list (lightduer_queue_cache.c) with one cursor for all lists of the     *)
(* program, g_cur.                                                         *)
(*                                                                         *)
(* Two ways of playing meet here: the keys and the end of a song move the  *)
(* cursor round the list and leave it as it is (play_queue_v2), a song     *)
(* that cannot be played, or an answer that cannot be spoken, takes the    *)
(* first song out of it (play_queue) - also from under the cursor.  Each of *)
(* them has the lock of the list; an answer or a push that fills it anew   *)
(* has it for each song only, and resets the cursor without it.            *)
(***************************************************************************)
EXTENDS Integers, FiniteSets

CONSTANT MaxLinks   \* bound: songs of an answer; nothing in the code bounds them

VARIABLES
    songs,   \* how many songs the list has
    cur,     \* g_cur: the place of a song, Null or Freed
    asked,   \* the song the manager was told to play last, by its place, or 0
    heard,   \* history: places asked for by moving on, since the list last grew
    turns,   \* history: how often it was moved on in a row
    popped,  \* history: a song was taken out since the cursor was reset
    clearing \* how many threads have emptied the list and will reset the cursor

songVars == <<songs, cur, asked, heard, turns, popped, clearing>>
Null == 0
Freed == -1
Fillers == 2   \* threads that fill the list: the speech and the push service

SongInit ==
    /\ songs = 0 /\ cur = Null /\ asked = 0 /\ heard = {} /\ turns = 0
    /\ popped = FALSE /\ clearing = 0
-----------------------------------------------------------------------------
(* The list.                                                               *)

\* duer_qcache_pop
Pop == /\ songs' = songs - 1
       /\ cur' = IF cur = 1 THEN Freed ELSE IF cur > 1 THEN cur - 1 ELSE cur
\* duer_qcache_get_next: behind the last song the first one; a cursor that was
\* freed leads anywhere.
\* The round is one song too short.
GetNextButLast == IF cur = Freed THEN Freed .. songs
                ELSE IF cur \in {Null, songs - 1} THEN {1} ELSE {cur + 1}
GetNext == IF cur = Freed THEN Freed .. songs
           ELSE IF cur \in {Null, songs} THEN {1} ELSE {cur + 1}
\* duer_qcache_get_pre: before the first song the last one, before none none;
\* a cursor that was freed may be found again in the list.
GetPre == IF cur = Freed THEN Freed .. songs
          ELSE IF cur = 1 THEN {songs} ELSE IF cur > 1 THEN {cur - 1} ELSE {cur}
-----------------------------------------------------------------------------
(* YTManage.cpp                                                            *)

\* clear_queue: every song is taken out and freed, and without the lock the
\* cursor is reset.
Clear ==
    /\ clearing < Fillers /\ clearing' = clearing + 1
    /\ songs' = 0 /\ cur' = (IF cur = Null THEN Null ELSE Freed) /\ asked' = 0
    /\ heard' = {} /\ turns' = 0 /\ popped' = TRUE
\* The cursor stays where it was.
ResetsNothing ==
    /\ clearing > 0 /\ clearing' = clearing - 1
    /\ heard' = {} /\ turns' = 0 /\ popped' = FALSE
    /\ UNCHANGED <<songs, cur, asked>>
ResetCursor ==
    /\ clearing > 0 /\ clearing' = clearing - 1
    /\ cur' = Null /\ heard' = {} /\ turns' = 0 /\ popped' = FALSE
    /\ UNCHANGED <<songs, asked>>
\* How often it was moved on is counted anew, from where the cursor is.
CountAnew == heard' = {cur'} \ {Null, Freed} /\ turns' = Cardinality(heard')
SetMusicQueue ==
    /\ clearing < Fillers /\ songs < MaxLinks /\ songs' = songs + 1
    /\ UNCHANGED <<cur, asked, popped, clearing>> /\ CountAnew

\* play_queue_v2(1): after the name and after a song, and play_next
PlayNext ==
    /\ songs > 0 /\ cur' \in GetNext /\ asked' = cur'
    /\ heard' = heard \cup {cur'} /\ turns' = IF turns < MaxLinks THEN turns + 1 ELSE turns
    /\ UNCHANGED <<songs, popped, clearing>>
\* play_queue_v2(0): play_prev
PlayPrev ==
    /\ songs > 0 /\ cur' \in GetPre
    /\ asked' = (IF cur = Null \/ cur' = Freed THEN asked ELSE cur')
    /\ UNCHANGED <<songs, popped, clearing>> /\ CountAnew
\* play_queue: yt_media_play_failed_cb, and an answer that cannot be spoken
PlayQueue ==
    /\ songs > 0 /\ Pop /\ asked' = 1 /\ popped' = TRUE
    /\ UNCHANGED <<heard, turns, clearing>>

SongNext == Clear \/ ResetCursor \/ SetMusicQueue \/ PlayNext \/ PlayPrev \/ PlayQueue
SongSpec == SongInit /\ [][SongNext]_songVars
-----------------------------------------------------------------------------
\* While no song was taken out since the cursor was reset, it is on a song of
\* the list, or nowhere; and who goes on long enough, from the name of the songs,
\* from a song he went back to or from where he was when the last song came,
\* hears every one of them, whatever two threads fill at once.
EverySongHasItsTurn ==
    ~popped => /\ cur \in Null .. songs
               /\ turns >= songs => heard = 1 .. songs
-----------------------------------------------------------------------------
\* How many places the cursor went on since it was on place p.
Ago(p) == IF p <= cur THEN cur - p ELSE cur - p + songs
SongInv ==
    /\ songs \in 0 .. MaxLinks /\ turns \in 0 .. MaxLinks /\ cur \in Freed .. songs
    /\ asked \in Int /\ popped \in BOOLEAN /\ clearing \in 0 .. Fillers
    /\ ~popped => /\ cur # Freed
                  /\ IF turns = 0 THEN heard = {} /\ cur = Null
                     ELSE cur # Null /\ heard = {p \in 1 .. songs : Ago(p) < turns}
=============================================================================
