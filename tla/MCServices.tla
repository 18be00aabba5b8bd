----------------------------- MODULE MCServices -----------------------------
(* The media that are asked for, and the samples of a song.                *)
EXTENDS Services

Medium(where, suffixes, length, first) ==
    [source |-> where, name |-> suffixes, len |-> length, front |-> first]
MCOffered ==
    { Medium("url", {"mp3"}, 8, 6), Medium("url", {}, 4, 0), Medium("url", {"m3u8", "amr"}, 3, 0),
      Medium("file", {"wav"}, 9, 2), Medium("file", {"mp3"}, 7, 5), Medium("file", {"mp3"}, 8, 6),
      Medium("data", {}, 8, 0), Medium("data", {}, 6, 0), Medium("data", {}, 4, 0),
      Medium("magic", {}, 8, 2), Medium("magic", {}, 5, 2), Medium("magic", {}, 3, 2) }
Sample(where, length) == [offset |-> where, size |-> length]
MCSamples == <<Sample(8, 2), Sample(10, 4), Sample(14, 1), Sample(16, 3)>>
=============================================================================
