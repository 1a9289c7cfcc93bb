------------------------------- MODULE AreaToc --------------------------------
(* The lists behind the header of an area's TOC: scarletbook_read_area_toc    *)
(* walks them and converts the texts of the tracks, write_cue_sheet uses the  *)
(* times, and scarletbook_close frees the texts.                              *)
(*                                                                            *)
(* A list is known by its first sector.  The text of a track is a sequence of *)
(* items, each with a type and with what it holds: "text", "controls" (text   *)
(* with characters below 0x20), "empty", or "long" (more than 255 bytes).     *)
EXTENDS Integers, Sequences

CONSTANTS AreaTocs,      \* areas: lists, items of the tracks, start and length of the tracks
          FrameRate      \* SACD_FRAME_RATE

Types == {"title", "performer"}     \* stand for the 14 types; "unknown" is none of them
Holds == {"text", "controls", "empty", "long"}
Sectors == [SACDTTxt |-> 1, SACD_IGL |-> 2, SACD_ACC |-> 32, SACDTRL1 |-> 1, SACDTRL2 |-> 1,
            other |-> 1]
Times == Nat \X Nat \X Nat           \* minutes, seconds, frames

\* What is assumed: an area has tracks, and a time for each.
Numbers ==
  /\ FrameRate \in Nat \ {0}
  /\ \A toc \in AreaTocs :
       /\ toc.size \in Nat /\ toc.lists \in Seq(DOMAIN Sectors)
       /\ toc.items \in Seq(Seq([type : Types \cup {"unknown"}, holds : Holds])) /\ toc.items # <<>>
       /\ toc.start \in [DOMAIN toc.items -> Times] /\ toc.duration \in [DOMAIN toc.items -> Times]

VARIABLES disc,          \* the area that is read
          pc, p,         \* step, and sector in the TOC; the header is sector 0
          text_idx,      \* sacd_text_idx
          track, item,   \* loop counters, from 1
          track_text,    \* area_track_text: per track and type, the item it was converted from
          pointers,      \* the lists that area points to
          converted,     \* the texts that are allocated, by track and item
          cue            \* the indexes of the cue sheet

vars == <<disc, pc, p, text_idx, track, item, track_text, pointers, converted, cue>>

None == 0

TrackCount == Len(disc.items)
Tracks == 1 .. TrackCount

\* The sector behind each of the first lists, the one in which the k-th begins,
\* and the list that begins in a sector.
Ends(lists) == LET ends[k \in 0 .. Len(lists)] == IF k = 0 THEN 1 ELSE ends[k - 1] + Sectors[lists[k]]
               IN  ends
Begin(k) == Ends(disc.lists)[k - 1]
ListAt(sector) == LET here == {k \in DOMAIN disc.lists : Begin(k) = sector} IN
                  IF here = {} THEN "other" ELSE disc.lists[CHOOSE k \in here : TRUE]

Init == /\ disc \in AreaTocs
        /\ pc = "walk" /\ p = 1
        /\ text_idx = 0 /\ track = 1 /\ item = 1
        /\ track_text = [t \in Tracks |-> [type \in Types |-> None]]
        /\ pointers = {} /\ converted = {}
        /\ cue = <<>>

-----------------------------------------------------------------------------
Walking(list) == pc = "walk" /\ p < disc.size /\ ListAt(p) = list

\* Only the first list of texts is used.
TextList == /\ Walking("SACDTTxt")
            /\ IF text_idx = 0 /\ Tracks # {}
               THEN pc' = "text" /\ pointers' = pointers \cup {"area_text"} /\ UNCHANGED <<p, text_idx>>
               ELSE p' = p + 1 /\ text_idx' = text_idx + 1 /\ UNCHANGED <<pc, pointers>>
            /\ UNCHANGED <<disc, track, item, track_text, converted, cue>>

\* The next item of a track, and the next track.
NextItem == item' = item + 1 /\ UNCHANGED <<pc, p, text_idx, track>>
NextTrack == /\ item' = 1
             /\ IF track < TrackCount
                THEN track' = track + 1 /\ UNCHANGED <<pc, p, text_idx>>
                ELSE track' = 1 /\ pc' = "walk" /\ p' = p + 1 /\ text_idx' = text_idx + 1

Item == disc.items[track][item]
HasItem == pc = "text" /\ item <= Len(disc.items[track])

\* Mutant: a text that is too long ends the texts of the whole area.
TooLong_All == /\ HasItem /\ Item.holds = "long"
               /\ item' = 1 /\ track' = 1 /\ pc' = "walk" /\ p' = p + 1 /\ text_idx' = text_idx + 1
               /\ UNCHANGED <<disc, track_text, pointers, converted, cue>>

\* A text that is too long ends the texts of its track.
TooLong == /\ HasItem /\ Item.holds = "long"
           /\ NextTrack
           /\ UNCHANGED <<disc, track_text, pointers, converted, cue>>

SkipEmpty == /\ HasItem /\ Item.holds = "empty"
             /\ NextItem
             /\ UNCHANGED <<disc, track_text, pointers, converted, cue>>

\* Characters below 0x20 become spaces.  A text of an unknown type is converted
\* and forgotten, and so is an earlier text of the same type.
\* charset_convert leaves out what it cannot convert and never gives a null pointer: such
\* a text, be it empty, is reported, kept and freed like any other.
Convert == /\ HasItem /\ Item.holds \in {"text", "controls"}
           /\ converted' = converted \cup {<<track, item>>}
           /\ track_text' = IF Item.type \in Types
                            THEN [track_text EXCEPT ![track][Item.type] = item] ELSE track_text
           /\ NextItem
           /\ UNCHANGED <<disc, pointers, cue>>

TrackEnds == /\ pc = "text" /\ item > Len(disc.items[track])
             /\ NextTrack
             /\ UNCHANGED <<disc, track_text, pointers, converted, cue>>

Pointed == [SACD_IGL |-> {"area_isrc_genre"}, SACD_ACC |-> {},
            SACDTRL1 |-> {"area_tracklist_offset"}, SACDTRL2 |-> {"area_tracklist_time"}]

OtherList == /\ \E list \in DOMAIN Pointed : /\ Walking(list)
                                             /\ pointers' = pointers \cup Pointed[list]
                                             /\ p' = p + Sectors[list]
             /\ UNCHANGED <<disc, pc, text_idx, track, item, track_text, converted, cue>>

\* The walk ends with the TOC, or before it at a list that is not known.
WalkEnds == /\ pc = "walk"
            /\ p < disc.size => ListAt(p) = "other"
            /\ pc' = "open"
            /\ UNCHANGED <<disc, p, text_idx, track, item, track_text, pointers, converted, cue>>

-----------------------------------------------------------------------------
(* write_cue_sheet *)

\* What INDEX 00 is written from a count of frames, and INDEX 01 from a time.
Msf(frames) == LET seconds == frames \div FrameRate
               IN  <<seconds \div 60, seconds % 60, frames % FrameRate>>
FrameCount(t) == (t[1] * 60 + t[2]) * FrameRate + t[3]

PrevEnd == IF track = 1 THEN 0
           ELSE FrameCount(disc.start[track - 1]) + FrameCount(disc.duration[track - 1])

\* Without the lists of times and of codes there is no sheet: the code follows
\* a null pointer.
StartCue == /\ pc = "open"
            /\ pc' = IF {"area_tracklist_time", "area_isrc_genre"} \subseteq pointers \/ Tracks = {}
                     THEN "cue" ELSE "crashed"
            /\ UNCHANGED <<disc, p, text_idx, track, item, track_text, pointers, converted, cue>>

CueTrack == /\ pc = "cue" /\ track <= TrackCount
            /\ LET pause == FrameCount(disc.start[track]) > PrevEnd IN
               cue' = cue \o (IF pause THEN <<[track |-> track, index |-> 0, at |-> Msf(PrevEnd)]>>
                                       ELSE <<>>)
                          \o <<[track |-> track, index |-> 1, at |-> disc.start[track]]>>
            /\ track' = track + 1
            /\ UNCHANGED <<disc, pc, p, text_idx, item, track_text, pointers, converted>>

\* free_area, after the last sheet or without any.
Close == /\ pc = "open" \/ (pc = "cue" /\ track > TrackCount)
         /\ converted' = converted \ {<<t, track_text[t][type]>> : t \in Tracks, type \in Types}
         /\ pc' = "closed"
         /\ UNCHANGED <<disc, p, text_idx, track, item, track_text, pointers, cue>>

Ended == pc \in {"closed", "crashed"} /\ UNCHANGED vars

Next == \/ TextList \/ TooLong \/ SkipEmpty \/ Convert \/ TrackEnds \/ OtherList \/ WalkEnds
        \/ StartCue \/ CueTrack \/ Close \/ Ended

-----------------------------------------------------------------------------
(* Properties *)

\* The types of the variables.
TypeOK ==
  /\ pc \in {"walk", "text", "open", "cue", "crashed", "closed"}
  /\ p \in 1 .. disc.size + 31 /\ text_idx \in 0 .. p - 1
  /\ track \in 1 .. TrackCount + 1 /\ item \in Nat
  /\ track_text \in [Tracks -> [Types -> Nat]]
  /\ pointers \subseteq {"area_text", "area_isrc_genre", "area_tracklist_offset", "area_tracklist_time"}
  /\ converted \subseteq Tracks \X Nat
  /\ cue \in Seq([track : Tracks, index : {0, 1}, at : Times])

\* The items of a track before one that is too long.
Usable(t) == {i \in DOMAIN disc.items[t] : \A j \in 1 .. i : disc.items[t][j].holds # "long"}

\* What the code makes of a TOC in which all lists are complete: each track has
\* the last text of each type that stands before one that is too long, whatever
\* the other tracks have; a list is pointed to if it stands before the first
\* unknown one, and lies within the TOC.
ListsAreFound ==
  pc \in {"open", "cue"} /\ Begin(Len(disc.lists) + 1) <= disc.size =>
    LET known == {k \in DOMAIN disc.lists : \A j \in 1 .. k : disc.lists[j] # "other"}
    IN  /\ p <= disc.size
        /\ pointers = UNION {IF disc.lists[k] = "SACDTTxt" THEN {"area_text"} ELSE Pointed[disc.lists[k]] :
                               k \in known}
        /\ (\E k \in known : disc.lists[k] = "SACDTTxt") =>
             \A t \in Tracks, type \in Types :
               LET mine == {i \in Usable(t) : /\ disc.items[t][i].type = type
                                              /\ disc.items[t][i].holds # "empty"}
               IN  IF mine = {} THEN track_text[t][type] = None
                   ELSE track_text[t][type] \in mine /\ \A i \in mine : i <= track_text[t][type]

\* The indexes of a cue sheet ascend when the tracks do not overlap, and INDEX
\* 00 stands where the track before ends: players get every pause once.
NoOverlap == \A t \in Tracks \ {1} : FrameCount(disc.start[t]) >=
                                        FrameCount(disc.start[t - 1]) + FrameCount(disc.duration[t - 1])

CueAscends ==
  NoOverlap =>
    /\ \A i \in 1 .. Len(cue) - 1 : FrameCount(cue[i].at) <= FrameCount(cue[i + 1].at)
    /\ \A i \in DOMAIN cue : cue[i].index = 0 =>
         /\ FrameCount(cue[i].at) < FrameCount(disc.start[cue[i].track])
         /\ cue[i].track > 1 =>
              FrameCount(cue[i].at) = FrameCount(disc.start[cue[i].track - 1])
                                        + FrameCount(disc.duration[cue[i].track - 1])

OneOfEach == \A t \in Tracks : \A i, j \in DOMAIN disc.items[t] :
               /\ disc.items[t][i].type \in Types
               /\ i # j => disc.items[t][i].type # disc.items[t][j].type

\* Closing frees every text, when no track has two texts of a type or one of
\* a type that is not known.
TextsAreFreed ==
  pc = "closed" /\ OneOfEach => converted = {}

-----------------------------------------------------------------------------
(* The inductive invariant *)

\* The last text of a type among some items of a track.
Latest(t, type, items) ==
  LET mine == {i \in items : /\ disc.items[t][i].type = type
                            /\ disc.items[t][i].holds \in {"text", "controls"}}
  IN  IF mine = {} THEN track_text[t][type] = None
      ELSE track_text[t][type] \in mine /\ \A i \in mine : i <= track_text[t][type]

\* The walk is at the beginning of a list, all before it are known, and their
\* pointers are set.
WalkInv ==
  \E k \in 1 .. Len(disc.lists) + 1 :
    /\ p = Begin(k) /\ \A j \in 1 .. k - 1 : disc.lists[j] # "other"
    /\ text_idx = 0 <=> \A j \in 1 .. k - 1 : disc.lists[j] # "SACDTTxt"
    /\ pc = "text" => k <= Len(disc.lists) /\ disc.lists[k] = "SACDTTxt"
    /\ pointers = UNION {IF disc.lists[j] = "SACDTTxt" THEN {"area_text"} ELSE Pointed[disc.lists[j]] :
                            j \in 1 .. IF pc = "text" THEN k ELSE k - 1}
    /\ pc \in {"open", "cue"} /\ p < disc.size =>
         k = Len(disc.lists) + 1 \/ disc.lists[k] = "other"

\* The texts of the tracks before this one are those of all their items that
\* can be used, those of this one are those of the items before this one.
TextInv ==
  /\ pc = "text" =>
       /\ text_idx = 0 /\ p < disc.size /\ track \in Tracks
       /\ item \in 1 .. Len(disc.items[track]) + 1
       /\ \A i \in 1 .. item - 1 : disc.items[track][i].holds # "long"
  /\ pc \in {"walk", "open"} => track = 1 /\ item = 1
  /\ \A t \in Tracks, type \in Types :
       Latest(t, type, IF pc = "text" /\ t = track THEN 1 .. item - 1
                       ELSE IF (IF pc = "text" THEN t < track ELSE text_idx > 0) THEN Usable(t)
                       ELSE {})

\* What is allocated; if no track has two texts of a type, the track has it.
AllocInv ==
  /\ \A c \in converted : c[2] \in DOMAIN disc.items[c[1]]
  /\ OneOfEach =>
       IF pc = "closed" THEN converted = {}
       ELSE \A c \in converted : track_text[c[1]][disc.items[c[1]][c[2]].type] = c[2]

\* The sheet so far ends with the start of the track before.
CueInv ==
  /\ pc \notin {"cue", "closed"} => cue = <<>>
  /\ pc = "cue" => IF track = 1 THEN cue = <<>>
                   ELSE cue # <<>> /\ cue[Len(cue)].at = disc.start[track - 1]
  /\ CueAscends

ListsInv == WalkInv /\ TextInv /\ AllocInv /\ CueInv
=============================================================================
