-------------------------------- MODULE Id3Tag --------------------------------
(* The ID3 tag of a track (scarletbook_id3.c), its writer and the reader of   *)
(* the library (libid3).  The program itself only writes tags; the reader     *)
(* shows what a tag holds.  It also reads the tags of others here, which is   *)
(* what it is for.                                                            *)
(*                                                                            *)
(* A text is its name, its characters and its bytes in UTF-8, or NoText.      *)
(* ISO-8859-1 has all of its characters.                                      *)
EXTENDS Names, FiniteSets

CONSTANTS DiscTexts,  \* what a disc may have of the texts: functions on Fields
          Foreign     \* the tags of others

VARIABLES id3_tag_mode,
          text,       \* the texts of the disc and the track
          source,     \* "disc", or a tag of Foreign
          pc,
          tag,        \* struct id3_tag: version and list of frames
          buffer,     \* the bytes of the tag
          pos,        \* id3_pos
          size        \* id3_tagsize

vars == <<id3_tag_mode, text, source, pc, tag, buffer, pos, size>>

Fields == {"track_title", "album_title", "album_title_phonetic", "disc_title",
           "disc_title_phonetic", "performer", "disc_artist", "disc_artist_phonetic",
           "album_artist", "album_artist_phonetic", "composer", "album_publisher",
           "album_copyright"}

\* Texts the program makes itself: numbers, dates and names of genres.
Made(name, n) == <<name, n, n>>

-----------------------------------------------------------------------------
(* scarletbook_id3_tag_render *)

AlbumTitle == FirstOf(<<text["album_title"], text["album_title_phonetic"],
                        text["disc_title"], text["disc_title_phonetic"]>>)
TrackArtist == FirstOf(<<text["performer"], text["disc_artist"], text["disc_artist_phonetic"],
                         text["album_artist"], text["album_artist_phonetic"]>>)
Minimal(mode) == mode \in {2, 5}

\* The frames of a tag with their texts, in order.
Wanted(mode) ==
  LET title  == IF mode = 2 THEN text["track_title"] ELSE FirstOf(<<text["track_title"], AlbumTitle>>)
      always == <<<<"TIT2", title>>, <<"TALB", AlbumTitle>>,
                  <<"TPE1", TrackArtist>>>>
      more   == <<<<"TPE2", text["album_artist"]>>, <<"TXXX", text["performer"]>>,
                  <<"TCOM", text["composer"]>>, <<"TSRC", Made("isrc", 12)>>,
                  <<"TPUB", text["album_publisher"]>>, <<"TCOP", text["album_copyright"]>>,
                  <<"TPOS", Made("disc", 3)>>, <<"TCON", Made("genre", 5)>>,
                  <<"TYER", Made("year", 4)>>, <<"TDAT", Made("day", 4)>>>>
  IN  always \o (IF Minimal(mode) THEN <<>> ELSE more) \o <<<<"TRCK", Made("track", 4)>>>>

\* The elements of s but those at the places of out.
Without(s, out) == LET left[k \in 0 .. Len(s)] == IF k = 0 THEN <<>>
                                                  ELSE IF k \in out THEN left[k - 1]
                                                  ELSE Append(left[k - 1], s[k])
                   IN  left[Len(s)]

\* Those for which the disc has a text.
Present(wanted) == Without(wanted, {k \in DOMAIN wanted : wanted[k][2] = NoText})
Plan == Present(Wanted(id3_tag_mode))

\* id3_set_text_wraper and its variant for TXXX.  The dates are always in
\* ISO-8859-1; in mode 0 nothing else is set.
Encoding(id) == CASE id \in {"TYER", "TDAT"} -> "ISO-8859-1"
                  [] id \notin {"TYER", "TDAT"} /\ id3_tag_mode \in {1, 2} -> "UTF-16"
                  [] id \notin {"TYER", "TDAT"} /\ id3_tag_mode = 3 -> "ISO-8859-1"
                  [] id \notin {"TYER", "TDAT"} /\ id3_tag_mode \in {4, 5} -> "UTF-8"
                  [] OTHER -> "none"

\* The length of "PERFORMER".
Description(id) == IF id = "TXXX" THEN 9 ELSE 0

\* fr_raw_size: what is reserved for n characters of text, by its bytes in UTF-8.
RawSize(id, encoding, bytes) ==
  CASE encoding = "none" -> 0
    [] encoding = "UTF-16" -> 2 * (Description(id) + bytes) + (IF id = "TXXX" THEN 9 ELSE 5)
    [] OTHER -> Description(id) + bytes + (IF id = "TXXX" THEN 3 ELSE 2)

\* The bytes that the encoding, the marks of byte order, the description, the
\* text and the zeros behind both take.
Used(id, encoding, t) ==
  LET unit == IF encoding = "UTF-16" THEN 2 ELSE 1
      mark == IF encoding = "UTF-16" THEN 2 ELSE 0
      long == IF encoding = "UTF-8" THEN t[3] ELSE t[2]
  IN  1 + mark + unit * (long + 1)
        + (IF id = "TXXX" THEN mark + unit * (Description(id) + 1) ELSE 0)

\* A frame: fr_size, and what fr_data holds.
Frame(id, length, data) == [id |-> id, fr_size |-> length, data |-> data]
TextFrame(id, t) == LET encoding == Encoding(id) IN
                    Frame(id, RawSize(id, encoding, t[3]),
                          IF encoding = "none" THEN NoText ELSE <<encoding, t>>)

NewTag == [version |-> 3, frames |-> <<>>]

\* id3_open_mem on no memory: id3_read_tag finds nothing, id3_init_tag follows.
Create == /\ pc = "create"
          /\ tag' = [NewTag EXCEPT !.version = IF id3_tag_mode \in {4, 5} THEN 4 ELSE @]
          /\ pc' = "render"
          /\ UNCHANGED <<id3_tag_mode, text, source, buffer, pos, size>>

AddFrame == /\ pc = "render" /\ Len(tag.frames) < Len(Plan)
            /\ LET w == Plan[Len(tag.frames) + 1] IN
               tag' = [tag EXCEPT !.frames = Append(@, TextFrame(w[1], w[2]))]
            /\ UNCHANGED <<id3_tag_mode, text, source, pc, buffer, pos, size>>

-----------------------------------------------------------------------------
(* id3_write_tag.  A buffer has the version, the four bytes of the size, and  *)
(* the frames: each with its place, the four bytes of its size, its length.   *)

\* The bits of s from the one that counts unit, as many as give a number below limit.
Bits(s, unit, limit) == (s \div unit) % limit

\* ID3_SET_SIZE28 and ID3_GET_SIZE28: they agree up to 14 bits.
SetSize28(s) == <<Bits(s, 128 * 256 * 256, 2) + 2 * Bits(s, 256 * 256 * 256, 128),
                  Bits(s, 128 * 256, 2) + 2 * Bits(s, 256 * 256, 128),
                  Bits(s, 128, 2) + 2 * Bits(s, 256, 128), Bits(s, 1, 128)>>
GetSize28(b) == 128 * (128 * (128 * (b[1] % 128) + (b[2] % 128)) + (b[3] % 128)) + (b[4] % 128)

SetSize32(s) == <<Bits(s, 256 * 256 * 256, 256), Bits(s, 256 * 256, 256),
                  Bits(s, 256, 256), Bits(s, 1, 256)>>
GetSize32(b) == 256 * (256 * (256 * b[1] + b[2]) + b[3]) + b[4]

FrameSizeBytes(version, s) == IF version = 4 THEN SetSize28(s) ELSE SetSize32(s)
FrameSize(version, b) == IF version = 4 THEN GetSize28(b) ELSE GetSize32(b)

HeaderSize(version) == IF version = 2 THEN 6 ELSE 10

\* What the first n frames take, with their headers.
SizeUpTo(frames, n) == LET taken[k \in 0 .. Len(frames)] ==
                             IF k = 0 THEN 0 ELSE taken[k - 1] + frames[k].fr_size + HeaderSize(3)
                       IN taken[n]

\* Mutant: the headers of the frames are not part of the size of the tag.
FramesSize_NoHeaders(frames) == SizeUpTo(frames, Len(frames)) - Len(frames) * HeaderSize(3)

FramesSize(frames) == SizeUpTo(frames, Len(frames))

\* The place of the k-th frame behind the header of the tag.
Place(frames, k) == SizeUpTo(frames, k - 1)

\* The bytes of the tag of some frames.
Written(version, frames) ==
  [version |-> version, size |-> SetSize28(FramesSize(frames)), extended |-> FALSE,
   frames  |-> [k \in DOMAIN frames |->
                  [id |-> frames[k].id, at |-> Place(frames, k),
                   size |-> FrameSizeBytes(version, frames[k].fr_size), flags |-> {},
                   data |-> frames[k].data]]]

WriteTag == /\ pc = "render" /\ Len(tag.frames) = Len(Plan)
            /\ buffer' = Written(tag.version, tag.frames)
            /\ pc' = "open"
            /\ UNCHANGED <<id3_tag_mode, text, source, tag, pos, size>>

-----------------------------------------------------------------------------
(* id3_read_tag, id3_read_frame, id3_read_frame_v22 *)

\* The identifiers of framedesc that occur here, and those of version 2 with
\* what framedesc22 makes of them; one of them is known and has no successor.
Known == {"TIT2", "TALB", "TPE1", "TPE2", "TXXX", "TCOM", "TSRC", "TPUB", "TCOP", "TPOS", "TCON",
          "TYER", "TDAT", "TRCK", "TLEN", "RVAD"}
Known22 == [TT2 |-> "TIT2", TLE |-> "TLEN", PIC |-> "none"]

\* Discarded by id3_alter_file.
Discarded == {"ETCO", "EQUA", "MLLT", "POSS", "SYLT", "SYTC", "RVAD", "TENC", "TLEN", "TSIZ"}

\* id3_frame_extra_headers
ExtraHeaders(flags) == (IF "compress" \in flags THEN 4 ELSE 0)
                         + Cardinality(flags \cap {"encrypt", "group"})

\* A tag that cannot be read gives way to an empty one.
Rejected == /\ tag' = NewTag
            /\ pc' = "end"
            /\ UNCHANGED <<id3_tag_mode, text, source, buffer, pos, size>>

OpenTag == /\ pc = "open"
           /\ buffer.version \in 2 .. 4
           /\ LET s == GetSize28(buffer.size) IN
              /\ buffer.extended => s >= 10
              /\ size' = s
           /\ pos' = IF buffer.extended THEN 10 ELSE 0
           /\ tag' = [version |-> buffer.version, frames |-> <<>>]
           /\ pc' = "read"
           /\ UNCHANGED <<id3_tag_mode, text, source, buffer>>

OpenFails == /\ pc = "open"
             /\ buffer.version \in 2 .. 4 => buffer.extended /\ GetSize28(buffer.size) < 10
             /\ Rejected

Header == HeaderSize(tag.version)

\* Behind the last frame of the buffer there is padding.
Here == LET found == {k \in DOMAIN buffer.frames : buffer.frames[k].at = pos} IN
        IF found = {} THEN [id |-> "padding", at |-> pos, size |-> <<0, 0, 0, 0>>, flags |-> {},
                            data |-> NoText]
        ELSE buffer.frames[Min(found)]

HereSize == FrameSize(tag.version, Here.size)
Identifier == IF tag.version # 2 THEN IF Here.id \in Known THEN Here.id ELSE "none"
              ELSE IF Here.id \in DOMAIN Known22 THEN Known22[Here.id] ELSE "none"

\* The sizes are looked at before the identifier in versions 3 and 4.
FrameFails == /\ pc = "read" /\ pos < size
              /\ \/ pos + Header > size
                 \/ /\ pos + Header <= size /\ Here.id # "padding"
                    /\ HereSize > 1000 * 1000 \/ pos + Header + HereSize > size
              /\ Rejected

SkipPadding == /\ pc = "read" /\ pos < size
               /\ pos + Header <= size /\ Here.id = "padding"
               /\ pos' = size
               /\ UNCHANGED <<id3_tag_mode, text, source, pc, tag, buffer, size>>

\* A frame that is not known is skipped.
ReadFrame == /\ pc = "read" /\ pos < size
             /\ pos + Header + HereSize <= size
             /\ Here.id # "padding" /\ HereSize <= 1000 * 1000
             /\ tag' = IF Identifier = "none" THEN tag
                       ELSE [tag EXCEPT !.frames = Append(@,
                               IF "compress" \in Here.flags THEN Frame(Identifier, 0, NoText)
                               ELSE Frame(Identifier, HereSize - ExtraHeaders(Here.flags), Here.data))]
             /\ pos' = pos + Header + HereSize
             /\ UNCHANGED <<id3_tag_mode, text, source, pc, buffer, size>>

ReadEnds == /\ pc = "read" /\ pos >= size
            /\ pc' = IF source = "disc" THEN "end" ELSE "alter"
            /\ UNCHANGED <<id3_tag_mode, text, source, tag, buffer, pos, size>>

\* id3_alter_file
Altered(frames) == Without(frames, {k \in DOMAIN frames : frames[k].id \in Discarded})
AlterFile == /\ pc = "alter"
             /\ tag' = [tag EXCEPT !.frames = Altered(@)]
             /\ pc' = "end"
             /\ UNCHANGED <<id3_tag_mode, text, source, buffer, pos, size>>

-----------------------------------------------------------------------------
NoBuffer == [version |-> 0, size |-> <<0, 0, 0, 0>>, extended |-> FALSE, frames |-> <<>>]

Init == /\ id3_tag_mode \in 0 .. 5
        /\ text \in DiscTexts
        /\ tag = NewTag /\ pos = 0 /\ size = 0
        /\ \/ source = "disc" /\ pc = "create" /\ buffer = NoBuffer
           \/ source = "other" /\ pc = "open" /\ buffer \in Foreign

Ended == pc = "end" /\ UNCHANGED vars

Next == \/ Create \/ AddFrame \/ WriteTag
        \/ OpenTag \/ OpenFails \/ FrameFails \/ SkipPadding \/ ReadFrame \/ ReadEnds
        \/ AlterFile \/ Ended

-----------------------------------------------------------------------------
(* Property *)

\* The frames that a track gets.
Rendered == LET plan == Plan IN [k \in DOMAIN plan |-> TextFrame(plan[k][1], plan[k][2])]

\* Where frame k of a tag ends; the first one begins behind the extended header.
EndOf(b, k) == IF k = 0 THEN IF b.extended THEN 10 ELSE 0
               ELSE b.frames[k].at + HeaderSize(b.version) + FrameSize(b.version, b.frames[k].size)
Large(b, k) == FrameSize(b.version, b.frames[k].size) > 1000 * 1000

\* A tag whose frames end within it, with nothing or room for a header behind them.
WellFormed ==
  LET rest == GetSize28(buffer.size) - EndOf(buffer, Len(buffer.frames))
  IN  /\ buffer.version \in 2 .. 4
      /\ rest = 0 \/ rest >= HeaderSize(buffer.version)
      /\ \A k \in DOMAIN buffer.frames : ~Large(buffer, k)

Kept(k) == buffer.frames[k].id \in IF buffer.version = 2 THEN {"TT2"} ELSE Known \ Discarded

\* The tag of a track, up to 16 KB, is read back as it was rendered: the same
\* frames in the same order, each with its text, and each text with the zeros
\* behind it within its frame; the minimal modes have the title of the track,
\* the album, the artist and the number only.  Of the tag of another program
\* every known frame is kept that need not be discarded, or the tag is refused.
TagReadsBack ==
  /\ source = "disc" /\ pc = "end" /\ FramesSize(Rendered) < 16384 =>
       /\ tag.frames = Rendered
       /\ \A f \in ToSet(tag.frames) :
            f.data # NoText => f.fr_size >= Used(f.id, f.data[1], f.data[2])
       /\ Minimal(id3_tag_mode) =>
            {f.id : f \in ToSet(tag.frames)} \subseteq {"TIT2", "TALB", "TPE1", "TRCK"}
       /\ \E f \in ToSet(tag.frames) : f.id = "TRCK"
  /\ source = "other" /\ pc = "end" =>
       IF WellFormed
       THEN /\ tag.version = buffer.version
            /\ Len(tag.frames) = Cardinality({k \in DOMAIN buffer.frames : Kept(k)})
       ELSE tag = NewTag

-----------------------------------------------------------------------------
(* What is assumed of the texts and of the tags of others: a character takes a *)
(* byte or more; a size is four bytes; up to a frame that is too large, the    *)
(* frames lie behind each other, each beginning within the tag.                *)

IsText(t) == t = NoText \/ (t[2] \in Nat /\ t[3] \in Nat /\ t[2] <= t[3])
Bytes4 == [1 .. 4 -> 0 .. 255]
Laid(b) ==
  LET n == Len(b.frames) IN
  /\ b.version \in Nat /\ b.extended \in BOOLEAN /\ b.size \in Bytes4
  /\ n \in Nat /\ DOMAIN b.frames = 1 .. n
  /\ \A k \in 1 .. n :
       /\ b.frames[k].id # "padding" /\ b.frames[k].at \in Nat /\ b.frames[k].size \in Bytes4
       /\ (\A j \in 1 .. k - 1 : ~Large(b, j)) =>
            b.frames[k].at = EndOf(b, k - 1) /\ b.frames[k].at < GetSize28(b.size)

Numbers == /\ \A texts \in DiscTexts, f \in Fields : IsText(texts[f])
           /\ \A b \in Foreign : Laid(b)

-----------------------------------------------------------------------------
(* The inductive invariant *)

Small == FramesSize(Rendered) < 16384
Version == IF id3_tag_mode \in {4, 5} THEN 4 ELSE 3

\* The tag of a track: the frames so far are the first ones of those to be
\* rendered; what was written has them all; those read back are the first ones.
DiscInv ==
  /\ pc \in {"create", "render", "open", "read", "end"}
  /\ pc = "render" => \E n \in 0 .. Len(Plan) :
                        tag = [version |-> Version, frames |-> SubSeq(Rendered, 1, n)]
  /\ pc \in {"open", "read"} => buffer = Written(Version, Rendered)
  /\ pc = "read" /\ Small =>
       /\ size = FramesSize(Rendered)
       /\ \E n \in 0 .. Len(Plan) :
            /\ pos = SizeUpTo(Rendered, n)
            /\ tag = [version |-> Version, frames |-> SubSeq(Rendered, 1, n)]
  /\ pc = "end" /\ Small => tag.frames = Rendered

\* The tag of another program: the first n frames are read, or the padding too;
\* of the frames in the list, those to be kept are theirs.
TheirFrames == [id : Known, fr_size : Int,
                data : {NoText} \cup {buffer.frames[k].data : k \in DOMAIN buffer.frames}]
KeptCount(n) == Cardinality({k \in 1 .. n : Kept(k)})
OtherInv ==
  /\ buffer \in Foreign /\ pc \in {"open", "read", "alter", "end"}
  /\ pc = "read" =>
       /\ buffer.version \in 2 .. 4 /\ size = GetSize28(buffer.size)
       /\ \E n \in 0 .. Len(buffer.frames) :
            /\ \A k \in 1 .. n : ~Large(buffer, k)
            /\ EndOf(buffer, n) <= size
            /\ \/ pos = EndOf(buffer, n)
               \/ pos = size /\ n = Len(buffer.frames) /\ EndOf(buffer, n) + Header <= size
            /\ Len(Altered(tag.frames)) = KeptCount(n)
  /\ pc = "alter" => WellFormed /\ Len(Altered(tag.frames)) = KeptCount(Len(buffer.frames))
  /\ pc \in {"read", "alter"} => tag \in [version : {buffer.version}, frames : Seq(TheirFrames)]
  /\ pc = "end" => TagReadsBack

TagInv == /\ id3_tag_mode \in 0 .. 5 /\ text \in DiscTexts /\ source \in {"disc", "other"}
          /\ source = "disc" => DiscInv
          /\ source = "other" => OtherInv
=============================================================================
