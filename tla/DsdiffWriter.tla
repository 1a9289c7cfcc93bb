---------------------------- MODULE DsdiffWriter ----------------------------
(* The writer of DSDIFF files (dsdiff.c), plain or as edit master, for DSD or *)
(* DST audio.  The header is written when the file is created, the frames     *)
(* follow, and on closing the footer is appended and the header, now with the *)
(* sizes, written over the first one.                                         *)
(*                                                                            *)
(* A chunk is its id, the size that its header states, the bytes by which the *)
(* code advances over it, and the chunks in it.  All sizes are those of the   *)
(* code; texts and tags are only their lengths.                               *)
EXTENDS Integers, Sequences, SequencesExt

CONSTANTS ChannelCount,    \* area_toc->channel_count
          FrameLengths,    \* the lengths a frame may have
          MaxFrames,       \* bound: frames of a file
          IndexStep,       \* by how much frame_indexes grows (10000)
          TextLengths,     \* the lengths of a text; 0: there is none
          TagLengths,      \* what scarletbook_id3_tag_render may return
          VersionInfo,     \* the length of SACD_RIPPER_VERSION_INFO
          Pauses           \* per track but the last: the next starts after its end

NrOfTracks == Len(Pauses) + 1

\* The fixed parts of the chunks, field by field.
CHUNK_HEADER_SIZE == 4 + 8
FORM_DSD_CHUNK_SIZE == CHUNK_HEADER_SIZE + 4
FORMAT_VERSION_CHUNK_SIZE == CHUNK_HEADER_SIZE + 4
PROPERTY_CHUNK_SIZE == CHUNK_HEADER_SIZE + 4
SAMPLE_RATE_CHUNK_SIZE == CHUNK_HEADER_SIZE + 4
CHANNELS_CHUNK_SIZE == CHUNK_HEADER_SIZE + 2
COMPRESSION_TYPE_CHUNK_SIZE == CHUNK_HEADER_SIZE + 4 + 1
LOADSPEAKER_CONFIG_CHUNK_SIZE == CHUNK_HEADER_SIZE + 2
DST_SOUND_DATA_CHUNK_SIZE == CHUNK_HEADER_SIZE
DST_FRAME_INFORMATION_CHUNK_SIZE == CHUNK_HEADER_SIZE + 4 + 2
DST_FRAME_DATA_CHUNK_SIZE == CHUNK_HEADER_SIZE
DST_FRAME_INDEX_SIZE == 8 + 4
DST_SOUND_INDEX_CHUNK_SIZE == CHUNK_HEADER_SIZE
COMMENT_SIZE == 2 + 1 + 1 + 1 + 1 + 2 + 2 + 4
COMMENTS_CHUNK_SIZE == CHUNK_HEADER_SIZE + 2
EDITED_MASTER_INFORMATION_CHUNK_SIZE == CHUNK_HEADER_SIZE
EDITED_MASTER_ID_CHUNK_SIZE == CHUNK_HEADER_SIZE
EDITED_MASTER_MARKER_CHUNK_SIZE == CHUNK_HEADER_SIZE + 2 + 1 + 1 + 4 + 4 + 2 + 2 + 2 + 4
EDITED_MASTER_ARTIST_CHUNK_SIZE == CHUNK_HEADER_SIZE + 4
EDITED_MASTER_TITLE_CHUNK_SIZE == CHUNK_HEADER_SIZE + 4

VARIABLES
  dsd_encoded_export, edit_master,  \* what is written
  artist, title, mtoc_title, tag,   \* lengths of the texts and of a tag
  pc, pos,                          \* the step, and the position in the file
  frame_count, audio_data_size, frame_indexes, frame_indexes_allocated,
  sound,                            \* history: the frames in the file
  header, footer, form_size         \* the chunks in the file, once it is closed

setting == <<dsd_encoded_export, edit_master, artist, title, mtoc_title, tag>>
final == <<header, footer, form_size>>
vars == <<setting, pc, pos, frame_count, audio_data_size, frame_indexes,
          frame_indexes_allocated, sound, final>>

-----------------------------------------------------------------------------
Even(n) == n + (n % 2)                  \* CEIL_ODD_NUMBER

\* By how much the code advances over the first n of some chunks, and over all.
Advance(chunks, n) ==
  LET sum[k \in 0 .. Len(chunks)] == IF k = 0 THEN 0 ELSE sum[k - 1] + chunks[k].taken
  IN sum[n]
Taken(chunks) == Advance(chunks, Len(chunks))

Chunk(id, stated, taken) == [id |-> id, stated |-> stated, taken |-> taken, inner |-> <<>>]
Group(id, fixed, inner) ==
  LET all == fixed + Taken(inner)
  IN [id |-> id, stated |-> Even(all - CHUNK_HEADER_SIZE), taken |-> all, inner |-> inner]
Fixed(id, size) == Chunk(id, Even(size - CHUNK_HEADER_SIZE), size)

ChannelChunk == Chunk("CHNL", Even(CHANNELS_CHUNK_SIZE - CHUNK_HEADER_SIZE + 4 * ChannelCount),
                      CHANNELS_CHUNK_SIZE + 4 * ChannelCount)

NameLength == IF dsd_encoded_export THEN 14 ELSE 11
Compression ==
  Chunk("CMPR", Even(COMPRESSION_TYPE_CHUNK_SIZE - CHUNK_HEADER_SIZE + NameLength),
        Even(COMPRESSION_TYPE_CHUNK_SIZE + NameLength))

Property == Group("PROP", PROPERTY_CHUNK_SIZE,
                  <<Fixed("FS", SAMPLE_RATE_CHUNK_SIZE), ChannelChunk, Compression,
                    Fixed("LSCO", LOADSPEAKER_CONFIG_CHUNK_SIZE)>>)

FrameInformation(frames) ==
  [id |-> "FRTE", stated |-> Even(DST_FRAME_INFORMATION_CHUNK_SIZE - CHUNK_HEADER_SIZE),
   taken |-> DST_FRAME_INFORMATION_CHUNK_SIZE, inner |-> <<>>, num_frames |-> frames]

\* What is in the header of the sound data comes first, then the frames.
SoundData(frames, audio) ==
  IF dsd_encoded_export
  THEN Chunk("DSD", Even(audio), CHUNK_HEADER_SIZE)
  ELSE [id |-> "DST", stated |-> Even(audio + DST_FRAME_INFORMATION_CHUNK_SIZE),
        taken |-> DST_SOUND_DATA_CHUNK_SIZE + DST_FRAME_INFORMATION_CHUNK_SIZE,
        inner |-> <<FrameInformation(frames)>>]

Header(frames, audio) == <<Fixed("FVER", FORMAT_VERSION_CHUNK_SIZE), Property,
                           SoundData(frames, audio)>>

SoundIndex(frames) ==
  IF dsd_encoded_export \/ frames = 0 THEN <<>>
  ELSE <<Chunk("DSTI", Even(frames * DST_FRAME_INDEX_SIZE + DST_SOUND_INDEX_CHUNK_SIZE
                            - CHUNK_HEADER_SIZE),
               Even(DST_SOUND_INDEX_CHUNK_SIZE + frames * DST_FRAME_INDEX_SIZE))>>

\* add_marker_chunk
Marker == Chunk("MARK", Even(EDITED_MASTER_MARKER_CHUNK_SIZE - CHUNK_HEADER_SIZE),
                Even(EDITED_MASTER_MARKER_CHUNK_SIZE))

\* Of an edit master the start of the programme and of every track, and the end
\* of a track that is the last or is followed by a pause.
Markers(t) == (IF t = 1 THEN <<Marker>> ELSE <<>>) \o <<Marker>>
              \o (IF t = NrOfTracks \/ (t < NrOfTracks /\ Pauses[t]) THEN <<Marker>> ELSE <<>>)
EditedMasterId == Fixed("EMID", EDITED_MASTER_ID_CHUNK_SIZE)
Marks ==
  LET upto[t \in 0 .. NrOfTracks] == IF t = 0 THEN <<EditedMasterId>>
                                     ELSE upto[t - 1] \o Markers(t)
  IN IF edit_master THEN upto[NrOfTracks]
     ELSE <<Fixed("MARK", EDITED_MASTER_MARKER_CHUNK_SIZE)>>

Text(id, fixed, length) ==
  IF length = 0 THEN <<>>
  ELSE <<Chunk(id, Even(fixed + length - CHUNK_HEADER_SIZE), fixed + Even(length))>>

EditedMaster == Group("DIIN", EDITED_MASTER_INFORMATION_CHUNK_SIZE,
                      Marks \o Text("DIAR", EDITED_MASTER_ARTIST_CHUNK_SIZE, artist)
                            \o Text("DITI", EDITED_MASTER_TITLE_CHUNK_SIZE, title))

\* Two comments: "Material ripped from SACD: " and the disc's title or "Unknown",
\* and SACD_RIPPER_VERSION_INFO.
Material == 27 + (IF mtoc_title = 0 THEN 7 ELSE mtoc_title)
Comments ==
  LET all == COMMENTS_CHUNK_SIZE + Even(COMMENT_SIZE + Material) + Even(COMMENT_SIZE + VersionInfo)
  IN Chunk("COMT", Even(all - CHUNK_HEADER_SIZE), Even(all))

Tag == Chunk("ID3", Even(tag), Even(CHUNK_HEADER_SIZE + tag))
Tags == [t \in 1 .. (IF edit_master THEN NrOfTracks ELSE 1) |-> Tag]

Footer(frames) == SoundIndex(frames) \o <<EditedMaster, Comments>> \o Tags

HeaderSize(frames, audio) == Even(FORM_DSD_CHUNK_SIZE + Taken(Header(frames, audio)))

-----------------------------------------------------------------------------
Init == /\ dsd_encoded_export \in BOOLEAN /\ edit_master \in BOOLEAN
        /\ artist \in TextLengths /\ title \in TextLengths
        /\ mtoc_title \in TextLengths /\ tag \in TagLengths
        /\ pc = "create" /\ pos = 0
        /\ frame_count = 0 /\ audio_data_size = 0
        /\ frame_indexes = <<>> /\ frame_indexes_allocated = 0
        /\ sound = <<>>
        /\ header = <<>> /\ footer = <<>> /\ form_size = 0

\* dsdiff_create, dsdiff_create_edit_master; when the header cannot be written
\* dsdiff_close is called next.
Create == /\ pc = "create"
          /\ pos' = HeaderSize(0, 0)
          /\ pc' \in {"write", "broken"}
          /\ UNCHANGED <<setting, frame_count, audio_data_size, frame_indexes,
                         frame_indexes_allocated, sound, final>>

\* dsdiff_write_frame
WriteDsd(len) == /\ dsd_encoded_export
                 /\ pos' = pos + len
                 /\ audio_data_size' = audio_data_size + len
                 /\ sound' = Append(sound, [at |-> pos, length |-> len])
                 /\ UNCHANGED <<frame_indexes, frame_indexes_allocated>>

Entry(len, offset) == [length |-> len, offset |-> offset]
Grown(allocated) == frame_indexes \o [k \in 1 .. allocated - frame_indexes_allocated |-> Entry(-1, -1)]

\* Mutant: the index grows one frame late.
Indexed_OneLate(len) ==
  /\ frame_indexes_allocated' = frame_indexes_allocated
                                + IF frame_count > frame_indexes_allocated THEN IndexStep ELSE 0
  /\ frame_indexes' = [Grown(frame_indexes_allocated') EXCEPT
                         ![frame_count + 1] = Entry(len, pos + DST_FRAME_DATA_CHUNK_SIZE)]

\* Mutant: the entry points to the frame's header.
Indexed_Header(len) ==
  /\ frame_indexes_allocated' = frame_indexes_allocated
                                + IF frame_count + 1 > frame_indexes_allocated THEN IndexStep ELSE 0
  /\ frame_indexes' = [Grown(frame_indexes_allocated') EXCEPT ![frame_count + 1] = Entry(len, pos)]

\* The index gets an entry, growing if it is full; entries keep their place.
Indexed(len) ==
  /\ frame_indexes_allocated' = frame_indexes_allocated
                                + IF frame_count + 1 > frame_indexes_allocated THEN IndexStep ELSE 0
  /\ frame_indexes' = [Grown(frame_indexes_allocated') EXCEPT
                         ![frame_count + 1] = Entry(len, pos + DST_FRAME_DATA_CHUNK_SIZE)]

\* Mutant: the pad byte of an odd frame is written but not counted.
WriteDst_PadNotCounted(len) ==
  /\ ~dsd_encoded_export
  /\ Indexed(len)
  /\ pos' = pos + DST_FRAME_DATA_CHUNK_SIZE + len + (len % 2)
  /\ audio_data_size' = audio_data_size + DST_FRAME_DATA_CHUNK_SIZE + len
  /\ sound' = Append(sound, [at |-> pos + DST_FRAME_DATA_CHUNK_SIZE, length |-> len])

WriteDst(len) ==
  /\ ~dsd_encoded_export
  /\ Indexed(len)
  /\ pos' = pos + DST_FRAME_DATA_CHUNK_SIZE + len + (len % 2)
  /\ audio_data_size' = audio_data_size + DST_FRAME_DATA_CHUNK_SIZE + len + (len % 2)
  /\ sound' = Append(sound, [at |-> pos + DST_FRAME_DATA_CHUNK_SIZE, length |-> len])

WriteFrame(len) == /\ pc \in {"write", "broken"} /\ frame_count < MaxFrames
                   /\ frame_count' = frame_count + 1
                   /\ WriteDsd(len) \/ WriteDst(len)
                   /\ UNCHANGED <<setting, pc, final>>

\* A short write: the frame stays counted, and an index entry stays, but the
\* audio size does not grow.
WriteFails(len) == /\ pc \in {"write", "broken"} /\ frame_count < MaxFrames
                   /\ frame_count' = frame_count + 1
                   /\ IF dsd_encoded_export
                      THEN UNCHANGED <<frame_indexes, frame_indexes_allocated>>
                      ELSE Indexed(len)
                   /\ pc' = "broken"
                   /\ UNCHANGED <<setting, pos, audio_data_size, sound, final>>

PadAudio == /\ audio_data_size' = audio_data_size + (audio_data_size % 2)
            /\ pos' = pos + (audio_data_size % 2) + Taken(Footer(frame_count))

\* dsdiff_close: pad, compute everything anew, append the footer, and write the
\* final header over the first.
Close == /\ pc \in {"write", "broken"}
         /\ PadAudio
         /\ header' = Header(frame_count, audio_data_size')
         /\ footer' = Footer(frame_count)
         /\ form_size' = Even(HeaderSize(frame_count, audio_data_size')
                              + Taken(Footer(frame_count)) + audio_data_size'
                              - CHUNK_HEADER_SIZE)
         /\ pc' = IF pc = "write" THEN "closed" ELSE "failed"
         /\ UNCHANGED <<setting, frame_count, frame_indexes, frame_indexes_allocated, sound>>

\* A short write of the pad byte, the footer or the header.
CloseFails == /\ pc \in {"write", "broken"}
              /\ pc' = "failed"
              /\ UNCHANGED <<setting, pos, frame_count, audio_data_size, frame_indexes,
                             frame_indexes_allocated, sound, final>>

Stop == pc \in {"closed", "failed"} /\ UNCHANGED vars

Next == \/ Create \/ (\E len \in FrameLengths : WriteFrame(len) \/ WriteFails(len))
        \/ Close \/ CloseFails \/ Stop

Spec == Init /\ [][Next]_vars

-----------------------------------------------------------------------------
(* Properties *)

TypeOK == /\ pc \in {"create", "write", "broken", "closed", "failed"}
          /\ pos \in Nat /\ audio_data_size \in Nat /\ form_size \in Nat
          /\ frame_count \in 0 .. MaxFrames
          /\ Len(frame_indexes) = frame_indexes_allocated
          /\ frame_count <= frame_indexes_allocated \/ dsd_encoded_export
          /\ Len(sound) <= frame_count

\* A reader goes from a chunk to the next over the size it states, and a pad
\* byte if that is odd.
After(at, c) == at + CHUNK_HEADER_SIZE + Even(c.stated)

\* The chunks placed from a position on, each where the code has put it: a
\* reader that starts there goes from each to the next and ends behind the last.
Tiles(chunks, at, end) ==
  /\ \A k \in DOMAIN chunks : After(at + Advance(chunks, k - 1), chunks[k])
                                = at + Advance(chunks, k)
  /\ at + Taken(chunks) = end

\* A closed file is a sequence of chunks without a gap, from the form chunk's
\* header to the end of the file: the sound data ends where the footer was
\* appended, the chunks inside another end with it, and the frames, each with
\* its header, fill the DST sound data.
ChunksTileFile ==
  pc = "closed" =>
    LET front == Front(header)
        at == FORM_DSD_CHUNK_SIZE + Taken(front)
        sound_end == After(at, Last(header))
    IN /\ Tiles(front, FORM_DSD_CHUNK_SIZE, at)
       /\ Tiles(footer, sound_end, pos)
       /\ CHUNK_HEADER_SIZE + form_size = pos
       /\ \A c \in ToSet(front) \cup ToSet(footer) : c.inner # <<>> =>
            LET fixed == c.taken - Taken(c.inner)
            IN Tiles(c.inner, fixed, CHUNK_HEADER_SIZE + c.stated)
       /\ dsd_encoded_export /\ sound # <<>> => sound[1].at = at + Last(header).taken
       /\ ~dsd_encoded_export =>
            LET first == at + Last(header).taken
            IN \A k \in 1 .. Len(sound) + 1 :
                 LET end == IF k = 1 THEN first ELSE sound[k - 1].at + Even(sound[k - 1].length)
                 IN end = IF k > Len(sound) THEN sound_end ELSE sound[k].at - CHUNK_HEADER_SIZE

\* The index of a closed DST file has one entry for each frame in the file, in
\* order, however often it has grown, and the header states their number.
IndexFindsFrames ==
  pc = "closed" /\ ~dsd_encoded_export =>
    /\ Last(header).inner[1].num_frames = Len(sound)
    /\ Len(sound) = frame_count
    /\ \A k \in DOMAIN sound : frame_indexes[k] = Entry(sound[k].length, sound[k].at)

-----------------------------------------------------------------------------
(* The inductive invariant *)

\* Sizes, and lengths of texts, tags and frames, are not negative.
Numbers == /\ ChannelCount \in Nat /\ VersionInfo \in Nat /\ MaxFrames \in Nat
           /\ IndexStep \in Nat \ {0} /\ Pauses \in Seq(BOOLEAN)
           /\ FrameLengths \subseteq Nat /\ TextLengths \subseteq Nat /\ TagLengths \subseteq Nat

SettingInv == /\ dsd_encoded_export \in BOOLEAN /\ edit_master \in BOOLEAN
              /\ {artist, title, mtoc_title} \subseteq TextLengths /\ tag \in TagLengths

\* The index has room for every frame, and an entry for each that was written.
IndexInv ==
  /\ frame_indexes \in Seq([length : Int, offset : Int])
  /\ pc \in {"create", "write", "closed"} => Len(sound) = frame_count
  /\ pc \in {"write", "closed"} /\ ~dsd_encoded_export =>
       \A k \in DOMAIN sound : frame_indexes[k] = Entry(sound[k].length, sound[k].at)

\* Where the frames begin, and where frame k ends.
SoundStart == HeaderSize(0, 0)
EndOf(k) == IF k = 0 THEN SoundStart ELSE sound[k].at + Even(sound[k].length)

\* The frames follow the header, each behind the one before.
SoundInv ==
  /\ sound \in Seq([at : Nat, length : FrameLengths])
  /\ pc = "create" => sound = <<>> /\ frame_count = 0
  /\ sound = <<>> => audio_data_size = 0
  /\ dsd_encoded_export /\ sound # <<>> => sound[1].at = SoundStart
  /\ ~dsd_encoded_export =>
       /\ \A k \in DOMAIN sound : sound[k].at = EndOf(k - 1) + DST_FRAME_DATA_CHUNK_SIZE
       /\ EndOf(Len(sound)) = SoundStart + audio_data_size
       /\ audio_data_size % 2 = 0

FileInv ==
  /\ pc \in {"write", "broken"} => pos = SoundStart + audio_data_size
  /\ pc = "closed" =>
       /\ audio_data_size % 2 = 0
       /\ pos = SoundStart + audio_data_size + Taken(Footer(frame_count))
       /\ header = Header(frame_count, audio_data_size) /\ footer = Footer(frame_count)
       /\ form_size = Even(HeaderSize(frame_count, audio_data_size)
                           + Taken(Footer(frame_count)) + audio_data_size - CHUNK_HEADER_SIZE)

DsdiffInv == TypeOK /\ SettingInv /\ IndexInv /\ SoundInv /\ FileInv
=============================================================================
