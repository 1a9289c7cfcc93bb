------------------------------ MODULE DsfWriter ------------------------------
(* The writer of DSF files (dsf.c): one file per track, channel by channel in *)
(* blocks of a fixed size.  The last block of a channel is padded; with the   *)
(* nopad option what does not fill a block is kept in static buffers and goes *)
(* to the front of the next track's file instead.                             *)
(*                                                                            *)
(* A byte is named by the track and its place in the track's channel, Pad is  *)
(* a padding byte.  write_frame is modelled byte by byte, as its loop runs.   *)
EXTENDS Integers, Sequences, SequencesExt

CONSTANTS Channels,      \* channel_count
          BlockSize,     \* SACD_BLOCK_SIZE_PER_CHANNEL
          FrameBytes,    \* bytes of a frame per channel
          TrackCount,    \* area_toc->track_count
          MaxFrames,     \* bound: frames of a track
          TagSize        \* what scarletbook_id3_tag_render returns

ASSUME DsfAssumption == /\ Channels \in Nat \ {0} /\ BlockSize \in Nat \ {0}
                        /\ FrameBytes \in Nat \ {0} /\ TrackCount \in Nat
                        /\ MaxFrames \in Nat /\ TagSize \in Nat

Pad == <<-1, 0>>
NoTrack == -2                  \* NO_PREV_TRACK
Chans == 0 .. Channels - 1
Tracks == 0 .. TrackCount - 1

DSD_CHUNK_HEADER_SIZE == 28
FMT_CHUNK_SIZE == 52
DATA_CHUNK_SIZE == 12
HeaderSize == DSD_CHUNK_HEADER_SIZE + FMT_CHUNK_SIZE + DATA_CHUNK_SIZE

VARIABLES
  dsf_nopad, concatenate, tags, \* the options; tags: id3_tag_mode is not 0
  queue,           \* the tracks that are to be written
  pc, track,       \* the step, and the track of the open file
  sent, left, ch,  \* frames passed to write_frame, bytes left of the current one, loop channel
  buffer,          \* handle->buffer up to handle->buffer_ptr, per channel
  prev, prev_track_no,            \* buffer_prev up to buffer_ptr_prev
  sample_count, audio_data_size,  \* of the handle
  blocks, header,  \* the file: what was written per block, and its header
  files            \* history: the closed files

options == <<dsf_nopad, concatenate, tags>>
counts == <<sample_count, audio_data_size>>
vars == <<options, queue, pc, track, sent, left, ch, buffer, prev, prev_track_no,
          counts, blocks, header, files>>

-----------------------------------------------------------------------------
\* What dsf_create_header puts into the sizes of the three chunks.
FooterSize == IF tags THEN TagSize ELSE 0
Header(samples, audio) ==
  [sample_count |-> (samples \div Channels) * 8,
   data_size    |-> DATA_CHUNK_SIZE + audio,
   total        |-> HeaderSize + audio + FooterSize,
   metadata     |-> IF FooterSize > 0 THEN HeaderSize + audio ELSE 0]

\* The selected tracks are queued in ascending order; with concatenate there is
\* one file, which has the number of the first.
Ascending(q) == \A i, j \in DOMAIN q : i < j => q[i] < q[j]

Init == /\ dsf_nopad \in BOOLEAN /\ concatenate \in BOOLEAN /\ tags \in BOOLEAN
        /\ queue \in {q \in SeqOf(Tracks, TrackCount) :
                        q # <<>> /\ Ascending(q) /\ (concatenate => Len(q) = 1)}
        /\ pc = "next" /\ track = NoTrack
        /\ sent = 0 /\ left = 0 /\ ch = 0
        /\ buffer = [c \in Chans |-> <<>>]
        /\ prev = [c \in Chans |-> <<>>] /\ prev_track_no = NoTrack
        /\ sample_count = 0 /\ audio_data_size = 0
        /\ blocks = <<>> /\ header = Header(0, 0)
        /\ files = <<>>

\* Mutant: the leftovers go to whatever track comes next.
CarriesOver_Any(t) == dsf_nopad /\ t > 0

CarriesOver(t) == dsf_nopad /\ t > 0 /\ t = prev_track_no + 1

\* dsf_create: the header goes to the file, and what the track before has left
\* into the buffers.  When the header cannot be written the file is closed.
Create == /\ pc = "next" /\ queue # <<>>
          /\ track' = Head(queue) /\ queue' = Tail(queue)
          /\ buffer' = IF CarriesOver(Head(queue)) THEN prev ELSE [c \in Chans |-> <<>>]
          /\ IF CarriesOver(Head(queue))
             THEN prev' = [c \in Chans |-> <<>>] /\ prev_track_no' = NoTrack
             ELSE UNCHANGED <<prev, prev_track_no>>
          /\ sample_count' = 0 /\ audio_data_size' = 0
          /\ sent' = 0 /\ left' = 0 /\ ch' = 0
          /\ blocks' = <<>> /\ header' = Header(0, 0)
          /\ pc' \in {"write", "broken"}
          /\ UNCHANGED <<options, files>>

\* fopen fails: dsf.c hears nothing of this track.
CreateFails == /\ pc = "next" /\ queue # <<>>
               /\ queue' = Tail(queue)
               /\ UNCHANGED <<options, pc, track, sent, left, ch, buffer, prev,
                              prev_track_no, counts, blocks, header, files>>

\* dsf_write_frame is called with the next frame.
WriteFrame == /\ pc \in {"write", "broken"} /\ left = 0 /\ sent < MaxFrames
              /\ sent' = sent + 1
              /\ left' = FrameBytes * Channels /\ ch' = 0
              /\ UNCHANGED <<options, queue, pc, track, buffer, prev,
                             prev_track_no, counts, blocks, header, files>>

NextChannel == ch' = (ch + 1) % Channels

\* The byte the loop is at: the interleaved frame has one of each channel in turn.
TheByte == <<track, sent * FrameBytes - (left - 1) \div Channels>>

PutByte == /\ left > 0 /\ Len(buffer[ch]) < BlockSize
           /\ buffer' = [buffer EXCEPT ![ch] = Append(@, TheByte)]
           /\ left' = left - 1
           /\ NextChannel
           /\ UNCHANGED <<options, queue, pc, track, sent, prev, prev_track_no,
                          counts, blocks, header, files>>

\* A full block is written, and the loop goes on to the next channel without
\* having taken a byte.
FlushBlock ==
  /\ left > 0 /\ Len(buffer[ch]) = BlockSize
  /\ blocks' = Append(blocks, [channel |-> ch, data |-> buffer[ch]])
  /\ buffer' = [buffer EXCEPT ![ch] = <<>>]
  /\ sample_count' = sample_count + BlockSize
  /\ audio_data_size' = audio_data_size + BlockSize
  /\ NextChannel
  /\ UNCHANGED <<options, queue, pc, track, sent, left, prev, prev_track_no, header, files>>

\* ... or fails to be: the rest of the frame is lost; frames of the decoder may follow.
FlushFails == /\ left > 0 /\ Len(buffer[ch]) = BlockSize
              /\ left' = 0 /\ pc' = "broken"
              /\ UNCHANGED <<options, queue, track, sent, ch, buffer, prev,
                             prev_track_no, counts, blocks, header, files>>

\* The last track of the area, and every track without nopad, is padded.
Padded == ~dsf_nopad \/ track >= TrackCount - 1

\* Channel c's buffer as a block.
PaddedBlock(buf, c) ==
  [channel |-> c, data |-> [k \in 1 .. BlockSize |-> IF k <= Len(buf[c]) THEN buf[c][k] ELSE Pad]]

\* What is written of the first n channels: a block for each whose buffer holds
\* something; and how many bytes of it are counted as samples.
PaddedBlocks(buf, n) ==
  LET padded[c \in 0 .. n] ==
        IF c = 0 THEN <<>>
        ELSE IF buf[c - 1] = <<>> THEN padded[c - 1]
        ELSE Append(padded[c - 1], PaddedBlock(buf, c - 1))
  IN padded[n]

\* Mutant: the padding is counted as samples.
Leftover_Whole(buf, n) == BlockSize * Len(PaddedBlocks(buf, n))

Leftover(buf, n) ==
  LET counted[c \in 0 .. n] == IF c = 0 THEN 0 ELSE counted[c - 1] + Len(buf[c - 1])
  IN counted[n]

\* The footer and the final header are written and the file is closed.
Finished(samples, audio, written, whole) ==
  /\ sample_count' = samples /\ audio_data_size' = audio
  /\ blocks' = written
  /\ header' = Header(samples, audio)
  /\ files' = Append(files, [track |-> track, sent |-> sent, blocks |-> written,
                             header |-> Header(samples, audio), whole |-> whole])
  /\ pc' = "next"
  /\ UNCHANGED <<options, queue, track, sent, left, ch>>

\* dsf_close, the buffers are padded and written.
ClosePadded == /\ pc \in {"write", "broken"} /\ left = 0 /\ Padded
               /\ Finished(sample_count + Leftover(buffer, Channels),
                           audio_data_size + BlockSize * Len(PaddedBlocks(buffer, Channels)),
                           blocks \o PaddedBlocks(buffer, Channels),
                           pc = "write")
               /\ buffer' = [c \in Chans |-> <<>>]
               /\ prev_track_no' = NoTrack
               /\ UNCHANGED prev

\* ... but the write for channel n fails: the header counts it as far as it was
\* written.
CloseFails == /\ pc \in {"write", "broken"} /\ left = 0 /\ Padded
              /\ \E n \in Chans, part \in 0 .. BlockSize - 1 :
                   /\ buffer[n] # <<>>
                   /\ Finished(sample_count + Leftover(buffer, n),
                               audio_data_size + BlockSize * Len(PaddedBlocks(buffer, n)) + part,
                               blocks \o PaddedBlocks(buffer, n),
                               FALSE)
                   /\ buffer' = [c \in Chans |-> IF c < n THEN <<>> ELSE buffer[c]]
              /\ prev_track_no' = NoTrack
              /\ UNCHANGED prev

\* ... with nopad they are kept for the next track; concatenated tracks lose them.
CloseKept ==
  /\ pc \in {"write", "broken"} /\ left = 0 /\ ~Padded
  /\ Finished(sample_count, audio_data_size, blocks, pc = "write")
  /\ IF concatenate
     THEN prev_track_no' = NoTrack /\ UNCHANGED <<buffer, prev>>
     ELSE /\ prev' = buffer
          /\ buffer' = [c \in Chans |-> <<>>]
          /\ prev_track_no' = IF buffer[Channels - 1] # <<>> THEN track ELSE NoTrack

Stop == pc = "next" /\ queue = <<>> /\ UNCHANGED vars

Next == \/ Create \/ CreateFails \/ WriteFrame \/ PutByte \/ FlushBlock
        \/ FlushFails \/ ClosePadded \/ CloseFails \/ CloseKept \/ Stop

Spec == Init /\ [][Next]_vars

-----------------------------------------------------------------------------
(* Properties *)

Bytes == {Pad} \cup (Tracks \X (1 .. MaxFrames * FrameBytes))
Audio == Bytes \ {Pad}
Block == [channel : Chans, data : [1 .. BlockSize -> Bytes]]

Chunks == [sample_count : Nat, data_size : Nat, total : Nat, metadata : Nat]
File == [track : Tracks, sent : 0 .. MaxFrames, blocks : Seq(Block), header : Chunks,
         whole : BOOLEAN]

TypeOK == /\ pc \in {"next", "write", "broken"} /\ queue \in Seq(Tracks)
          /\ dsf_nopad \in BOOLEAN /\ concatenate \in BOOLEAN /\ tags \in BOOLEAN
          /\ track \in Tracks \cup (IF pc = "next" THEN {NoTrack} ELSE {})
          /\ prev_track_no \in Tracks \cup {NoTrack}
          /\ sent \in 0 .. MaxFrames /\ left \in 0 .. FrameBytes * Channels /\ ch \in Chans
          /\ left > 0 => sent > 0 /\ pc # "next"
          /\ buffer \in [Chans -> Seq(Audio)] /\ prev \in [Chans -> Seq(Audio)]
          /\ \A c \in Chans : Len(buffer[c]) <= BlockSize /\ Len(prev[c]) <= BlockSize
          /\ sample_count \in Nat /\ audio_data_size \in Nat
          /\ blocks \in Seq(Block) /\ files \in Seq(File)

\* The bytes of channel c that a player takes from a file: it goes round the
\* channels, a block each, and takes as many bytes as the header counts.
Place(q, c) == q * Channels + c + 1
Count(file) == file.header.sample_count \div 8
Content(file, c) ==
  [p \in 1 .. Count(file) |->
     file.blocks[Place((p - 1) \div BlockSize, c)].data[((p - 1) % BlockSize) + 1]]

\* What file i should hold in each channel: what the file before has not
\* written, if that was of the track before, and its own track.
Own(t, frames) == [k \in 1 .. frames * FrameBytes |-> <<t, k>>]
Rest(due, file) == SubSeq(due, Count(file) + 1, Len(due))
Carried(nopad, fs, n, due, t) ==
  IF n > 0 /\ nopad /\ fs[n].track = t - 1 THEN Rest(due, fs[n]) ELSE <<>>
DueStep(nopad, fs, i, before) ==
  Carried(nopad, fs, i - 1, before, fs[i].track) \o Own(fs[i].track, fs[i].sent)
DueOf(nopad, fs, n) ==
  LET due[i \in 0 .. n] == IF i = 0 THEN <<>> ELSE DueStep(nopad, fs, i, due[i - 1])
  IN due[n]
Due(i) == DueOf(dsf_nopad, files, i)

WholeUpTo(i) == \A j \in 1 .. i : files[j].whole

\* Whatever tracks were selected and whatever files could not be created: as
\* long as writing does not fail, what a player takes from each channel of a file
\* is what is due to it in order, nothing twice and nothing of another track; a
\* padded file lacks nothing, another one no more than a block, which the next
\* track's file has.
EverySampleOnce ==
  \A i \in DOMAIN files, c \in Chans : WholeUpTo(i) =>
      /\ IsPrefix(Content(files[i], c), Due(i))
      /\ Len(Due(i)) - Len(Content(files[i], c)) <= BlockSize
      /\ ~dsf_nopad \/ files[i].track = TrackCount - 1 => Content(files[i], c) = Due(i)

\* The final header of a file tells, when all writes succeeded, the truth: the size
\* of the audio chunk is that of the blocks in the file, which go round the
\* channels, the tag starts behind them, and in every channel the padding begins
\* where the bytes end that the sample count counts.
HeaderMatchesFile ==
  \A i \in DOMAIN files : WholeUpTo(i) =>
    LET f == files[i]
        rounds == Len(f.blocks) \div Channels
    IN
    /\ f.header.data_size = DATA_CHUNK_SIZE + BlockSize * Len(f.blocks)
    /\ f.header.total = HeaderSize + BlockSize * Len(f.blocks) + FooterSize
    /\ tags /\ TagSize > 0 => f.header.metadata = f.header.total - TagSize
    /\ Len(f.blocks) = rounds * Channels /\ Count(f) <= rounds * BlockSize
    /\ \A q \in 0 .. rounds - 1, c \in Chans :
         /\ f.blocks[Place(q, c)].channel = c
         /\ \A j \in 1 .. BlockSize :
              f.blocks[Place(q, c)].data[j] = Pad <=> q * BlockSize + j > Count(f)

-----------------------------------------------------------------------------
(* The inductive invariant *)

\* What the open file has from the one before, and byte p of what is due to each
\* of its channels.
Before == Carried(dsf_nopad, files, Len(files), Due(Len(files)), track)
Stream(carried, t, p) == IF p <= Len(carried) THEN carried[p] ELSE <<t, p - Len(carried)>>

\* After rounds of blocks for all channels, with `some` bytes behind them in each
\* channel, and `more` to come of the frame: the loop either takes bytes, and
\* the channels before ch have one more, or writes full blocks, and they have none.
Loop(rounds, some, more) ==
  /\ rounds * BlockSize + some + more = Len(Before) + sent * FrameBytes
  /\ rounds * BlockSize + some >= Len(Before)
  /\ \A c \in Chans : \A k \in DOMAIN buffer[c] :
       buffer[c][k] = Stream(Before, track, rounds * BlockSize + k)
  /\ \/ /\ left = more * Channels - ch /\ Len(blocks) = rounds * Channels
        /\ ch > 0 => some < BlockSize
        /\ \A c \in Chans : Len(buffer[c]) = IF c < ch THEN some + 1 ELSE some
     \/ /\ left = more * Channels /\ Len(blocks) = rounds * Channels + ch
        /\ ch > 0 /\ more > 0 /\ some = BlockSize
        /\ \A c \in Chans : Len(buffer[c]) = IF c < ch THEN 0 ELSE BlockSize

LoopInv ==
  /\ sample_count = BlockSize * Len(blocks) /\ audio_data_size = BlockSize * Len(blocks)
  /\ \A q \in 0 .. Len(blocks), c \in Chans : Place(q, c) \in DOMAIN blocks =>
       blocks[Place(q, c)] =
         [channel |-> c, data |-> [k \in 1 .. BlockSize |-> Stream(Before, track, q * BlockSize + k)]]
  /\ \E rounds \in 0 .. Len(blocks), some \in 0 .. BlockSize, more \in 0 .. FrameBytes :
       Loop(rounds, some, more)

\* A closed file of so many rounds of blocks.
Closed(f, due, rounds) ==
  /\ Len(f.blocks) = rounds * Channels
  /\ Count(f) <= rounds * BlockSize /\ Count(f) <= Len(due) /\ Len(due) <= Count(f) + BlockSize
  /\ ~dsf_nopad \/ f.track = TrackCount - 1 => Count(f) = Len(due)
  /\ f.header = Header(Count(f) * Channels, BlockSize * Len(f.blocks))
  /\ \A q \in 0 .. rounds - 1, c \in Chans :
       f.blocks[Place(q, c)] =
         [channel |-> c,
          data |-> [k \in 1 .. BlockSize |-> IF q * BlockSize + k <= Count(f)
                                             THEN due[q * BlockSize + k] ELSE Pad]]

FilesInv == \A i \in DOMAIN files : WholeUpTo(i) =>
              \E rounds \in 0 .. Len(files[i].blocks) : Closed(files[i], Due(i), rounds)

\* What is kept for the next file is what the last one lacks.
PrevInv == IF files = <<>> THEN prev_track_no = NoTrack
           ELSE LET n == Len(files) IN
                IF prev_track_no = NoTrack THEN concatenate \/ Rest(Due(n), files[n]) = <<>>
                ELSE /\ prev_track_no = files[n].track
                     /\ \A c \in Chans : prev[c] = Rest(Due(n), files[n])

QueueInv == concatenate => Len(queue) + Len(files) + (IF pc = "next" THEN 0 ELSE 1) <= 1

DsfInv == /\ TypeOK /\ QueueInv /\ FilesInv
          /\ WholeUpTo(Len(files)) => /\ pc = "next" /\ dsf_nopad => PrevInv
                                      /\ pc = "write" => LoopInv
=============================================================================
