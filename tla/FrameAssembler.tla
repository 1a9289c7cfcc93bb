---------------------------- MODULE FrameAssembler ----------------------------
(* scarletbook_process_frames: the packets of audio sectors put together to   *)
(* frames.  The frame under construction is kept in the handle from call to   *)
(* call, and a frame is passed on when the next one starts, or at the end of  *)
(* the last block, if it is complete.                                         *)
(*                                                                            *)
(* A layout says which frames have a packet in which sector: the packets of a *)
(* frame are in consecutive sectors, one in each, and the frames of a sector  *)
(* ascend.  The time code of a frame is its number.  The headers of one       *)
(* sector may be damaged.                                                     *)
EXTENDS Integers, Sequences, FiniteSets, FiniteSetsExt

CONSTANTS
  DstLayouts, PlainLayouts,  \* sequences of sectors, sequences of frames
  SectorSize,                \* shared equally by the packets of a sector
  FrameSize,                 \* of a plain frame: channel_count * FRAME_SIZE_64
  MaxSize,                   \* MAX_DST_SIZE
  MaxBlocks                  \* bound: the sectors of one call

\* What may be wrong with a packet's header: the type is not audio (an erased
\* sector has no audio packet at all), the length exceeds MAX_PACKET_SIZE, or
\* frame_start is inverted.
Hits == {"none", "other", "long", "flip"}
NoDamage == [sector |-> 0, hit |-> <<>>]

VARIABLES
  layout, dst_encoded, first, last, damage,  \* the sectors of a file
  pc, upto,                \* the step, and the last sector of the call
  sector, packet_info_idx, frame_info_idx,
  shifted,                 \* read_buffer_ptr is behind the packet's data
  info,                    \* handle->audio_sector.frame
  frame,                   \* handle->frame; data is what was copied to it
  sector_bad_reads,
  frames                   \* what frame_read_callback got

disc == <<layout, dst_encoded, first, last, damage>>
vars == <<layout, dst_encoded, first, last, damage, pc, upto, sector,
          packet_info_idx, frame_info_idx, shifted, info, frame,
          sector_bad_reads, frames>>

-----------------------------------------------------------------------------
(* The disc *)

\* Of a layout l: the last frame of a sector, the sectors of a frame, the length
\* of a packet, and the bytes of a frame in the sectors up to each one.
LastOf(l, s) == l[s][Len(l[s])]
FrameNumbers(l) == UNION {{l[s][p] : p \in 1..Len(l[s])} : s \in DOMAIN l}
SectorsOf(l, f) == {s \in DOMAIN l : \E p \in 1..Len(l[s]) : l[s][p] = f}
StartOf(l, f) == Min(SectorsOf(l, f))
Starts(l, s, p) == StartOf(l, l[s][p]) = s
PacketLength(l, s) == SectorSize \div Len(l[s])
Bytes(l, f) ==
  LET bytes[s \in 0..Len(l)] ==
        IF s = 0 THEN 0
        ELSE bytes[s - 1] + IF s \in SectorsOf(l, f) THEN PacketLength(l, s) ELSE 0
  IN bytes

\* The frame infos of a sector: one for each frame that starts in it; only the
\* first packet can be of a frame that started before.
Carried(l, s) == IF Starts(l, s, 1) THEN 0 ELSE 1
InfoOf(l, f) == [timecode |-> f, sector_count |-> Cardinality(SectorsOf(l, f))]
Infos(l, s) == [i \in 1..Len(l[s]) - Carried(l, s) |-> InfoOf(l, l[s][i + Carried(l, s)])]

\* A layout as it is mastered: each sector has a few packets, of consecutive
\* frames; the first belongs to the last frame of the sector before, or to the
\* next one; and a frame is not too long.
Mastered(l) ==
  /\ l \in Seq(Seq(Nat))
  /\ \A s \in DOMAIN l :
       /\ Len(l[s]) \in 1..7 /\ Len(l[s]) <= SectorSize
       /\ \A p \in 1..Len(l[s]) : l[s][p] = l[s][1] + p - 1
       /\ s > 1 => l[s][1] \in {LastOf(l, s - 1), LastOf(l, s - 1) + 1}
  /\ \A f \in FrameNumbers(l) : Bytes(l, f)[Len(l)] <= MaxSize

ASSUME AssemblerAssumption ==
  /\ SectorSize \in Nat /\ FrameSize \in Nat /\ MaxSize \in Nat
  /\ \A l \in DstLayouts \cup PlainLayouts : Mastered(l)
  /\ \A l \in PlainLayouts : \A f \in FrameNumbers(l) : Bytes(l, f)[Len(l)] = FrameSize

In(s) == Len(layout[s])
HitOf(s, p) == IF s = damage.sector THEN damage.hit[p] ELSE "none"

\* The frame_start bit as read.
StartBit(s, p) == IF HitOf(s, p) = "flip" THEN ~Starts(layout, s, p) ELSE Starts(layout, s, p)

Slots == 0..6
NoInfo == [timecode |-> 0, sector_count |-> 0]
NoFrame == [started |-> FALSE, size |-> 0, sector_count |-> 0, timecode |-> 0,
            data |-> <<>>]
Piece(f, s, right) == [frame |-> f, sector |-> s, right |-> right]

Init ==
  /\ \/ layout \in DstLayouts /\ dst_encoded = TRUE
     \/ layout \in PlainLayouts /\ dst_encoded = FALSE
  /\ first \in DOMAIN layout /\ last \in first..Len(layout)
  /\ damage \in {NoDamage} \cup
       UNION {{[sector |-> s, hit |-> h] : h \in [1..In(s) -> Hits]} : s \in first..last}
  /\ pc = "caller" /\ sector = first /\ upto = first
  /\ packet_info_idx = 1 /\ frame_info_idx = 0 /\ shifted = FALSE
  /\ info = [i \in Slots |-> NoInfo] /\ frame = NoFrame
  /\ sector_bad_reads = FALSE /\ frames = <<>>

-----------------------------------------------------------------------------
(* The function *)

Call == /\ pc = "caller"
        /\ \E n \in 1..MaxBlocks : sector + n - 1 <= last /\ upto' = sector + n - 1
        /\ sector_bad_reads' = FALSE
        /\ pc' = "header"
        /\ UNCHANGED <<disc, sector, packet_info_idx, frame_info_idx, shifted,
                       info, frame, frames>>

\* The infos of the sector overwrite the first ones of the sectors before it.
ReadHeader ==
  LET here == Infos(layout, sector) IN
  /\ pc = "header"
  /\ info' = [i \in Slots |-> IF i < Len(here) THEN here[i + 1] ELSE info[i]]
  /\ packet_info_idx' = 1 /\ frame_info_idx' = 0 /\ shifted' = FALSE
  /\ pc' = "packet"
  /\ UNCHANGED <<disc, upto, sector, frame, sector_bad_reads, frames>>

AtPacket(hits) == /\ pc = "packet" /\ packet_info_idx <= In(sector)
                  /\ HitOf(sector, packet_info_idx) \in hits
                  /\ packet_info_idx' = packet_info_idx + 1

\* A packet that is too long: the source pointer is not advanced.
SkipLong == /\ AtPacket({"long"})
            /\ sector_bad_reads' = TRUE /\ shifted' = TRUE
            /\ UNCHANGED <<disc, pc, upto, sector, frame_info_idx, info, frame, frames>>

\* Supplementary data, padding, unknown types.
SkipOther == /\ AtPacket({"other"})
             /\ UNCHANGED <<disc, pc, upto, sector, frame_info_idx, shifted, info,
                            frame, sector_bad_reads, frames>>

Complete(fr) == /\ fr.started /\ fr.size > 0
                /\ IF dst_encoded THEN fr.sector_count = 0 ELSE fr.size = FrameSize

\* exec_read_callback, if the frame is complete.
PassOn(fr) == IF Complete(fr)
              THEN Append(frames, [timecode |-> fr.timecode, data |-> fr.data])
              ELSE frames

Begun(i) == [started |-> TRUE, size |-> 0, sector_count |-> i.sector_count,
             timecode |-> i.timecode, data |-> <<>>]

Fits(fr, length) == fr.size + length <= MaxSize

\* The packet's data is appended, or does not fit and the frame is given up.
Extended(fr, length, piece) ==
  IF ~fr.started THEN fr
  ELSE IF ~Fits(fr, length) THEN [fr EXCEPT !.started = FALSE]
  ELSE [fr EXCEPT !.size = @ + length, !.data = Append(@, piece),
                  !.sector_count = IF dst_encoded THEN @ - 1 ELSE @]

\* Mutant: all frames that start in a sector take its first info.
NextInfo_Same(i) == i

NextInfo(i) == i + 1

Audio ==
  LET start  == StartBit(sector, packet_info_idx)
      fr     == IF start THEN Begun(info[frame_info_idx]) ELSE frame
      length == PacketLength(layout, sector)
      piece  == Piece(layout[sector][packet_info_idx], sector, ~shifted)
  IN
  /\ AtPacket({"none", "flip"})
  /\ frames' = IF start THEN PassOn(frame) ELSE frames
  /\ frame_info_idx' = IF start THEN NextInfo(frame_info_idx) ELSE frame_info_idx
  /\ frame' = Extended(fr, length, piece)
  /\ sector_bad_reads' = (sector_bad_reads \/ (fr.started /\ ~Fits(fr, length)))
  /\ UNCHANGED <<disc, pc, upto, sector, shifted, info>>

\* Mutant: the rest of the block is given up after a bad packet.
EndSector_StopOnBad ==
  /\ pc = "packet" /\ packet_info_idx > In(sector)
  /\ sector' = IF sector_bad_reads THEN upto + 1 ELSE sector + 1
  /\ pc' = IF sector' > upto THEN "return" ELSE "header"
  /\ UNCHANGED <<disc, upto, packet_info_idx, frame_info_idx, shifted, info,
                 frame, sector_bad_reads, frames>>

EndSector ==
  /\ pc = "packet" /\ packet_info_idx > In(sector)
  /\ sector' = sector + 1
  /\ pc' = IF sector = upto THEN "return" ELSE "header"
  /\ UNCHANGED <<disc, upto, packet_info_idx, frame_info_idx, shifted, info,
                 frame, sector_bad_reads, frames>>

\* Mutant: what is left after the last block is not passed on.
Flush_Never == UNCHANGED <<frame, frames>>

\* The last frame of the last block, if it is complete.
Flush == /\ frames' = PassOn(frame)
         /\ frame' = [frame EXCEPT !.started = @ /\ ~Complete(frame)]

Return == /\ pc = "return"
          /\ IF sector > last THEN Flush ELSE UNCHANGED <<frame, frames>>
          /\ pc' = IF sector > last THEN "done" ELSE "caller"
          /\ UNCHANGED <<disc, upto, sector, packet_info_idx, frame_info_idx,
                         shifted, info, sector_bad_reads>>

Finished == pc = "done" /\ UNCHANGED vars

Next == \/ Call \/ ReadHeader \/ SkipLong \/ SkipOther \/ Audio
        \/ EndSector \/ Return \/ Finished

Spec == Init /\ [][Next]_vars

-----------------------------------------------------------------------------
(* Properties *)

Codes == FrameNumbers(layout) \cup {0}
Data == Seq([frame : FrameNumbers(layout), sector : first..last, right : BOOLEAN])
AudioFrames == [started : BOOLEAN, size : 0..MaxSize, sector_count : Int, timecode : Codes, data : Data]

TypeOK == /\ pc \in {"caller", "header", "packet", "return", "done"}
          /\ sector \in first..last + 1 /\ upto \in first..last
          /\ packet_info_idx \in 1..8 /\ frame_info_idx \in 0..7
          /\ shifted \in BOOLEAN /\ sector_bad_reads \in BOOLEAN
          /\ info \in [Slots -> [timecode : Codes, sector_count : Nat]]
          /\ frame \in AudioFrames
          /\ frames \in Seq([timecode : Codes, data : Data])

\* The frames that lie in the file as a whole, and what is to be passed on of
\* each: its time code and the data of all its packets.
Whole == {f \in FrameNumbers(layout) : SectorsOf(layout, f) \subseteq first..last}
Pieces(l, f, n) == [i \in 1..n |-> Piece(f, StartOf(l, f) + i - 1, TRUE)]
Entire(l, f) == [timecode |-> f, data |-> Pieces(l, f, Cardinality(SectorsOf(l, f)))]
EntireFrom(l, f, n) == [i \in 1..n |-> Entire(l, f + i - 1)]

\* Without damage exactly the frames that lie in the file as a whole are passed
\* on, each once, entire and in order, however the sectors are divided among the
\* calls, and wherever the file begins and ends.
ExactlyWholeFrames ==
  pc = "done" /\ damage = NoDamage =>
    frames = EntireFrom(layout, Min(Whole), Cardinality(Whole))

\* The start of the frame after f is found if it is in the file.
NextStartFound(f) ==
  \A p \in 1..(IF damage.sector = 0 THEN 0 ELSE In(damage.sector)) :
    layout[damage.sector][p] = f + 1 /\ Starts(layout, damage.sector, p) =>
      HitOf(damage.sector, p) = "none"

\* Damage is local: a frame without a packet in the damaged sector is passed on
\* entire, unless it is followed directly by a frame whose start is lost (then
\* packets of that one are appended to it); and what is passed on that is not an
\* entire frame has packets before or in, and in or after, the damaged sector.
EntireFrames == {f \in Whole : \E i \in DOMAIN frames : frames[i] = Entire(layout, f)}
AwayFromDamage(f) == damage.sector \notin SectorsOf(layout, f) /\ NextStartFound(f)
EntireOrHit(timecode, data) ==
  \/ [timecode |-> timecode, data |-> data] = Entire(layout, data[1].frame)
  \/ data[1].sector <= damage.sector /\ damage.sector <= data[Len(data)].sector

DamageIsLocal ==
  pc = "done" =>
    /\ \A f \in Whole : AwayFromDamage(f) => f \in EntireFrames
    /\ \A i \in DOMAIN frames : EntireOrHit(frames[i].timecode, frames[i].data)

\* The time codes of the frames that are passed on ascend, by which
\* frame_read_callback trims a track: no frame is passed on twice or under the
\* time code of a later one, whatever was lost.  Excluded is a packet inside a
\* frame that is taken for a start: it takes an info from an earlier sector.
NoFalseStart ==
  \A p \in DOMAIN damage.hit : damage.hit[p] = "flip" => Starts(layout, damage.sector, p)

TimecodesAscend ==
  NoFalseStart =>
    \A i, j \in DOMAIN frames : i < j => frames[i].timecode < frames[j].timecode

-----------------------------------------------------------------------------
(* What a comment says and the code does not do *)

\* "try to save the entire previous audio frame / checks if we have a completed
\* frame": when a sector is erased, what is passed on are still the packets of
\* one frame.
OneFrameOnly ==
  (\A p \in DOMAIN damage.hit : damage.hit[p] = "other") =>
    \A i \in DOMAIN frames : \A k \in DOMAIN frames[i].data :
      frames[i].data[k].frame = frames[i].data[1].frame

-----------------------------------------------------------------------------
(* The inductive invariants *)

\* Where the function is; in a sector, the starts seen so far, which are no
\* more than its packets, and the infos of the frames that start in it.
PlaceInv ==
  /\ pc = "caller" => sector <= last
  /\ pc \in {"header", "packet"} => sector <= upto
  /\ pc = "return" => sector = upto + 1
  /\ pc = "packet" =>
       /\ packet_info_idx \in 1..In(sector) + 1 /\ frame_info_idx \in 0..packet_info_idx - 1
       /\ \A i \in DOMAIN Infos(layout, sector) : info[i - 1] = Infos(layout, sector)[i]

\* The first frame that starts in sector s or after it.
NextStart(l, s) == l[s][1] + Carried(l, s)

\* What handle->frame is when the last packet was that of frame f in sector s,
\* and what was passed on: frames that started before the file are ignored.
Held(l, dst, start, s, f) ==
  IF f < NextStart(l, start) THEN NoFrame
  ELSE LET packets == s - StartOf(l, f) + 1 IN
       [started |-> TRUE, size |-> Bytes(l, f)[s], timecode |-> f,
        sector_count |-> Cardinality(SectorsOf(l, f)) - IF dst THEN packets ELSE 0,
        data |-> Pieces(l, f, packets)]
PassedOn(l, start, f) == EntireFrom(l, NextStart(l, start), f - NextStart(l, start))

Assembled(s, f) == /\ frame = Held(layout, dst_encoded, first, s, f)
                   /\ frames = PassedOn(layout, first, f)
SectorsDone(s) == IF s = first THEN frame = NoFrame /\ frames = <<>>
                  ELSE Assembled(s - 1, LastOf(layout, s - 1))

\* In a sector: which packets are done, and the infos that are not used yet.
PacketsDone ==
  /\ packet_info_idx \in 1..In(sector) + 1
  /\ IF packet_info_idx = 1 THEN SectorsDone(sector)
     ELSE Assembled(sector, layout[sector][packet_info_idx - 1])
  /\ frame_info_idx = IF packet_info_idx = 1 THEN 0
                      ELSE packet_info_idx - 1 - Carried(layout, sector)
  /\ \A i \in DOMAIN Infos(layout, sector) : info[i - 1] = Infos(layout, sector)[i]
  /\ ~shifted

\* Without damage the frame under construction has the packets read so far of one
\* frame, all before it that started in the file have been passed on, and no
\* call's end makes a difference.
AssemblyInv ==
  damage = NoDamage =>
    /\ pc \in {"caller", "header", "packet", "return", "done"}
    /\ sector \in first..last + 1 /\ upto \in first..last
    /\ pc = "caller" => sector <= last /\ SectorsDone(sector)
    /\ pc = "header" => sector <= upto /\ SectorsDone(sector)
    /\ pc = "packet" => sector <= upto /\ PacketsDone
    /\ pc = "return" => sector = upto + 1 /\ SectorsDone(sector)
    /\ pc = "done" => frames = EntireFrom(layout, Min(Whole), Cardinality(Whole))

\* The time codes of the frames passed on, and of the one under construction
\* behind them, ascend below a bound.
Below(bound) ==
  /\ \A i, j \in DOMAIN frames : i < j => frames[i].timecode < frames[j].timecode
  /\ \A i \in DOMAIN frames : frames[i].timecode < bound
  /\ frame.started => /\ frame.timecode < bound
                      /\ \A i \in DOMAIN frames : frames[i].timecode < frame.timecode

\* The bound is the code of the next info: starts that are lost leave the infos
\* of a sector behind its packets, but the next sector begins above all of them.
AscendInv ==
  NoFalseStart =>
    IF pc = "packet"
    THEN /\ frame_info_idx = 0 \/ frame_info_idx < packet_info_idx - Carried(layout, sector)
         /\ Below(NextStart(layout, sector) + frame_info_idx)
    ELSE Below(IF sector = first THEN 0 ELSE LastOf(layout, sector - 1) + 1)

\* With damage: before the damaged sector all is as without, and behind it the
\* frame under construction is again what it should be as soon as it started
\* there; until then it has packets before the sector or in it.
Touched == frame.started =>
             /\ frame.data # <<>> /\ frame.data[1].sector <= damage.sector
             /\ Complete(frame) => EntireOrHit(frame.timecode, frame.data)
Behind(s, f) ==
  /\ \A g \in Whole : g < f /\ AwayFromDamage(g) => g \in EntireFrames
  /\ \A i \in DOMAIN frames : EntireOrHit(frames[i].timecode, frames[i].data)
  /\ IF StartOf(layout, f) > damage.sector
     THEN frame = Held(layout, dst_encoded, first, s, f) ELSE Touched
ReadTo(s, f) == IF s < damage.sector THEN Assembled(s, f) ELSE Behind(s, f)
SectorsRead(s) == IF s = first THEN frame = NoFrame /\ frames = <<>>
                  ELSE ReadTo(s - 1, LastOf(layout, s - 1))

PacketsRead ==
  /\ IF packet_info_idx = 1 THEN SectorsRead(sector)
     ELSE ReadTo(sector, layout[sector][packet_info_idx - 1])
  /\ sector # damage.sector =>
       /\ frame_info_idx = IF packet_info_idx = 1 THEN 0
                           ELSE packet_info_idx - 1 - Carried(layout, sector)
       /\ ~shifted

LocalInv == CASE pc = "done" -> DamageIsLocal
              [] pc = "packet" -> PacketsRead
              [] OTHER -> SectorsRead(sector)
=============================================================================
