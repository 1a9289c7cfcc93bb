------------------------------ MODULE DstFrame ------------------------------
(* The decoding of one DST frame up to its arithmetic code (unpack_dst.c,     *)
(* DST_FramDSTDecode): where the filters and the probability tables (Ptables) *)
(* change, which of them each stretch uses, and the tables themselves.        *)
(*                                                                            *)
(* The bits of a frame are arbitrary: every number read is any of its width.  *)
(* They may end at any read, and then every later read fails too.  Of the     *)
(* filters and Ptables the model keeps how many are there.                    *)
EXTENDS Integers, Sequences

CONSTANTS NrOfChannels,
          MaxFrameLen,       \* bytes per channel
          MAXNROF_FSEGS, MAXNROF_PSEGS,   \* segments per channel
          MIN_FSEG_LEN, MIN_PSEG_LEN,     \* their least length in bits
          MAXNROF_SEGS,      \* the space for segments of a channel
          MaxOrder           \* bound: orders and lengths of tables

ASSUME DstFrameAssumption ==
  /\ {NrOfChannels, MaxFrameLen, MAXNROF_FSEGS, MAXNROF_PSEGS, MAXNROF_SEGS,
      MIN_FSEG_LEN, MIN_PSEG_LEN, MaxOrder} \subseteq Nat \ {0}
  /\ MIN_PSEG_LEN <= MIN_FSEG_LEN /\ MIN_FSEG_LEN <= 8 * MaxFrameLen
  /\ MAXNROF_FSEGS <= MAXNROF_SEGS /\ MAXNROF_PSEGS <= MAXNROF_SEGS

Channels == 0 .. NrOfChannels - 1
NrOfBitsPerCh == 8 * MaxFrameLen
MaxNrOfTables == 2 * NrOfChannels    \* MaxNrOfFilters, MaxNrOfPtables

\* What is read for the filters is read for the Ptables after it.
Kinds == {"F", "P"}
MaxNrOfSegs == [F |-> MAXNROF_FSEGS, P |-> MAXNROF_PSEGS]
MinSegLen   == [F |-> MIN_FSEG_LEN, P |-> MIN_PSEG_LEN]

VARIABLES
  pc, kind,            \* the step, and the table it is for
  PSameAsF,            \* PSameSegAsF, then PSameMapAsF
  SameAllCh,           \* SameSegAllCh, then SameMapAllCh
  ChNr, SegNr,         \* where the loops are
  Resolution,          \* per kind; 0: not read
  SegmentLen,          \* per kind and channel; without the last, whose length is not stored
  Table4Segment,       \* per kind and channel
  NrOfTables,          \* per kind: NrOfFilters, NrOfPtables
  entry,               \* the filter or Ptable that is read
  eof,                 \* the bits have ended
  error, output        \* the result, and what MuxedDSDdata holds

segments == <<Resolution, SegmentLen>>
mapping == <<Table4Segment, NrOfTables>>
place == <<kind, ChNr, SegNr>>
vars == <<pc, place, PSameAsF, SameAllCh, segments, mapping, entry, eof, error, output>>

Errors == {"None", "NegativeBitAllocation", "TooManySegments", "InvalidSegmentResolution",
           "InvalidSegmentLength", "TooManyTables", "InvalidTableNumber",
           "InvalidChannelMapping", "SegmentNumberMismatch", "InvalidCoefficientCoding",
           "InvalidCoefficientRange", "InvalidPtableCoding", "InvalidPtableRange",
           "InvalidStuffingPattern", "InvalidArithmeticCode", "ArithmeticDecoder"}

Init == /\ pc = "header" /\ kind = "F"
        /\ PSameAsF = FALSE /\ SameAllCh = FALSE
        /\ ChNr = 0 /\ SegNr = 0
        /\ Resolution = [k \in Kinds |-> 0]
        /\ SegmentLen = [k \in Kinds |-> [c \in Channels |-> <<>>]]
        /\ Table4Segment = [k \in Kinds |-> [c \in Channels |-> <<>>]]
        /\ NrOfTables = [k \in Kinds |-> 0]
        /\ entry = 0 /\ eof = FALSE
        /\ error = "None" /\ output = "undefined"

-----------------------------------------------------------------------------
\* The least number of bits in which x can be written.
Log2RoundUp(x) == CHOOSE y \in 0 .. x : 2^y > x /\ (y = 0 \/ 2^(y - 1) <= x)
Unsigned(bits) == 0 .. 2^bits - 1
NrOfSegments(k, c) == Len(SegmentLen[k][c]) + 1

\* The length in bits of what segments take.
Bits(res, lengths) == LET sum[n \in 0 .. Len(lengths)] ==
                            IF n = 0 THEN 0 ELSE sum[n - 1] + 8 * res * lengths[n]
                      IN sum[Len(lengths)]
BitsRead(k, c) == Bits(Resolution[k], SegmentLen[k][c])

\* Every error leads to a frame of silence.
Fail(e) == /\ error' = e
           /\ output' = "silence"
           /\ pc' = "done"
           /\ UNCHANGED <<place, PSameAsF, SameAllCh, segments, mapping, entry>>

\* FIO_BitGet... reports the end of the bits as a negative bit allocation.
EndOfBits == /\ pc \in {"header", "same_segments", "segments", "same_map", "map", "half",
                        "order", "length", "rice_m"}
             /\ eof' = TRUE
             /\ Fail("NegativeBitAllocation")

\* The first bit: DST coded or plain DSD.
ReadHeader == /\ pc = "header"
              /\ pc' \in {"plain", "same_segments"}
              /\ UNCHANGED <<place, PSameAsF, SameAllCh, segments, mapping, entry, eof, error, output>>

\* Plain DSD: six bits are stuffing; the reads of the audio are not checked.
ReadPlain == /\ pc = "plain"
             /\ \/ output' = "audio" /\ pc' = "done" /\ error' = error /\ eof' \in BOOLEAN
                   /\ UNCHANGED <<place, PSameAsF, SameAllCh, segments, mapping, entry>>
                \/ Fail("InvalidStuffingPattern") /\ eof' = eof
                \/ Fail("NegativeBitAllocation") /\ eof' = TRUE

-----------------------------------------------------------------------------
\* ReadSegmentData: whether the Ptables have the filters' segments, and (as for
\* the Ptables) whether all channels have the same.
ReadSameSegments == /\ pc = "same_segments"
                    /\ IF kind = "F" THEN PSameAsF' \in BOOLEAN ELSE UNCHANGED PSameAsF
                    /\ SameAllCh' \in BOOLEAN
                    /\ ChNr' = 0 /\ SegNr' = 0
                    /\ pc' = "segments"
                    /\ UNCHANGED <<kind, segments, mapping, entry, eof, error, output>>

\* The tests at the head of the loops: one that reads for all channels tests
\* after it has seen that there is another segment, the other before.
NoSegmentLeft == SegNr >= MaxNrOfSegs[kind]

TooManySegments == /\ pc = "segments" /\ NoSegmentLeft
                   /\ Fail("TooManySegments")
                   /\ UNCHANGED eof

Room == NrOfBitsPerCh - BitsRead(kind, ChNr) - MinSegLen[kind]
MaxSegSize == MaxFrameLen - (MinSegLen[kind] \div 8)
              - BitsRead(kind, ChNr) \div 8

\* Another segment of the channel: the resolution, if it is the first that is
\* not the last of its channel, and the length.
ReadSegment ==
  /\ pc = "segments" /\ ~NoSegmentLeft
  /\ \E res \in IF Resolution[kind] = 0
                THEN Unsigned(Log2RoundUp(MaxFrameLen - (MinSegLen[kind] \div 8)))
                ELSE {Resolution[kind]} :
       IF res = 0 \/ res > MaxFrameLen - (MinSegLen[kind] \div 8)
       THEN Fail("InvalidSegmentResolution")
       ELSE \E len \in Unsigned(Log2RoundUp(MaxSegSize \div res)) :
              IF 8 * res * len < MinSegLen[kind] \/ 8 * res * len > Room
              THEN Fail("InvalidSegmentLength")
              ELSE /\ Resolution' = [Resolution EXCEPT ![kind] = res]
                   /\ SegmentLen' = [SegmentLen EXCEPT ![kind][ChNr] = Append(@, len)]
                   /\ SegNr' = SegNr + 1
                   /\ UNCHANGED <<pc, kind, ChNr, PSameAsF, SameAllCh, mapping, entry, error, output>>
  /\ UNCHANGED eof

\* Both tables are there: on to the mapping.  Without a resolution it is 1.
SegmentsRead == /\ Resolution' = [Resolution EXCEPT ![kind] = IF @ = 0 THEN 1 ELSE @]
                /\ ChNr' = 0 /\ SegNr' = 0
                /\ IF kind = "F"
                   THEN pc' = (IF PSameAsF THEN "copy_segments" ELSE "same_segments") /\ kind' = "P"
                   ELSE pc' = "same_map" /\ kind' = "F"

\* The last segment, for all channels: no test stops one after MaxNrOfSegs
\* others, and the code goes on with one segment more than MaxNrOfSegs.  Beyond
\* the space of a channel its length, 0, is written to the first length of the
\* next channel, which the copy for that channel writes again.  Only when the
\* channels use all the space there is (MAX_CHANNELS, 6), the copy for the last of
\* them overwrites the number of segments by which the copying goes.  The model
\* leaves open whether there is space for one more channel.
EndForAll ==
  /\ pc = "segments" /\ SameAllCh
  /\ SegmentLen' = [SegmentLen EXCEPT ![kind] = [c \in Channels |-> @[0]]]
  /\ \/ SegmentsRead
     \/ /\ SegNr >= MAXNROF_SEGS
        /\ pc' = "overrun" /\ UNCHANGED <<kind, ChNr, SegNr, Resolution>>
  /\ UNCHANGED <<PSameAsF, SameAllCh, mapping, entry, eof, error, output>>

\* Undefined behaviour: nothing is known of what follows.
Overrun ==
  /\ pc = "overrun"
  /\ pc' \in {"done", "crashed"} /\ error' \in Errors /\ output' \in {"silence", "audio"}
  /\ eof' \in BOOLEAN
  /\ UNCHANGED <<place, PSameAsF, SameAllCh, segments, mapping, entry>>

\* ... of this channel.
EndOfChannel ==
  /\ pc = "segments" /\ ~SameAllCh /\ ~NoSegmentLeft
  /\ IF ChNr = NrOfChannels - 1
     THEN SegmentsRead
     ELSE ChNr' = ChNr + 1 /\ SegNr' = 0 /\ UNCHANGED <<pc, kind, Resolution>>
  /\ UNCHANGED <<PSameAsF, SameAllCh, SegmentLen, mapping, entry, eof, error, output>>

\* CopySegmentData
CopySegments ==
  /\ pc = "copy_segments"
  /\ IF \E c \in Channels : NrOfSegments("F", c) > MAXNROF_PSEGS
     THEN Fail("TooManySegments")
     ELSE IF \E c \in Channels, n \in 1 .. MAXNROF_SEGS :
               n \in DOMAIN SegmentLen.F[c] /\ 8 * Resolution.F * SegmentLen.F[c][n] < MIN_PSEG_LEN
     THEN Fail("InvalidSegmentLength")
     ELSE /\ SegmentLen' = [SegmentLen EXCEPT !.P = SegmentLen.F]
          /\ Resolution' = [Resolution EXCEPT !.P = Resolution.F]
          /\ pc' = "same_map" /\ kind' = "F"
          /\ UNCHANGED <<ChNr, SegNr, PSameAsF, SameAllCh, mapping, entry, error, output>>
  /\ UNCHANGED eof

-----------------------------------------------------------------------------
\* ReadMappingData: the first segment of the first channel uses table 0.
ReadSameMap == /\ pc = "same_map"
               /\ IF kind = "F" THEN PSameAsF' \in BOOLEAN ELSE UNCHANGED PSameAsF
               /\ SameAllCh' \in BOOLEAN
               /\ Table4Segment' = [Table4Segment EXCEPT ![kind][0] = <<0>>]
               /\ NrOfTables' = [NrOfTables EXCEPT ![kind] = 1]   \* CountTables
               /\ ChNr' = 0
               /\ pc' = "map"
               /\ UNCHANGED <<kind, SegNr, segments, entry, eof, error, output>>

MapOf(c) == Table4Segment[kind][c]
ChannelMapped == Len(MapOf(ChNr)) = NrOfSegments(kind, ChNr)

\* Mutant: a table may be used before those below it.
TableNumber_Gap(n) == n <= NrOfTables[kind] + 1

\* A segment uses a table that was used before or the next one.
TableNumber(n) == n <= NrOfTables[kind]

ReadMap == /\ pc = "map" /\ ~ChannelMapped
           /\ \E n \in Unsigned(Log2RoundUp(NrOfTables[kind])) :
                IF TableNumber(n)
                THEN /\ Table4Segment' = [Table4Segment EXCEPT ![kind][ChNr] = Append(@, n)]
                     /\ NrOfTables' = [NrOfTables EXCEPT ![kind] = IF n >= @ THEN @ + 1 ELSE @]
                     /\ UNCHANGED <<pc, place, PSameAsF, SameAllCh, segments, entry, error, output>>
                ELSE Fail("InvalidTableNumber")
           /\ UNCHANGED eof

NextChannel == /\ pc = "map" /\ ChannelMapped /\ ~SameAllCh /\ ChNr < NrOfChannels - 1
               /\ ChNr' = ChNr + 1
               /\ UNCHANGED <<pc, kind, SegNr, PSameAsF, SameAllCh, segments, mapping, entry, eof, error, output>>

\* What is in the space of the channels when maps have been written to it one
\* after the other: a table beyond the space of its channel is overwritten with
\* the first one of the next.
InSpace(maps) == [c \in Channels |->
  IF Len(maps[c]) > MAXNROF_SEGS /\ c + 1 \in Channels
  THEN [maps[c] EXCEPT ![MAXNROF_SEGS + 1] = maps[c + 1][1]] ELSE maps[c]]

\* The mapping of a kind is read: for all channels from that of the first, as it
\* is when the first table of the second is written, if they have as many segments.
MapRead ==
  /\ pc = "map" /\ ChannelMapped /\ (SameAllCh \/ ChNr = NrOfChannels - 1)
  /\ IF SameAllCh /\ \E c \in Channels : NrOfSegments(kind, c) # NrOfSegments(kind, 0)
     THEN Fail("InvalidChannelMapping")
     ELSE IF NrOfTables[kind] > MaxNrOfTables
     THEN Fail("TooManyTables")
     ELSE /\ Table4Segment' = [Table4Segment EXCEPT ![kind] =
               IF SameAllCh THEN [c \in Channels |-> InSpace([d \in Channels |-> @[0]])[0]]
               ELSE InSpace(@)]
          /\ pc' = IF kind = "P" THEN "half" ELSE IF PSameAsF THEN "copy_map" ELSE "same_map"
          /\ kind' = "P"
          /\ UNCHANGED <<ChNr, SegNr, PSameAsF, SameAllCh, segments, NrOfTables, entry, error, output>>
  /\ UNCHANGED eof

SameSegmentNumbers == \A c \in Channels : NrOfSegments("P", c) = NrOfSegments("F", c)

\* CopyMappingData
CopyMap ==
  /\ pc = "copy_map"
  /\ IF SameSegmentNumbers
     THEN /\ Table4Segment' = [Table4Segment EXCEPT !.P = Table4Segment.F]
          /\ NrOfTables' = [NrOfTables EXCEPT !.P = NrOfTables.F]
          /\ pc' = "half"
          /\ UNCHANGED <<place, PSameAsF, SameAllCh, segments, entry, error, output>>
     ELSE Fail("SegmentNumberMismatch")
  /\ UNCHANGED eof

\* HalfProb of each channel, then the filters from the first.
ReadHalfProb == /\ pc = "half"
                /\ pc' = "order" /\ kind' = "F" /\ entry' = 0
                /\ UNCHANGED <<ChNr, SegNr, PSameAsF, SameAllCh, segments, mapping, eof, error, output>>

-----------------------------------------------------------------------------
\* The orders of the prediction of coefficients and entries by coding method;
\* there are three, but the number has two bits.
CPredOrder == [method \in 0 .. 2 |-> method + 1]

NextEntry == /\ entry' = entry + 1
             /\ UNCHANGED <<place, PSameAsF, SameAllCh, segments, mapping, error, output>>
             /\ pc' = IF entry + 1 < NrOfTables[kind] THEN (IF kind = "F" THEN "order" ELSE "length")
                      ELSE IF kind = "F" THEN "ptables" ELSE "adata"

InvalidCoding == IF kind = "F" THEN "InvalidCoefficientCoding" ELSE "InvalidPtableCoding"
InvalidRange == IF kind = "F" THEN "InvalidCoefficientRange" ELSE "InvalidPtableRange"

\* A filter or a Ptable that is not coded (a Ptable of one entry is not read);
\* of a coded one the method, whose order must be less than the table's, and
\* the first values; method 3 has what lies behind the table as its order.  Of
\* that one the model has the orders to MaxOrder; not a negative one, nor what the
\* m of method 3 is written over, which has no space in m.
ReadTable == /\ pc \in {"order", "length"} /\ ~eof
             /\ \/ NextEntry
                \/ \E order \in 1 .. MaxOrder, method \in 0 .. 3 :
                     \E cpred \in IF method = 3 THEN 0 .. MaxOrder ELSE {CPredOrder[method]} :
                       /\ kind = "P" => order > 1
                       /\ IF cpred >= order
                          THEN Fail(InvalidCoding)
                          ELSE pc' = "rice_m" /\ UNCHANGED <<place, PSameAsF, SameAllCh, segments,
                                                             mapping, entry, error, output>>
             /\ UNCHANGED eof

\* The values that are Rice coded, each tested for its range.  That the bits
\* end in the last of them is not noticed.
ReadRice == /\ pc = "rice_m"
            /\ NextEntry \/ Fail(InvalidRange)
            /\ eof' \in BOOLEAN

\* RiceDecode does not look at what the reads return: when the bits end, it
\* reads zeros for ever.
RiceRunsOff == /\ pc = "rice_m"
               /\ eof' = TRUE
               /\ pc' = "rice_loop"
               /\ UNCHANGED <<place, PSameAsF, SameAllCh, segments, mapping, entry, error, output>>

ReadPtables == /\ pc = "ptables"
               /\ kind' = "P" /\ entry' = 0
               /\ pc' = "length"
               /\ UNCHANGED <<ChNr, SegNr, PSameAsF, SameAllCh, segments, mapping, eof, error, output>>

\* The rest of the frame is the arithmetic code, whose first bit must be 0; when
\* the bits have ended its length is negative and it has no bit.  It is taken to
\* fit into AData, which has a byte for each bit of a plain frame: no test of the code
\* says so.
ReadAData == /\ pc = "adata"
             /\ \/ /\ pc' = "decode"
                   /\ UNCHANGED <<place, PSameAsF, SameAllCh, segments, mapping, entry, error, output>>
                \/ ~eof /\ Fail("InvalidArithmeticCode")
             /\ UNCHANGED eof

\* Decode with the tables of every bit (DstBits) and flush.
Decode == /\ pc = "decode"
          /\ \/ /\ output' = "audio" /\ pc' = "done"
                /\ UNCHANGED <<place, PSameAsF, SameAllCh, segments, mapping, entry, error>>
             \/ Fail("ArithmeticDecoder")
          /\ UNCHANGED eof

Stop == pc \in {"done", "rice_loop", "crashed"} /\ UNCHANGED vars

Step == \/ EndOfBits \/ ReadHeader \/ ReadPlain \/ ReadSameSegments \/ TooManySegments
        \/ ReadSegment \/ EndForAll \/ Overrun \/ EndOfChannel \/ CopySegments \/ ReadSameMap
        \/ ReadMap \/ NextChannel \/ MapRead \/ CopyMap \/ ReadHalfProb \/ ReadTable
        \/ ReadRice \/ RiceRunsOff \/ ReadPtables \/ ReadAData \/ Decode

Next == Step \/ Stop

\* DST_FramDSTDecode does not block.
Spec == Init /\ [][Next]_vars /\ WF_vars(Step)

-----------------------------------------------------------------------------
(* Properties *)

TypeOK == /\ pc \in {"header", "plain", "same_segments", "segments", "copy_segments", "same_map",
                     "map", "copy_map", "half", "order", "ptables", "length", "rice_m",
                     "rice_loop", "adata", "decode", "overrun", "crashed", "done"}
          /\ kind \in Kinds /\ ChNr \in Channels /\ SegNr \in 0 .. MAXNROF_SEGS
          /\ \A k \in Kinds : /\ Resolution[k] \in 0 .. MaxFrameLen
                              /\ NrOfTables[k] \in 0 .. NrOfChannels * (MAXNROF_SEGS + 1)
          /\ error \in Errors /\ output \in {"undefined", "silence", "audio"}

\* FillTable4Bit: the table of a bit (from 0) is that of the first segment that
\* ends behind it, else of the last.
Table4Bit(k, c, bit) ==
  LET lengths == SegmentLen[k][c]
      later == {n \in DOMAIN lengths : bit < Bits(Resolution[k], SubSeq(lengths, 1, n))}
      seg == IF later = {} THEN NrOfSegments(k, c) ELSE CHOOSE n \in later : \A m \in later : n <= m
  IN Table4Segment[k][c][seg]

\* No channel has more segments than there is space for.
NoneOutside(k) == \A c \in Channels : NrOfSegments(k, c) <= MAXNROF_SEGS

\* However the tables came about, read for each channel, for all or copied:
\* when decoding starts the segments of every channel lie within the frame, the
\* last one no shorter than allowed, they are at most one more than conststr.h
\* allows, and every bit has a filter and a Ptable that was read.  None was read that
\* is not used, unless a segment lies outside the space of its channel.  This
\* says nothing of the frames after which the number of segments itself was
\* overwritten (Overrun): nine segments for all of six channels.
EveryBitHasTables ==
  pc = "decode" =>
    \A k \in Kinds :
      /\ \A c \in Channels : /\ BitsRead(k, c) + MinSegLen[k] <= NrOfBitsPerCh
                             /\ NrOfSegments(k, c) <= MaxNrOfSegs[k] + 1
      /\ LET used == {Table4Bit(k, c, bit) : c \in Channels, bit \in 0 .. NrOfBitsPerCh - 1}
         IN /\ used \subseteq 0 .. NrOfTables[k] - 1
            /\ NoneOutside(k) => 0 .. NrOfTables[k] - 1 \subseteq used
      /\ NrOfTables[k] <= MaxNrOfTables

-----------------------------------------------------------------------------
(* The inductive invariant *)

\* What was read is for the kinds and channels of the frame.
Types == /\ TypeOK
         /\ Resolution \in [Kinds -> Nat] /\ NrOfTables \in [Kinds -> Nat]
         /\ SegmentLen \in [Kinds -> [Channels -> Seq(Nat)]]
         /\ Table4Segment \in [Kinds -> [Channels -> Seq(Nat)]]

\* The segments of a channel leave room for the last one, and none is too short.
SegmentsFit(k, c) ==
  LET lengths == SegmentLen[k][c]
  IN /\ BitsRead(k, c) + MinSegLen[k] <= NrOfBitsPerCh
     /\ Len(lengths) <= MaxNrOfSegs[k]
     /\ \A n \in DOMAIN lengths : 8 * Resolution[k] * lengths[n] >= MinSegLen[k]
     /\ Resolution[k] = 0 => lengths = <<>>

\* The tables that segments use, and the mapping before and after it is read.
TablesUsed(k) == UNION {{Table4Segment[k][c][n] : n \in DOMAIN Table4Segment[k][c]} : c \in Channels}
Unmapped(k) == NrOfTables[k] = 0 /\ \A c \in Channels : Table4Segment[k][c] = <<>>
Mapped(k) == /\ NrOfTables[k] <= MaxNrOfTables
             /\ \A c \in Channels : Len(Table4Segment[k][c]) = NrOfSegments(k, c)

\* The segments of all channels from c are not read.
NoSegments(k, c) == \A d \in Channels : d >= c => SegmentLen[k][d] = <<>>

BeforeSegments == {"header", "plain", "same_segments"}
AfterMapping == {"half", "order", "ptables", "length", "rice_m", "adata", "decode"}

SegmentsInPlace ==
  /\ pc \in BeforeSegments => NoSegments(kind, 0)
  /\ pc \in BeforeSegments \cup {"segments"} /\ kind = "F" => NoSegments("P", 0)
  /\ pc = "segments" => /\ SegNr = Len(SegmentLen[kind][ChNr])
                        /\ SameAllCh => ChNr = 0
                        /\ NoSegments(kind, ChNr + 1)

\* Of the channels before ChNr all segments have a table, of those after it none,
\* and there are no more tables than segments that have one.
MappingInPlace ==
  /\ \A c \in Channels :
       /\ c < ChNr => Len(MapOf(c)) = NrOfSegments(kind, c)
       /\ c = ChNr => Len(MapOf(c)) <= NrOfSegments(kind, c)
       /\ c > ChNr => MapOf(c) = <<>>
  /\ SameAllCh => ChNr = 0
  /\ NrOfTables[kind] <= ChNr * (MAXNROF_SEGS + 1) + Len(MapOf(ChNr))

MappingInv ==
  /\ pc \in BeforeSegments \cup {"segments", "copy_segments"} => Unmapped("F") /\ Unmapped("P")
  /\ pc = "same_map" => Unmapped(kind)
  /\ pc = "map" => MappingInPlace
  /\ pc \in {"same_map", "map"} => IF kind = "F" THEN Unmapped("P") ELSE Mapped("F")
  /\ pc \in AfterMapping \cup {"copy_map"} => Mapped("F")
  /\ pc \in AfterMapping => Mapped("P")

SegmentsInv == SegmentsInPlace /\ \A k \in Kinds : \A c \in Channels : SegmentsFit(k, c)
\* All tables are used unless a segment lies outside the space of its channel.
TablesRead(k) == /\ TablesUsed(k) \subseteq 0 .. NrOfTables[k] - 1
                 /\ NoneOutside(k) => 0 .. NrOfTables[k] - 1 \subseteq TablesUsed(k)
TablesInv == \A k \in Kinds : TablesRead(k)
FrameInv == Types /\ SegmentsInv /\ TablesInv /\ MappingInv

-----------------------------------------------------------------------------
(* What comments say and the code does not do *)

\* getbits "returns EOF on EOF", for every read, and an error makes a frame of
\* silence: a frame whose bits have ended is decoded to its end, one way or the
\* other.
EndOfBitsEnds == eof ~> (pc = "done")
=============================================================================
