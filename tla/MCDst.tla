-------------------------------- MODULE MCDst --------------------------------
(* The parts of the DST frame decoder: the bit reader, the tables of a frame, *)
(* and the bits that are decoded with them.  A behaviour is one of the part   *)
(* that the first state chooses; the others stay in their first states.       *)
EXTENDS DstFrame

CONSTANTS BitsPerCh, BitsPerByte, PBITS, NBITS, QSTEP, UintBits, PredictBits, TableBits, TablesPerWord, NrOfWords,
          Codes, Filters, Ptables, Maps, HalfBits,      \* of DstBits
          Buffers, MaxLen, MaxRiceM, MaxFrames          \* of DstData

VARIABLES part,
          AData, ICoefA, P_one, Filter4Bit, Ptable4Bit, bits_pc, BitNr, bits_ChNr, A, C, cbptr,
          Status, MuxedDSD, ACError, low, audio_bits,
          pDSTdata, TotalBytes, ByteCounter, BitPosition, DataByte, frames, asked, result,
          value, from, failed

bits_vars == <<AData, ICoefA, P_one, Filter4Bit, Ptable4Bit, bits_pc, BitNr, bits_ChNr, A, C,
               cbptr, Status, MuxedDSD, ACError, low, audio_bits>>
data_vars == <<pDSTdata, TotalBytes, ByteCounter, BitPosition, DataByte, frames, asked, result,
               value, from, failed>>

\* All codes of nine bits, and two that end early; bytes whose bits differ.
MCCodes == {<<0>> \o s : s \in [1 .. 8 -> {0, 1}]} \cup {<<0>>, <<0, 1, 0>>}
MCBuffers == {<<>>, <<181>>, <<90, 195>>, <<255, 1, 108>>}

\* Two filters with tables that are full, begun and empty, one of them with the
\* sum that the width of a prediction cannot hold; probabilities up to one half.
MCFilters == {<< <<2, -1, 1, -3, 1, 1, -2>>, <<-2, -2, -2, -2, -2, -2, -4>> >>,
              << <<1>>, <<1, 1, 1, 1, -1, -1, -1, 3>> >>}
MCPtables == {<< <<1, 3>>, <<4>> >>, << <<4, 2>>, <<2, 2, 1>> >>}
MCMaps == {[x \in (0 .. 1) \X (0 .. 5) |-> 0],
           [x \in (0 .. 1) \X (0 .. 5) |-> (x[1] + x[2] \div 3) % 2]}

MCHalfBits == [c \in 0 .. 1 |-> c]

Audio == INSTANCE DstBits WITH
  NrOfBitsPerCh <- BitsPerCh, RESOL <- BitsPerByte, pc <- bits_pc, ChNr <- bits_ChNr, bits <- audio_bits

Data == INSTANCE DstData

ASSUME AudioNumbers == Audio!Numbers
ASSUME DataNumbers == Data!Numbers

MCInit == /\ part \in {"frame", "bits", "data"}
          /\ part # "bits" => AData = <<0>>
          /\ Init /\ Audio!Init /\ Data!Init
          /\ part # "bits" => /\ Len(ICoefA[1]) = 1 /\ Len(P_one[1]) = 2
                              /\ \A x \in DOMAIN Filter4Bit : Filter4Bit[x] = 0 /\ Ptable4Bit[x] = 0

MCNext == /\ UNCHANGED part
          /\ \/ part = "frame" /\ Next /\ UNCHANGED <<bits_vars, data_vars>>
             \/ part = "bits" /\ Audio!Next /\ UNCHANGED <<vars, data_vars>>
             \/ part = "data" /\ Data!Next /\ UNCHANGED <<vars, bits_vars>>

MCSpec == MCInit /\ [][MCNext]_<<part, vars, bits_vars, data_vars>>

\* The types of all variables, and the invariants that the proofs about the parts need.
TypesOK == FrameInv /\ Audio!BitsInv /\ Data!DataInv

\* The arithmetic decoder stays within its interval (DstBits).
CodeInInterval == Audio!CodeInInterval

\* A filter's tables and the status words give the sum over the last bits (DstBits).
FilterSeesLastBits == Audio!FilterSeesLastBits

\* Reads return the next bits of the frame (DstData).
ReadsMatchStream == Data!ReadsMatchStream
==============================================================================
