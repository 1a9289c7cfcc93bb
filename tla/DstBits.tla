------------------------------- MODULE DstBits -------------------------------
(* The second half of DST_FramDSTDecode: the bits of a frame, decoded from its *)
(* arithmetic code with the filters and Ptables that DstFrame has read.        *)
(*                                                                             *)
(* For each bit of each channel the filter predicts from the channel's last    *)
(* bits, the size of the prediction selects the probability that the predicted *)
(* sign is wrong, and the arithmetic decoder tells whether it is.  The widths, *)
(* which are fixed in the code, are constants: the arithmetic is the same.     *)
EXTENDS Binary, Sequences

CONSTANTS NrOfChannels, NrOfBitsPerCh,
          RESOL,                 \* bits of an output byte (8)
          PBITS, NBITS,          \* width of probabilities, overhead bits (8 and 4)
          QSTEP,                 \* AC_QSTEP: bits dropped from a prediction (3)
          UintBits,              \* width of the registers A and C (32)
          PredictBits,           \* width of a prediction (16)
          TableBits, TablesPerWord, NrOfWords,  \* bits a filter table looks at (8), and
                                 \* how they lie in the words of a channel's status (4, 4)
          Codes,                 \* codes: sequences of bits; the first is 0
          Filters,               \* what FrameHdr.ICoefA may be: sequences of filters
          Ptables,               \* what P_one may be: sequences of Ptables
          Maps,                  \* what Filter4Bit, Ptable4Bit may be
          HalfBits               \* per channel: bits that are coded with p = 1/2

Channels == 0 .. NrOfChannels - 1
BitNrs == 0 .. NrOfBitsPerCh - 1
ABITS == PBITS + NBITS
PSUM == TwoTo(PBITS)
ONE == TwoTo(ABITS)
HALF == TwoTo(ABITS - 1)
AC_PROBS == PSUM
WordBits == TableBits * TablesPerWord
NrOfTables == TablesPerWord * NrOfWords

\* What the code fixes, UnpackDSTframe sees to or the model chooses: filters have
\* at least one coefficient and at most as many as the tables look at, probabilities
\* are at most one half, and the bits that start a channel alternate across words.
Numbers ==
  /\ NrOfChannels \in Nat \ {0} /\ NrOfBitsPerCh \in Nat /\ RESOL \in Nat \ {0}
  /\ PBITS \in Nat \ {0} /\ NBITS \in Nat \ {0} /\ QSTEP \in Nat
  /\ UintBits \in Nat /\ ABITS <= UintBits /\ PredictBits \in Nat \ {0}
  /\ TableBits \in Nat \ {0} /\ TablesPerWord \in Nat \ {0} /\ NrOfWords \in Nat \ {0}
  /\ WordBits % 2 = 0
  /\ \A code \in Codes : code \in Seq({0, 1})
  /\ \A filters \in Filters : filters \in Seq(Seq(Int)) /\ filters # <<>> /\ \A f \in DOMAIN filters :
       Len(filters[f]) \in 1 .. TableBits * NrOfTables
  /\ \A ptables \in Ptables : \A t \in DOMAIN ptables :
       ptables[t] \in Seq(1 .. AC_PROBS \div 2) /\ ptables[t] # <<>>
  /\ \A tables \in Filters \cup Ptables, map \in Maps : \A x \in Channels \X BitNrs :
       map[x] + 1 \in DOMAIN tables
  /\ HalfBits \in [Channels -> Nat]

VARIABLES
  AData, ICoefA, P_one, Filter4Bit, Ptable4Bit, \* what UnpackDSTframe has read
  pc, BitNr, ChNr,         \* the step, and where the loops are
  A, C, cbptr,             \* the arithmetic decoder
  Status,                  \* per channel the words that hold its last bits
  MuxedDSD,                \* the output bytes
  ACError,
  low, bits                \* history: lower end of the interval; the bits of each channel

frame == <<AData, ICoefA, P_one, Filter4Bit, Ptable4Bit>>
decoder == <<A, C, cbptr>>
vars == <<frame, pc, BitNr, ChNr, decoder, Status, MuxedDSD, ACError, low, bits>>

Uint(n) == n % TwoTo(UintBits)
Short(n) == ((n + TwoTo(PredictBits - 1)) % TwoTo(PredictBits)) - TwoTo(PredictBits - 1)

-----------------------------------------------------------------------------
\* The code bit at k, counted from 0; past the end the code goes on with zeros.
CodeBit(k) == IF k < Len(AData) THEN AData[k + 1] ELSE 0

\* The number that n code bits from k on are.
Code(k, n) == LET code[i \in 0 .. n] == IF i = 0 THEN 0
                                        ELSE Uint(2 * code[i - 1] + CodeBit(k + i - 1))
              IN code[n]

\* LT_InitStatus: 0xaa in every byte.
StartWord == Sum([k \in 0 .. WordBits - 1 |-> (k % 2) * TwoTo(k)], WordBits)

Init == /\ AData \in Codes /\ ICoefA \in Filters /\ P_one \in Ptables
        /\ Filter4Bit \in Maps /\ Ptable4Bit \in Maps
        /\ pc = "first" /\ BitNr = 0 /\ ChNr = 0
        /\ A = ONE - 1 /\ C = Code(1, ABITS) /\ cbptr = ABITS + 1  \* LT_ACDecodeBit_Init
        /\ Status = [c \in Channels |-> [w \in 0 .. NrOfWords - 1 |-> StartWord]]
        /\ MuxedDSD = [k \in 0 .. (NrOfBitsPerCh \div RESOL) * NrOfChannels - 1 |-> 0]
        /\ ACError = 0
        /\ low = 0 /\ bits = [c \in Channels |-> <<>>]

\* The approximation of A * p "with partial rounding": the bit below the least
\* one that is kept is or-ed in.
Part(a, p) == (a \div PSUM + IF Bit(a, PBITS - 1) = 1 /\ Bit(a, PBITS) = 0 THEN 1 ELSE 0) * p

\* How often A is doubled until it is at least HALF.
Shifts(a) == CHOOSE s \in 0 .. ABITS : a * TwoTo(s) >= HALF /\ (s = 0 \/ a * TwoTo(s - 1) < HALF)

\* Mutant: the bits shifted in start one too late.
NewBits_Late(s) == Code(cbptr + 1, s)

\* The bits shifted into C.
NewBits(s) == Code(cbptr, s)

\* LT_ACDecodeBit_Decode: C tells in which part of the interval the code lies.
Residual(p) == IF C >= A - Part(A, p) THEN 0 ELSE 1
DecodeBit(p) ==
  LET h == A - Part(A, p)
      zero == Residual(p) = 0
      a == IF zero THEN Part(A, p) ELSE h
      c == IF zero THEN C - h ELSE C
      s == Shifts(a)
  IN /\ A' = Uint(a * TwoTo(s))
     /\ C' = Uint(c * TwoTo(s) + NewBits(s))
     /\ cbptr' = cbptr + s
     /\ low' = Uint((low + IF zero THEN h ELSE 0) * TwoTo(s))

-----------------------------------------------------------------------------
\* Reverse7LSBs, the probability of the first bit, from the first coefficient.
Reverse7LSBs(c) == 1 + Sum([k \in 0 .. PBITS - 2 |-> Bit(c % TwoTo(PBITS - 1), k) * TwoTo(PBITS - 2 - k)],
                           PBITS - 1)

\* The first bit of the code is not part of the audio.
FirstBit == /\ pc = "first"
            /\ DecodeBit(Reverse7LSBs(ICoefA[1][1]))
            /\ pc' = "bits"
            /\ UNCHANGED <<frame, BitNr, ChNr, Status, MuxedDSD, ACError, bits>>

\* LT_InitCoefTablesI: what table t of filter f holds for the bits i.
Coefficients(f, t) == LET k == Len(ICoefA[f]) - t * TableBits
                      IN IF k > TableBits THEN TableBits ELSE IF k < 0 THEN 0 ELSE k
ICoefI(f, t, i) == Sum([j \in 0 .. Coefficients(f, t) - 1 |->
                          (2 * Bit(i, j) - 1) * ICoefA[f][t * TableBits + j + 1]],
                       Coefficients(f, t))

\* Byte t of the status: the words lie in memory with their low byte first.
StatusByte(st, t) == LET below == TableBits * (t % TablesPerWord)
                    IN (st[t \div TablesPerWord] \div TwoTo(below)) % TwoTo(TableBits)

\* LT_RUN_FILTER_I; 16 bits hold every sum but that of 128 coefficients of -256.
Predict(f, st) ==
  Short(Sum([t \in 0 .. NrOfTables - 1 |-> ICoefI(f, t, StatusByte(st, t))], NrOfTables))

\* LT_ACGetPtableIndex: large predictions share the last entry.
Magnitude(n) == IF n > 0 THEN n ELSE -n
PtableIndex(predict, len) == LET j == Magnitude(predict) \div TwoTo(QSTEP)
                             IN IF j >= len THEN len - 1 ELSE j

Probability(predict) ==
  IF BitNr < HalfBits[ChNr] THEN AC_PROBS \div 2
  ELSE LET table == P_one[Ptable4Bit[ChNr, BitNr] + 1]
       IN table[PtableIndex(predict, Len(table)) + 1]

\* Mutant: each word gets the bit that was in the word below before.
Shifted_OwnBit(st, b) == [w \in 0 .. NrOfWords - 1 |->
  (2 * st[w] + IF w = 0 THEN b ELSE Bit(st[w], WordBits - 1)) % TwoTo(WordBits)]

\* The update of the status, from the last word to the first.
Shifted(st, b) == [w \in 0 .. NrOfWords - 1 |->
  (2 * st[w] + IF w = 0 THEN b ELSE Bit(st[w - 1], WordBits - 1)) % TwoTo(WordBits)]

\* A bit of a channel: the sign of the prediction, changed by the residual.
NextBit ==
  /\ pc = "bits" /\ BitNr < NrOfBitsPerCh
  /\ LET predict == Predict(Filter4Bit[ChNr, BitNr] + 1, Status[ChNr])
         p == Probability(predict)
         b == (Residual(p) + IF predict < 0 THEN 1 ELSE 0) % 2
         byte == (BitNr \div RESOL) * NrOfChannels + ChNr
     IN /\ DecodeBit(p)
        /\ MuxedDSD' = [MuxedDSD EXCEPT ![byte] = @ + b * TwoTo(RESOL - 1 - (BitNr % RESOL))]
        /\ Status' = [Status EXCEPT ![ChNr] = Shifted(@, b)]
        /\ bits' = [bits EXCEPT ![ChNr] = Append(@, b)]
  /\ ChNr' = (ChNr + 1) % NrOfChannels
  /\ BitNr' = IF ChNr = NrOfChannels - 1 THEN BitNr + 1 ELSE BitNr
  /\ UNCHANGED <<frame, pc, ACError>>

\* LT_ACDecodeBit_Flush; the bits that are left are counted but not looked at.
Flush == /\ pc = "bits" /\ BitNr = NrOfBitsPerCh
         /\ IF cbptr < Len(AData) - 7
            THEN ACError' = 0 /\ UNCHANGED cbptr
            ELSE ACError' = 1 /\ cbptr' = IF cbptr < Len(AData) THEN Len(AData) ELSE cbptr
         /\ pc' = "done"
         /\ UNCHANGED <<frame, BitNr, ChNr, A, C, Status, MuxedDSD, low, bits>>

Stop == pc = "done" /\ UNCHANGED vars

Next == FirstBit \/ NextBit \/ Flush \/ Stop

Spec == Init /\ [][Next]_vars

-----------------------------------------------------------------------------
(* Properties *)

TypeOK == /\ pc \in {"first", "bits", "done"}
          /\ BitNr \in 0 .. NrOfBitsPerCh /\ ChNr \in Channels
          /\ A \in HALF .. ONE - 1 /\ C \in 0 .. TwoTo(UintBits) - 1
          /\ Status \in [Channels -> [0 .. NrOfWords - 1 -> 0 .. TwoTo(WordBits) - 1]]
          /\ MuxedDSD \in [0 .. (NrOfBitsPerCh \div RESOL) * NrOfChannels - 1 -> 0 .. TwoTo(RESOL) - 1]

AllOnes == Code(1, ABITS) = ONE - 1

\* Whatever the code and the probabilities, past the end of the code as before
\* it: the interval keeps its width of ABITS bits, neither empty nor overflown,
\* and the code bits read so far lie in it, C from its lower end.  The one code
\* that is outside from the start is that of ones only.
CodeInInterval == pc # "done" => /\ A \in HALF .. ONE - 1
                                 /\ AllOnes \/ (C < A /\ Code(1, cbptr - 1) = Uint(low + C))

\* The j-th last bit of a channel; before the first they alternate.
LastBit(c, j) == IF j < Len(bits[c]) THEN bits[c][Len(bits[c]) - j] ELSE (j - Len(bits[c])) % 2

\* What a filter computes from its tables and the status words is the sum of its
\* coefficients, each with the sign of the bit it belongs to: the first with the
\* last bit of the channel, across the borders of tables and words.  The sum is
\* taken in an int16_t: when it is +32768 the prediction is -32768 (Short).
FilterSeesLastBits ==
  \A c \in Channels, f \in DOMAIN ICoefA :
    Predict(f, Status[c])
      = Short(Sum([j \in 0 .. Len(ICoefA[f]) - 1 |-> (2 * LastBit(c, j) - 1) * ICoefA[f][j + 1]],
                  Len(ICoefA[f])))

-----------------------------------------------------------------------------
(* The inductive invariant *)

\* The status words hold the last bits of their channel, the latest lowest.
WindowInv == \A c \in Channels, w \in 0 .. NrOfWords - 1, k \in 0 .. WordBits - 1 :
               Bit(Status[c][w], k) = LastBit(c, w * WordBits + k)

\* How many of the bits that byte k of the output is for are decoded, and that
\* those to come have their places in it free.
BitsDone(c) == IF c < ChNr THEN BitNr + 1 ELSE BitNr
Filled(k) == LET n == BitsDone(k % NrOfChannels) - (k \div NrOfChannels) * RESOL
             IN IF n < 0 THEN 0 ELSE IF n > RESOL THEN RESOL ELSE n
OutputInv == \A k \in DOMAIN MuxedDSD : MuxedDSD[k] + TwoTo(RESOL - Filled(k)) <= TwoTo(RESOL)

Read == /\ AData \in Codes /\ ICoefA \in Filters /\ P_one \in Ptables
        /\ Filter4Bit \in Maps /\ Ptable4Bit \in Maps

BitsInv == /\ Read /\ TypeOK /\ CodeInInterval /\ WindowInv /\ OutputInv
           /\ cbptr \in Nat \ {0} /\ low \in Nat /\ bits \in [Channels -> Seq({0, 1})]
           /\ pc = "first" => BitNr = 0 /\ ChNr = 0
=============================================================================
