------------------------------- MODULE DstData -------------------------------
(* The bit reader of the DST decoder (dst_data.c): numbers of any width, signed *)
(* or not, from a buffer that each frame fills anew.                            *)
(*                                                                              *)
(* What a read past the end of the buffer finds there does not matter: it is    *)
(* put into DataByte and never used.                                            *)
EXTENDS Binary, Sequences, FiniteSetsExt

CONSTANTS Buffers,      \* the frames: sequences of bytes
          MaxLen,       \* the largest width that is read
          MaxRiceM,     \* the largest parameter of a Rice code
          MaxFrames     \* bound: frames

Numbers == /\ \A data \in Buffers : data \in Seq(0 .. 255)
           /\ MaxLen \in Nat /\ MaxRiceM \in 0 .. MaxLen /\ MaxFrames \in Nat

VARIABLES
  pDSTdata, TotalBytes, ByteCounter, BitPosition, DataByte,   \* StrData
  frames,               \* how often FillBuffer was called
  asked,                \* history: the last read, its kind and width (for a Rice code m),
  result, value,        \* what it returned and its number,
  from, failed          \* the bits consumed before it; a read has failed

buffer == <<pDSTdata, TotalBytes, frames>>
index == <<ByteCounter, BitPosition, DataByte>>
read == <<asked, result, value, from, failed>>
vars == <<buffer, index, read>>

RESOL == 8
NotAByte == -1
Kinds == {"unsigned", "signed", "rice"}
Nothing == [kind |-> "unsigned", bits |-> 0]

Init == /\ pDSTdata = <<>> /\ TotalBytes = 0 /\ frames = 0
        /\ ByteCounter = 0 /\ BitPosition = 0 /\ DataByte = 0
        /\ asked = Nothing /\ result = 0 /\ value = 0 /\ from = 0 /\ failed = FALSE

get_in_bitcount == ByteCounter * RESOL - BitPosition

\* Mutant: reading goes on where it was in the last frame.
ResetReadingIndex_KeepsPlace == UNCHANGED ByteCounter /\ BitPosition' = 0 /\ DataByte' = 0

ResetReadingIndex == ByteCounter' = 0 /\ BitPosition' = 0 /\ DataByte' = 0

\* FillBuffer, CreateBuffer: the old buffer is freed, and a new one allocated
\* (the code does not look at whether it was).
FillBuffer(data) ==
  /\ frames < MaxFrames
  /\ frames' = frames + 1
  /\ pDSTdata' = data /\ TotalBytes' = Len(data)
  /\ ResetReadingIndex
  /\ asked' = Nothing /\ result' = 0 /\ value' = 0 /\ from' = 0 /\ failed' = FALSE

\* A byte, while there is one.
ByteAt(k) == IF k < TotalBytes THEN pDSTdata[k + 1] ELSE NotAByte

\* getbits takes what is left of the byte, then whole bytes, and the first bits
\* of another one.
AtByte(counter, pos) == IF pos = 0 THEN counter + 1 ELSE counter
BitsOf(byte, pos, n) == (byte \div TwoTo(pos - n)) % TwoTo(n)
Least(a, b) == IF a < b THEN a ELSE b

\* The loop, with the state it changes and the number so far.
Start(n) == [left |-> n, counter |-> ByteCounter, pos |-> BitPosition, byte |-> DataByte,
             number |-> 0, eof |-> FALSE]
Take(s) ==
  LET counter == AtByte(s.counter, s.pos)
      byte == IF s.pos = 0 THEN ByteAt(s.counter) ELSE s.byte
      pos == IF s.pos = 0 THEN RESOL ELSE s.pos
      n == Least(pos, s.left)
  IN IF counter > TotalBytes
     THEN [s EXCEPT !.counter = counter, !.byte = byte, !.eof = TRUE]
     ELSE [left |-> s.left - n, counter |-> counter, pos |-> pos - n, byte |-> byte,
           number |-> s.number * TwoTo(n) + BitsOf(byte, pos, n), eof |-> FALSE]

TakenFrom(s, n) == LET taken[k \in 0 .. n] ==
                         IF k = 0 THEN s
                         ELSE LET t == taken[k - 1] IN IF t.left = 0 \/ t.eof THEN t ELSE Take(t)
                   IN taken[n]

\* Mutant: the last bit of a byte is dropped.
Taken_DropsBit(n) == TakenFrom(IF BitPosition = 1 THEN [Start(n) EXCEPT !.pos = 0] ELSE Start(n), n)

Taken(n) == TakenFrom(Start(n), n)

Signed(n, x) == IF x >= TwoTo(n - 1) THEN x - TwoTo(n) ELSE x

\* When the bits end within a number, the others are taken for zeros.
ValueOf(t) == t.number * TwoTo(t.left)
Done(t, number) == /\ ByteCounter' = t.counter /\ BitPosition' = t.pos /\ DataByte' = t.byte
                   /\ result' = IF t.eof THEN -1 ELSE 0
                   /\ failed' = (failed \/ t.eof)
                   /\ value' = number

\* FIO_BitGetChrUnsigned, FIO_BitGetIntUnsigned, FIO_BitGetIntSigned and
\* FIO_BitGetShortSigned; nothing is read for no bits.
BitGet(n, kind) ==
  /\ asked' = [kind |-> kind, bits |-> n] /\ from' = get_in_bitcount
  /\ IF n = 0
     THEN result' = 0 /\ value' = 0 /\ UNCHANGED <<index, failed>>
     ELSE LET t == Taken(n)
          IN Done(t, IF kind = "signed" THEN Signed(n, ValueOf(t)) ELSE ValueOf(t))
  /\ UNCHANGED buffer

\* RiceDecode: zeros up to a one, m bits, and the sign of a number that is not 0.
\* It looks at no result; without a one it does not end (DstFrame).
StreamBit(k) == Bit(pDSTdata[(k \div RESOL) + 1], RESOL - 1 - (k % RESOL))
Ones == {k \in get_in_bitcount .. 8 * TotalBytes - 1 : StreamBit(k) = 1}
Continue(t, n) == TakenFrom([t EXCEPT !.left = n, !.number = 0, !.eof = FALSE], n)

RiceDecode(m) ==
  /\ ~failed /\ Ones # {}
  /\ asked' = [kind |-> "rice", bits |-> m] /\ from' = get_in_bitcount
  /\ LET RunLength == Min(Ones) - get_in_bitcount
         lsbs == Continue(Taken(RunLength + 1), m)
         Nr == RunLength * TwoTo(m) + ValueOf(lsbs)
         sign == Continue(lsbs, IF Nr # 0 THEN 1 ELSE 0)
     IN Done([sign EXCEPT !.eof = lsbs.eof \/ sign.eof], IF ValueOf(sign) = 1 THEN -Nr ELSE Nr)
  /\ UNCHANGED buffer

\* Reads go on after a failure, as those of RiceDecode do; the bound of the model.
MayRead == frames > 0 /\ ByteCounter <= TotalBytes + 1

Stop == ~MayRead /\ frames = MaxFrames /\ UNCHANGED vars

Next == \/ \E data \in Buffers : FillBuffer(data)
        \/ MayRead /\ \E n \in 0 .. MaxLen, kind \in {"unsigned", "signed"} : BitGet(n, kind)
        \/ MayRead /\ \E m \in 0 .. MaxRiceM : RiceDecode(m)
        \/ Stop

Spec == Init /\ [][Next]_vars

-----------------------------------------------------------------------------
(* Properties *)

TypeOK == /\ TotalBytes = Len(pDSTdata) /\ frames \in 0 .. MaxFrames
          /\ ByteCounter \in 0 .. TotalBytes + 2 /\ BitPosition \in 0 .. RESOL - 1
          /\ DataByte \in NotAByte .. 255
          /\ asked \in [kind : Kinds, bits : 0 .. MaxLen] /\ result \in {-1, 0} /\ failed \in BOOLEAN

Number(k, n) == LET number[j \in 0 .. n] == IF j = 0 THEN 0 ELSE 2 * number[j - 1] + StreamBit(k + j - 1)
                IN number[n]

\* The code of a number: its magnitude without the last m bits in zeros, a one,
\* the m bits and the sign.
Magnitude(x) == IF x < 0 THEN -x ELSE x
RiceCode(x, m) == [k \in 1 .. Magnitude(x) \div TwoTo(m) |-> 0] \o <<1>>
                  \o [k \in 1 .. m |-> Bit(Magnitude(x), m - k)]
                  \o (IF x = 0 THEN <<>> ELSE IF x < 0 THEN <<1>> ELSE <<0>>)

\* However reads of different widths follow each other, across bytes and from
\* frame to frame: each returns the next number of this frame's buffer, from all
\* the bits it asks for and no others, and fails only if there are not so many;
\* once one has failed, every other one that asks for a bit fails too.
ReadsMatchStream ==
  LET n == asked.bits
      end == TotalBytes * RESOL
  IN /\ result = 0 /\ asked.kind = "rice" =>
          /\ get_in_bitcount = from + Len(RiceCode(value, n)) /\ get_in_bitcount <= end
          /\ \A k \in DOMAIN RiceCode(value, n) : RiceCode(value, n)[k] = StreamBit(from + k - 1)
     /\ result = 0 /\ asked.kind # "rice" /\ n > 0 =>
          /\ ~failed
          /\ get_in_bitcount = from + n /\ get_in_bitcount <= end
          /\ value = IF asked.kind = "signed" THEN Signed(n, Number(from, n)) ELSE Number(from, n)
     /\ result = 0 /\ asked.kind # "rice" /\ n = 0 => value = 0
     /\ result # 0 => failed /\ (asked.kind # "rice" => from + n > end)

-----------------------------------------------------------------------------
(* The inductive invariant *)

\* As long as no read has failed the reader is in the buffer, and holds the byte
\* that it has begun; from then on it is past the end.
DataInv == /\ TypeOK /\ pDSTdata \in Buffers \cup {<<>>}
           /\ failed <=> ByteCounter > TotalBytes
           /\ failed => BitPosition = 0
           /\ BitPosition > 0 => ByteCounter > 0 /\ DataByte = pDSTdata[ByteCounter]
=============================================================================
