------------------------- MODULE DsdiffWriterProofs -------------------------
(* Proofs about the writer of DSDIFF files, for all lengths of frames, texts  *)
(* and tags, every number of tracks, and every step by which the index grows. *)
EXTENDS DsdiffWriter, TLAPS, SequenceTheorems, DataInduction

-----------------------------------------------------------------------------
(* Sizes and the chunks that have them *)

\* A chunk over which a reader and the code advance by the same, even, number of
\* bytes, and a sequence of such chunks, which may be of different kinds.
Sized(c) == c.taken \in Nat /\ c.taken % 2 = 0
Exact(c) == Sized(c) /\ c.stated \in Int /\ CHUNK_HEADER_SIZE + Even(c.stated) = c.taken
Sizes(s) == s \in Seq({s[k] : k \in 1 .. Len(s)}) /\ \A k \in 1 .. Len(s) : Sized(s[k])
Row(s) == s \in Seq({s[k] : k \in 1 .. Len(s)}) /\ \A k \in 1 .. Len(s) : Exact(s[k])

LEMMA EvenIs ==
  ASSUME NEW n \in Int
  PROVE  /\ Even(n) \in Int /\ Even(n) % 2 = 0 /\ (n % 2 = 0 => Even(n) = n)
         /\ Even(n) \in {n, n + 1}
  BY DEF Even

LEMMA EvenSum ==
  ASSUME NEW a \in Int, NEW b \in Int, a % 2 = 0, b % 2 = 0
  PROVE  (a + b) % 2 = 0 /\ (a - b) % 2 = 0
  OBVIOUS

LEMMA RowOf ==
  ASSUME NEW S, NEW s \in Seq(S), \A k \in 1 .. Len(s) : Exact(s[k])
  PROVE  Row(s)
<1>1. PICK T : T = {s[k] : k \in 1 .. Len(s)}
  OBVIOUS
<1>2. Len(s) \in Nat /\ s = [k \in 1 .. Len(s) |-> s[k]] /\ \A k \in 1 .. Len(s) : s[k] \in T
  BY <1>1
<1>3. s \in Seq(T)
  BY <1>2
<1> QED  BY <1>1, <1>3 DEF Row

LEMMA SizesOf ==
  ASSUME NEW S, NEW s \in Seq(S), \A k \in 1 .. Len(s) : Sized(s[k])
  PROVE  Sizes(s)
<1>1. PICK T : T = {s[k] : k \in 1 .. Len(s)}
  OBVIOUS
<1>2. Len(s) \in Nat /\ s = [k \in 1 .. Len(s) |-> s[k]] /\ \A k \in 1 .. Len(s) : s[k] \in T
  BY <1>1
<1>3. s \in Seq(T)
  BY <1>2
<1> QED  BY <1>1, <1>3 DEF Sizes

LEMMA RowJoined ==
  ASSUME NEW s, NEW t, Row(s), Row(t)
  PROVE  Row(s \o t)
<1> DEFINE S == {s[k] : k \in 1 .. Len(s)}
           T == {t[k] : k \in 1 .. Len(t)}
<1>1. s \in Seq(S \cup T) /\ t \in Seq(S \cup T)
  <2>1. s \in Seq(S) /\ t \in Seq(T)  BY DEF Row
  <2> HIDE DEF S, T
  <2> QED  BY <2>1
<1> HIDE DEF S, T
<1>2. s \o t \in Seq(S \cup T) /\ Len(s \o t) = Len(s) + Len(t) /\ Len(s) \in Nat /\ Len(t) \in Nat
  BY <1>1
<1>3. ASSUME NEW k \in 1 .. Len(s \o t) PROVE Exact((s \o t)[k])
  <2>1. CASE k <= Len(s)
    <3>1. (s \o t)[k] = s[k] /\ k \in 1 .. Len(s)  BY <1>1, <1>2, <2>1
    <3> QED  BY <3>1 DEF Row
  <2>2. CASE k > Len(s)
    <3>1. (s \o t)[k] = t[k - Len(s)] /\ k - Len(s) \in 1 .. Len(t)  BY <1>1, <1>2, <2>2
    <3> QED  BY <3>1 DEF Row
  <2> QED  BY <1>2, <2>1, <2>2
<1> QED  BY <1>2, <1>3, RowOf

LEMMA RowsOfFew ==
  ASSUME NEW a, Exact(a)
  PROVE  /\ Row(<<>>) /\ Row(<<a>>)
         /\ \A b : Exact(b) => Row(<<a, b>>)
         /\ \A b, c : Exact(b) /\ Exact(c) => Row(<<a, b, c>>)
         /\ \A b, c, d : Exact(b) /\ Exact(c) /\ Exact(d) => Row(<<a, b, c, d>>)
<1>1. Row(<<>>)
  <2>1. PICK s : s = <<>>  OBVIOUS
  <2>2. s \in Seq({}) /\ Len(s) = 0  BY <2>1
  <2>3. \A k \in 1 .. Len(s) : Exact(s[k])  BY <2>2
  <2>4. Row(s)  BY <2>2, <2>3, RowOf
  <2> QED  BY <2>1, <2>4
<1>2. Row(<<a>>)
  <2>1. <<a>> \in Seq({a}) /\ Len(<<a>>) = 1 /\ <<a>>[1] = a  OBVIOUS
  <2>2. \A k \in 1 .. 1 : Exact(<<a>>[k])  BY <2>1
  <2> QED  BY <2>1, <2>2, RowOf
<1>3. ASSUME NEW b, Exact(b) PROVE Row(<<a, b>>)
  <2>1. <<a, b>> \in Seq({a, b}) /\ Len(<<a, b>>) = 2 /\ <<a, b>>[1] = a /\ <<a, b>>[2] = b
    OBVIOUS
  <2>2. \A k \in 1 .. 2 : Exact(<<a, b>>[k])  BY <1>3, <2>1
  <2> QED  BY <2>1, <2>2, RowOf
<1>4. ASSUME NEW b, NEW c, Exact(b), Exact(c) PROVE Row(<<a, b, c>>)
  <2> DEFINE s == <<a, b, c>>
  <2>1. s \in Seq({a, b, c}) /\ Len(s) = 3 /\ s[1] = a /\ s[2] = b /\ s[3] = c
    OBVIOUS
  <2> HIDE DEF s
  <2>2. \A k \in 1 .. 3 : Exact(s[k])  BY <1>4, <2>1
  <2>3. Row(s)  BY <2>1, <2>2, RowOf
  <2> QED  BY <2>3 DEF s
<1>5. ASSUME NEW b, NEW c, NEW d, Exact(b), Exact(c), Exact(d) PROVE Row(<<a, b, c, d>>)
  <2> DEFINE s == <<a, b, c, d>>
  <2>1. s \in Seq({a, b, c, d}) /\ Len(s) = 4 /\ s[1] = a /\ s[2] = b /\ s[3] = c /\ s[4] = d
    OBVIOUS
  <2> HIDE DEF s
  <2>2. \A k \in 1 .. 4 : Exact(s[k])  BY <1>5, <2>1
  <2>3. Row(s)  BY <2>1, <2>2, RowOf
  <2> QED  BY <2>3 DEF s
<1> QED  BY <1>1, <1>2, <1>3, <1>4, <1>5

\* What Advance computes, step by step.
LEMMA AdvanceIs ==
  ASSUME NEW s, Sizes(s)
  PROVE  /\ Len(s) \in Nat
         /\ Advance(s, 0) = 0
         /\ \A k \in 1 .. Len(s) : Advance(s, k) = Advance(s, k - 1) + s[k].taken
         /\ \A k \in 0 .. Len(s) : Advance(s, k) \in Nat /\ Advance(s, k) % 2 = 0
<1> DEFINE next == [i \in 1 .. Len(s) |-> [v \in Nat |-> v + s[i].taken]]
           Is(f) == f = [k \in 0 .. Len(s) |-> IF k = 0 THEN 0 ELSE f[k - 1] + s[k].taken]
<1>0. Len(s) \in Nat  BY DEF Sizes
<1>1. \A k \in 1 .. Len(s) : s[k].taken \in Nat /\ s[k].taken % 2 = 0  BY DEF Sizes, Sized
<1>2. Steps(next, Len(s), Nat)  BY <1>1 DEF Steps
<1>3. PICK f : Solves(f, Len(s), Nat, 0, next)
  <2> HIDE DEF next
  <2> QED  BY <1>0, <1>2, Recursion
<1>4. /\ f \in [0 .. Len(s) -> Nat] /\ f[0] = 0
      /\ \A k \in 1 .. Len(s) : f[k] = f[k - 1] + s[k].taken
  <2>1. f \in [0 .. Len(s) -> Nat] /\ f[0] = 0 /\ \A k \in 1 .. Len(s) : f[k] = next[k][f[k - 1]]
    BY <1>3 DEF Solves
  <2>2. \A k \in 1 .. Len(s) : k - 1 \in 0 .. Len(s)  BY <1>0
  <2>3. \A k \in 1 .. Len(s) : \A v \in Nat : next[k][v] = v + s[k].taken  OBVIOUS
  <2> HIDE DEF next
  <2> QED  BY <2>1, <2>2, <2>3
<1>5. Is(f)
  <2>1. \A k \in 0 .. Len(s) : f[k] = IF k = 0 THEN 0 ELSE f[k - 1] + s[k].taken  BY <1>4
  <2> QED  BY <1>4, <2>1
<1>6. PICK g : g = CHOOSE h : Is(h)  OBVIOUS
<1>7. Is(g)  BY <1>5, <1>6
<1>8. \A k \in 0 .. Len(s) : Advance(s, k) = g[k]  BY <1>6 DEF Advance
<1>9. \A k \in 0 .. Len(s) : g[k] = f[k]
  <2> DEFINE T == {k \in 0 .. Len(s) : g[k] = f[k]}
  <2>1. 0 \in T  BY <1>0, <1>4, <1>7
  <2>2. \A k \in 1 .. Len(s) : k - 1 \in T => k \in T  BY <1>0, <1>4, <1>7
  <2>3. 0 .. Len(s) \subseteq T
    <3> HIDE DEF T
    <3> QED  BY <1>0, <2>1, <2>2, Induction
  <2> QED  BY <2>3
<1>10. \A k \in 0 .. Len(s) : f[k] % 2 = 0
  <2> DEFINE T == {k \in 0 .. Len(s) : f[k] % 2 = 0}
  <2>1. 0 \in T  BY <1>0, <1>4
  <2>2. ASSUME NEW k \in 1 .. Len(s), k - 1 \in T PROVE k \in T
    <3>1. f[k - 1] \in Nat /\ f[k - 1] % 2 = 0 /\ f[k] = f[k - 1] + s[k].taken
      BY <1>0, <1>4, <2>2
    <3>2. PICK a \in Nat, b \in Nat : a = f[k - 1] /\ b = s[k].taken /\ a % 2 = 0 /\ b % 2 = 0
      BY <1>1, <3>1
    <3>3. (a + b) % 2 = 0 /\ f[k] = a + b  BY <3>1, <3>2, EvenSum
    <3> QED  BY <3>3
  <2>3. 0 .. Len(s) \subseteq T
    <3> HIDE DEF T
    <3> QED  BY <1>0, <2>1, <2>2, Induction
  <2> QED  BY <2>3
<1>11. \A k \in 0 .. Len(s) : f[k] \in Nat  BY <1>4
<1>12. \A k \in 0 .. Len(s) : Advance(s, k) = f[k]  BY <1>8, <1>9
<1>13. Advance(s, 0) = 0  BY <1>0, <1>4, <1>12
<1>14. ASSUME NEW k \in 1 .. Len(s) PROVE Advance(s, k) = Advance(s, k - 1) + s[k].taken
  <2>1. k \in 0 .. Len(s) /\ k - 1 \in 0 .. Len(s)  BY <1>0
  <2> QED  BY <1>4, <1>12, <2>1
<1> QED  BY <1>0, <1>10, <1>11, <1>12, <1>13, <1>14

LEMMA RowSizes == ASSUME NEW s, Row(s) PROVE Sizes(s)
  BY DEF Row, Sizes, Exact

LEMMA TakenIs ==
  ASSUME NEW s, Sizes(s)
  PROVE  Taken(s) \in Nat /\ Taken(s) % 2 = 0
<1>1. Len(s) \in Nat /\ Len(s) \in 0 .. Len(s)  BY DEF Sizes
<1> QED  BY <1>1, AdvanceIs DEF Taken

\* A reader meets every chunk of a row.
LEMMA RowTiles ==
  ASSUME NEW s, Row(s), NEW at \in Int
  PROVE  Tiles(s, at, at + Taken(s))
<1>1. DOMAIN s = 1 .. Len(s)  BY DEF Row
<1>2. ASSUME NEW k \in 1 .. Len(s)
      PROVE  After(at + Advance(s, k - 1), s[k]) = at + Advance(s, k)
  <2>1. k - 1 \in 0 .. Len(s) /\ k \in 0 .. Len(s)  BY RowSizes, AdvanceIs
  <2>2. Exact(s[k])  BY DEF Row
  <2>3. Advance(s, k) = Advance(s, k - 1) + s[k].taken /\ Advance(s, k - 1) \in Nat
    BY <2>1, RowSizes, AdvanceIs
  <2>4. PICK a \in Nat, e \in Int : a = Advance(s, k - 1) /\ e = Even(s[k].stated)
    BY <2>2, <2>3, EvenIs DEF Exact
  <2>5. After(at + a, s[k]) = at + a + 12 + e /\ 12 + e = s[k].taken
    BY <2>2, <2>4 DEF Exact, After, CHUNK_HEADER_SIZE
  <2> QED  BY <2>3, <2>4, <2>5
<1> QED  BY <1>1, <1>2 DEF Tiles

\* What two and three chunks take.
LEMMA TakenOfFew ==
  ASSUME NEW a, NEW b, NEW c, Sized(a), Sized(b), Sized(c)
  PROVE  /\ Taken(<<a, b>>) = a.taken + b.taken
         /\ Taken(<<a, b, c>>) = a.taken + b.taken + c.taken
<1> DEFINE s == <<a, b>>
           t == <<a, b, c>>
<1>1. s \in Seq({a, b}) /\ Len(s) = 2 /\ s[1] = a /\ s[2] = b
  OBVIOUS
<1>2. t \in Seq({a, b, c}) /\ Len(t) = 3 /\ t[1] = a /\ t[2] = b /\ t[3] = c
  OBVIOUS
<1> SUFFICES Taken(s) = a.taken + b.taken /\ Taken(t) = a.taken + b.taken + c.taken
  OBVIOUS
<1> HIDE DEF s, t
<1>3. Sizes(s)
  <2>1. \A k \in 1 .. Len(s) : Sized(s[k])  BY <1>1
  <2> QED  BY <1>1, <2>1, SizesOf
<1>4. Sizes(t)
  <2>1. \A k \in 1 .. Len(t) : Sized(t[k])  BY <1>2
  <2> QED  BY <1>2, <2>1, SizesOf
<1>5. a.taken \in Nat /\ b.taken \in Nat /\ c.taken \in Nat  BY DEF Sized
<1>6. Taken(s) = a.taken + b.taken
  <2>1. Advance(s, 0) = 0 /\ Advance(s, 1) = Advance(s, 1 - 1) + s[1].taken
        /\ Advance(s, 2) = Advance(s, 2 - 1) + s[2].taken
    <3>1. 1 \in 1 .. Len(s) /\ 2 \in 1 .. Len(s)  BY <1>1
    <3> QED  BY <1>3, <3>1, AdvanceIs
  <2>2. Advance(s, 1) = a.taken  BY <1>1, <1>5, <2>1
  <2> QED  BY <1>1, <1>5, <2>1, <2>2 DEF Taken
<1>7. Taken(t) = a.taken + b.taken + c.taken
  <2>1. Advance(t, 0) = 0 /\ Advance(t, 1) = Advance(t, 1 - 1) + t[1].taken
        /\ Advance(t, 2) = Advance(t, 2 - 1) + t[2].taken
        /\ Advance(t, 3) = Advance(t, 3 - 1) + t[3].taken
    <3>1. 1 \in 1 .. Len(t) /\ 2 \in 1 .. Len(t) /\ 3 \in 1 .. Len(t)  BY <1>2
    <3> QED  BY <1>4, <3>1, AdvanceIs
  <2>2. Advance(t, 1) = a.taken  BY <1>2, <1>5, <2>1
  <2>3. Advance(t, 2) = a.taken + b.taken  BY <1>2, <1>5, <2>1, <2>2
  <2> QED  BY <1>2, <1>5, <2>1, <2>3 DEF Taken
<1> QED  BY <1>6, <1>7

-----------------------------------------------------------------------------
(* The chunks of the header and of the footer *)

LEMMA EvenChunk ==
  ASSUME NEW id, NEW x \in Nat
  PROVE  Exact(Chunk(id, Even(x - 12), Even(x)))
<1>1. Even(x) \in Nat /\ Even(x) % 2 = 0 /\ Even(x - 12) = Even(x) - 12
  BY DEF Even
<1>2. Even(Even(x - 12)) = Even(x) - 12
  <2>1. (x - 12) \in Int /\ Even(x - 12) \in Int /\ Even(x - 12) % 2 = 0  BY EvenIs
  <2> QED  BY <1>1, <2>1, EvenIs
<1> QED  BY <1>1, <1>2 DEF Exact, Sized, Chunk, CHUNK_HEADER_SIZE

LEMMA FixedExact ==
  ASSUME NEW id, NEW x \in Nat, x % 2 = 0
  PROVE  Exact(Fixed(id, x)) /\ Fixed(id, x).taken = x /\ Fixed(id, x).inner = <<>>
<1>1. Fixed(id, x) = Chunk(id, Even(x - 12), Even(x))
  BY EvenIs DEF Fixed, CHUNK_HEADER_SIZE
<1> QED  BY <1>1, EvenChunk, EvenIs DEF Chunk

\* A chunk of chunks is exact, and so is what it holds.
LEMMA GroupExact ==
  ASSUME NEW id, NEW x \in Nat, x % 2 = 0, NEW inner, Row(inner)
  PROVE  /\ Exact(Group(id, x, inner)) /\ Group(id, x, inner).inner = inner
         /\ Group(id, x, inner).taken = x + Taken(inner)
         /\ CHUNK_HEADER_SIZE + Group(id, x, inner).stated = x + Taken(inner)
<1>1. Taken(inner) \in Nat /\ Taken(inner) % 2 = 0  BY RowSizes, TakenIs
<1>2. PICK all \in Nat : all = x + Taken(inner) /\ all % 2 = 0
  <2>1. PICK n \in Nat : n = Taken(inner) /\ n % 2 = 0  BY <1>1
  <2>2. x + n \in Nat /\ (x + n) % 2 = 0  BY <2>1, EvenSum
  <2> QED  BY <2>1, <2>2
<1>3. Even(all - 12) = all - 12 /\ Even(Even(all - 12)) = all - 12
  BY <1>2 DEF Even
<1>4. Group(id, x, inner) = [id |-> id, stated |-> Even(all - 12), taken |-> all, inner |-> inner]
  BY <1>2 DEF Group, CHUNK_HEADER_SIZE
<1> QED  BY <1>2, <1>3, <1>4 DEF Exact, Sized, CHUNK_HEADER_SIZE

\* A chunk of the header or the footer that holds others is filled by them.
Solid(c) == Exact(c) /\ (c.inner # <<>> => Row(c.inner) /\ CHUNK_HEADER_SIZE + c.stated = c.taken
                                           /\ Taken(c.inner) <= c.taken)
SolidRow(s) == Row(s) /\ \A k \in 1 .. Len(s) : Solid(s[k])

LEMMA SolidJoined ==
  ASSUME NEW s, NEW t, SolidRow(s), SolidRow(t)
  PROVE  SolidRow(s \o t)
<1>1. Row(s \o t)  BY RowJoined DEF SolidRow
<1> DEFINE S == {s[k] : k \in 1 .. Len(s)}
           T == {t[k] : k \in 1 .. Len(t)}
<1>2. \A x \in S \cup T : Solid(x)  BY DEF SolidRow
<1>3. s \in Seq(S) /\ t \in Seq(T)  BY DEF SolidRow, Row
<1> HIDE DEF S, T
<1>4. s \in Seq(S \cup T) /\ t \in Seq(S \cup T)  BY <1>3
<1>5. s \o t \in Seq(S \cup T)  BY <1>4
<1>6. \A k \in 1 .. Len(s \o t) : (s \o t)[k] \in S \cup T  BY <1>5
<1> QED  BY <1>1, <1>2, <1>6 DEF SolidRow

LEMMA SolidOfFew ==
  ASSUME NEW a, Solid(a)
  PROVE  /\ SolidRow(<<>>) /\ SolidRow(<<a>>)
         /\ \A b : Solid(b) => SolidRow(<<a, b>>)
<1>1. Exact(a) /\ \A b : Solid(b) => Exact(b)  BY DEF Solid
<1>2. SolidRow(<<>>)
  <2>1. PICK s : s = <<>>  OBVIOUS
  <2>2. Row(s) /\ Len(s) = 0  BY <1>1, <2>1, RowsOfFew
  <2>3. \A k \in 1 .. Len(s) : Solid(s[k])  BY <2>2
  <2> QED  BY <2>1, <2>2, <2>3 DEF SolidRow
<1>3. SolidRow(<<a>>)
  <2>1. Row(<<a>>) /\ Len(<<a>>) = 1 /\ <<a>>[1] = a  BY <1>1, RowsOfFew
  <2>2. \A k \in 1 .. Len(<<a>>) : Solid(<<a>>[k])  BY <2>1
  <2> QED  BY <2>1, <2>2 DEF SolidRow
<1>4. ASSUME NEW b, Solid(b) PROVE SolidRow(<<a, b>>)
  <2>1. Row(<<a, b>>)  BY <1>1, <1>4, RowsOfFew
  <2>2. Len(<<a, b>>) = 2 /\ <<a, b>>[1] = a /\ <<a, b>>[2] = b  OBVIOUS
  <2>3. \A k \in 1 .. Len(<<a, b>>) : Solid(<<a, b>>[k])  BY <1>4, <2>2
  <2> QED  BY <2>1, <2>3 DEF SolidRow
<1> QED  BY <1>2, <1>3, <1>4

LEMMA PlainSolid ==
  ASSUME NEW id, NEW x \in Nat
  PROVE  /\ Solid(Chunk(id, Even(x - 12), Even(x)))
         /\ x % 2 = 0 => Solid(Fixed(id, x)) /\ Fixed(id, x).taken = x
<1>1. Solid(Chunk(id, Even(x - 12), Even(x)))  BY EvenChunk DEF Solid, Chunk
<1>2. ASSUME x % 2 = 0 PROVE Solid(Fixed(id, x)) /\ Fixed(id, x).taken = x
  BY <1>2, FixedExact DEF Solid
<1> QED  BY <1>1, <1>2

\* The chunk of a group is solid.
LEMMA GroupSolid ==
  ASSUME NEW id, NEW x \in Nat, x % 2 = 0, NEW inner, Row(inner)
  PROVE  Solid(Group(id, x, inner))
<1>1. Taken(inner) \in Nat  BY RowSizes, TakenIs
<1> QED  BY <1>1, GroupExact DEF Solid

LEMMA PropertySolid ==
  ASSUME Numbers, SettingInv
  PROVE  Solid(Property)
<1>1. ChannelCount \in Nat  BY DEF Numbers
<1>2. Exact(Fixed("FS", SAMPLE_RATE_CHUNK_SIZE)) /\ Exact(Fixed("LSCO", LOADSPEAKER_CONFIG_CHUNK_SIZE))
  <2>1. SAMPLE_RATE_CHUNK_SIZE = 16 /\ LOADSPEAKER_CONFIG_CHUNK_SIZE = 14
    BY DEF SAMPLE_RATE_CHUNK_SIZE, LOADSPEAKER_CONFIG_CHUNK_SIZE, CHUNK_HEADER_SIZE
  <2> QED  BY <2>1, FixedExact
<1>3. Exact(ChannelChunk)
  <2>1. PICK x \in Nat : x = 14 + 4 * ChannelCount /\ x % 2 = 0  BY <1>1
  <2>2. Even(x) = x  BY <2>1, EvenIs
  <2>3. ChannelChunk = Chunk("CHNL", Even(x - 12), Even(x))
    <3>1. CHANNELS_CHUNK_SIZE = 14 /\ CHUNK_HEADER_SIZE = 12
      BY DEF CHANNELS_CHUNK_SIZE, CHUNK_HEADER_SIZE
    <3>2. 14 - 12 + 4 * ChannelCount = x - 12  BY <1>1, <2>1
    <3> QED  BY <2>1, <2>2, <3>1, <3>2 DEF ChannelChunk
  <2> QED  BY <2>3, EvenChunk
<1>4. Exact(Compression)
  <2>1. PICK x \in Nat : x = 17 + NameLength  BY DEF NameLength
  <2>2. COMPRESSION_TYPE_CHUNK_SIZE = 17 /\ CHUNK_HEADER_SIZE = 12
    BY DEF COMPRESSION_TYPE_CHUNK_SIZE, CHUNK_HEADER_SIZE
  <2>3. 17 - 12 + NameLength = x - 12  BY <2>1 DEF NameLength
  <2>4. Compression = Chunk("CMPR", Even(x - 12), Even(x))  BY <2>1, <2>2, <2>3 DEF Compression
  <2> QED  BY <2>4, EvenChunk
<1>5. Row(<<Fixed("FS", SAMPLE_RATE_CHUNK_SIZE), ChannelChunk, Compression,
            Fixed("LSCO", LOADSPEAKER_CONFIG_CHUNK_SIZE)>>)
  BY <1>2, <1>3, <1>4, RowsOfFew
<1>6. PROPERTY_CHUNK_SIZE = 16  BY DEF PROPERTY_CHUNK_SIZE, CHUNK_HEADER_SIZE
<1> QED  BY <1>5, <1>6, GroupSolid DEF Property

\* What is in front of the sound data, and by how much the code advances over it.
FrontChunks == <<Fixed("FVER", FORMAT_VERSION_CHUNK_SIZE), Property>>
SoundHeaderSize == IF dsd_encoded_export THEN 12 ELSE 30

LEMMA HeaderIs ==
  ASSUME Numbers, SettingInv, NEW frames, NEW audio \in Nat
  PROVE  /\ SolidRow(FrontChunks) /\ Taken(FrontChunks) \in Nat
         /\ Front(Header(frames, audio)) = FrontChunks
         /\ Last(Header(frames, audio)) = SoundData(frames, audio)
         /\ SoundData(frames, audio).taken = SoundHeaderSize
         /\ HeaderSize(frames, audio) = 16 + Taken(FrontChunks) + SoundHeaderSize
         /\ HeaderSize(frames, audio) \in Nat /\ HeaderSize(frames, audio) % 2 = 0
<1>1. Solid(Fixed("FVER", FORMAT_VERSION_CHUNK_SIZE)) /\ Solid(Property)
  <2>1. FORMAT_VERSION_CHUNK_SIZE = 16  BY DEF FORMAT_VERSION_CHUNK_SIZE, CHUNK_HEADER_SIZE
  <2>2. Solid(Fixed("FVER", 16))  BY PlainSolid
  <2> QED  BY <2>1, <2>2, PropertySolid
<1>2. SolidRow(FrontChunks)  BY <1>1, SolidOfFew DEF FrontChunks
<1>3. Taken(FrontChunks) \in Nat /\ Taken(FrontChunks) % 2 = 0
  BY <1>2, RowSizes, TakenIs DEF SolidRow
<1>4. SoundData(frames, audio).taken = SoundHeaderSize
  BY DEF SoundData, SoundHeaderSize, Chunk, CHUNK_HEADER_SIZE, DST_SOUND_DATA_CHUNK_SIZE,
         DST_FRAME_INFORMATION_CHUNK_SIZE
<1>5. SoundHeaderSize \in Nat /\ SoundHeaderSize % 2 = 0  BY DEF SoundHeaderSize
<1>6. PICK a, b, c : a = Fixed("FVER", FORMAT_VERSION_CHUNK_SIZE) /\ b = Property
                     /\ c = SoundData(frames, audio)
  OBVIOUS
<1>7. Sized(a) /\ Sized(b) /\ Sized(c)  BY <1>1, <1>4, <1>5, <1>6 DEF Solid, Exact, Sized
<1>8. Header(frames, audio) = <<a, b, c>> /\ FrontChunks = <<a, b>>
  BY <1>6 DEF Header, FrontChunks
<1>9. Taken(Header(frames, audio)) = Taken(FrontChunks) + SoundHeaderSize
  <2>1. a.taken \in Nat /\ b.taken \in Nat /\ c.taken \in Nat  BY <1>7 DEF Sized
  <2>2. Taken(Header(frames, audio)) = a.taken + b.taken + c.taken /\ Taken(FrontChunks) = a.taken + b.taken
    BY <1>7, <1>8, TakenOfFew
  <2> QED  BY <1>4, <1>6, <2>1, <2>2
<1>10. Front(<<a, b, c>>) = <<a, b>> /\ Last(<<a, b, c>>) = c
  <2>1. PICK s : s = <<a, b, c>>  OBVIOUS
  <2>2. s \in Seq({a, b, c}) /\ Len(s) = 3 /\ s[1] = a /\ s[2] = b /\ s[3] = c
    BY <2>1
  <2>3. PICK r : r = SubSeq(s, 1, 2)  OBVIOUS
  <2>4. r \in Seq({a, b, c}) /\ Len(r) = 2 /\ r[1] = a /\ r[2] = b  BY <2>2, <2>3
  <2>5. r = <<a, b>>
    <3>1. r = [k \in 1 .. 2 |-> r[k]]  BY <2>4
    <3> QED  BY <2>4, <3>1
  <2>6. Front(s) = r /\ Last(s) = c  BY <2>2, <2>3 DEF Front, Last
  <2> QED  BY <2>1, <2>5, <2>6
<1>11. HeaderSize(frames, audio) = 16 + Taken(FrontChunks) + SoundHeaderSize
  <2>1. PICK n \in Nat, k \in Nat : n = Taken(FrontChunks) /\ k = SoundHeaderSize /\ n % 2 = 0 /\ k % 2 = 0
    BY <1>3, <1>5
  <2>2. Even(16 + (n + k)) = 16 + (n + k)
    <3>1. (n + k) % 2 = 0  BY <2>1, EvenSum
    <3>2. (16 + (n + k)) % 2 = 0  BY <2>1, <3>1, EvenSum
    <3> QED  BY <2>1, <3>2, EvenIs
  <2>3. FORM_DSD_CHUNK_SIZE = 16  BY DEF FORM_DSD_CHUNK_SIZE, CHUNK_HEADER_SIZE
  <2>4. HeaderSize(frames, audio) = 16 + (n + k)  BY <1>9, <2>1, <2>2, <2>3 DEF HeaderSize
  <2> QED  BY <2>1, <2>4
<1>12. HeaderSize(frames, audio) \in Nat /\ HeaderSize(frames, audio) % 2 = 0
  <2>1. PICK n \in Nat, k \in Nat : n = Taken(FrontChunks) /\ k = SoundHeaderSize /\ n % 2 = 0 /\ k % 2 = 0
    BY <1>3, <1>5
  <2>2. HeaderSize(frames, audio) = 16 + n + k  BY <1>11, <2>1
  <2> QED  BY <2>1, <2>2
<1> QED  BY <1>2, <1>3, <1>4, <1>6, <1>8, <1>10, <1>11, <1>12

LEMMA MarkerSolid == Solid(Marker)
<1>1. EDITED_MASTER_MARKER_CHUNK_SIZE = 34 /\ CHUNK_HEADER_SIZE = 12
  BY DEF EDITED_MASTER_MARKER_CHUNK_SIZE, CHUNK_HEADER_SIZE
<1>2. Marker = Chunk("MARK", Even(34 - 12), Even(34))  BY <1>1 DEF Marker
<1> QED  BY <1>2, PlainSolid

LEMMA MarkersRow ==
  ASSUME NEW t
  PROVE  Markers(t) \in Seq({Marker})
<1>1. PICK none, one : none = <<>> /\ one = <<Marker>>
  OBVIOUS
<1>2. none \in Seq({Marker}) /\ one \in Seq({Marker})  BY <1>1
<1>3. \A r, s \in Seq({Marker}) : r \o s \in Seq({Marker})  OBVIOUS
<1>4. PICK first, last : /\ first = (IF t = 1 THEN one ELSE none)
                         /\ last = (IF t = NrOfTracks \/ (t < NrOfTracks /\ Pauses[t]) THEN one ELSE none)
  OBVIOUS
<1>5. first \in Seq({Marker}) /\ last \in Seq({Marker})  BY <1>2, <1>4
<1>6. (first \o one) \o last \in Seq({Marker})  BY <1>2, <1>3, <1>5
<1>7. Markers(t) = (first \o one) \o last  BY <1>1, <1>4 DEF Markers
<1> QED  BY <1>6, <1>7

LEMMA MarksRow ==
  ASSUME Numbers, SettingInv
  PROVE  Row(Marks)
<1>1. EDITED_MASTER_ID_CHUNK_SIZE = 12 /\ EDITED_MASTER_MARKER_CHUNK_SIZE = 34
  BY DEF EDITED_MASTER_ID_CHUNK_SIZE, EDITED_MASTER_MARKER_CHUNK_SIZE, CHUNK_HEADER_SIZE
<1>2. Exact(EditedMasterId)  BY <1>1, FixedExact DEF EditedMasterId
<1>3. Exact(Fixed("MARK", EDITED_MASTER_MARKER_CHUNK_SIZE))  BY <1>1, FixedExact
<1>4. CASE ~edit_master
  <2>1. Marks = <<Fixed("MARK", EDITED_MASTER_MARKER_CHUNK_SIZE)>>  BY <1>4 DEF Marks
  <2> QED  BY <1>3, <2>1, RowsOfFew
<1>5. CASE edit_master
  <2> DEFINE S == {EditedMasterId, Marker}
             n == NrOfTracks
             next == [t \in 1 .. n |-> [v \in Seq(S) |-> v \o Markers(t)]]
             Is(f) == f = [t \in 0 .. n |-> IF t = 0 THEN <<EditedMasterId>> ELSE f[t - 1] \o Markers(t)]
  <2>0. n \in Nat
    <3>1. Len(Pauses) \in Nat  BY DEF Numbers
    <3> QED  BY <3>1 DEF NrOfTracks
  <2> HIDE DEF n
  <2>1. \A t \in 1 .. n : Markers(t) \in Seq(S)
    <3>1. {Marker} \subseteq S  OBVIOUS
    <3> HIDE DEF S
    <3>2. \A t \in 1 .. n : Markers(t) \in Seq({Marker})  BY MarkersRow
    <3> QED  BY <3>1, <3>2
  <2>2. Steps(next, n, Seq(S))
    <3> HIDE DEF S
    <3>1. \A t \in 1 .. n : \A v \in Seq(S) : v \o Markers(t) \in Seq(S)  BY <2>1
    <3> QED  BY <3>1 DEF Steps
  <2>3. PICK base : base = <<EditedMasterId>> /\ base \in Seq(S)
    <3>1. <<EditedMasterId>> \in Seq(S)  OBVIOUS
    <3> QED  BY <3>1
  <2>4. PICK f : Solves(f, n, Seq(S), base, next)
    <3> HIDE DEF next, S
    <3> QED  BY <2>0, <2>2, <2>3, Recursion
  <2>5. Is(f)
    <3>1. \A t \in 1 .. n : \A v \in Seq(S) : next[t][v] = v \o Markers(t)  OBVIOUS
    <3> HIDE DEF next, S
    <3>2. f \in [0 .. n -> Seq(S)] /\ f[0] = base /\ \A t \in 1 .. n : f[t] = next[t][f[t - 1]]
      BY <2>4 DEF Solves
    <3>3. \A t \in 1 .. n : t - 1 \in 0 .. n  BY <2>0
    <3>4. \A t \in 1 .. n : f[t] = f[t - 1] \o Markers(t)  BY <3>1, <3>2, <3>3
    <3>5. ASSUME NEW t \in 0 .. n
          PROVE  f[t] = IF t = 0 THEN <<EditedMasterId>> ELSE f[t - 1] \o Markers(t)
      <4>1. CASE t = 0  BY <2>3, <3>2, <4>1
      <4>2. CASE t # 0
        <5>1. t \in 1 .. n  BY <2>0, <4>2
        <5> QED  BY <3>4, <4>2, <5>1
      <4> QED  BY <4>1, <4>2
    <3>6. f = [t \in 0 .. n |-> f[t]]  BY <3>2
    <3> QED  BY <3>5, <3>6, Zenon
  <2>6. PICK g : g = CHOOSE h : Is(h)  OBVIOUS
  <2>7. Is(g)  BY <2>5, <2>6
  <2>8. Marks = g[n]  BY <1>5, <2>6 DEF Marks, n
  <2>9. \A t \in 0 .. n : g[t] \in Seq(S)
    <3> DEFINE T == {t \in 0 .. n : g[t] \in Seq(S)}
    <3>1. 0 \in T  BY <2>0, <2>3, <2>7
    <3>2. ASSUME NEW t \in 1 .. n, t - 1 \in T PROVE t \in T
      <4>1. g[t] = g[t - 1] \o Markers(t)
        <5>1. t \in 0 .. n /\ t # 0  BY <2>0
        <5>2. g[t] = IF t = 0 THEN <<EditedMasterId>> ELSE g[t - 1] \o Markers(t)
          BY <2>7, <5>1, Zenon
        <5> QED  BY <5>1, <5>2
      <4>2. g[t - 1] \in Seq(S) /\ Markers(t) \in Seq(S)  BY <2>1, <3>2
      <4>3. g[t] \in Seq(S)
        <5> HIDE DEF S
        <5> QED  BY <4>1, <4>2
      <4> QED  BY <4>3
    <3>3. 0 .. n \subseteq T
      <4> HIDE DEF T
      <4> QED  BY <2>0, <3>1, <3>2, Induction
    <3> QED  BY <3>3
  <2>10. Marks \in Seq(S)  BY <2>0, <2>8, <2>9
  <2>11. Exact(Marker)  BY MarkerSolid DEF Solid
  <2>12. \A x \in S : Exact(x)  BY <1>2, <2>11
  <2>13. \A k \in 1 .. Len(Marks) : Exact(Marks[k])
    <3> HIDE DEF S
    <3> QED  BY <2>10, <2>12
  <2> QED  BY <2>10, <2>13, RowOf
<1> QED  BY <1>4, <1>5

LEMMA TextRow ==
  ASSUME NEW id, NEW length \in Nat
  PROVE  Row(Text(id, 16, length))
<1>1. \A x \in Nat : x % 2 = 0 => Exact(Fixed(id, x))  BY FixedExact
<1>2. CASE length = 0
  <2>1. Exact(Fixed(id, 16))  BY <1>1
  <2> QED  BY <1>2, <2>1, RowsOfFew DEF Text
<1>3. CASE length # 0
  <2>1. PICK x \in Nat : x = 16 + length  OBVIOUS
  <2>2. Even(x) = 16 + Even(length)  BY <2>1 DEF Even
  <2>3. Text(id, 16, length) = <<Chunk(id, Even(x - 12), Even(x))>>
    BY <1>3, <2>1, <2>2 DEF Text, CHUNK_HEADER_SIZE
  <2> QED  BY <2>3, EvenChunk, RowsOfFew
<1> QED  BY <1>2, <1>3

LEMMA EditedMasterSolid ==
  ASSUME Numbers, SettingInv
  PROVE  Solid(EditedMaster)
<1>1. artist \in Nat /\ title \in Nat  BY DEF Numbers, SettingInv
<1>2. EDITED_MASTER_ARTIST_CHUNK_SIZE = 16 /\ EDITED_MASTER_TITLE_CHUNK_SIZE = 16
      /\ EDITED_MASTER_INFORMATION_CHUNK_SIZE = 12
  BY DEF EDITED_MASTER_ARTIST_CHUNK_SIZE, EDITED_MASTER_TITLE_CHUNK_SIZE,
         EDITED_MASTER_INFORMATION_CHUNK_SIZE, CHUNK_HEADER_SIZE
<1>3. PICK m, a, t : m = Marks /\ a = Text("DIAR", 16, artist) /\ t = Text("DITI", 16, title)
  OBVIOUS
<1>4. Row(m) /\ Row(a) /\ Row(t)  BY <1>1, <1>3, MarksRow, TextRow
<1>5. Row(m \o a)  BY <1>4, RowJoined
<1>6. Row((m \o a) \o t)  BY <1>4, <1>5, RowJoined
<1>7. Solid(Group("DIIN", 12, (m \o a) \o t))  BY <1>6, GroupSolid
<1>8. EditedMaster = Group("DIIN", 12, (m \o a) \o t)  BY <1>2, <1>3 DEF EditedMaster
<1> QED  BY <1>7, <1>8

LEMMA CommentsSolid ==
  ASSUME Numbers, SettingInv
  PROVE  Solid(Comments)
<1>1. mtoc_title \in Nat /\ VersionInfo \in Nat  BY DEF Numbers, SettingInv
<1>2. PICK x \in Nat : x = COMMENTS_CHUNK_SIZE + Even(COMMENT_SIZE + Material) + Even(COMMENT_SIZE + VersionInfo)
  <2>1. COMMENTS_CHUNK_SIZE = 14 /\ COMMENT_SIZE = 14
    BY DEF COMMENTS_CHUNK_SIZE, COMMENT_SIZE, CHUNK_HEADER_SIZE
  <2>2. Material \in Nat  BY <1>1 DEF Material
  <2>3. 14 + Even(14 + Material) + Even(14 + VersionInfo) \in Nat  BY <1>1, <2>2 DEF Even
  <2> QED  BY <2>1, <2>3
<1>3. Comments = Chunk("COMT", Even(x - 12), Even(x))  BY <1>2 DEF Comments, CHUNK_HEADER_SIZE
<1> QED  BY <1>3, PlainSolid

LEMMA IndexRow ==
  ASSUME NEW frames \in Nat
  PROVE  SolidRow(SoundIndex(frames))
<1>1. Solid(Marker)  BY MarkerSolid
<1>2. CASE dsd_encoded_export \/ frames = 0  BY <1>1, <1>2, SolidOfFew DEF SoundIndex
<1>3. CASE ~(dsd_encoded_export \/ frames = 0)
  <2>1. PICK x \in Nat : x = 12 + frames * 12  OBVIOUS
  <2>2. DST_FRAME_INDEX_SIZE = 12 /\ DST_SOUND_INDEX_CHUNK_SIZE = 12 /\ CHUNK_HEADER_SIZE = 12
    BY DEF DST_FRAME_INDEX_SIZE, DST_SOUND_INDEX_CHUNK_SIZE, CHUNK_HEADER_SIZE
  <2>3. frames * 12 + 12 - 12 = x - 12  BY <2>1
  <2>4. SoundIndex(frames) = <<Chunk("DSTI", Even(x - 12), Even(x))>>
    BY <1>3, <2>1, <2>2, <2>3 DEF SoundIndex
  <2> QED  BY <2>4, PlainSolid, SolidOfFew
<1> QED  BY <1>2, <1>3

LEMMA TagsRow ==
  ASSUME Numbers, SettingInv
  PROVE  SolidRow(Tags)
<1>1. tag \in Nat  BY DEF Numbers, SettingInv
<1>2. PICK x \in Nat : x = 12 + tag  BY <1>1
<1>3. tag = x - 12  BY <1>1, <1>2
<1>4. Tag = Chunk("ID3", Even(x - 12), Even(x))  BY <1>2, <1>3 DEF Tag, CHUNK_HEADER_SIZE
<1>5. Solid(Tag)  BY <1>4, PlainSolid
<1>6. PICK n \in Nat : n = IF edit_master THEN NrOfTracks ELSE 1
  <2>1. Len(Pauses) \in Nat  BY DEF Numbers
  <2> QED  BY <2>1 DEF NrOfTracks
<1>7. PICK c : c = Tag  OBVIOUS
<1>8. Tags = [t \in 1 .. n |-> c]  BY <1>6, <1>7 DEF Tags
<1>9. Tags \in Seq({c}) /\ Len(Tags) = n /\ \A k \in 1 .. Len(Tags) : Tags[k] = c
  BY <1>8
<1>10. Exact(c)  BY <1>5, <1>7 DEF Solid
<1>11. Row(Tags)
  <2>1. \A k \in 1 .. Len(Tags) : Exact(Tags[k])  BY <1>9, <1>10
  <2> QED  BY <1>9, <2>1, RowOf
<1> QED  BY <1>5, <1>7, <1>9, <1>11 DEF SolidRow

LEMMA FooterIs ==
  ASSUME Numbers, SettingInv, NEW frames \in Nat
  PROVE  /\ SolidRow(Footer(frames))
         /\ Taken(Footer(frames)) \in Nat /\ Taken(Footer(frames)) % 2 = 0
<1>1. PICK i, m, t : i = SoundIndex(frames) /\ m = <<EditedMaster, Comments>> /\ t = Tags
  OBVIOUS
<1>2. SolidRow(i) /\ SolidRow(t)  BY <1>1, IndexRow, TagsRow
<1>3. SolidRow(m)  BY <1>1, EditedMasterSolid, CommentsSolid, SolidOfFew
<1>4. SolidRow(i \o m)  BY <1>2, <1>3, SolidJoined
<1>5. SolidRow((i \o m) \o t)  BY <1>2, <1>4, SolidJoined
<1>6. Footer(frames) = (i \o m) \o t  BY <1>1 DEF Footer
<1>7. SolidRow(Footer(frames))  BY <1>5, <1>6
<1> QED  BY <1>7, RowSizes, TakenIs DEF SolidRow

-----------------------------------------------------------------------------
(* The steps *)

\* The sizes depend on what is written only by its setting.
LEMMA SettingKept ==
  ASSUME UNCHANGED setting
  PROVE  /\ SoundStart' = SoundStart
         /\ SettingInv => SettingInv'
         /\ \A n, a : Header(n, a)' = Header(n, a)
         /\ \A n, a : HeaderSize(n, a)' = HeaderSize(n, a)
         /\ \A n : Footer(n)' = Footer(n)
<1>1. /\ dsd_encoded_export' = dsd_encoded_export /\ edit_master' = edit_master
      /\ artist' = artist /\ title' = title /\ mtoc_title' = mtoc_title /\ tag' = tag
  BY DEF setting
<1>2. Property' = Property
  BY <1>1 DEF Property, Compression, NameLength
<1>3. ASSUME NEW n, NEW a PROVE Header(n, a)' = Header(n, a)
  <2>1. SoundData(n, a)' = SoundData(n, a)
    BY <1>1 DEF SoundData, FrameInformation
  <2> QED  BY <1>2, <2>1 DEF Header
<1>4. ASSUME NEW n, NEW a PROVE HeaderSize(n, a)' = HeaderSize(n, a)
  BY <1>3 DEF HeaderSize
<1>5. SoundStart' = SoundStart
  BY <1>4 DEF SoundStart
<1>6. ASSUME NEW n PROVE Footer(n)' = Footer(n)
  <2>1. SoundIndex(n)' = SoundIndex(n)  BY <1>1 DEF SoundIndex
  <2>2. Marks' = Marks  BY <1>1 DEF Marks
  <2>3. EditedMaster' = EditedMaster  BY <1>1, <2>2 DEF EditedMaster
  <2>4. Comments' = Comments  BY <1>1 DEF Comments, Material
  <2>5. Tags' = Tags  BY <1>1 DEF Tags, Tag
  <2> QED  BY <2>1, <2>3, <2>4, <2>5 DEF Footer
<1> QED  BY <1>1, <1>3, <1>4, <1>5, <1>6 DEF SettingInv

Entries == [length : Int, offset : Int]
Frames == [at : Nat, length : FrameLengths]

LEMMA Starts == ASSUME Numbers, Init PROVE DsdiffInv
<1>1. PICK none : none = <<>>  OBVIOUS
<1>2. none \in Seq(Entries) /\ none \in Seq(Frames) /\ Len(none) = 0 /\ DOMAIN none = {}
  BY <1>1
<1>3. /\ pc = "create" /\ pos = 0 /\ frame_count = 0 /\ audio_data_size = 0 /\ form_size = 0
      /\ frame_indexes = none /\ frame_indexes_allocated = 0 /\ sound = none
  BY <1>1 DEF Init
<1>4. SettingInv  BY DEF Init, SettingInv
<1>5. TypeOK  BY <1>2, <1>3 DEF TypeOK, Numbers
<1>6. IndexInv  BY <1>2, <1>3 DEF IndexInv, Entries
<1>7. SoundInv
  <2>1. SoundStart \in Nat  BY <1>4, HeaderIs DEF SoundStart
  <2>2. EndOf(Len(sound)) = SoundStart + audio_data_size  BY <1>2, <1>3, <2>1 DEF EndOf
  <2> QED  BY <1>1, <1>2, <1>3, <2>2 DEF SoundInv, Frames
<1>8. FileInv  BY <1>3 DEF FileInv
<1> QED  BY <1>4, <1>5, <1>6, <1>7, <1>8 DEF DsdiffInv

\* The index after it got an entry.
LEMMA IndexedIs ==
  ASSUME Numbers, TypeOK, IndexInv, ~dsd_encoded_export, NEW len \in Int, pos \in Int, Indexed(len)
  PROVE  /\ frame_indexes' \in Seq(Entries)
         /\ Len(frame_indexes') = frame_indexes_allocated'
         /\ frame_count + 1 <= frame_indexes_allocated'
         /\ frame_indexes'[frame_count + 1] = Entry(len, pos + 12)
         /\ \A k \in 1 .. frame_count : frame_indexes'[k] = frame_indexes[k]
<1>1. PICK n \in Nat, old \in Seq(Entries) :
        n = frame_count /\ old = frame_indexes /\ Len(old) = frame_indexes_allocated /\ n <= Len(old)
  BY DEF Numbers, TypeOK, IndexInv, Entries
<1>2. PICK more \in Nat : more = IF n + 1 > Len(old) THEN IndexStep ELSE 0
  BY DEF Numbers
<1>3. frame_indexes_allocated' = Len(old) + more /\ n + 1 <= Len(old) + more
  <2>1. IndexStep >= 1 /\ IndexStep \in Nat  BY DEF Numbers
  <2> QED  BY <1>1, <1>2, <2>1 DEF Indexed
<1>4. PICK fresh : fresh = [k \in 1 .. more |-> Entry(-1, -1)]  OBVIOUS
<1>5. fresh \in Seq(Entries) /\ Len(fresh) = more  BY <1>4 DEF Entry, Entries
<1>6. PICK grown : grown = old \o fresh  OBVIOUS
<1>7. /\ grown \in Seq(Entries) /\ Len(grown) = Len(old) + more
      /\ \A k \in 1 .. Len(old) : grown[k] = old[k]
  <2>1. PICK s \in Seq(Entries) : s = fresh /\ Len(s) = more  BY <1>5
  <2>2. grown = old \o s  BY <1>6, <2>1
  <2>3. grown \in Seq(Entries) /\ Len(grown) = Len(old) + Len(s)
    <3> HIDE DEF Entries
    <3> QED  BY <2>2, ConcatProperties
  <2>4. \A k \in 1 .. Len(old) : grown[k] = old[k]
    <3> HIDE DEF Entries
    <3> QED  BY <2>2, ConcatProperties
  <2> QED  BY <2>1, <2>3, <2>4
<1>8. PICK entry : entry = Entry(len, pos + 12)  OBVIOUS
<1>9. entry \in Entries
  <2>1. pos + 12 \in Int  OBVIOUS
  <2> QED  BY <1>8, <2>1 DEF Entry, Entries
<1>10. frame_indexes' = [grown EXCEPT ![n + 1] = entry]
  <2>1. frame_indexes_allocated' - frame_indexes_allocated = more  BY <1>1, <1>3
  <2>2. Grown(frame_indexes_allocated') = grown  BY <1>1, <1>4, <1>6, <2>1 DEF Grown
  <2>3. DST_FRAME_DATA_CHUNK_SIZE = 12  BY DEF DST_FRAME_DATA_CHUNK_SIZE, CHUNK_HEADER_SIZE
  <2> QED  BY <1>1, <1>8, <2>2, <2>3 DEF Indexed
<1>11. /\ frame_indexes' \in Seq(Entries) /\ Len(frame_indexes') = Len(grown)
       /\ frame_indexes'[n + 1] = entry
       /\ \A k \in 1 .. Len(grown) : k # n + 1 => frame_indexes'[k] = grown[k]
  <2>1. n + 1 \in 1 .. Len(grown)  BY <1>1, <1>3, <1>7
  <2> QED  BY <1>7, <1>9, <1>10, <2>1
<1>12. ASSUME NEW k \in 1 .. n PROVE frame_indexes'[k] = old[k]
  <2>1. k \in 1 .. Len(old) /\ k \in 1 .. Len(grown) /\ k # n + 1  BY <1>1, <1>7
  <2> QED  BY <1>7, <1>11, <2>1
<1> QED  BY <1>1, <1>3, <1>7, <1>8, <1>11, <1>12

\* A frame more in the file: the history with it.
LEMMA SoundGrows ==
  ASSUME Numbers, NEW old \in Seq(Frames), NEW f \in Frames, NEW new, new = Append(old, f)
  PROVE  /\ new \in Seq(Frames) /\ Len(new) = Len(old) + 1 /\ DOMAIN new = 1 .. Len(old) + 1
         /\ new[Len(old) + 1] = f /\ \A k \in 1 .. Len(old) : new[k] = old[k]
         /\ Len(old) \in Nat /\ DOMAIN old = 1 .. Len(old) /\ new # <<>>
<1>1. /\ new \in Seq(Frames) /\ Len(new) = Len(old) + 1 /\ Len(old) \in Nat
      /\ new[Len(old) + 1] = f /\ DOMAIN old = 1 .. Len(old)
  OBVIOUS
<1>2. \A k \in 1 .. Len(old) : new[k] = old[k]
  OBVIOUS
<1>3. DOMAIN new = 1 .. Len(old) + 1
  BY <1>1
<1>4. new # <<>>
  <2>1. Len(<<>>) = 0  OBVIOUS
  <2> QED  BY <1>1, <2>1
<1> QED  BY <1>1, <1>2, <1>3, <1>4

LEMMA DsdStep ==
  ASSUME Numbers, DsdiffInv, NEW len \in FrameLengths, WriteFrame(len), WriteDsd(len)
  PROVE  DsdiffInv'
<1>1. /\ pc \in {"write", "broken"} /\ pc' = pc /\ frame_count < MaxFrames
      /\ frame_count' = frame_count + 1 /\ UNCHANGED setting /\ UNCHANGED final
      /\ dsd_encoded_export /\ pos' = pos + len /\ audio_data_size' = audio_data_size + len
      /\ frame_indexes' = frame_indexes /\ frame_indexes_allocated' = frame_indexes_allocated
  BY DEF WriteFrame, WriteDsd
<1>2. PICK f : f = [at |-> pos, length |-> len] /\ sound' = Append(sound, f)
  BY DEF WriteDsd
<1>3. len \in Nat /\ pos \in Nat /\ audio_data_size \in Nat /\ frame_count \in 0 .. MaxFrames /\ MaxFrames \in Nat
  BY DEF Numbers, DsdiffInv, TypeOK
<1>4. sound \in Seq(Frames) /\ f \in Frames  BY <1>2, <1>3 DEF DsdiffInv, SoundInv, Frames
<1>5. /\ sound' \in Seq(Frames) /\ Len(sound') = Len(sound) + 1 /\ sound' # <<>> /\ Len(sound) \in Nat
      /\ sound'[Len(sound) + 1] = f /\ \A k \in 1 .. Len(sound) : sound'[k] = sound[k]
  BY <1>2, <1>4, SoundGrows
<1>6. /\ dsd_encoded_export' = dsd_encoded_export /\ form_size' = form_size
  BY <1>1 DEF setting, final
<1>7. SettingInv' /\ SoundStart' = SoundStart  BY <1>1, SettingKept DEF DsdiffInv
<1>8. TypeOK'
  BY <1>1, <1>3, <1>5, <1>6 DEF DsdiffInv, TypeOK
<1>9. IndexInv'
  BY <1>1, <1>3, <1>5, <1>6 DEF DsdiffInv, IndexInv
<1>10. SoundInv'
  <2>1. sound'[1].at = SoundStart
    <3>1. CASE sound = <<>>
      <4>1. Len(sound) = 0  BY <3>1
      <4>2. pos = SoundStart /\ SoundStart \in Int
        <5>1. audio_data_size = 0  BY <3>1 DEF DsdiffInv, SoundInv
        <5>2. SoundStart \in Nat  BY HeaderIs DEF SoundStart, DsdiffInv
        <5> QED  BY <1>1, <1>3, <5>1, <5>2 DEF DsdiffInv, FileInv
      <4> QED  BY <1>2, <1>5, <4>1, <4>2
    <3>2. CASE sound # <<>>
      <4>1. 1 \in 1 .. Len(sound)
        <5>1. Len(sound) # 0  BY <1>4, <3>2
        <5> QED  BY <1>5, <5>1
      <4> QED  BY <1>1, <1>5, <3>2, <4>1 DEF DsdiffInv, SoundInv
    <3> QED  BY <3>1, <3>2
  <2> QED  BY <1>1, <1>5, <1>6, <1>7, <2>1 DEF SoundInv, Frames
<1>11. FileInv'
  <2>1. SoundStart \in Nat  BY HeaderIs DEF SoundStart, DsdiffInv
  <2>2. pos' = SoundStart + audio_data_size'  BY <1>1, <1>3, <2>1 DEF DsdiffInv, FileInv
  <2> QED  BY <1>1, <1>7, <2>2 DEF FileInv
<1> QED  BY <1>7, <1>8, <1>9, <1>10, <1>11 DEF DsdiffInv

LEMMA DstStep ==
  ASSUME Numbers, DsdiffInv, NEW len \in FrameLengths, WriteFrame(len), WriteDst(len)
  PROVE  DsdiffInv'
<1>1. /\ pc \in {"write", "broken"} /\ pc' = pc /\ frame_count < MaxFrames
      /\ frame_count' = frame_count + 1 /\ UNCHANGED setting /\ UNCHANGED final
      /\ ~dsd_encoded_export /\ Indexed(len)
  BY DEF WriteFrame, WriteDst
<1>2. len \in Nat /\ pos \in Nat /\ audio_data_size \in Nat /\ frame_count \in 0 .. MaxFrames /\ MaxFrames \in Nat
  BY DEF Numbers, DsdiffInv, TypeOK
<1>3. PICK padded \in Nat : padded = Even(len) /\ padded = len + (len % 2) /\ padded % 2 = 0
  BY <1>2, EvenIs DEF Even
<1>4. PICK f : f = [at |-> pos + 12, length |-> len] /\ sound' = Append(sound, f)
  BY DEF WriteDst, DST_FRAME_DATA_CHUNK_SIZE, CHUNK_HEADER_SIZE
<1>5. pos' = pos + 12 + padded /\ audio_data_size' = audio_data_size + 12 + padded
  BY <1>2, <1>3 DEF WriteDst, DST_FRAME_DATA_CHUNK_SIZE, CHUNK_HEADER_SIZE
<1>6. sound \in Seq(Frames) /\ f \in Frames  BY <1>2, <1>4 DEF DsdiffInv, SoundInv, Frames
<1>7. /\ sound' \in Seq(Frames) /\ Len(sound') = Len(sound) + 1 /\ sound' # <<>> /\ Len(sound) \in Nat
      /\ DOMAIN sound' = 1 .. Len(sound) + 1 /\ DOMAIN sound = 1 .. Len(sound)
      /\ sound'[Len(sound) + 1] = f /\ \A k \in 1 .. Len(sound) : sound'[k] = sound[k]
  BY <1>4, <1>6, SoundGrows
<1>8. /\ dsd_encoded_export' = dsd_encoded_export /\ form_size' = form_size
  BY <1>1 DEF setting, final
<1>9. SettingInv' /\ SoundStart' = SoundStart  BY <1>1, SettingKept DEF DsdiffInv
<1>10. SoundStart \in Nat  BY HeaderIs DEF SoundStart, DsdiffInv
<1>11. /\ frame_indexes' \in Seq(Entries)
       /\ Len(frame_indexes') = frame_indexes_allocated'
       /\ frame_count + 1 <= frame_indexes_allocated'
       /\ frame_indexes'[frame_count + 1] = Entry(len, pos + 12)
       /\ \A k \in 1 .. frame_count : frame_indexes'[k] = frame_indexes[k]
  BY <1>1, <1>2, IndexedIs DEF DsdiffInv
<1>12. TypeOK'
  BY <1>1, <1>2, <1>3, <1>5, <1>7, <1>8, <1>11 DEF DsdiffInv, TypeOK
<1>13. IndexInv'
  <2>1. ASSUME pc = "write" PROVE \A k \in DOMAIN sound' : frame_indexes'[k] = Entry(sound'[k].length, sound'[k].at)
    <3>1. Len(sound) = frame_count  BY <2>1 DEF DsdiffInv, IndexInv
    <3>2. ASSUME NEW k \in 1 .. Len(sound)
          PROVE  frame_indexes'[k] = Entry(sound'[k].length, sound'[k].at)
      <4>1. frame_indexes[k] = Entry(sound[k].length, sound[k].at)
        BY <1>1, <1>7, <2>1 DEF DsdiffInv, IndexInv
      <4> QED  BY <1>7, <1>11, <3>1, <4>1
    <3>3. frame_indexes'[Len(sound) + 1] = Entry(f.length, f.at)
      BY <1>4, <1>11, <3>1
    <3> QED  BY <1>7, <3>2, <3>3
  <2>2. pc = "write" => Len(sound') = frame_count'
    BY <1>1, <1>7 DEF DsdiffInv, IndexInv
  <2> QED  BY <1>1, <1>11, <2>1, <2>2 DEF IndexInv, Entries
<1>14. SoundInv'
  <2>1. EndOf(Len(sound)) = pos
    BY <1>1, <1>2, <1>10 DEF DsdiffInv, SoundInv, FileInv
  <2>2. ASSUME NEW k \in 0 .. Len(sound) PROVE EndOf(k)' = EndOf(k)
    <3>1. k # 0 => sound'[k] = sound[k]  BY <1>7
    <3> QED  BY <1>9, <3>1 DEF EndOf
  <2>3. EndOf(Len(sound))' = SoundStart + audio_data_size'
    <3>1. EndOf(Len(sound))' = f.at + Even(f.length)
      <4>1. PICK n \in Nat : n = Len(sound) + 1 /\ n # 0  BY <1>7
      <4>2. EndOf(n)' = f.at + Even(f.length)
        <5>1. EndOf(n)' = sound'[n].at + Even(sound'[n].length)  BY <4>1 DEF EndOf
        <5> QED  BY <1>7, <4>1, <5>1
      <4>3. EndOf(Len(sound))' = EndOf(n)'  BY <1>7, <4>1
      <4> QED  BY <4>2, <4>3
    <3>2. f.at + Even(f.length) = pos + 12 + padded  BY <1>2, <1>3, <1>4
    <3>3. pos = SoundStart + audio_data_size  BY <1>1 DEF DsdiffInv, FileInv
    <3> QED  BY <1>2, <1>3, <1>5, <1>10, <3>1, <3>2, <3>3
  <2>4. ASSUME NEW k \in 1 .. Len(sound) + 1
        PROVE  sound'[k].at = EndOf(k - 1)' + DST_FRAME_DATA_CHUNK_SIZE
    <3>1. CASE k <= Len(sound)
      <4>1. k - 1 \in 0 .. Len(sound) /\ k \in 1 .. Len(sound)  BY <1>7, <3>1
      <4>2. sound[k].at = EndOf(k - 1) + DST_FRAME_DATA_CHUNK_SIZE
        BY <1>1, <1>7, <4>1 DEF DsdiffInv, SoundInv
      <4>3. EndOf(k - 1)' = EndOf(k - 1)  BY <2>2, <4>1
      <4> QED  BY <1>7, <4>1, <4>2, <4>3
    <3>2. CASE k = Len(sound) + 1
      <4>1. k - 1 = Len(sound) /\ Len(sound) \in 0 .. Len(sound)  BY <1>7, <3>2
      <4>2. EndOf(k - 1)' = pos  BY <2>1, <2>2, <4>1
      <4> QED  BY <1>4, <1>7, <3>2, <4>2 DEF DST_FRAME_DATA_CHUNK_SIZE, CHUNK_HEADER_SIZE
    <3> QED  BY <1>7, <3>1, <3>2
  <2>5. audio_data_size' % 2 = 0
    <3>1. audio_data_size % 2 = 0  BY <1>1 DEF DsdiffInv, SoundInv
    <3> QED  BY <1>2, <1>3, <1>5, <3>1
  <2>6. /\ \A k \in DOMAIN sound' : sound'[k].at = EndOf(k - 1)' + DST_FRAME_DATA_CHUNK_SIZE
        /\ EndOf(Len(sound))' = SoundStart' + audio_data_size'
    <3>1. EndOf(Len(sound))' = SoundStart' + audio_data_size'  BY <1>9, <2>3
    <3> QED  BY <1>7, <2>4, <3>1
  <2> QED  BY <1>1, <1>7, <1>8, <1>9, <2>5, <2>6 DEF SoundInv, Frames
<1>15. FileInv'
  <2>1. pos' = SoundStart + audio_data_size'
    BY <1>1, <1>2, <1>3, <1>5, <1>10 DEF DsdiffInv, FileInv
  <2> QED  BY <1>1, <1>9, <2>1 DEF FileInv
<1> QED  BY <1>9, <1>12, <1>13, <1>14, <1>15 DEF DsdiffInv

\* Before and after the frames only the step, the position and the chunks change.
LEMMA SoundKept ==
  ASSUME SoundInv, UNCHANGED <<setting, sound, frame_count>>, SoundStart' = SoundStart,
         audio_data_size % 2 = 0 => audio_data_size' = audio_data_size,
         sound = <<>> => audio_data_size' = 0,
         pc' # "create"
  PROVE  SoundInv'
<1>1. PICK n : n = Len(sound)  OBVIOUS
<1>2. Len(sound') = n /\ sound' = sound /\ dsd_encoded_export' = dsd_encoded_export
  BY <1>1 DEF setting
<1>3. \A k : EndOf(k)' = EndOf(k)  BY <1>2 DEF EndOf
<1>4. CASE dsd_encoded_export  BY <1>2, <1>4 DEF SoundInv
<1>5. CASE ~dsd_encoded_export
  <2>1. audio_data_size' = audio_data_size /\ audio_data_size % 2 = 0  BY <1>5 DEF SoundInv
  <2>2. EndOf(Len(sound))' = EndOf(Len(sound))
    <3>1. EndOf(Len(sound))' = EndOf(n)'  BY <1>2
    <3> QED  BY <1>1, <1>3, <3>1
  <2>3. \A k \in DOMAIN sound' : sound'[k].at = EndOf(k - 1)' + DST_FRAME_DATA_CHUNK_SIZE
    BY <1>2, <1>3, <1>5 DEF SoundInv
  <2> QED  BY <1>2, <1>5, <2>1, <2>2, <2>3 DEF SoundInv
<1> QED  BY <1>4, <1>5

LEMMA CreateStep == ASSUME Numbers, DsdiffInv, Create PROVE DsdiffInv'
<1>1. /\ pc = "create" /\ pc' \in {"write", "broken"} /\ pos' = HeaderSize(0, 0) /\ UNCHANGED setting
      /\ frame_count' = frame_count /\ audio_data_size' = audio_data_size
      /\ frame_indexes' = frame_indexes /\ frame_indexes_allocated' = frame_indexes_allocated
      /\ sound' = sound /\ UNCHANGED final
  BY DEF Create
<1>2. dsd_encoded_export' = dsd_encoded_export /\ form_size' = form_size  BY <1>1 DEF setting, final
<1>3. SettingInv' /\ SoundStart' = SoundStart  BY <1>1, SettingKept DEF DsdiffInv
<1>4. SoundStart \in Nat /\ pos' = SoundStart  BY <1>1, HeaderIs DEF SoundStart, DsdiffInv
<1>5. sound = <<>> /\ audio_data_size = 0  BY <1>1 DEF DsdiffInv, SoundInv
<1>6. TypeOK'  BY <1>1, <1>2, <1>4 DEF DsdiffInv, TypeOK
<1>7. IndexInv'
  <2>1. DOMAIN sound = {}  BY <1>5
  <2> QED  BY <1>1, <1>2, <2>1 DEF DsdiffInv, IndexInv
<1>8. SoundInv'
  <2>1. pc' # "create"  BY <1>1
  <2> QED  BY <1>1, <1>3, <1>5, <2>1, SoundKept DEF DsdiffInv
<1>9. FileInv'
  <2>1. pos' = SoundStart + audio_data_size'  BY <1>1, <1>4, <1>5
  <2> QED  BY <1>1, <1>3, <2>1 DEF FileInv
<1> QED  BY <1>3, <1>6, <1>7, <1>8, <1>9 DEF DsdiffInv

LEMMA FailStep ==
  ASSUME Numbers, DsdiffInv, NEW len \in FrameLengths, WriteFails(len)
  PROVE  DsdiffInv'
<1>1. /\ pc \in {"write", "broken"} /\ pc' = "broken" /\ frame_count < MaxFrames
      /\ frame_count' = frame_count + 1 /\ UNCHANGED setting /\ UNCHANGED final
      /\ pos' = pos /\ audio_data_size' = audio_data_size /\ sound' = sound
  BY DEF WriteFails
<1>2. len \in Nat /\ pos \in Nat /\ frame_count \in Nat /\ MaxFrames \in Nat /\ Len(sound) <= frame_count
      /\ Len(sound) \in Nat
  <2>1. sound \in Seq(Frames)  BY DEF DsdiffInv, SoundInv, Frames
  <2> QED  BY <2>1 DEF Numbers, DsdiffInv, TypeOK
<1>3. dsd_encoded_export' = dsd_encoded_export /\ form_size' = form_size  BY <1>1 DEF setting, final
<1>4. SettingInv' /\ SoundStart' = SoundStart  BY <1>1, SettingKept DEF DsdiffInv
<1>5. /\ frame_indexes' \in Seq(Entries) /\ Len(frame_indexes') = frame_indexes_allocated'
      /\ frame_count' <= frame_indexes_allocated' \/ dsd_encoded_export'
  <2>1. CASE dsd_encoded_export
    BY <1>3, <2>1 DEF WriteFails, DsdiffInv, TypeOK, IndexInv, Entries
  <2>2. CASE ~dsd_encoded_export
    <3>1. Indexed(len)  BY <2>2 DEF WriteFails
    <3> QED  BY <1>1, <1>2, <2>2, <3>1, IndexedIs DEF DsdiffInv
  <2> QED  BY <2>1, <2>2
<1>6. TypeOK'  BY <1>1, <1>2, <1>3, <1>5 DEF DsdiffInv, TypeOK
<1>7. IndexInv'  BY <1>1, <1>5 DEF IndexInv, Entries
<1>8. SoundInv'
  <2>1. PICK n : n = Len(sound)  OBVIOUS
  <2>2. \A k : EndOf(k)' = EndOf(k)  BY <1>1, <1>4 DEF EndOf
  <2>3. EndOf(Len(sound))' = EndOf(Len(sound))
    <3>1. EndOf(Len(sound))' = EndOf(n)'  BY <1>1, <2>1
    <3> QED  BY <2>1, <2>2, <3>1
  <2>4. \A k \in DOMAIN sound' : sound'[k] = sound[k] /\ EndOf(k - 1)' = EndOf(k - 1)
    BY <1>1, <2>2
  <2> QED  BY <1>1, <1>3, <1>4, <2>3, <2>4 DEF DsdiffInv, SoundInv
<1>9. FileInv'
  <2>1. pos' = SoundStart + audio_data_size'  BY <1>1 DEF DsdiffInv, FileInv
  <2> QED  BY <1>1, <1>4, <2>1 DEF FileInv
<1> QED  BY <1>4, <1>6, <1>7, <1>8, <1>9 DEF DsdiffInv

LEMMA CloseStep == ASSUME Numbers, DsdiffInv, Close PROVE DsdiffInv'
<1>1. /\ pc \in {"write", "broken"} /\ pc' \in {"closed", "failed"} /\ (pc' = "closed" => pc = "write")
      /\ UNCHANGED setting /\ frame_count' = frame_count /\ sound' = sound
      /\ frame_indexes' = frame_indexes /\ frame_indexes_allocated' = frame_indexes_allocated
  BY DEF Close
<1>2. PICK audio \in Nat : audio = audio_data_size' /\ audio = audio_data_size + (audio_data_size % 2)
                           /\ audio % 2 = 0 /\ (audio_data_size % 2 = 0 => audio = audio_data_size)
  <2>1. audio_data_size \in Nat  BY DEF DsdiffInv, TypeOK
  <2>2. PICK a \in Nat : a = audio_data_size  BY <2>1
  <2>3. a + (a % 2) \in Nat /\ (a + (a % 2)) % 2 = 0  OBVIOUS
  <2> QED  BY <2>2, <2>3 DEF Close, PadAudio
<1>3. PICK n \in Nat : n = frame_count  BY DEF DsdiffInv, TypeOK, Numbers
<1>4. PICK taken \in Nat : taken = Taken(Footer(n)) /\ taken % 2 = 0
  BY FooterIs DEF DsdiffInv
<1>5. PICK start \in Nat : start = SoundStart /\ start % 2 = 0 /\ start = HeaderSize(n, audio) /\ start >= 12
  <2>1. SettingInv /\ 0 \in Nat  BY DEF DsdiffInv
  <2>2. /\ HeaderSize(n, audio) = 16 + Taken(FrontChunks) + SoundHeaderSize
        /\ HeaderSize(n, audio) \in Nat /\ HeaderSize(n, audio) % 2 = 0
        /\ Taken(FrontChunks) \in Nat
    BY <2>1, HeaderIs
  <2>3. HeaderSize(0, 0) = 16 + Taken(FrontChunks) + SoundHeaderSize
    BY <2>1, HeaderIs
  <2>4. SoundHeaderSize \in Nat  BY DEF SoundHeaderSize
  <2> QED  BY <2>2, <2>3, <2>4 DEF SoundStart
<1>6. pos' = start + audio + taken
  <2>1. pos = start + audio_data_size  BY <1>1, <1>5 DEF DsdiffInv, FileInv
  <2>2. pos' = pos + (audio_data_size % 2) + taken  BY <1>3, <1>4 DEF Close, PadAudio
  <2>3. audio_data_size \in Nat  BY DEF DsdiffInv, TypeOK
  <2> QED  BY <1>2, <2>1, <2>2, <2>3
<1>7. /\ header' = Header(n, audio) /\ footer' = Footer(n)
      /\ form_size' = Even(start + taken + audio - 12)
  BY <1>2, <1>3, <1>4, <1>5 DEF Close, CHUNK_HEADER_SIZE
<1>8. form_size' \in Nat
  <2>1. start + taken + audio - 12 \in Nat  BY <1>5
  <2> QED  BY <1>7, <2>1 DEF Even
<1>9. dsd_encoded_export' = dsd_encoded_export  BY <1>1 DEF setting
<1>10. SettingInv' /\ SoundStart' = SoundStart  BY <1>1, SettingKept DEF DsdiffInv
<1>11. TypeOK'
  BY <1>1, <1>2, <1>6, <1>8, <1>9 DEF DsdiffInv, TypeOK
<1>12. IndexInv'  BY <1>1, <1>9 DEF DsdiffInv, IndexInv
<1>13. SoundInv'
  <2>1. sound = <<>> => audio_data_size' = 0
    <3>1. sound = <<>> => audio_data_size = 0  BY DEF DsdiffInv, SoundInv
    <3> QED  BY <1>2, <3>1
  <2>2. pc' # "create" /\ (audio_data_size % 2 = 0 => audio_data_size' = audio_data_size)
    BY <1>1, <1>2
  <2> QED  BY <1>1, <1>10, <2>1, <2>2, SoundKept DEF DsdiffInv
<1>14. FileInv'
  <2>1. /\ Header(n, audio)' = Header(n, audio) /\ Footer(n)' = Footer(n)
        /\ HeaderSize(n, audio)' = HeaderSize(n, audio)
    BY <1>1, SettingKept
  <2>2. /\ Header(frame_count, audio_data_size)' = Header(n, audio)
        /\ Footer(frame_count)' = Footer(n)
        /\ HeaderSize(frame_count, audio_data_size)' = start
    <3>1. frame_count' = n /\ audio_data_size' = audio  BY <1>1, <1>2, <1>3
    <3>2. /\ Header(frame_count, audio_data_size)' = Header(n, audio)'
          /\ Footer(frame_count)' = Footer(n)'
          /\ HeaderSize(frame_count, audio_data_size)' = HeaderSize(n, audio)'
      BY <3>1
    <3> QED  BY <1>5, <2>1, <3>2
  <2>3. Taken(Footer(frame_count))' = taken
    <3>1. Taken(Footer(frame_count))' = Taken(Footer(frame_count)')
      BY DEF Taken, Advance
    <3> QED  BY <1>4, <2>2, <3>1
  <2>4. pos' = SoundStart' + audio_data_size' + Taken(Footer(frame_count))'
    BY <1>2, <1>5, <1>6, <1>10, <2>3
  <2>5. form_size' = Even(HeaderSize(frame_count, audio_data_size) + Taken(Footer(frame_count))
                          + audio_data_size - CHUNK_HEADER_SIZE)'
    <3>1. form_size' = Even(HeaderSize(frame_count, audio_data_size)' + Taken(Footer(frame_count))'
                            + audio_data_size' - 12)
      BY <1>2, <1>7, <2>2, <2>3
    <3> QED  BY <3>1 DEF Even, CHUNK_HEADER_SIZE
  <2>6. /\ header' = Header(frame_count, audio_data_size)' /\ footer' = Footer(frame_count)'
        /\ audio_data_size' % 2 = 0 /\ pc' \notin {"write", "broken"}
    BY <1>1, <1>2, <1>7, <2>2
  <2> QED  BY <2>4, <2>5, <2>6 DEF FileInv
<1> QED  BY <1>10, <1>11, <1>12, <1>13, <1>14 DEF DsdiffInv

LEMMA IdleStep ==
  ASSUME DsdiffInv, CloseFails \/ UNCHANGED vars
  PROVE  DsdiffInv'
<1>1. /\ UNCHANGED setting /\ UNCHANGED final /\ pos' = pos /\ frame_count' = frame_count
      /\ audio_data_size' = audio_data_size /\ sound' = sound
      /\ frame_indexes' = frame_indexes /\ frame_indexes_allocated' = frame_indexes_allocated
      /\ (pc' = pc \/ pc' = "failed")
  BY DEF CloseFails, vars
<1>2. /\ dsd_encoded_export' = dsd_encoded_export
      /\ header' = header /\ footer' = footer /\ form_size' = form_size
  BY <1>1 DEF setting, final
<1>3. SettingInv' /\ SoundStart' = SoundStart  BY <1>1, SettingKept DEF DsdiffInv
<1>4. TypeOK'  BY <1>1, <1>2 DEF DsdiffInv, TypeOK
<1>5. IndexInv'  BY <1>1, <1>2 DEF DsdiffInv, IndexInv
<1>6. SoundInv'
  <2>1. CASE pc' # "create"
    <3>1. sound = <<>> => audio_data_size' = 0  BY <1>1 DEF DsdiffInv, SoundInv
    <3> QED  BY <1>1, <1>3, <2>1, <3>1, SoundKept DEF DsdiffInv
  <2>2. CASE pc' = "create"
    <3>1. pc = "create"  BY <1>1, <2>2
    <3>2. sound' = <<>> /\ frame_count' = 0 /\ sound = <<>>  BY <1>1, <3>1 DEF DsdiffInv, SoundInv
    <3>3. EndOf(Len(sound))' = EndOf(Len(sound))  BY <1>1, <1>3 DEF EndOf
    <3>4. DOMAIN sound' = {}  BY <3>2
    <3> QED  BY <1>1, <1>2, <1>3, <3>2, <3>3, <3>4 DEF DsdiffInv, SoundInv
  <2> QED  BY <2>1, <2>2
<1>7. FileInv'
  <2>1. PICK n, a : n = frame_count /\ a = audio_data_size  OBVIOUS
  <2>2. /\ Header(n, a)' = Header(n, a) /\ Footer(n)' = Footer(n)
        /\ HeaderSize(n, a)' = HeaderSize(n, a)
    BY <1>1, SettingKept
  <2>3. /\ Header(frame_count, audio_data_size)' = Header(n, a)
        /\ Footer(frame_count)' = Footer(n)
        /\ HeaderSize(frame_count, audio_data_size)' = HeaderSize(n, a)
    BY <1>1, <2>1, <2>2
  <2>4. Taken(Footer(frame_count))' = Taken(Footer(n))
    <3>1. Taken(Footer(frame_count))' = Taken(Footer(frame_count)')
      BY DEF Taken, Advance
    <3> QED  BY <2>3, <3>1
  <2> QED  BY <1>1, <1>2, <1>3, <2>1, <2>3, <2>4 DEF DsdiffInv, FileInv
<1> QED  BY <1>3, <1>4, <1>5, <1>6, <1>7 DEF DsdiffInv

-----------------------------------------------------------------------------
\* Whatever is written, and wherever writing fails, the sizes the writer keeps
\* are those of what it has put into the file.
THEOREM DsdiffInvariant == ASSUME Numbers PROVE Spec => []DsdiffInv
<1>1. Init => DsdiffInv  BY Starts
<1>2. DsdiffInv /\ [Next]_vars => DsdiffInv'
  <2> SUFFICES ASSUME DsdiffInv, [Next]_vars PROVE DsdiffInv'
    OBVIOUS
  <2>1. CASE Create  BY <2>1, CreateStep
  <2>2. ASSUME NEW len \in FrameLengths, WriteFrame(len) PROVE DsdiffInv'
    <3>1. WriteDsd(len) \/ WriteDst(len)  BY <2>2 DEF WriteFrame
    <3> QED  BY <2>2, <3>1, DsdStep, DstStep
  <2>3. ASSUME NEW len \in FrameLengths, WriteFails(len) PROVE DsdiffInv'  BY <2>3, FailStep
  <2>4. CASE Close  BY <2>4, CloseStep
  <2>5. CASE CloseFails \/ Stop \/ UNCHANGED vars
    <3>1. CloseFails \/ UNCHANGED vars  BY <2>5 DEF Stop
    <3> QED  BY <3>1, IdleStep
  <2> QED  BY <2>1, <2>2, <2>3, <2>4, <2>5 DEF Next
<1> QED  BY <1>1, <1>2, PTL DEF Spec

LEMMA InvIndexes == ASSUME Numbers, DsdiffInv PROVE IndexFindsFrames
<1> SUFFICES ASSUME pc = "closed", ~dsd_encoded_export PROVE IndexFindsFrames
  BY DEF IndexFindsFrames
<1>1. header = Header(frame_count, audio_data_size) /\ audio_data_size \in Nat
  BY DEF DsdiffInv, FileInv, TypeOK
<1>2. Last(header) = SoundData(frame_count, audio_data_size)  BY <1>1, HeaderIs DEF DsdiffInv
<1>3. Last(header).inner[1].num_frames = frame_count
  BY <1>2 DEF SoundData, FrameInformation
<1> QED  BY <1>3 DEF IndexFindsFrames, DsdiffInv, IndexInv

LEMMA InvTiles == ASSUME Numbers, DsdiffInv PROVE ChunksTileFile
<1> SUFFICES ASSUME pc = "closed" PROVE ChunksTileFile
  BY DEF ChunksTileFile
<1>1. SettingInv  BY DEF DsdiffInv
<1>2. PICK n \in Nat, audio \in Nat : n = frame_count /\ audio = audio_data_size /\ audio % 2 = 0
  BY DEF DsdiffInv, TypeOK, Numbers, FileInv
<1>3. PICK front, tail, last :
        front = FrontChunks /\ tail = Footer(n) /\ last = SoundData(n, audio)
  OBVIOUS
<1>4. Front(header) = front /\ Last(header) = last /\ footer = tail
  BY <1>1, <1>2, <1>3, HeaderIs DEF DsdiffInv, FileInv
<1>5. PICK a \in Nat, t \in Nat, h \in Nat :
        a = Taken(front) /\ t = Taken(tail) /\ h = SoundHeaderSize /\ t % 2 = 0
  <2>1. SoundHeaderSize \in Nat  BY DEF SoundHeaderSize
  <2>2. Taken(FrontChunks) \in Nat  BY <1>1, <1>2, HeaderIs
  <2>3. Taken(Footer(n)) \in Nat /\ Taken(Footer(n)) % 2 = 0  BY <1>1, FooterIs
  <2> QED  BY <1>3, <2>1, <2>2, <2>3
<1>6. SolidRow(front) /\ SolidRow(tail)  BY <1>1, <1>2, <1>3, HeaderIs, FooterIs
<1>7. PICK start \in Nat : start = SoundStart /\ start = 16 + a + h /\ start % 2 = 0
                           /\ start = HeaderSize(n, audio)
  BY <1>1, <1>2, <1>3, <1>5, HeaderIs DEF SoundStart
<1>8. FORM_DSD_CHUNK_SIZE = 16 /\ CHUNK_HEADER_SIZE = 12  BY DEF FORM_DSD_CHUNK_SIZE, CHUNK_HEADER_SIZE
<1>9. last.taken = h /\ After(16 + a, last) = start + audio
  <2>1. last.taken = h  BY <1>1, <1>2, <1>3, <1>5, HeaderIs
  <2>2. CASE dsd_encoded_export
    <3>1. last.stated = Even(audio) /\ h = 12
      BY <1>3, <1>5, <2>2 DEF SoundData, Chunk, SoundHeaderSize
    <3>2. Even(Even(audio)) = audio  BY <1>2, EvenIs
    <3> QED  BY <1>7, <1>8, <2>1, <3>1, <3>2 DEF After
  <2>3. CASE ~dsd_encoded_export
    <3>1. last.stated = Even(audio + 18) /\ h = 30
      BY <1>3, <1>5, <2>3 DEF SoundData, SoundHeaderSize, DST_FRAME_INFORMATION_CHUNK_SIZE, CHUNK_HEADER_SIZE
    <3>2. Even(Even(audio + 18)) = audio + 18
      <4>1. PICK x \in Nat : x = audio + 18 /\ x % 2 = 0  BY <1>2
      <4> QED  BY <4>1, EvenIs
    <3> QED  BY <1>7, <1>8, <2>1, <3>1, <3>2 DEF After
  <2> QED  BY <2>2, <2>3, <1>1 DEF SettingInv
<1>10. pos = start + audio + t
  BY <1>2, <1>3, <1>5, <1>7 DEF DsdiffInv, FileInv
<1>11. Tiles(front, 16, 16 + a)
  BY <1>5, <1>6, RowTiles DEF SolidRow
<1>12. Tiles(tail, start + audio, pos)
  <2>1. PICK end \in Int : end = start + audio  OBVIOUS
  <2>2. Tiles(tail, end, end + t)  BY <1>5, <1>6, RowTiles DEF SolidRow
  <2> QED  BY <1>10, <2>1, <2>2
<1>13. 12 + form_size = pos
  <2>1. form_size = Even(start + t + audio - 12)
    BY <1>2, <1>3, <1>5, <1>7, <1>8 DEF DsdiffInv, FileInv
  <2>2. PICK x \in Int : x = start + t + audio - 12 /\ x % 2 = 0  BY <1>2, <1>5, <1>7
  <2>3. Even(x) = x  BY <2>2, EvenIs
  <2> QED  BY <1>10, <2>1, <2>2, <2>3
<1>14. ASSUME NEW c \in ToSet(front) \cup ToSet(tail), c.inner # <<>>
       PROVE  Tiles(c.inner, c.taken - Taken(c.inner), 12 + c.stated)
  <2>1. Solid(c)
    <3>1. ASSUME NEW s, SolidRow(s), c \in ToSet(s) PROVE Solid(c)
      <4>1. DOMAIN s = 1 .. Len(s)  BY <3>1 DEF SolidRow, Row
      <4>2. PICK k \in 1 .. Len(s) : c = s[k]  BY <3>1, <4>1 DEF ToSet
      <4> QED  BY <3>1, <4>2 DEF SolidRow
    <3> QED  BY <1>6, <3>1
  <2>2. Row(c.inner) /\ 12 + c.stated = c.taken /\ c.taken \in Nat
    BY <1>8, <1>14, <2>1 DEF Solid, Exact, Sized
  <2>3. Taken(c.inner) \in Nat  BY <2>2, RowSizes, TakenIs
  <2>4. PICK i \in Nat, fixed \in Int : i = Taken(c.inner) /\ fixed = c.taken - i  BY <2>2, <2>3
  <2>5. Tiles(c.inner, fixed, fixed + i)  BY <2>2, <2>4, RowTiles
  <2> QED  BY <2>2, <2>4, <2>5
<1>15. dsd_encoded_export /\ sound # <<>> => sound[1].at = 16 + a + last.taken
  BY <1>7, <1>9 DEF DsdiffInv, SoundInv
<1>16. ASSUME ~dsd_encoded_export, NEW k \in 1 .. Len(sound) + 1
       PROVE  (IF k = 1 THEN 16 + a + last.taken ELSE sound[k - 1].at + Even(sound[k - 1].length))
                = IF k > Len(sound) THEN start + audio ELSE sound[k].at - 12
  <2>1. sound \in Seq(Frames)  BY DEF DsdiffInv, SoundInv, Frames
  <2>2. Len(sound) \in Nat /\ DOMAIN sound = 1 .. Len(sound)  BY <2>1
  <2>3. PICK j \in 0 .. Len(sound) : j = k - 1 /\ (j = 0 <=> k = 1)  BY <2>2
  <2>4. EndOf(j) = IF k = 1 THEN 16 + a + last.taken ELSE sound[k - 1].at + Even(sound[k - 1].length)
    BY <1>7, <1>9, <2>3 DEF EndOf
  <2>5. CASE k > Len(sound)
    <3>1. j = Len(sound)  BY <2>2, <2>3, <2>5
    <3>2. EndOf(j) = start + audio  BY <1>2, <1>7, <1>16, <3>1 DEF DsdiffInv, SoundInv
    <3> QED  BY <2>4, <2>5, <3>2
  <2>6. CASE ~(k > Len(sound))
    <3>1. k \in DOMAIN sound /\ sound[k].at \in Nat
      <4>1. k \in 1 .. Len(sound)  BY <2>2, <2>6
      <4>2. sound[k] \in Frames  BY <2>1, <2>2, <4>1
      <4>3. sound[k].at \in Nat  BY <4>2 DEF Frames
      <4> QED  BY <2>2, <4>1, <4>3
    <3>2. sound[k].at = EndOf(k - 1) + 12
      BY <1>16, <3>1 DEF DsdiffInv, SoundInv, DST_FRAME_DATA_CHUNK_SIZE, CHUNK_HEADER_SIZE
    <3>3. EndOf(j) \in Int
      <4>1. CASE j = 0  BY <1>7, <4>1 DEF EndOf
      <4>2. CASE j # 0
        <5>1. sound[j] \in Frames  BY <2>1, <2>2, <2>3, <4>2
        <5>2. sound[j].at \in Nat /\ sound[j].length \in Nat  BY <5>1 DEF Frames, Numbers
        <5>3. PICK length \in Int : length = sound[j].length  BY <5>2
        <5>4. Even(length) \in Int  BY EvenIs
        <5> QED  BY <4>2, <5>2, <5>3, <5>4 DEF EndOf
      <4> QED  BY <4>1, <4>2
    <3> QED  BY <2>3, <2>4, <2>6, <3>1, <3>2, <3>3
  <2> QED  BY <2>5, <2>6
<1> QED
  BY <1>4, <1>5, <1>8, <1>9, <1>11, <1>12, <1>13, <1>14, <1>15, <1>16 DEF ChunksTileFile

\* The chunks of a closed file follow each other without a gap: for every
\* length of the texts and the tag, every number of tracks, channels and frames.
THEOREM TilesFile == ASSUME Numbers PROVE Spec => []ChunksTileFile
<1>1. DsdiffInv => ChunksTileFile  BY InvTiles
<1> QED  BY <1>1, DsdiffInvariant, PTL

\* The index of a closed DST file leads to every frame, however often it grew.
THEOREM IndexesFrames == ASSUME Numbers PROVE Spec => []IndexFindsFrames
<1>1. DsdiffInv => IndexFindsFrames  BY InvIndexes
<1> QED  BY <1>1, DsdiffInvariant, PTL
=============================================================================
