----------------------------- MODULE ProvPb_proofs -----------------------------
(***************************************************************************)
(* Theorems about the protobuf reader and its parsers, for every width of  *)
(* a word, every message and every length.                                 *)
(*                                                                         *)
(*   - whatever the bytes are, what is handed on lies in the message       *)
(*     (PbInv), and every step leaves a parser less to read (Left);        *)
(*   - what the writers write of a varint, a tag and a field is read back  *)
(*     as it was (VarintIs, FieldAt);                                      *)
(*   - so every well-formed message is read as what it says (FormInv: the  *)
(*     place a parser is at, and what it has found up to there).           *)
(*                                                                         *)
(* The recursions of the writers and of FlattenSeq are taken apart by the  *)
(* lemma Recursion: by the least number at which a claim would fail.       *)
(***************************************************************************)
EXTENDS ProvPb, SequenceTheorems, WellFoundedInduction, TLAPS

-------------------------------------------------------------------------------
\* Least numbers, sequences, and recursion that comes down.

\* A set of numbers that is not empty has a least one.
LEMMA LeastNumber ==
    ASSUME NEW S \in SUBSET Nat, S # {}
    PROVE  \E m \in S : \A k \in S : m <= k
<1>. DEFINE Less == {ss \in Nat \X Nat : ss[1] < ss[2]}
<1>1. IsWellFoundedOn(Less, Nat)
  BY NatLessThanWellFounded DEF OpToRel
<1>2. PICK m \in S : \A k \in S : ~ (<<k, m>> \in Less)
  BY <1>1, WFMin
<1>3. \A k \in S : ~ (k < m)
  BY <1>2
<1>. QED BY <1>3

\* A set of numbers with 0 in it, and with k + 1 for every k, is all of them.
LEMMA NatSetInduction ==
    ASSUME NEW S \in SUBSET Nat, 0 \in S, \A k \in S : k + 1 \in S
    PROVE  S = Nat
<1>1. SUFFICES ASSUME Nat \ S # {} PROVE FALSE
  OBVIOUS
<1>2. PICK m \in Nat \ S : \A k \in Nat \ S : m <= k
  BY <1>1, LeastNumber
<1>3. m # 0 /\ m - 1 \in Nat
  BY <1>2
<1>4. m - 1 \in S
  BY <1>2, <1>3
<1>. QED BY <1>2, <1>4

\* Min, where the reader takes the first byte that ends a varint.
LEMMA Least ==
    ASSUME NEW S \in SUBSET Nat, S # {}
    PROVE  Min(S) \in S /\ \A k \in S : Min(S) <= k
BY LeastNumber DEF Min

\* One digit of pb_put_varint: seven bits, and a smaller number.
LEMMA Digit ==
    ASSUME NEW v \in Nat
    PROVE  /\ v % 128 \in 0 .. 127 /\ v \div 128 \in Nat
           /\ v = 128 * (v \div 128) + (v % 128)
           /\ v >= 128 => v \div 128 < v
<1>1. v % 128 \in 0 .. 127
  OBVIOUS
<1>2. v \div 128 \in Nat
  OBVIOUS
<1>3. v = 128 * (v \div 128) + (v % 128)
  OBVIOUS
<1>4. v >= 128 => v \div 128 < v
  OBVIOUS
<1>. QED BY <1>1, <1>2, <1>3, <1>4

\* f obeys the recursion at every x of rank below k.
Obeys(f, S, rank, prev, stop, init, comb, k) ==
    \A x \in S : rank[x] < k =>
        f[x] = IF x \in stop THEN init[x] ELSE comb[<<x, f[prev[x]]>>]

\* A sequence of one.
LEMMA OneByte ==
    ASSUME NEW T, NEW x \in T
    PROVE  <<x>> \in Seq(T) /\ Len(<<x>>) = 1 /\ <<x>>[1] = x
OBVIOUS

\* Sequences of one kind, one after the other.
LEMMA ConcatType ==
    \A T : \A s, t \in Seq(T) : s \o t \in Seq(T)
BY ConcatProperties

\* The first of a sequence, and the others.
LEMMA FirstOf ==
    ASSUME NEW T, NEW b \in Seq(T), b # <<>>
    PROVE  /\ Len(b) \in Nat \ {0} /\ b[1] \in T
           /\ Tail(b) \in Seq(T) /\ Len(Tail(b)) = Len(b) - 1
           /\ \A k \in 1 .. Len(b) - 1 : Tail(b)[k] = b[k + 1]
<1>1. Len(b) \in Nat \ {0}
  OBVIOUS
<1>2. Tail(b) \in Seq(T) /\ Len(Tail(b)) = Len(b) - 1
  BY <1>1
<1>3. \A k \in 1 .. Len(b) - 1 : Tail(b)[k] = b[k + 1]
  BY <1>1
<1>4. b[1] \in T
  BY <1>1
<1>. QED BY <1>1, <1>2, <1>3, <1>4

\* A recursion that comes down in rank, and a function that obeys it.
ComesDown(S, V, rank, prev, stop, init, comb) ==
    /\ rank \in [S -> Nat] /\ prev \in [S -> S]
    /\ init \in [S -> V] /\ comb \in [S \X V -> V]
    /\ \A x \in S \ stop : rank[prev[x]] < rank[x]

\* f obeys it everywhere.
Solves(f, S, prev, stop, init, comb) ==
    \A x \in S : f[x] = IF x \in stop THEN init[x] ELSE comb[<<x, f[prev[x]]>>]

\* A recursion that comes down in rank has a function that obeys it.
LEMMA Recursion ==
    ASSUME NEW S, NEW V, NEW rank, NEW prev, NEW stop, NEW init, NEW comb,
           ComesDown(S, V, rank, prev, stop, init, comb)
    PROVE  \E f \in [S -> V] : Solves(f, S, prev, stop, init, comb)
<1>. rank \in [S -> Nat] /\ prev \in [S -> S] /\ init \in [S -> V] /\ comb \in [S \X V -> V]
  BY DEF ComesDown
<1>. \A x \in S \ stop : rank[prev[x]] < rank[x]
  BY DEF ComesDown
<1>. DEFINE Ok(f, k) == Obeys(f, S, rank, prev, stop, init, comb, k)
            Grown(f) == [x \in S |->
                            IF x \in stop THEN init[x] ELSE comb[<<x, f[prev[x]]>>]]
            Some == {k \in Nat : \E f \in [S -> V] : Ok(f, k)}
            Same == {k \in Nat : \A f, g \in [S -> V] : Ok(f, k) /\ Ok(g, k) =>
                                     \A x \in S : rank[x] < k => f[x] = g[x]}
<1>1. 0 \in Some
  <2>1. Ok(init, 0)
    BY DEF Obeys
  <2>. QED BY <2>1
<1>2. ASSUME NEW k \in Some PROVE k + 1 \in Some
  <2>1. PICK f \in [S -> V] : Ok(f, k)
    OBVIOUS
  <2>2. Grown(f) \in [S -> V]
    BY <2>1
  <2>3. \A x \in S : rank[x] < k => Grown(f)[x] = f[x]
    BY <2>1 DEF Obeys
  <2>4. Ok(Grown(f), k + 1)
    <3>. SUFFICES ASSUME NEW x \in S, rank[x] < k + 1
                  PROVE  Grown(f)[x] = IF x \in stop THEN init[x]
                                      ELSE comb[<<x, Grown(f)[prev[x]]>>]
      BY DEF Obeys
    <3>1. CASE x \in stop
      BY <3>1
    <3>2. CASE x \notin stop
      <4>1. rank[prev[x]] < k
        BY <3>2
      <4>2. Grown(f)[prev[x]] = f[prev[x]]
        BY <4>1, <2>3
      <4>3. Grown(f)[x] = comb[<<x, f[prev[x]]>>]
        BY <3>2
      <4>. QED BY ONLY <3>2, <4>2, <4>3
    <3>. QED BY <3>1, <3>2
  <2>. HIDE DEF Grown, Ok
  <2>. QED BY <2>2, <2>4
<1>3. Some = Nat
  <2>. HIDE DEF Some
  <2>1. Some \in SUBSET Nat
    BY DEF Some
  <2>. QED BY <1>1, <1>2, <2>1, NatSetInduction
<1>4. 0 \in Same
  OBVIOUS
<1>5. ASSUME NEW k \in Same PROVE k + 1 \in Same
  <2>1. ASSUME NEW f \in [S -> V], NEW g \in [S -> V], Ok(f, k + 1), Ok(g, k + 1),
               NEW x \in S, rank[x] < k + 1
        PROVE  f[x] = g[x]
    <3>1. Ok(f, k) /\ Ok(g, k)
      BY <2>1 DEF Obeys
    <3>2. \A y \in S : rank[y] < k => f[y] = g[y]
      <4>. HIDE DEF Ok
      <4>. QED BY <3>1
    <3>3. x \notin stop => f[prev[x]] = g[prev[x]]
      <4>. HIDE DEF Ok
      <4>1. x \notin stop => prev[x] \in S /\ rank[prev[x]] < k
        BY <2>1
      <4>. QED BY ONLY <3>2, <4>1
    <3>4. f[x] = IF x \in stop THEN init[x] ELSE comb[<<x, f[prev[x]]>>]
      BY <2>1 DEF Obeys
    <3>5. g[x] = IF x \in stop THEN init[x] ELSE comb[<<x, g[prev[x]]>>]
      BY <2>1 DEF Obeys
    <3>. QED BY ONLY <3>3, <3>4, <3>5
  <2>2. k + 1 \in Nat
    OBVIOUS
  <2>. HIDE DEF Ok
  <2>. QED BY <2>1, <2>2
<1>6. Same = Nat
  <2>. HIDE DEF Same
  <2>1. Same \in SUBSET Nat
    BY DEF Same
  <2>. QED BY <1>4, <1>5, <2>1, NatSetInduction
<1>. DEFINE g(k) == CHOOSE f \in [S -> V] : Ok(f, k)
            F == [x \in S |-> g(rank[x] + 1)[x]]
<1>7. ASSUME NEW k \in Nat PROVE g(k) \in [S -> V] /\ Ok(g(k), k)
  <2>1. \E f \in [S -> V] : Ok(f, k)
    BY <1>3
  <2>. HIDE DEF Ok
  <2>. QED BY <2>1
<1>8. ASSUME NEW x \in S, NEW k \in Nat, rank[x] < k PROVE F[x] = g(k)[x]
  <2>1. F[x] = g(rank[x] + 1)[x]
    OBVIOUS
  <2>2. rank[x] + 1 \in Same /\ rank[x] + 1 <= k
    BY <1>6, <1>8
  <2>3. Ok(g(k), rank[x] + 1) /\ Ok(g(rank[x] + 1), rank[x] + 1)
    <3>1. Ok(g(k), k) /\ Ok(g(rank[x] + 1), rank[x] + 1)
      BY <1>7
    <3>. HIDE DEF g
    <3>. QED BY <3>1, <2>2 DEF Obeys
  <2>4. g(k) \in [S -> V] /\ g(rank[x] + 1) \in [S -> V]
    BY <1>7
  <2>. HIDE DEF g, F, Ok
  <2>5. \A y \in S : rank[y] < rank[x] + 1 => g(rank[x] + 1)[y] = g(k)[y]
    BY <2>2, <2>3, <2>4
  <2>. HIDE DEF Same
  <2>. QED BY <2>1, <2>2, <2>5
<1>9. F \in [S -> V]
  <2>. HIDE DEF g
  <2>. QED BY <1>7
<1>10. ASSUME NEW x \in S
       PROVE  F[x] = IF x \in stop THEN init[x] ELSE comb[<<x, F[prev[x]]>>]
  <2>. DEFINE k == rank[x] + 1
  <2>1. k \in Nat /\ rank[x] < k /\ prev[x] \in S
    OBVIOUS
  <2>2. Ok(g(k), k) /\ F[x] = g(k)[x]
    BY <1>7, <1>8, <2>1
  <2>3. g(k)[x] = IF x \in stop THEN init[x] ELSE comb[<<x, g(k)[prev[x]]>>]
    <3>. HIDE DEF g, F
    <3>. QED BY <2>1, <2>2 DEF Obeys
  <2>4. CASE x \in stop
    <3>. HIDE DEF g, F
    <3>. QED BY <2>2, <2>3, <2>4
  <2>5. CASE x \notin stop
    <3>1. rank[prev[x]] < k
      BY <2>5, <2>1
    <3>2. F[prev[x]] = g(k)[prev[x]]
      BY <1>8, <2>1, <3>1
    <3>. HIDE DEF g, F
    <3>. QED BY <2>2, <2>3, <2>5, <3>2
  <2>. QED BY <2>4, <2>5
<1>. HIDE DEF F
<1>. QED BY <1>9, <1>10 DEF Solves

\* pb_put_varint for every number: its recursion is one that ends.
LEMMA PutVarintEq ==
    \A v \in Nat :
        PutVarint[v] = IF v < 128 THEN <<v>> ELSE <<128 + (v % 128)>> \o PutVarint[v \div 128]
<1>. DEFINE V == Seq(0 .. 255)
            stop == 0 .. 127
            rank == [v \in Nat |-> v]
            prev == [v \in Nat |-> v \div 128]
            init == [v \in Nat |-> IF v < 128 THEN <<v>> ELSE <<>>]
            comb == [vb \in Nat \X V |-> <<128 + (vb[1] % 128)>> \o vb[2]]
<1>1. rank \in [Nat -> Nat] /\ prev \in [Nat -> Nat] /\ init \in [Nat -> V]
  <2>1. ASSUME NEW v \in Nat PROVE init[v] \in V
    <3>1. CASE v < 128
      <4>1. v \in 0 .. 255
        BY <3>1
      <4>. QED BY <3>1, <4>1
    <3>2. CASE ~ (v < 128)
      BY <3>2
    <3>. QED BY <3>1, <3>2
  <2>. QED BY <2>1, Digit
<1>2. comb \in [Nat \X V -> V]
  <2>1. ASSUME NEW v \in Nat, NEW b \in V PROVE <<128 + (v % 128)>> \o b \in V
    <3>1. 128 + (v % 128) \in 0 .. 255
      BY Digit
    <3>2. <<128 + (v % 128)>> \in Seq(0 .. 255)
      BY <3>1, OneByte, Zenon
    <3>3. b \in Seq(0 .. 255)
      OBVIOUS
    <3>. QED BY <3>2, <3>3, ConcatType
  <2>. QED BY <2>1, ZenonT(30)
<1>3. \A v \in Nat \ stop : rank[prev[v]] < rank[v]
  BY Digit
<1>4. PICK f \in [Nat -> V] : Solves(f, Nat, prev, stop, init, comb)
  <2>. HIDE DEF V, stop, rank, prev, init, comb
  <2>1. ComesDown(Nat, V, rank, prev, stop, init, comb)
    BY <1>1, <1>2, <1>3 DEF ComesDown
  <2>. QED BY <2>1, Recursion
<1>5. ASSUME NEW v \in Nat
      PROVE  f[v] = IF v < 128 THEN <<v>> ELSE <<128 + (v % 128)>> \o f[v \div 128]
  <2>1. f[v] = IF v \in stop THEN init[v] ELSE comb[<<v, f[prev[v]]>>]
    BY <1>4 DEF Solves
  <2>2. v \div 128 \in Nat /\ prev[v] = v \div 128
    BY Digit
  <2>3. f[v \div 128] \in V
    <3>. HIDE DEF V
    <3>. QED BY <1>4, <2>2
  <2>4. ASSUME NEW w \in V PROVE comb[<<v, w>>] = <<128 + (v % 128)>> \o w
    <3>. HIDE DEF V
    <3>1. comb[<<v, w>>] = <<128 + (<<v, w>>[1] % 128)>> \o <<v, w>>[2]
      BY Zenon
    <3>. QED BY <3>1
  <2>5. comb[<<v, f[v \div 128]>>] = <<128 + (v % 128)>> \o f[v \div 128]
    BY <2>3, <2>4
  <2>6. v \in stop <=> v < 128
    OBVIOUS
  <2>7. v < 128 => init[v] = <<v>>
    OBVIOUS
  <2>. HIDE DEF comb, prev, stop, init
  <2>. QED BY <2>1, <2>2, <2>5, <2>6, <2>7
<1>. DEFINE Def(h) == h = [v \in Nat |-> IF v < 128 THEN <<v>>
                                        ELSE <<128 + (v % 128)>> \o h[v \div 128]]
<1>6. Def(f)
  <2>. HIDE DEF V, stop, rank, prev, init, comb
  <2>. QED BY <1>5
<1>7. PutVarint = CHOOSE h : Def(h)
  BY DEF PutVarint
<1>8. Def(PutVarint)
  <2>. HIDE DEF Def
  <2>. QED BY <1>6, <1>7
<1>. QED BY <1>8

\* The shifts of pb_pull_varint for all bytes: the recursion over them ends.
LEMMA Base128Eq ==
    \A b \in Seq(0 .. 255) :
        Base128[b] = IF b = <<>> THEN 0 ELSE (b[1] % 128) + 128 * Base128[Tail(b)]
<1>. DEFINE S == Seq(0 .. 255)
            stop == {<<>>}
            rank == [b \in S |-> Len(b)]
            prev == [b \in S |-> IF b = <<>> THEN <<>> ELSE Tail(b)]
            init == [b \in S |-> 0]
            comb == [bv \in S \X Nat |-> IF bv[1] = <<>> THEN 0
                                          ELSE (bv[1][1] % 128) + 128 * bv[2]]
<1>1. rank \in [S -> Nat] /\ prev \in [S -> S] /\ init \in [S -> Nat]
  OBVIOUS
<1>2. comb \in [S \X Nat -> Nat]
  <2>1. ASSUME NEW b \in S, NEW v \in Nat, b # <<>> PROVE (b[1] % 128) + 128 * v \in Nat
    <3>1. b[1] \in 0 .. 255
      BY <2>1, FirstOf
    <3>. HIDE DEF S, stop, rank, prev, init, comb
    <3>2. b[1] \in Nat
      BY <3>1
    <3>3. \A x \in Nat : x % 128 \in 0 .. 127
      OBVIOUS
    <3>4. b[1] % 128 \in 0 .. 127
      BY <3>2, <3>3, Zenon
    <3>. QED BY <3>4
  <2>. QED BY <2>1
<1>3. \A b \in S \ stop : rank[prev[b]] < rank[b]
  OBVIOUS
<1>4. PICK f \in [S -> Nat] : Solves(f, S, prev, stop, init, comb)
  <2>. HIDE DEF S, stop, rank, prev, init, comb
  <2>1. ComesDown(S, Nat, rank, prev, stop, init, comb)
    BY <1>1, <1>2, <1>3 DEF ComesDown
  <2>. QED BY <2>1, Recursion
<1>5. ASSUME NEW b \in S
      PROVE  f[b] = IF b = <<>> THEN 0 ELSE (b[1] % 128) + 128 * f[Tail(b)]
  <2>1. f[b] = IF b \in stop THEN init[b] ELSE comb[<<b, f[prev[b]]>>]
    BY <1>4 DEF Solves
  <2>2. CASE b = <<>>
    BY <2>1, <2>2
  <2>3. CASE b # <<>>
    <3>1. prev[b] = Tail(b) /\ Tail(b) \in S
      BY <2>3
    <3>2. f[Tail(b)] \in Nat
      <4>. HIDE DEF S
      <4>. QED BY <1>4, <3>1
    <3>3. comb[<<b, f[Tail(b)]>>] = (b[1] % 128) + 128 * f[Tail(b)]
      <4>. HIDE DEF S
      <4>. QED BY <2>3, <3>2
    <3>. QED BY <2>1, <2>3, <3>1, <3>3
  <2>. QED BY <2>2, <2>3
<1>. DEFINE Def(h) == h = [b \in S |-> IF b = <<>> THEN 0
                                      ELSE (b[1] % 128) + 128 * h[Tail(b)]]
<1>6. Def(f)
  <2>. HIDE DEF S, stop, rank, prev, init, comb
  <2>. QED BY <1>5
<1>7. Base128 = CHOOSE h : Def(h)
  BY DEF Base128
<1>8. Def(Base128)
  <2>. HIDE DEF Def
  <2>. QED BY <1>6, <1>7
<1>. QED BY <1>8

-------------------------------------------------------------------------------
\* Varints.

\* b says v, and no byte but the last could end it.
IsVarint(b, v) ==
    /\ b \in Seq(0 .. 255) /\ Len(b) >= 1
    /\ \A k \in 1 .. Len(b) : b[k] < 128 <=> k = Len(b)
    /\ Base128[b] = v

\* PutVarintEq, one case at a time.
LEMMA PutVarintCases ==
    ASSUME NEW v \in Nat
    PROVE  /\ v < 128 => PutVarint[v] = <<v>>
           /\ v >= 128 => PutVarint[v] = <<128 + (v % 128)>> \o PutVarint[v \div 128]
<1>1. v < 128 => PutVarint[v] = <<v>>
  BY PutVarintEq, Zenon
<1>2. v >= 128 => ~ (v < 128)
  OBVIOUS
<1>3. ~ (v < 128) => PutVarint[v] = <<128 + (v % 128)>> \o PutVarint[v \div 128]
  BY PutVarintEq, Zenon
<1>. QED BY <1>1, <1>2, <1>3

\* c is x and then b.
ByteThen(c, x, b) ==
    /\ c \in Seq(0 .. 255) /\ Len(c) = Len(b) + 1
    /\ c[1] = x /\ Tail(c) = b
    /\ \A k \in 2 .. Len(b) + 1 : c[k] = b[k - 1]
    /\ Base128[c] = (x % 128) + 128 * Base128[b]

\* One byte put before others, and what they all say in base 128.
LEMMA ByteFirst ==
    ASSUME NEW x \in 0 .. 255, NEW b \in Seq(0 .. 255)
    PROVE  ByteThen(<<x>> \o b, x, b)
<1>. DEFINE c == <<x>> \o b
<1>1. <<x>> \in Seq(0 .. 255) /\ Len(<<x>>) = 1
  OBVIOUS
<1>2. c \in Seq(0 .. 255) /\ Len(c) = Len(b) + 1
  BY <1>1, ConcatProperties
<1>3. c[1] = x /\ \A k \in 2 .. Len(b) + 1 : c[k] = b[k - 1]
  BY <1>1, ConcatProperties
<1>4. c # <<>>
  BY <1>2
<1>5. Tail(c) = b
  <2>1. Tail(c) \in Seq(0 .. 255) /\ Len(Tail(c)) = Len(b)
        /\ \A k \in 1 .. Len(b) : Tail(c)[k] = c[k + 1]
    BY <1>2, <1>4, FirstOf
  <2>2. \A k \in 1 .. Len(b) : Tail(c)[k] = b[k]
    BY <1>3, <2>1
  <2>. HIDE DEF c
  <2>. QED BY <2>1, <2>2, SeqEqual
<1>6. Base128[c] = (c[1] % 128) + 128 * Base128[Tail(c)]
  <2>. HIDE DEF c
  <2>. QED BY <1>2, <1>4, Base128Eq
<1>. QED BY <1>2, <1>3, <1>5, <1>6 DEF ByteThen

\* A varint says its number, and no byte but the last ends it.
LEMMA VarintIs == \A v \in Nat : IsVarint(PutVarint[v], v)
<1>. DEFINE Bad == {v \in Nat : ~ IsVarint(PutVarint[v], v)}
<1>1. SUFFICES ASSUME Bad # {} PROVE FALSE
  OBVIOUS
<1>2. PICK v \in Bad : \A w \in Bad : v <= w
  BY <1>1, LeastNumber
<1>3. v \in Nat /\ ~ IsVarint(PutVarint[v], v)
  BY <1>2
<1>4. v >= 128
  <2>1. SUFFICES ASSUME v < 128 PROVE FALSE
    BY <1>3
  <2>short. PutVarint[v] = <<v>>
    BY <1>3, <2>1, PutVarintCases, Zenon
  <2>2. PutVarint[v] = <<v>> /\ v \in 0 .. 255
    BY <1>3, <2>1, <2>short
  <2>3. <<v>> \in Seq(0 .. 255) /\ Len(<<v>>) = 1 /\ <<v>>[1] = v
    BY <2>2, OneByte
  <2>4. Base128[<<v>>] = v
    <3>1. <<v>> # <<>> /\ Tail(<<v>>) = <<>> /\ <<>> \in Seq(0 .. 255)
      OBVIOUS
    <3>2. Base128[<<>>] = 0
      BY <3>1, Base128Eq
    <3>3. Base128[<<v>>] = (<<v>>[1] % 128) + 128 * Base128[Tail(<<v>>)]
      BY <2>3, <3>1, Base128Eq
    <3>4. v % 128 = v
      BY <1>3, <2>1
    <3>. QED BY <1>3, <2>3, <3>1, <3>2, <3>3, <3>4
  <2>. QED BY <1>3, <2>1, <2>2, <2>3, <2>4 DEF IsVarint
<1>. DEFINE b == PutVarint[v \div 128]
            x == 128 + (v % 128)
<1>5. /\ x \in 0 .. 255 /\ x >= 128 /\ x % 128 = v % 128
      /\ v % 128 \in Nat /\ v \div 128 \in Nat /\ v = (v % 128) + 128 * (v \div 128)
  BY <1>3, Digit
<1>6. IsVarint(b, v \div 128)
  <2>1. v \div 128 \in Nat /\ v \div 128 < v
    BY <1>3, <1>4, Digit
  <2>. QED BY <1>2, <1>3, <2>1
<1>7. PutVarint[v] = <<x>> \o b
  BY <1>3, <1>4, PutVarintCases
<1>. HIDE DEF x, b
<1>8. b \in Seq(0 .. 255)
  BY <1>6 DEF IsVarint
<1>joined. ByteThen(<<x>> \o b, x, b)
  BY <1>5, <1>8, ByteFirst
<1>9. Base128[<<x>> \o b] = v
  <2>1. Base128[<<x>> \o b] = (v % 128) + 128 * (v \div 128)
    BY <1>5, <1>6, <1>joined DEF IsVarint, ByteThen
  <2>. QED BY <1>5, <2>1
<1>10. \A k \in 1 .. Len(<<x>> \o b) : (<<x>> \o b)[k] < 128 <=> k = Len(<<x>> \o b)
  <2>1. Len(<<x>> \o b) = Len(b) + 1 /\ (<<x>> \o b)[1] = x
        /\ \A k \in 2 .. Len(b) + 1 : (<<x>> \o b)[k] = b[k - 1]
    BY <1>joined DEF ByteThen
  <2>2. Len(b) \in Nat /\ Len(b) >= 1 /\ \A k \in 1 .. Len(b) : b[k] < 128 <=> k = Len(b)
    BY <1>6, <1>8 DEF IsVarint
  <2>. QED BY <1>5, <2>1, <2>2
<1>11. <<x>> \o b \in Seq(0 .. 255) /\ Len(<<x>> \o b) >= 1
  BY <1>8, <1>joined DEF ByteThen
<1>. QED BY <1>3, <1>7, <1>9, <1>10, <1>11 DEF IsVarint

\* What pb_put_varint writes of any number, however long, pb_pull_varint makes that number of,
\* and it ends at its last byte only.
THEOREM VarintReadBack ==
    \A v \in Nat :
        /\ Base128[PutVarint[v]] = v
        /\ \A k \in 1 .. Len(PutVarint[v]) : PutVarint[v][k] < 128 <=> k = Len(PutVarint[v])
BY VarintIs DEF IsVarint

\* A larger number takes as many bytes, or more.
LEMMA LongerVarint ==
    \A v, w \in Nat : v <= w => Len(PutVarint[v]) <= Len(PutVarint[w])
<1>. DEFINE Bad == {w \in Nat : \E v \in Nat : v <= w /\ Len(PutVarint[v]) > Len(PutVarint[w])}
<1>0. \A v \in Nat : Len(PutVarint[v]) \in Nat /\ Len(PutVarint[v]) >= 1
  BY VarintIs DEF IsVarint
<1>1. SUFFICES ASSUME Bad # {} PROVE FALSE
  BY <1>0
<1>2. PICK w \in Bad : \A u \in Bad : w <= u
  BY <1>1, LeastNumber
<1>3. PICK v \in Nat : v <= w /\ Len(PutVarint[v]) > Len(PutVarint[w])
  BY <1>2
<1>4. v >= 128 /\ w >= 128
  <2>1. v < 128 => Len(PutVarint[v]) = 1
    <3>1. ASSUME NEW u \in Nat, u < 128 PROVE Len(PutVarint[u]) = 1
      <4>1. PutVarint[u] = <<u>>
        BY <3>1, PutVarintCases, Zenon
      <4>. QED BY <4>1
    <3>. QED BY <3>1
  <2>2. w \in Nat
    BY <1>2
  <2>3. Len(PutVarint[w]) \in Nat /\ Len(PutVarint[w]) >= 1
    BY <1>0, <2>2
  <2>. HIDE DEF Bad
  <2>4. v < 128 => Len(PutVarint[v]) <= Len(PutVarint[w])
    BY <2>1, <2>3
  <2>5. Len(PutVarint[v]) \in Nat
    BY <1>0
  <2>6. ~ (v < 128)
    BY <1>3, <2>3, <2>4, <2>5
  <2>. QED BY <1>3, <2>2, <2>6
<1>5. /\ Len(PutVarint[v]) = Len(PutVarint[v \div 128]) + 1
      /\ Len(PutVarint[w]) = Len(PutVarint[w \div 128]) + 1
  <2>1. ASSUME NEW u \in Nat, u >= 128
        PROVE  Len(PutVarint[u]) = Len(PutVarint[u \div 128]) + 1
    <3>1. PutVarint[u] = <<128 + (u % 128)>> \o PutVarint[u \div 128]
      BY <2>1, PutVarintCases
    <3>2. 128 + (u % 128) \in 0 .. 255 /\ u \div 128 \in Nat
      BY Digit
    <3>3. PutVarint[u \div 128] \in Seq(0 .. 255)
      BY <3>2, VarintIs DEF IsVarint
    <3>4. Len(<<128 + (u % 128)>> \o PutVarint[u \div 128]) = Len(PutVarint[u \div 128]) + 1
      <4>1. ByteThen(<<128 + (u % 128)>> \o PutVarint[u \div 128],
                     128 + (u % 128), PutVarint[u \div 128])
        BY <3>2, <3>3, ByteFirst
      <4>. QED BY <4>1 DEF ByteThen
    <3>. QED BY <3>1, <3>4
  <2>. QED BY <1>2, <1>3, <1>4, <2>1
<1>6. v \div 128 \in Nat /\ w \div 128 \in Nat /\ v \div 128 <= w \div 128 /\ w \div 128 < w
  BY <1>2, <1>3, <1>4, Digit
<1>7. w \div 128 \in Bad
  BY <1>0, <1>3, <1>5, <1>6
<1>. QED BY <1>2, <1>6, <1>7

\* Flattening step by step.
Joins(f, s, T) ==
    /\ f \in [0 .. Len(s) -> Seq(T)] /\ f[0] = <<>>
    /\ \A k \in 1 .. Len(s) : f[k] = f[k - 1] \o s[k]

\* FlattenSeq of the library, its recursion written out step by step.
LEMMA FlattenIs ==
    ASSUME NEW T, NEW s \in Seq(Seq(T))
    PROVE  \E f : Joins(f, s, T) /\ FlattenSeq(s) = f[Len(s)]
<1>. DEFINE L == Len(s)
            V == Seq(T)
<1>0. L \in Nat /\ \A k \in 1 .. L : s[k] \in V
  <2>1. L \in Nat
    OBVIOUS
  <2>2. \A k \in 1 .. L : s[k] \in V
    OBVIOUS
  <2>. QED BY <2>1, <2>2
<1>1. CASE L = 0
  <2>1. s = <<>> /\ FlattenSeq(s) = s
    BY <1>1, EmptySeq DEF FlattenSeq
  <2>. DEFINE f == [k \in 0 .. L |-> <<>>]
  <2>2. f \in [0 .. L -> Seq(T)] /\ f[0] = <<>> /\ f[L] = <<>>
    BY <1>1
  <2>3. \A k \in 1 .. L : f[k] = f[k - 1] \o s[k]
    BY <1>1
  <2>. HIDE DEF f
  <2>. QED BY <2>1, <2>2, <2>3 DEF Joins
<1>2. CASE L # 0
  <2>. DEFINE S == 1 .. L
              stop == {1}
              rank == [k \in S |-> k]
              prev == [k \in S |-> IF k = 1 THEN 1 ELSE k - 1]
              init == [k \in S |-> s[k]]
              comb == [kb \in S \X V |-> kb[2] \o s[kb[1]]]
              Def(h) == h = [k \in S |-> IF k = 1 THEN s[k] ELSE h[k - 1] \o s[k]]
              F == CHOOSE h : Def(h)
  <2>1. FlattenSeq(s) = F[L]
    BY <1>2 DEF FlattenSeq
  <2>2. ComesDown(S, V, rank, prev, stop, init, comb)
    <3>1. rank \in [S -> Nat] /\ prev \in [S -> S]
      BY <1>0, <1>2
    <3>2. init \in [S -> V]
      BY <1>0
    <3>3. ASSUME NEW k \in S, NEW b \in V PROVE b \o s[k] \in V
      <4>1. s[k] \in Seq(T) /\ b \in Seq(T)
        BY <1>0
      <4>. QED BY <4>1, ConcatType
    <3>4. comb \in [S \X V -> V]
      <4>. HIDE DEF V, S
      <4>. QED BY <3>3
    <3>5. \A k \in S \ stop : rank[prev[k]] < rank[k]
      BY <1>0
    <3>. HIDE DEF S, V, rank, prev, stop, init, comb
    <3>. QED BY <3>1, <3>2, <3>4, <3>5 DEF ComesDown
  <2>3. PICK f \in [S -> V] : Solves(f, S, prev, stop, init, comb)
    <3>. HIDE DEF S, V, rank, prev, stop, init, comb
    <3>. QED BY <2>2, Recursion
  <2>4. ASSUME NEW k \in S PROVE f[k] = IF k = 1 THEN s[k] ELSE f[k - 1] \o s[k]
    <3>1. f[k] = IF k \in stop THEN init[k] ELSE comb[<<k, f[prev[k]]>>]
      BY <2>3 DEF Solves
    <3>2. init[k] = s[k] /\ prev[k] \in S
      BY <1>0, <1>2
    <3>3. f[prev[k]] \in V
      <4>. HIDE DEF V, S
      <4>. QED BY <2>3, <3>2
    <3>4. ASSUME NEW w \in V PROVE comb[<<k, w>>] = w \o s[k]
      <4>. HIDE DEF V, S
      <4>1. comb[<<k, w>>] = <<k, w>>[2] \o s[<<k, w>>[1]]
        BY Zenon
      <4>. QED BY <4>1
    <3>5. comb[<<k, f[prev[k]]>>] = f[prev[k]] \o s[k]
      BY <3>3, <3>4
    <3>6. k # 1 => prev[k] = k - 1
      OBVIOUS
    <3>7. k \in stop <=> k = 1
      OBVIOUS
    <3>. HIDE DEF comb, prev, stop, init
    <3>. QED BY <3>1, <3>2, <3>5, <3>6, <3>7
  <2>5. Def(f)
    <3>. HIDE DEF S, V
    <3>. QED BY <2>3, <2>4
  <2>6. Def(F)
    <3>. HIDE DEF Def
    <3>. QED BY <2>5
  <2>. HIDE DEF F
  <2>7. \A k \in S : F[k] = IF k = 1 THEN s[k] ELSE F[k - 1] \o s[k]
    BY <2>6
  <2>8. \A k \in S : F[k] \in V
    <3>. DEFINE Bad == {k \in S : ~ (F[k] \in V)}
    <3>1. SUFFICES ASSUME Bad # {} PROVE FALSE
      OBVIOUS
    <3>2. Bad \in SUBSET Nat
      BY <1>0
    <3>3. PICK k \in Bad : \A j \in Bad : k <= j
      <4>. HIDE DEF Bad
      <4>. QED BY <3>1, <3>2, LeastNumber
    <3>4. k \in S /\ ~ (F[k] \in V)
      BY <3>3
    <3>5. k # 1
      BY <1>0, <2>7, <3>4
    <3>6. k - 1 \in S /\ k - 1 < k
      BY <1>0, <3>4, <3>5
    <3>7. F[k - 1] \in V
      BY <3>3, <3>6, <1>0
    <3>8. F[k] = F[k - 1] \o s[k] /\ s[k] \in V
      BY <1>0, <2>7, <3>4, <3>5
    <3>. QED BY <3>4, <3>7, <3>8, ConcatType
  <2>. DEFINE G == [k \in 0 .. L |-> IF k = 0 THEN <<>> ELSE F[k]]
  <2>9. Joins(G, s, T)
    <3>1. G[0] = <<>>
      BY <1>0
    <3>2. \A k \in 1 .. L : G[k] = F[k]
      BY <1>0
    <3>3. G \in [0 .. L -> Seq(T)]
      BY <1>0, <2>8
    <3>4. ASSUME NEW k \in 1 .. L PROVE G[k] = G[k - 1] \o s[k]
      <4>1. CASE k = 1
        <5>1. G[k] = s[k] /\ G[k - 1] = <<>>
          BY <1>0, <2>7, <3>1, <3>2, <4>1
        <5>2. <<>> \o s[k] = s[k]
          BY <1>0, ConcatEmptySeq
        <5>. QED BY <5>1, <5>2
      <4>2. CASE k # 1
        <5>1. k - 1 \in 1 .. L
          BY <1>0, <4>2
        <5>. HIDE DEF G
        <5>. QED BY <2>7, <3>2, <4>2, <5>1
      <4>. QED BY <4>1, <4>2
    <3>. HIDE DEF G
    <3>. QED BY <3>1, <3>3, <3>4 DEF Joins
  <2>10. G[L] = F[L]
    BY <1>0, <1>2
  <2>. HIDE DEF G
  <2>. QED BY <2>1, <2>9, <2>10
<1>. QED BY <1>1, <1>2

\* A function on 1 .. k is a sequence of length k.
LEMMA FunctionIsSeq ==
    \A V : \A k \in Nat : \A f \in [1 .. k -> V] : f \in Seq(V) /\ Len(f) = k
OBVIOUS

\* a is the beginning of b.
Begins(a, b) == Len(a) <= Len(b) /\ \A q \in 1 .. Len(a) : b[q] = a[q]

\* Flattening comes to the same on what two sequences begin with.
LEMMA JoinsSame ==
    ASSUME NEW T, NEW c \in Seq(Seq(T)), NEW d \in Seq(Seq(T)), NEW f, NEW g,
           Joins(f, c, T), Joins(g, d, T), Begins(d, c)
    PROVE  \A k \in 0 .. Len(d) : g[k] = f[k]
<1>. DEFINE Bad == {k \in 0 .. Len(d) : g[k] # f[k]}
<1>1. SUFFICES ASSUME Bad # {} PROVE FALSE
  OBVIOUS
<1>2. Len(c) \in Nat /\ Len(d) \in Nat /\ Len(d) <= Len(c)
  BY DEF Begins
<1>3. PICK k \in Bad : \A j \in Bad : k <= j
  <2>1. Bad \in SUBSET Nat
    BY <1>2
  <2>. HIDE DEF Bad
  <2>. QED BY <1>1, <2>1, LeastNumber
<1>4. k \in 0 .. Len(d) /\ g[k] # f[k]
  BY <1>3
<1>5. k # 0
  BY <1>4 DEF Joins
<1>6. k \in 1 .. Len(d) /\ k \in 1 .. Len(c) /\ k - 1 \in 0 .. Len(d) /\ k - 1 < k
  BY <1>2, <1>4, <1>5
<1>7. g[k - 1] = f[k - 1]
  BY <1>2, <1>3, <1>6
<1>8. g[k] = g[k - 1] \o d[k] /\ f[k] = f[k - 1] \o c[k]
  <2>. HIDE DEF Bad
  <2>. QED BY <1>6, Zenon DEF Joins
<1>9. d[k] = c[k]
  BY <1>6 DEF Begins
<1>. QED BY ONLY <1>4, <1>7, <1>8, <1>9

\* What is put behind a sequence leaves its beginning.
LEMMA BeginsConcat ==
    ASSUME NEW T, NEW a \in Seq(T), NEW b \in Seq(T)
    PROVE  Begins(a, a \o b)
BY ConcatProperties DEF Begins

\* The beginning of a beginning.
LEMMA BeginsTrans ==
    ASSUME NEW T, NEW a \in Seq(T), NEW b \in Seq(T), NEW c \in Seq(T), Begins(a, b), Begins(b, c)
    PROVE  Begins(a, c)
BY DEF Begins

\* Flattening only ever adds at the end.
LEMMA JoinsBegin ==
    ASSUME NEW T, NEW c \in Seq(Seq(T)), NEW f, Joins(f, c, T)
    PROVE  \A j, k \in 0 .. Len(c) : j <= k => Begins(f[j], f[k])
<1>. SUFFICES ASSUME NEW j \in 0 .. Len(c)
     PROVE  \A k \in 0 .. Len(c) : j <= k => Begins(f[j], f[k])
  OBVIOUS
<1>. DEFINE Bad == {k \in 0 .. Len(c) : j <= k /\ ~ Begins(f[j], f[k])}
<1>1. SUFFICES ASSUME Bad # {} PROVE FALSE
  OBVIOUS
<1>2. Len(c) \in Nat /\ \A k \in 0 .. Len(c) : f[k] \in Seq(T)
  <2>1. f \in [0 .. Len(c) -> Seq(T)]
    BY DEF Joins
  <2>2. Len(c) \in Nat
    OBVIOUS
  <2>. QED BY <2>1, <2>2
<1>3. PICK k \in Bad : \A h \in Bad : k <= h
  <2>1. Bad \in SUBSET Nat
    BY <1>2
  <2>. HIDE DEF Bad
  <2>. QED BY <1>1, <2>1, LeastNumber
<1>4. k \in 0 .. Len(c) /\ j <= k /\ ~ Begins(f[j], f[k])
  BY <1>3
<1>5. k # j
  <2>1. Begins(f[j], f[j])
    BY <1>2 DEF Begins
  <2>. QED BY <1>4, <2>1
<1>6. k - 1 \in 0 .. Len(c) /\ j <= k - 1 /\ k \in 1 .. Len(c) /\ k - 1 < k
  BY <1>2, <1>4, <1>5
<1>7. Begins(f[j], f[k - 1])
  BY <1>2, <1>3, <1>6
<1>8. f[k] = f[k - 1] \o c[k] /\ c[k] \in Seq(T)
  <2>1. f[k] = f[k - 1] \o c[k]
    BY <1>6, Zenon DEF Joins
  <2>2. c[k] \in Seq(T)
    BY <1>6, ElementOfSeq
  <2>. QED BY <2>1, <2>2
<1>9. Begins(f[k - 1], f[k])
  <2>1. f[k - 1] \in Seq(T)
    BY <1>2, <1>6
  <2>. QED BY <1>8, <2>1, BeginsConcat
<1>10. f[j] \in Seq(T) /\ f[k - 1] \in Seq(T) /\ f[k] \in Seq(T)
  BY <1>2, <1>4, <1>6
<1>. QED BY <1>4, <1>7, <1>9, <1>10, BeginsTrans

\* The codes of a sequence, one after the other.
Laid(s, e) == FlattenSeq([k \in DOMAIN s |-> e[s[k]]])

\* They lie there one by one, each behind those before it.
LaidOut(s, e, T) ==
    /\ \A k \in 0 .. Len(s) :
          /\ Laid(SubSeq(s, 1, k), e) \in Seq(T)
          /\ Begins(Laid(SubSeq(s, 1, k), e), Laid(s, e))
    /\ Laid(SubSeq(s, 1, 0), e) = <<>>
    /\ Laid(SubSeq(s, 1, Len(s)), e) = Laid(s, e)
    /\ \A k \in 1 .. Len(s) :
          Laid(SubSeq(s, 1, k), e) = Laid(SubSeq(s, 1, k - 1), e) \o e[s[k]]

\* The codes of any sequence lie one after the other: pb_encode_* of a whole message.
LEMMA LaidIs ==
    ASSUME NEW S, NEW T, NEW e \in [S -> Seq(T)], NEW s \in Seq(S)
    PROVE  LaidOut(s, e, T)
<1>. DEFINE c == [k \in DOMAIN s |-> e[s[k]]]
            L == Len(s)
            cut(k) == SubSeq(s, 1, k)
            ck(k) == [h \in DOMAIN cut(k) |-> e[cut(k)[h]]]
<1>1. L \in Nat /\ DOMAIN s = 1 .. L /\ \A k \in 1 .. L : s[k] \in S
  BY ElementOfSeq
<1>2. c \in Seq(Seq(T)) /\ Len(c) = L /\ \A k \in 1 .. L : c[k] = e[s[k]] /\ c[k] \in Seq(T)
  <2>1. \A k \in 1 .. L : e[s[k]] \in Seq(T)
    BY <1>1
  <2>2. c \in [1 .. L -> Seq(T)]
    BY <1>1, <2>1
  <2>3. c \in Seq(Seq(T)) /\ Len(c) = L
    <3>. HIDE DEF c, L
    <3>. QED BY <1>1, <2>2, FunctionIsSeq
  <2>4. \A k \in 1 .. L : c[k] = e[s[k]]
    BY <1>1
  <2>. QED BY <2>1, <2>3, <2>4
<1>3. ASSUME NEW k \in 0 .. L
      PROVE  /\ ck(k) \in Seq(Seq(T)) /\ Len(ck(k)) = k
             /\ \A h \in 1 .. k : ck(k)[h] = c[h]
  <2>1. k \in Nat /\ k <= L
    BY <1>1
  <2>2. DOMAIN cut(k) = 1 .. k /\ \A h \in 1 .. k : cut(k)[h] = s[h]
    BY <1>1, <2>1
  <2>3. \A h \in 1 .. k : ck(k)[h] = c[h] /\ c[h] \in Seq(T)
    <3>1. \A h \in 1 .. k : h \in 1 .. L
      BY <2>1, <1>1
    <3>2. \A h \in 1 .. k : ck(k)[h] = e[s[h]]
      <4>. HIDE DEF cut
      <4>. QED BY <2>2
    <3>. HIDE DEF ck, c
    <3>. QED BY <1>2, <3>1, <3>2
  <2>4. DOMAIN ck(k) = 1 .. k /\ ck(k) = [h \in 1 .. k |-> ck(k)[h]]
    <3>. HIDE DEF cut
    <3>. QED BY <2>2
  <2>5. ck(k) \in [1 .. k -> Seq(T)]
    <3>. HIDE DEF ck, c
    <3>. QED BY <2>3, <2>4
  <2>6. ck(k) \in Seq(Seq(T)) /\ Len(ck(k)) = k
    <3>. HIDE DEF ck, c
    <3>. QED BY <2>1, <2>5
  <2>. QED BY <2>3, <2>6
<1>4. Laid(s, e) = FlattenSeq(c) /\ \A k \in 0 .. L : Laid(SubSeq(s, 1, k), e) = FlattenSeq(ck(k))
  BY DEF Laid
<1>. HIDE DEF c, ck, cut
<1>5. PICK f : Joins(f, c, T) /\ FlattenSeq(c) = f[L]
  BY <1>2, FlattenIs
<1>6. ASSUME NEW k \in 0 .. L PROVE FlattenSeq(ck(k)) = f[k]
  <2>1. PICK g : Joins(g, ck(k), T) /\ FlattenSeq(ck(k)) = g[k]
    BY <1>3, FlattenIs
  <2>2. k \in Nat /\ k <= L
    BY <1>1
  <2>3. \A h \in 0 .. k : g[h] = f[h]
    <3>1. ck(k) \in Seq(Seq(T)) /\ Len(ck(k)) = k /\ \A h \in 1 .. k : ck(k)[h] = c[h]
      BY <1>3
    <3>2. c \in Seq(Seq(T)) /\ Joins(f, c, T) /\ Joins(g, ck(k), T) /\ Len(ck(k)) <= Len(c)
      BY <1>2, <1>5, <2>1, <2>2, <3>1
    <3>3. Begins(ck(k), c)
      BY <3>1, <3>2 DEF Begins
    <3>4. \A h \in 0 .. Len(ck(k)) : g[h] = f[h]
      BY <3>1, <3>2, <3>3, JoinsSame
    <3>. QED BY <3>1, <3>4
  <2>. QED BY <2>1, <2>2, <2>3
<1>7. \A k \in 0 .. L : f[k] \in Seq(T) /\ Begins(f[k], f[L])
  <2>1. \A k \in 0 .. L : f[k] \in Seq(T)
    BY <1>2, <1>5 DEF Joins
  <2>2. \A j, k \in 0 .. L : j <= k => Begins(f[j], f[k])
    BY <1>2, <1>5, JoinsBegin
  <2>. QED BY <1>1, <2>1, <2>2
<1>8. f[0] = <<>> /\ \A k \in 1 .. L : f[k] = f[k - 1] \o c[k]
  BY <1>2, <1>5 DEF Joins
<1>9. \A k \in 0 .. L : Laid(SubSeq(s, 1, k), e) = f[k]
  BY <1>4, <1>6
<1>10. Laid(s, e) = f[L]
  BY <1>4, <1>5
<1>11. \A k \in 1 .. L : f[k] = f[k - 1] \o e[s[k]]
  BY <1>2, <1>8
<1>12. \A k \in 1 .. L : Laid(SubSeq(s, 1, k), e) = Laid(SubSeq(s, 1, k - 1), e) \o e[s[k]]
  <2>1. ASSUME NEW k \in 1 .. L PROVE k \in 0 .. L /\ k - 1 \in 0 .. L
    BY <1>1
  <2>. QED BY <1>9, <1>11, <2>1
<1>13. 0 \in 0 .. L /\ L \in 0 .. L
  BY <1>1
<1>. QED BY <1>7, <1>8, <1>9, <1>10, <1>12, <1>13 DEF LaidOut

-------------------------------------------------------------------------------
\* The reader, whatever the bytes are.

Bytes8 == Seq(0 .. 255)
Reader == [p : Nat \ {0}, end : Nat]
View == [from : Nat, len : Nat]

\* A reader that is inside the message.
Inside(r) == r \in Reader /\ r.p <= r.end /\ r.end <= Len(msg) + 1

\* What is left of r in s.
Further(r, s) == s \in Reader /\ s.end = r.end /\ r.p <= s.p /\ s.p <= s.end

\* The widths of the words of the reader.
LEMMA Widths ==
    /\ Word \in Nat \ {0} /\ Word64 \in Nat \ {0} /\ Word <= Word64
    /\ Digits \in Nat \ {0} /\ KeyLen \in Nat
<1>1. Word \in Nat \ {0} /\ Word64 \in Nat /\ Word <= Word64 /\ Digits \in Nat /\ KeyLen \in Nat
  BY PageAssumption, PbAssumption
<1>2. Word64 - 1 \in Nat
  BY <1>1
<1>3. Len(PutVarint[Word64 - 1]) >= 1 /\ Len(PutVarint[Word64 - 1]) \in Nat
  BY <1>2, VarintIs DEF IsVarint
<1>4. Len(PutVarint[Word64 - 1]) <= Digits
  BY PbAssumption
<1>. QED BY <1>1, <1>3, <1>4

\* What is kept of a number that is cut to a word.
LEMMA ModType ==
    \A x \in Nat : \A w \in Nat \ {0} : x % w \in Nat /\ x % w < w /\ (x < w => x % w = x)
OBVIOUS

\* Bytes in base 128 are a number, however many they are.
LEMMA Base128Type == \A b \in Seq(0 .. 255) : Base128[b] \in Nat
<1>. DEFINE Bad == {k \in Nat : \E b \in Seq(0 .. 255) : Len(b) = k /\ ~ (Base128[b] \in Nat)}
<1>1. SUFFICES ASSUME Bad # {} PROVE FALSE
  OBVIOUS
<1>2. PICK k \in Bad : \A j \in Bad : k <= j
  BY <1>1, LeastNumber
<1>3. PICK b \in Seq(0 .. 255) : Len(b) = k /\ ~ (Base128[b] \in Nat)
  BY <1>2
<1>4. b # <<>>
  BY <1>3, Base128Eq
<1>5. /\ Len(b) \in Nat \ {0} /\ b[1] \in 0 .. 255
      /\ Tail(b) \in Seq(0 .. 255) /\ Len(Tail(b)) = Len(b) - 1
  BY <1>3, <1>4, FirstOf
<1>6. Base128[Tail(b)] \in Nat
  <2>1. Len(Tail(b)) \in Nat /\ Len(Tail(b)) < k
    BY <1>3, <1>5
  <2>2. Len(Tail(b)) \notin Bad
    BY <1>2, <2>1
  <2>. QED BY <1>5, <2>1, <2>2
<1>. HIDE DEF Bad
<1>7. b[1] % 128 \in Nat
  <2>1. \A x \in 0 .. 255 : x % 128 \in Nat
    OBVIOUS
  <2>2. b[1] \in 0 .. 255
    BY <1>5
  <2>. QED BY <2>1, <2>2, Zenon
<1>8. Base128[b] = (b[1] % 128) + 128 * Base128[Tail(b)]
  BY <1>3, <1>4, Base128Eq
<1>. QED BY <1>3, <1>6, <1>7, <1>8

\* The value of a varint fits 64 bits.
LEMMA ValueType ==
    ASSUME msg \in Bytes8, NEW r, Inside(r), NEW len \in Nat, len <= Rem(r)
    PROVE  Value(r, len) \in Nat /\ Value(r, len) < Word64
<1>1. SubSeq(msg, r.p, r.p + len - 1) \in Seq(0 .. 255)
  <2>1. r.p \in Int /\ r.p + len - 1 \in Int
    BY DEF Inside, Reader
  <2>2. \A k \in r.p .. r.p + len - 1 : k \in 1 .. Len(msg)
    BY DEF Inside, Reader, Rem, Bytes8
  <2>3. \A k \in 1 .. Len(msg) : msg[k] \in 0 .. 255
    BY ElementOfSeq DEF Bytes8
  <2>. QED BY <2>1, <2>2, <2>3, SubSeqProperties
<1>2. Base128[SubSeq(msg, r.p, r.p + len - 1)] \in Nat
  BY <1>1, Base128Type
<1>. QED BY <1>2, Widths, ModType DEF Value

\* Where a varint ends is inside the reader.
LEMMA EndsOf ==
    ASSUME NEW r, Inside(r), Ends(r) # {}
    PROVE  /\ Min(Ends(r)) \in Ends(r) /\ Min(Ends(r)) \in Nat \ {0} /\ Min(Ends(r)) <= Rem(r)
           /\ \A k \in Ends(r) : Min(Ends(r)) <= k
<1>1. Ends(r) \in SUBSET Nat
  BY Widths DEF Ends
<1>2. Min(Ends(r)) \in Ends(r) /\ \A k \in Ends(r) : Min(Ends(r)) <= k
  BY <1>1, Least
<1>. QED BY <1>2 DEF Ends

Pulled(v, r) == v.val \in Nat /\ v.val < Word64 /\ Further(r, v.rest) /\ (v.ok => r.p < v.rest.p)

\* pb_pull_varint stays inside, and goes forward when it succeeds.
LEMMA PullVarintType ==
    ASSUME msg \in Bytes8, NEW r, Inside(r)
    PROVE  Pulled(PullVarint(r), r) /\ PullVarint(r).ok \in BOOLEAN
<1>1. CASE Ends(r) = {}
  <2>1. PullVarint(r) = [ok |-> FALSE, val |-> 0, rest |-> r]
    BY <1>1 DEF PullVarint
  <2>. QED BY <2>1, Widths DEF Pulled, Further, Inside, Reader
<1>2. CASE Ends(r) # {}
  <2>. DEFINE m == Min(Ends(r))
  <2>1. m \in Nat \ {0} /\ m <= Rem(r)
    BY <1>2, EndsOf
  <2>2. Value(r, m) \in Nat /\ Value(r, m) < Word64
    <3>. HIDE DEF m
    <3>. QED BY <2>1, ValueType
  <2>3. PullVarint(r) = [ok |-> TRUE, val |-> Value(r, m), rest |-> Advance(r, m)]
    BY <1>2 DEF PullVarint
  <2>. HIDE DEF m
  <2>4. Further(r, Advance(r, m)) /\ r.p < Advance(r, m).p
    BY <2>1 DEF Further, Advance, Inside, Reader, Rem
  <2>. QED BY <2>2, <2>3, <2>4 DEF Pulled
<1>. QED BY <1>1, <1>2

\* pb_pull_bytes stays inside, and so do the bytes it hands on.
LEMMA PullBytesType ==
    ASSUME msg \in Bytes8, NEW r, Inside(r)
    PROVE  /\ Further(r, PullBytes(r).rest) /\ PullBytes(r).val \in View
           /\ PullBytes(r).ok \in BOOLEAN
           /\ PullBytes(r).ok =>
                 /\ r.p < PullBytes(r).val.from
                 /\ PullBytes(r).val.from + PullBytes(r).val.len = PullBytes(r).rest.p
                 /\ r.p < PullBytes(r).rest.p
<1>. DEFINE l == PullVarint(r)
<1>1. Pulled(l, r) /\ l.ok \in BOOLEAN
  BY PullVarintType
<1>. HIDE DEF l
<1>2. CASE ~l.ok \/ l.val > Rem(l.rest)
  <2>1. PullBytes(r) = [ok |-> FALSE, val |-> Null, rest |-> l.rest]
    BY <1>2 DEF PullBytes, l
  <2>. QED BY <1>1, <2>1 DEF Pulled, Null, View
<1>3. CASE l.ok /\ ~ (l.val > Rem(l.rest))
  <2>1. PullBytes(r) = [ok |-> TRUE, val |-> [from |-> l.rest.p, len |-> l.val],
                        rest |-> Advance(l.rest, l.val)]
    BY <1>3 DEF PullBytes, l
  <2>2. /\ l.rest \in Reader /\ l.val \in Nat /\ r.p < l.rest.p /\ l.rest.end = r.end
        /\ l.val <= l.rest.end - l.rest.p
    BY <1>1, <1>3 DEF Pulled, Further, Rem, Reader
  <2>3. r.p \in Nat
    BY DEF Inside, Reader
  <2>4. Advance(l.rest, l.val) = [p |-> l.rest.p + l.val, end |-> l.rest.end]
    BY <2>2 DEF Advance, Reader
  <2>. QED BY <2>1, <2>2, <2>3, <2>4 DEF Further, View, Reader
<1>. QED BY <1>1, <1>2, <1>3

\* A key takes a byte or more and leaves something behind it.
LEMMA PullTagLen ==
    ASSUME NEW r, Inside(r), PullTag(r).ok
    PROVE  LET len == IF Ends(r) = {} THEN Min({Rem(r), Digits}) ELSE Min(Ends(r))
           IN  len \in Nat \ {0} /\ len < Rem(r) /\ PullTag(r).rest = Advance(r, len)
<1>. DEFINE len == IF Ends(r) = {} THEN Min({Rem(r), Digits}) ELSE Min(Ends(r))
<1>1. PullTag(r).rest = Advance(r, len) /\ Rem(r) > 0 /\ len < Rem(r)
  BY DEF PullTag
<1>2. len \in Nat \ {0}
  <2>1. Rem(r) \in Nat \ {0}
    BY <1>1 DEF Rem, Inside, Reader
  <2>2. CASE Ends(r) = {}
    <3>1. {Rem(r), Digits} \in SUBSET Nat /\ {Rem(r), Digits} # {}
      BY <2>1, Widths
    <3>2. Min({Rem(r), Digits}) \in {Rem(r), Digits}
      BY <3>1, Least
    <3>. QED BY <2>1, <2>2, <3>2, Widths
  <2>3. CASE Ends(r) # {}
    BY <2>3, EndsOf
  <2>. QED BY <2>2, <2>3
<1>. QED BY <1>1, <1>2

\* pb_pull_tag goes forward, inside.
LEMMA PullTagType ==
    ASSUME msg \in Bytes8, NEW r, Inside(r), PullTag(r).ok
    PROVE  Further(r, PullTag(r).rest) /\ r.p < PullTag(r).rest.p
<1>. DEFINE len == IF Ends(r) = {} THEN Min({Rem(r), Digits}) ELSE Min(Ends(r))
<1>1. PullTag(r).rest = Advance(r, len) /\ len \in Nat \ {0} /\ len < Rem(r)
  BY PullTagLen
<1>. HIDE DEF len
<1>. QED BY <1>1 DEF Advance, Further, Inside, Reader, Rem

\* pb_skip_field stays inside, for every wire type.
LEMMA SkipFieldType ==
    ASSUME msg \in Bytes8, NEW r, Inside(r), NEW wire
    PROVE  Further(r, SkipField(r, wire))
<1>1. Further(r, r)
  BY DEF Further, Inside, Reader
<1>2. CASE wire = 0
  <2>1. SkipField(r, wire) = PullVarint(r).rest
    BY <1>2 DEF SkipField
  <2>. QED BY <2>1, PullVarintType DEF Pulled
<1>3. CASE wire = 2
  <2>1. SkipField(r, wire) = PullBytes(r).rest
    BY <1>3 DEF SkipField
  <2>. QED BY <2>1, PullBytesType
<1>4. CASE wire = 5
  <2>1. SkipField(r, wire) = IF Rem(r) >= 4 THEN Advance(r, 4) ELSE r
    BY <1>4 DEF SkipField
  <2>2. Rem(r) >= 4 => Further(r, Advance(r, 4))
    BY DEF Advance, Further, Inside, Reader, Rem
  <2>. QED BY <1>1, <2>1, <2>2
<1>5. CASE wire = 1
  <2>1. SkipField(r, wire) = IF Rem(r) >= 8 THEN Advance(r, 8) ELSE r
    BY <1>5 DEF SkipField
  <2>2. Rem(r) >= 8 => Further(r, Advance(r, 8))
    BY DEF Advance, Further, Inside, Reader, Rem
  <2>. QED BY <1>1, <2>1, <2>2
<1>6. CASE wire \notin {0, 1, 2, 5}
  BY <1>1, <1>6 DEF SkipField
<1>. QED BY <1>2, <1>3, <1>4, <1>5, <1>6

-------------------------------------------------------------------------------
\* Every parser, whatever the bytes are.

\* The output parameters.
GotType ==
    /\ DOMAIN got = Numbers \cup Views
    /\ \A name \in Numbers : got[name] \in Nat
    /\ \A v \in Views : got[v] \in View

ViewInside(v) == v # Null => v.from >= 1 /\ v.from + v.len <= Len(msg) + 1

\* What was found lies in the message, and of a session command is one of the four.
GotGood ==
    /\ GotType /\ \A v \in Views : ViewInside(got[v])
    /\ got["inner"] # Null => got["field"] \in 20 .. 23

\* What holds of every parser, on whatever bytes.
PbInv ==
    /\ parser \in Parsers \cup {"none"} /\ msg \in Bytes8 /\ result \in {"run", "ok", "error"}
    /\ Inside(reader) /\ depth \in {0, 1}
    /\ parser = "none" => result # "run"
    /\ depth = 0 => reader.end = Len(msg) + 1
    /\ depth = 1 /\ parser # "session" =>
          Inside(outer) /\ outer.end = Len(msg) + 1 /\ reader.end <= outer.p
    /\ GotGood

\* What a parser still has to read; a session message is read twice, its payload after it.
Left ==
    IF parser = "session"
    THEN 2 * Rem(reader) + (IF depth = 0 THEN 2 * Len(msg) + 2 ELSE 0)
    ELSE 2 * (Len(msg) + 1 - reader.p) + depth

\* A step of a parser.
Keeps == PbInv' /\ (result' = "run" => Left' < Left)

\* Submessages are entered from the message itself, by three of the parsers.
LEMMA EnterIs ==
    ASSUME parser \in Parsers, NEW tag, "enter" \in For(depth, tag)
    PROVE  depth = 0 /\ parser # "session"
BY DEF For, Known, Parsers

\* What a tag that a parser knows is for.
LEMMA KnownNames ==
    ASSUME parser \in Parsers, NEW tag, NEW name \in For(depth, tag)
    PROVE  name # "field" /\ (name = "inner" => tag.field \in 20 .. 23)
BY DEF For, Known, Parsers

\* The two parts of a key are numbers.
LEMMA PullTagField ==
    ASSUME msg \in Bytes8, NEW r, Inside(r), PullTag(r).ok
    PROVE  PullTag(r).field \in Nat /\ PullTag(r).wire \in 0 .. 7
<1>. DEFINE len == IF Ends(r) = {} THEN Min({Rem(r), Digits}) ELSE Min(Ends(r))
            key == Value(r, len)
<1>1. PullTag(r).field = (key \div 8) % Word /\ PullTag(r).wire = key % 8
  BY DEF PullTag
<1>2. key \in Nat
  <2>0. Rem(r) \in Int
    BY DEF Rem, Inside, Reader
  <2>1. len \in Nat /\ len < Rem(r)
    BY PullTagLen
  <2>. HIDE DEF len
  <2>. QED BY <2>0, <2>1, ValueType
<1>. HIDE DEF key
<1>3. key \div 8 \in Nat /\ key % 8 \in 0 .. 7
  BY <1>2
<1>. QED BY <1>1, <1>3, Widths, ModType

\* The type that is inferred from the field of a session command is a number.
LEMMA InferredType ==
    ASSUME GotGood, parser = "session" => got["inner"] # Null
    PROVE  Inferred \in Nat
BY DEF GotGood, Inferred

\* What is left of a reader that is inside is inside.
LEMMA FurtherInside ==
    ASSUME NEW r, Inside(r), NEW s, Further(r, s)
    PROVE  Inside(s)
BY DEF Inside, Further, Reader

\* What is left of what is left.
LEMMA FurtherTrans ==
    ASSUME NEW r, NEW s, NEW t, Inside(r), Further(r, s), Further(s, t)
    PROVE  Further(r, t)
BY DEF Inside, Further, Reader

\* What a step leaves of the reader it is in.
Onward ==
    /\ Further(reader, reader') /\ result' \in {"run", "ok", "error"}
    /\ result' = "run" => reader.p < reader'.p

\* A refused message: the parser stops, or leaves the loop it is in.
LEMMA FailsType ==
    ASSUME PbInv, Reading, NEW r, Further(reader, r), Fails(r)
    PROVE  Onward
<1>1. reader.p < reader.end
  BY DEF PbInv, Inside, Reader, Reading, Rem
<1>. QED BY <1>1 DEF PbInv, Fails, Further, Inside, Reader, Onward

\* A step that reads on, in the message it is in.
LEMMA ReadsOn ==
    ASSUME PbInv, parser \in Parsers, UNCHANGED <<inputVars, outer, depth>>, Onward, GotGood'
    PROVE  Keeps
<1>0. parser' # "none"
  BY DEF Parsers, inputVars
<1>1. Inside(reader)'
  BY FurtherInside DEF PbInv, inputVars, Inside, Further, Reader, Onward
<1>2. reader'.end = reader.end
  BY DEF Further, Onward
<1>3. UNCHANGED <<parser, msg, outer, depth>>
  BY DEF inputVars
<1>4. (depth = 0 => reader.end = Len(msg) + 1)'
  BY <1>2, <1>3 DEF PbInv
<1>5. (depth = 1 /\ parser # "session" =>
          Inside(outer) /\ outer.end = Len(msg) + 1 /\ reader.end <= outer.p)'
  BY <1>2, <1>3 DEF PbInv, Inside, Reader
<1>6. (parser \in Parsers \cup {"none"} /\ msg \in Bytes8 /\ depth \in {0, 1})'
  BY <1>3 DEF PbInv, Bytes8
<1>7. PbInv'
  BY <1>0, <1>1, <1>4, <1>5, <1>6 DEF PbInv, Onward
<1>8. result' = "run" => Left' < Left
  <2>1. result' = "run" => reader.p < reader'.p
    BY DEF Onward
  <2>2. reader \in Reader /\ reader' \in Reader /\ depth \in {0, 1} /\ Len(msg) \in Nat
    BY <1>1 DEF PbInv, Inside, Bytes8
  <2>. QED BY <1>2, <1>3, <2>1, <2>2 DEF Left, Rem, Reader
<1>. QED BY <1>7, <1>8 DEF Keeps

\* What was found stays good while it and the message stay.
LEMMA GotFrame ==
    ASSUME PbInv, UNCHANGED <<msg, got>>
    PROVE  GotGood'
BY DEF PbInv, GotGood, GotType, ViewInside

\* Every step of every parser keeps PbInv and comes down.
LEMMA ParseKeeps == ASSUME PbInv, Parse, parser \in Parsers PROVE Keeps
<1>. USE DEF Bytes8
<1>0. PbInv /\ msg \in Seq(0 .. 255) /\ Inside(reader) /\ parser \in Parsers /\ parser # "none"
  BY DEF PbInv, Parsers
<1>1. CASE BadTag
  <2>1. Further(reader, reader)
    BY <1>0 DEF Further, Inside, Reader
  <2>2. Onward
    BY <1>1, <2>1, FailsType DEF BadTag
  <2>. QED BY <1>0, <1>1, <2>2, ReadsOn, GotFrame DEF BadTag, inputVars
<1>2. CASE Number
  <2>1. PICK tag \in {PullTag(reader)}, name \in Numbers :
           /\ tag.ok /\ name \in For(depth, tag)
           /\ LET v == PullVarint(tag.rest) IN
                 /\ IF v.ok
                    THEN reader' = v.rest /\ UNCHANGED result
                    ELSE IF Lenient
                    THEN reader' = tag.rest /\ UNCHANGED result
                    ELSE Fails(tag.rest)
                 /\ IF v.ok THEN Gets({name}, v.val % Word) ELSE UNCHANGED got
           /\ UNCHANGED <<inputVars, outer, depth>>
    BY <1>2 DEF Number
  <2>. DEFINE v == PullVarint(tag.rest)
  <2>2. Further(reader, tag.rest) /\ Inside(tag.rest)
    BY <1>0, <2>1, PullTagType, FurtherInside
  <2>3. Pulled(v, tag.rest) /\ v.ok \in BOOLEAN
    BY <1>0, <2>2, PullVarintType
  <2>. HIDE DEF v
  <2>4. Further(reader, v.rest) /\ v.val % Word \in Nat
    BY <1>0, <2>2, <2>3, FurtherTrans, Widths, ModType DEF Pulled
  <2>5. Onward
    <3>0. reader.p < tag.rest.p /\ (v.ok => tag.rest.p <= v.rest.p)
      BY <1>0, <2>1, <2>3, PullTagType DEF Pulled, Further
    <3>1. CASE v.ok
      <4>1. reader' = v.rest /\ UNCHANGED result
        BY <2>1, <3>1 DEF v
      <4>2. reader.p < v.rest.p
        BY <1>0, <2>2, <2>4, <3>0, <3>1 DEF Inside, Further, Reader
      <4>. QED BY <2>4, <4>1, <4>2 DEF PbInv, Onward
    <3>2. CASE ~v.ok /\ Lenient
      <4>1. reader' = tag.rest /\ UNCHANGED result
        BY <2>1, <3>2 DEF v
      <4>. QED BY <2>2, <3>0, <4>1 DEF PbInv, Onward
    <3>3. CASE ~v.ok /\ ~Lenient
      <4>1. Fails(tag.rest)
        BY <2>1, <3>3 DEF v
      <4>. QED BY <1>2, <2>2, <4>1, FailsType DEF Number
    <3>. QED BY <2>3, <3>1, <3>2, <3>3
  <2>6. UNCHANGED msg
    BY <2>1 DEF inputVars
  <2>7. GotGood'
    <3>1. CASE ~v.ok
      BY <2>1, <2>6, <3>1, GotFrame DEF v
    <3>2. CASE v.ok
      <4>1. got' = [a \in DOMAIN got |-> IF a \in {name} THEN v.val % Word ELSE got[a]]
        BY <2>1, <3>2 DEF v, Gets
      <4>2. name \notin Views
        BY <2>1 DEF Numbers, Views
      <4>3. GotType'
        BY <2>4, <4>1, <4>2 DEF PbInv, GotGood, GotType
      <4>4. \A w \in Views : got'[w] = got[w]
        BY <4>1, <4>2 DEF PbInv, GotGood, GotType
      <4>5. got'["inner"] = got["inner"] /\ got'["field"] = got["field"]
        <5>1. name # "field"
          BY <2>1, KnownNames
        <5>. QED BY <4>1, <4>2, <5>1 DEF PbInv, GotGood, GotType, Numbers, Views
      <4>. QED BY <2>6, <4>3, <4>4, <4>5 DEF PbInv, GotGood, ViewInside
    <3>. QED BY <2>3, <3>1, <3>2
  <2>. QED BY <1>0, <2>1, <2>5, <2>7, ReadsOn
<1>3. CASE Bytes
  <2>1. PICK tag \in {PullTag(reader)}, name \in Views :
           /\ tag.ok /\ name \in For(depth, tag)
           /\ LET b == PullBytes(tag.rest) IN
                 IF b.ok /\ (name = "key" => b.val.len = KeyLen)
                 THEN /\ reader' = b.rest
                      /\ got' = [got EXCEPT ![name] = b.val,
                                            !.field = IF name = "inner" THEN tag.field ELSE @]
                      /\ result' = IF name \in {"key", "verify"} THEN "ok" ELSE result
                 ELSE Fails(tag.rest) /\ UNCHANGED got
           /\ UNCHANGED <<inputVars, outer, depth>>
    BY <1>3 DEF Bytes
  <2>. DEFINE b == PullBytes(tag.rest)
              fits == b.ok /\ (name = "key" => b.val.len = KeyLen)
  <2>2. Further(reader, tag.rest) /\ Inside(tag.rest)
    BY <1>0, <2>1, PullTagType, FurtherInside
  <2>3. /\ Further(tag.rest, b.rest) /\ b.val \in View /\ b.ok \in BOOLEAN
        /\ b.ok => tag.rest.p < b.val.from /\ b.val.from + b.val.len = b.rest.p
    BY <1>0, <2>2, PullBytesType
  <2>6. UNCHANGED msg
    BY <2>1 DEF inputVars
  <2>. HIDE DEF b
  <2>4. CASE ~fits
    <3>1. Fails(tag.rest) /\ UNCHANGED got
      BY <2>1, <2>4 DEF b
    <3>2. Onward
      BY <1>3, <2>2, <3>1, FailsType DEF Bytes
    <3>. QED BY <1>0, <2>1, <2>6, <3>1, <3>2, GotFrame, ReadsOn
  <2>5. CASE fits
    <3>1. /\ reader' = b.rest
          /\ got' = [got EXCEPT ![name] = b.val,
                                !.field = IF name = "inner" THEN tag.field ELSE @]
          /\ result' = IF name \in {"key", "verify"} THEN "ok" ELSE result
      BY <2>1, <2>5 DEF b
    <3>2. Further(reader, reader')
      BY <1>0, <2>2, <2>3, <3>1, FurtherTrans
    <3>3. result' \in {"run", "ok", "error"}
      BY <3>1 DEF PbInv
    <3>4. tag.field \in Nat
      BY <1>0, <2>1, PullTagField
    <3>5. GotType' /\ \A w \in Views : got'[w] = IF w = name THEN b.val ELSE got[w]
      BY <2>3, <3>1, <3>4 DEF PbInv, GotGood, GotType, Numbers, Views
    <3>6. ViewInside(b.val)
      BY <2>2, <2>3, <2>5 DEF ViewInside, Inside, Further, Reader, View
    <3>7. \A w \in Views : ViewInside(got[w])'
      BY <2>6, <3>5, <3>6 DEF PbInv, GotGood, ViewInside
    <3>8. got'["inner"] # Null => got'["field"] \in 20 .. 23
      <4>1. got'["field"] = IF name = "inner" THEN tag.field ELSE got["field"]
        BY <3>1 DEF PbInv, GotGood, GotType, Numbers, Views
      <4>2. name = "inner" => tag.field \in 20 .. 23
        BY <2>1, KnownNames
      <4>3. name # "inner" => got'["inner"] = got["inner"]
        BY <3>5 DEF Views
      <4>. QED BY <4>1, <4>2, <4>3 DEF PbInv, GotGood
    <3>9. GotGood'
      BY <3>5, <3>7, <3>8 DEF GotGood
    <3>10. reader.p < reader'.p
      <4>1. reader.p < tag.rest.p
        BY <1>0, <2>1, PullTagType
      <4>2. tag.rest.p <= b.rest.p /\ tag.rest.p \in Nat /\ b.rest.p \in Nat /\ reader.p \in Nat
        BY <1>0, <2>2, <2>3 DEF Inside, Further, Reader
      <4>3. reader'.p = b.rest.p
        BY <3>1
      <4>. QED BY <4>1, <4>2, <4>3
    <3>11. Onward
      BY <3>2, <3>3, <3>10 DEF Onward
    <3>. QED BY <1>0, <2>1, <3>9, <3>11, ReadsOn
  <2>. QED BY <2>4, <2>5
<1>4. CASE Enter
  <2>1. PICK tag \in {PullTag(reader)} :
           /\ tag.ok /\ "enter" \in For(depth, tag)
           /\ LET b == PullBytes(tag.rest) IN
                 IF b.ok
                 THEN /\ outer' = b.rest
                      /\ reader' = [p |-> b.val.from, end |-> b.val.from + b.val.len]
                      /\ depth' = 1
                      /\ UNCHANGED result
                 ELSE Fails(tag.rest) /\ UNCHANGED <<outer, depth>>
           /\ UNCHANGED <<inputVars, got>>
    BY <1>4 DEF Enter
  <2>. DEFINE b == PullBytes(tag.rest)
  <2>2. Further(reader, tag.rest) /\ Inside(tag.rest)
    BY <1>0, <2>1, PullTagType, FurtherInside
  <2>3. /\ Further(tag.rest, b.rest) /\ b.val \in View /\ b.ok \in BOOLEAN
        /\ b.ok => tag.rest.p < b.val.from /\ b.val.from + b.val.len = b.rest.p
    BY <1>0, <2>2, PullBytesType
  <2>4. depth = 0 /\ parser # "session"
    BY <2>1, EnterIs
  <2>. HIDE DEF b
  <2>5. CASE ~b.ok
    <3>1. Fails(tag.rest) /\ UNCHANGED <<inputVars, outer, depth, got>>
      BY <2>1, <2>5 DEF b
    <3>2. Onward
      BY <1>4, <2>2, <3>1, FailsType DEF Enter
    <3>. QED BY <1>0, <3>1, <3>2, GotFrame, ReadsOn DEF inputVars
  <2>6. CASE b.ok
    <3>1. /\ outer' = b.rest /\ reader' = [p |-> b.val.from, end |-> b.val.from + b.val.len]
          /\ depth' = 1 /\ UNCHANGED <<result, parser, msg, got>>
      BY <2>1, <2>6 DEF b, inputVars
    <3>2. /\ b.rest \in Reader /\ b.rest.end = reader.end /\ tag.rest.p <= b.rest.p
          /\ b.rest.p <= b.rest.end
      BY <2>2, <2>3 DEF Further
    <3>3. reader.end = Len(msg) + 1 /\ Len(msg) \in Nat
      BY <1>0, <2>4 DEF PbInv
    <3>4. Inside(outer)' /\ (outer.end = Len(msg) + 1)'
      BY <3>1, <3>2, <3>3 DEF Inside
    <3>5. Inside(reader)' /\ (reader.end <= outer.p)'
      BY <2>2, <2>3, <2>6, <3>1, <3>2, <3>3 DEF Inside, Reader, View
    <3>6. GotGood'
      BY <3>1, GotFrame
    <3>7. PbInv'
      BY <1>0, <2>4, <3>1, <3>4, <3>5, <3>6 DEF PbInv
    <3>8. Left' < Left
      <4>1. reader.p < b.val.from
        <5>1. reader.p < tag.rest.p
          BY <1>0, <2>1, PullTagType
        <5>. QED BY <1>0, <2>2, <2>3, <2>6, <5>1 DEF Inside, Further, Reader, View
      <4>. QED BY <1>0, <2>3, <2>4, <3>1, <3>3, <4>1 DEF Left, Inside, Reader, View
    <3>. QED BY <3>7, <3>8 DEF Keeps
  <2>. QED BY <2>3, <2>5, <2>6
<1>5. CASE Skip
  <2>1. PICK tag \in {PullTag(reader)} :
           /\ tag.ok /\ reader' = SkipField(tag.rest, tag.wire)
           /\ UNCHANGED <<inputVars, outer, depth, got, result>>
    BY <1>5 DEF Skip
  <2>2. Further(reader, tag.rest) /\ Inside(tag.rest)
    BY <1>0, <2>1, PullTagType, FurtherInside
  <2>3. Further(tag.rest, reader')
    BY <1>0, <2>1, <2>2, SkipFieldType
  <2>4. Further(reader, reader')
    BY <1>0, <2>2, <2>3, FurtherTrans
  <2>5. reader.p < reader'.p
    <3>1. reader.p < tag.rest.p
      BY <1>0, <2>1, PullTagType
    <3>. QED BY <1>0, <2>2, <2>3, <3>1 DEF Inside, Further, Reader
  <2>6. Onward
    BY <2>1, <2>4, <2>5 DEF PbInv, Onward
  <2>. QED BY <1>0, <2>1, <2>6, GotFrame, ReadsOn DEF inputVars
<1>6. CASE Leave
  <2>1. /\ depth = 1 /\ parser # "session" /\ reader' = outer /\ depth' = 0
        /\ UNCHANGED <<parser, msg, got, outer, result>>
    BY <1>6 DEF Leave, inputVars
  <2>2. GotGood'
    BY <2>1, GotFrame
  <2>3. PbInv'
    BY <1>0, <2>1, <2>2 DEF PbInv, Inside
  <2>4. Left' < Left
    BY <1>0, <2>1 DEF PbInv, Left, Inside, Reader, Bytes8
  <2>. QED BY <2>3, <2>4 DEF Keeps
<1>7. CASE EnterSec1
  <2>1. UNCHANGED <<parser, msg, got, outer>> /\ parser = "session" /\ depth = 0
    BY <1>7 DEF EnterSec1, inputVars
  <2>2. GotGood'
    BY <2>1, GotFrame
  <2>3. CASE got.version = Absent \/ got.sec1 = Null
    <3>1. result' = "error" /\ UNCHANGED <<reader, depth>>
      BY <1>7, <2>3 DEF EnterSec1
    <3>. QED BY <1>0, <2>1, <2>2, <3>1 DEF PbInv, Inside, Keeps
  <2>4. CASE ~ (got.version = Absent \/ got.sec1 = Null)
    <3>1. /\ reader' = [p |-> got.sec1.from, end |-> got.sec1.from + got.sec1.len]
          /\ depth' = 1 /\ UNCHANGED result
      BY <1>7, <2>4 DEF EnterSec1
    <3>2. "sec1" \in Views
      BY DEF Views
    <3>3. got.sec1 \in View /\ ViewInside(got.sec1)
      BY <3>2 DEF PbInv, GotGood, GotType
    <3>4. Inside(reader)'
      BY <2>1, <2>4, <3>1, <3>3 DEF ViewInside, View, Inside, Reader
    <3>5. PbInv'
      BY <1>0, <2>1, <2>2, <3>1, <3>4 DEF PbInv
    <3>6. Left' < Left
      BY <1>0, <2>1, <2>4, <3>1, <3>3
         DEF Left, Rem, ViewInside, View, Inside, Reader, Bytes8
    <3>. QED BY <3>5, <3>6 DEF Keeps
  <2>. QED BY <2>3, <2>4
<1>8. CASE Finish
  <2>1. UNCHANGED <<parser, msg, reader, outer, depth>> /\ result' \in {"ok", "error"}
    BY <1>8 DEF Finish, inputVars
  <2>2. GotGood'
    <3>1. CASE UNCHANGED got
      BY <2>1, <3>1, GotFrame
    <3>2. CASE Gets({"msg"}, Inferred) /\ Inferred \in Nat
      <4>1. got' = [a \in DOMAIN got |-> IF a \in {"msg"} THEN Inferred ELSE got[a]]
        BY <3>2 DEF Gets
      <4>2. "msg" \notin Views
        BY DEF Views
      <4>3. \A w \in Views : got'[w] = got[w]
        BY <4>1, <4>2 DEF PbInv, GotGood, GotType
      <4>4. GotType'
        BY <4>1, <4>2, <3>2 DEF PbInv, GotGood, GotType
      <4>5. got'["inner"] = got["inner"] /\ got'["field"] = got["field"]
        BY <4>1, <4>2 DEF PbInv, GotGood, GotType, Numbers, Views
      <4>. QED BY <2>1, <4>3, <4>4, <4>5 DEF PbInv, GotGood, ViewInside
    <3>3. (got.msg = Absent /\ result' = "ok" /\ Gets({"msg"}, Inferred)) \/ UNCHANGED got
      BY <1>8 DEF Finish
    <3>4. result' = "ok" => ~ (parser = "session" /\ got["inner"] = Null)
      BY <1>8 DEF Finish
    <3>5. result' = "ok" => Inferred \in Nat
      BY <3>4, InferredType DEF PbInv
    <3>. QED BY <3>1, <3>2, <3>3, <3>5
  <2>. QED BY <1>0, <2>1, <2>2 DEF PbInv, Inside, Keeps
<1>. QED BY <1>1, <1>2, <1>3, <1>4, <1>5, <1>6, <1>7, <1>8 DEF Parse

-------------------------------------------------------------------------------
\* What the writers write.

\* A field number and its wire type fill a word.
FieldNumber == 0 .. Word \div 8 - 1

\* A field number and a wire type make one key of 32 bits, and come out of it again.
LEMMA KeyOf ==
    ASSUME NEW field \in FieldNumber, NEW w \in 0 .. 7
    PROVE  /\ field * 8 + w \in Nat /\ field * 8 + w < Word
           /\ (field * 8 + w) % 8 = w /\ (field * 8 + w) \div 8 = field
           /\ field \in Nat /\ field < Word
<1>1. Word \in Nat /\ Word \div 8 \in Nat
  BY Widths
<1>2. field \in Nat /\ field + 1 <= Word \div 8
  BY <1>1 DEF FieldNumber
<1>3. 8 * (Word \div 8) <= Word
  BY <1>1
<1>. QED BY <1>1, <1>2, <1>3

\* pb_put_varint writes bytes, one or more.
LEMMA VarintType ==
    \A v \in Nat : PutVarint[v] \in Seq(0 .. 255) /\ Len(PutVarint[v]) \in Nat \ {0}
BY VarintIs DEF IsVarint

\* A tag is bytes, one or more.
LEMMA TagType ==
    ASSUME NEW field \in FieldNumber, NEW w \in 0 .. 7
    PROVE  Tag(field, w) \in Seq(0 .. 255) /\ Len(Tag(field, w)) \in Nat \ {0}
BY KeyOf, VarintType DEF Tag

\* A field with a length is bytes.
LEMMA LdType ==
    ASSUME NEW field \in FieldNumber, NEW b \in Seq(0 .. 255)
    PROVE  EncodeLd(field, b) \in Seq(0 .. 255)
<1>1. Tag(field, 2) \in Seq(0 .. 255)
  BY TagType
<1>2. PutVarint[Len(b)] \in Seq(0 .. 255)
  BY VarintType
<1>3. /\ PutVarint[Len(b)] \o b \in Seq(0 .. 255)
      /\ Tag(field, 2) \o PutVarint[Len(b)] \in Seq(0 .. 255)
  BY <1>1, <1>2, ConcatType
<1>. QED BY <1>3, ConcatType DEF EncodeLd

\* The three kinds of a field that is no submessage.
LEMMA FlatCases ==
    ASSUME NEW f \in FlatField
    PROVE  /\ f.field \in FieldNumber
           /\ \/ f.kind = "number" /\ f.val \in Nat /\ f.val < Word64
              \/ f.kind = "bytes" /\ f.val \in Seq(0 .. 255)
              \/ f.kind = "fixed" /\ f.val \in Seq(0 .. 255) /\ Len(f.val) \in {4, 8}
<1>1. f.field \in FieldNumber
  BY DEF FlatField, FieldNumber
<1>2. CASE f \in [field : FieldNumber, kind : {"number"}, val : 0 .. Word64 - 1]
  BY <1>1, <1>2, Widths
<1>3. CASE f \in [field : FieldNumber, kind : {"bytes"}, val : Seq(0 .. 255)]
  BY <1>1, <1>3
<1>4. CASE f \in [field : FieldNumber, kind : {"fixed"},
                  val : [1 .. 4 -> 0 .. 255] \cup [1 .. 8 -> 0 .. 255]]
  <2>1. \A b \in [1 .. 4 -> 0 .. 255] \cup [1 .. 8 -> 0 .. 255] :
            b \in Seq(0 .. 255) /\ Len(b) \in {4, 8}
    <3>. DEFINE OfLength(k) == \A b \in [1 .. k -> 0 .. 255] : b \in Seq(0 .. 255) /\ Len(b) = k
    <3>0. \A k \in Nat : OfLength(k)
      BY FunctionIsSeq
    <3>1. OfLength(4) /\ OfLength(8)
      <4>. HIDE DEF OfLength
      <4>. QED BY <3>0
    <3>2. \A b \in [1 .. 4 -> 0 .. 255] : b \in Seq(0 .. 255) /\ Len(b) = 4
      BY <3>1
    <3>3. \A b \in [1 .. 8 -> 0 .. 255] : b \in Seq(0 .. 255) /\ Len(b) = 8
      BY <3>1
    <3>. QED BY <3>2, <3>3
  <2>2. f.kind = "fixed" /\ f.val \in [1 .. 4 -> 0 .. 255] \cup [1 .. 8 -> 0 .. 255]
    BY <1>4
  <2>. QED BY <1>1, <2>1, <2>2
<1>. QED BY <1>2, <1>3, <1>4 DEF FlatField, FieldNumber

\* Its code is bytes.
LEMMA FlatType ==
    ASSUME NEW f \in FlatField
    PROVE  EncodeFlat(f) \in Seq(0 .. 255)
<1>1. CASE f.kind = "number" /\ f.field \in FieldNumber /\ f.val \in Nat
  <2>1. Tag(f.field, 0) \in Seq(0 .. 255) /\ PutVarint[f.val] \in Seq(0 .. 255)
    <3>1. 0 \in 0 .. 7
      OBVIOUS
    <3>2. Tag(f.field, 0) \in Seq(0 .. 255)
      BY <1>1, <3>1, TagType
    <3>. QED BY <1>1, <3>2, VarintType
  <2>2. EncodeFlat(f) = Tag(f.field, 0) \o PutVarint[f.val]
    BY <1>1 DEF EncodeFlat
  <2>. QED BY <2>1, <2>2, ConcatType
<1>2. CASE f.kind = "bytes" /\ f.field \in FieldNumber /\ f.val \in Seq(0 .. 255)
  <2>2. EncodeFlat(f) = EncodeLd(f.field, f.val)
    BY <1>2 DEF EncodeFlat
  <2>. QED BY <1>2, <2>2, LdType
<1>3. CASE f.kind = "fixed" /\ f.field \in FieldNumber /\ f.val \in Seq(0 .. 255)
  <2>. DEFINE w == IF Len(f.val) = 4 THEN 5 ELSE 1
  <2>1. Tag(f.field, w) \in Seq(0 .. 255)
    BY <1>3, TagType
  <2>2. EncodeFlat(f) = Tag(f.field, w) \o f.val
    BY <1>3 DEF EncodeFlat
  <2>. QED BY <1>3, <2>1, <2>2, ConcatType
<1>. QED BY <1>1, <1>2, <1>3, FlatCases

\* The codes of fields, as functions.
FlatCode == [f \in FlatField |-> EncodeFlat(f)]
FieldCode == [f \in Field |-> EncodeField(f)]

\* A submessage is the codes of its fields, one after the other.
LEMMA SubIsLaid ==
    ASSUME NEW fs \in Seq(FlatField)
    PROVE  EncodeSub(fs) = Laid(fs, FlatCode) /\ LaidOut(fs, FlatCode, 0 .. 255)
<1>1. \A k \in DOMAIN fs : fs[k] \in FlatField
  BY ElementOfSeq
<1>2. \A k \in DOMAIN fs : EncodeFlat(fs[k]) = FlatCode[fs[k]]
  BY <1>1 DEF FlatCode
<1>3. FlatCode \in [FlatField -> Seq(0 .. 255)]
  BY FlatType DEF FlatCode
<1>4. [k \in DOMAIN fs |-> EncodeFlat(fs[k])] = [k \in DOMAIN fs |-> FlatCode[fs[k]]]
  BY <1>2
<1>. QED BY <1>3, <1>4, LaidIs DEF EncodeSub, Laid

\* Codes one after the other are bytes.
LEMMA LaidType ==
    ASSUME NEW s, NEW e, NEW T, Len(s) \in Nat, LaidOut(s, e, T)
    PROVE  Laid(s, e) \in Seq(T)
<1>1. Len(s) \in 0 .. Len(s)
  OBVIOUS
<1>2. Laid(SubSeq(s, 1, Len(s)), e) \in Seq(T) /\ Laid(SubSeq(s, 1, Len(s)), e) = Laid(s, e)
  BY <1>1 DEF LaidOut
<1>. QED BY <1>2

\* The code of a submessage is bytes.
LEMMA SubType ==
    ASSUME NEW fs \in Seq(FlatField)
    PROVE  EncodeSub(fs) \in Seq(0 .. 255)
<1>1. Len(fs) \in Nat
  OBVIOUS
<1>. QED BY <1>1, SubIsLaid, LaidType

\* The code of a field is bytes.
LEMMA FieldType ==
    ASSUME NEW f \in Field
    PROVE  EncodeField(f) \in Seq(0 .. 255)
<1>1. CASE f \in FlatField
  <2>1. f.kind # "sub"
    BY <1>1, FlatCases
  <2>. QED BY <1>1, <2>1, FlatType DEF EncodeField
<1>2. CASE f \in [field : FieldNumber, kind : {"sub"}, val : Seq(FlatField)]
  <2>1. f.kind = "sub" /\ f.field \in FieldNumber /\ f.val \in Seq(FlatField)
    BY <1>2
  <2>. QED BY <2>1, LdType, SubType DEF EncodeField
<1>. QED BY <1>1, <1>2 DEF Field, FieldNumber

\* A message is the codes of its fields, one after the other.
LEMMA FieldsIsLaid ==
    ASSUME NEW fs \in Seq(Field)
    PROVE  EncodeFields(fs) = Laid(fs, FieldCode) /\ LaidOut(fs, FieldCode, 0 .. 255)
<1>1. \A k \in DOMAIN fs : fs[k] \in Field
  BY ElementOfSeq
<1>2. \A k \in DOMAIN fs : EncodeField(fs[k]) = FieldCode[fs[k]]
  BY <1>1 DEF FieldCode
<1>3. FieldCode \in [Field -> Seq(0 .. 255)]
  BY FieldType DEF FieldCode
<1>4. [k \in DOMAIN fs |-> EncodeField(fs[k])] = [k \in DOMAIN fs |-> FieldCode[fs[k]]]
  BY <1>2
<1>. QED BY <1>3, <1>4, LaidIs DEF EncodeFields, Laid

\* A message is bytes.
LEMMA FieldsType ==
    ASSUME NEW fs \in Seq(Field)
    PROVE  EncodeFields(fs) \in Seq(0 .. 255)
<1>1. Len(fs) \in Nat
  OBVIOUS
<1>. QED BY <1>1, FieldsIsLaid, LaidType

\* Nothing found is good.
LEMMA UnsetGood ==
    ASSUME got = Unset
    PROVE  GotGood
<1>1. Absent \in Nat
  BY Widths DEF Absent
<1>2. Null \in View
  BY DEF Null, View
<1>3. \A name \in Numbers : got[name] = Defaults[name] /\ Defaults[name] \in Nat
  BY <1>1 DEF Unset, Defaults, Numbers, Views
<1>4. \A v \in Views : got[v] = Null
  BY DEF Unset
<1>5. DOMAIN got = Numbers \cup Views
  BY DEF Unset
<1>6. "inner" \in Views
  BY DEF Views
<1>. QED BY <1>2, <1>3, <1>4, <1>5, <1>6 DEF GotGood, GotType, ViewInside

\* PbInv holds before the first step.
LEMMA PbInitInv == ASSUME Init PROVE PbInv
<1>1. ASSUME msg \in Bytes8, parser \in Parsers, result = "run",
             reader = Whole(msg), depth = 0, got = Unset
      PROVE  PbInv
  <2>1. Inside(reader) /\ reader.end = Len(msg) + 1
    BY <1>1 DEF Whole, Inside, Reader, Bytes8
  <2>. QED BY <1>1, <2>1, UnsetGood DEF PbInv, Parsers
<1>2. CASE PbInit
  <2>1. CASE \E m \in Messages : parser = m.parser /\ msg = EncodeFields(m.fields)
    <3>1. PICK m \in Messages : parser = m.parser /\ msg = EncodeFields(m.fields)
      BY <2>1
    <3>2. m.parser \in Parsers /\ m.fields \in Seq(Field)
      BY PbAssumption DEF WellFormed
    <3>3. msg \in Bytes8
      BY <3>1, <3>2, FieldsType DEF Bytes8
    <3>. QED BY <1>1, <1>2, <3>1, <3>2, <3>3 DEF PbInit
  <2>2. CASE parser \in Parsers /\ msg \in Raw
    <3>1. msg \in Bytes8
      BY <2>2, PbAssumption DEF Bytes8
    <3>. QED BY <1>1, <1>2, <2>2, <3>1 DEF PbInit
  <2>. QED BY <1>2, <2>1, <2>2 DEF PbInit
<1>3. CASE PbIdle
  <2>1. /\ parser = "none" /\ msg = <<>> /\ result = "ok" /\ depth = 0 /\ got = Unset
        /\ reader = [p |-> 1, end |-> 1] /\ Len(msg) = 0
    BY <1>3 DEF PbIdle, Whole
  <2>2. Inside(reader) /\ reader.end = Len(msg) + 1 /\ msg \in Bytes8
    BY <2>1 DEF Inside, Reader, Bytes8
  <2>. QED BY <2>1, <2>2, UnsetGood DEF PbInv
<1>. QED BY <1>2, <1>3 DEF Init

\* PbInv holds while the page of results is written.
LEMMA PbFrame == ASSUME PbInv, UNCHANGED pbVars PROVE PbInv'
BY DEF PbInv, pbVars, inputVars, Inside, Bytes8, GotGood, GotType, ViewInside

\* PbInv is inductive.
LEMMA PbNext == ASSUME PbInv, [Next]_<<pbVars, pageVars>> PROVE PbInv'
<1>1. CASE Parse
  <2>1. Running
    BY <1>1 DEF Parse, BadTag, Number, Bytes, Enter, Skip, Leave, EnterSec1, Finish, Reading
  <2>2. parser \in Parsers
    BY <2>1 DEF Running, PbInv
  <2>. QED BY <1>1, <2>2, ParseKeeps DEF Keeps
<1>2. CASE UNCHANGED pbVars
  BY <1>2, PbFrame
<1>. QED BY <1>1, <1>2 DEF Next

\* PbInv holds of every state, whatever the bytes.
LEMMA PbAlways == Spec => []PbInv
<1>1. Init => PbInv
  BY PbInitInv
<1>2. PbInv /\ [Next]_<<pbVars, pageVars>> => PbInv'
  BY PbNext
<1>. QED BY <1>1, <1>2, PTL DEF Spec

\* Whatever the bytes are and however they are cut short, what any parser hands on lies in
\* the message, and it reads a submessage to the end of that submessage only.
THEOREM EveryViewInside == Spec => []ViewsInside
<1>1. PbInv => ViewsInside
  <2>. SUFFICES ASSUME PbInv PROVE ViewsInside
    OBVIOUS
  <2>1. reader.end <= Len(msg) + 1 /\ reader.p \in 1 .. reader.end
    BY DEF PbInv, Inside, Reader
  <2>2. depth = 1 /\ parser # "session" => reader.end <= outer.p /\ outer.end = Len(msg) + 1
    BY DEF PbInv
  <2>3. ASSUME NEW v \in Views, got[v] # Null
        PROVE  got[v].from \in 1 .. Len(msg) + 1 /\ got[v].from + got[v].len <= Len(msg) + 1
    <3>1. got[v] \in View /\ ViewInside(got[v]) /\ Len(msg) \in Nat
      BY DEF PbInv, GotGood, GotType, Bytes8
    <3>. QED BY <2>3, <3>1 DEF ViewInside, View
  <2>. QED BY <2>1, <2>2, <2>3 DEF ViewsInside
<1>. QED BY <1>1, PbAlways, PTL

\* Every step of every parser, on whatever bytes, ends the parse or leaves it less to read:
\* no message can keep a thread of the transports in a parser.
THEOREM ParsersComeDown ==
    Spec => [](Left \in Nat) /\ [][Parse => result' # "run" \/ Left' < Left]_<<pbVars, pageVars>>
<1>1. PbInv => Left \in Nat
  <2>. SUFFICES ASSUME PbInv PROVE Left \in Nat
    OBVIOUS
  <2>1. /\ reader.p \in Nat /\ reader.end \in Nat /\ Len(msg) \in Nat
        /\ reader.p <= reader.end /\ reader.end <= Len(msg) + 1 /\ depth \in {0, 1}
    BY DEF PbInv, Inside, Reader, Bytes8
  <2>2. Rem(reader) \in Nat /\ Len(msg) + 1 - reader.p \in Nat
    BY <2>1 DEF Rem
  <2>3. CASE parser = "session"
    <3>1. Left = 2 * Rem(reader) + (IF depth = 0 THEN 2 * Len(msg) + 2 ELSE 0)
      BY <2>3 DEF Left
    <3>2. (IF depth = 0 THEN 2 * Len(msg) + 2 ELSE 0) \in Nat
      BY <2>1
    <3>. QED BY <2>2, <3>1, <3>2
  <2>4. CASE parser # "session"
    <3>1. Left = 2 * (Len(msg) + 1 - reader.p) + depth
      BY <2>4 DEF Left
    <3>2. depth \in Nat
      BY <2>1
    <3>. QED BY <2>2, <3>1, <3>2
  <2>. QED BY <2>3, <2>4
<1>2. PbInv => (Parse => result' # "run" \/ Left' < Left)
  <2>. SUFFICES ASSUME PbInv, Parse PROVE result' # "run" \/ Left' < Left
    OBVIOUS
  <2>1. parser \in Parsers
    BY DEF Parse, BadTag, Number, Bytes, Enter, Skip, Leave, EnterSec1, Finish, Reading,
           Running, PbInv
  <2>. QED BY <2>1, ParseKeeps DEF Keeps
<1>. QED BY <1>1, <1>2, PbAlways, PTL

-------------------------------------------------------------------------------
\* What was written is read back.

\* The bytes b lie at the beginning of r.
At(r, b) == Len(b) <= Rem(r) /\ \A q \in 1 .. Len(b) : msg[r.p + q - 1] = b[q]

\* Two pieces that lie in r: the first at its beginning, the second behind the first.
LEMMA AtParts ==
    ASSUME msg \in Bytes8, NEW r, Inside(r), NEW a \in Seq(0 .. 255), NEW b \in Seq(0 .. 255),
           At(r, a \o b)
    PROVE  /\ At(r, a) /\ Inside(Advance(r, Len(a))) /\ At(Advance(r, Len(a)), b)
           /\ Rem(Advance(r, Len(a))) = Rem(r) - Len(a)
<1>. DEFINE c == a \o b
            s == Advance(r, Len(a))
<1>1. Len(a) \in Nat /\ Len(b) \in Nat /\ Len(c) = Len(a) + Len(b)
  BY ConcatProperties
<1>2. \A q \in 1 .. Len(c) : c[q] = IF q <= Len(a) THEN a[q] ELSE b[q - Len(a)]
  BY <1>1, ConcatProperties
<1>3. At(r, c)
  OBVIOUS
<1>4. r.p \in Nat \ {0} /\ r.end \in Nat /\ r \in Reader /\ Len(msg) \in Nat
  BY DEF Inside, Reader, Bytes8
<1>5. Len(c) <= r.end - r.p /\ \A q \in 1 .. Len(c) : msg[r.p + q - 1] = c[q]
  BY <1>3 DEF At, Rem
<1>. HIDE DEF c
<1>6. At(r, a)
  <2>1. \A q \in 1 .. Len(a) : q \in 1 .. Len(c) /\ q <= Len(a)
    BY <1>1
  <2>. QED BY <1>1, <1>2, <1>4, <1>5, <2>1 DEF At, Rem
<1>7. s = [p |-> r.p + Len(a), end |-> r.end]
  BY <1>4 DEF Advance, Reader
<1>8. Rem(s) = Rem(r) - Len(a) /\ Inside(s)
  BY <1>1, <1>4, <1>5, <1>7 DEF Rem, Inside, Reader
<1>9. At(s, b)
  <2>1. Len(b) <= Rem(s)
    BY <1>1, <1>4, <1>5, <1>8 DEF Rem
  <2>2. ASSUME NEW q \in 1 .. Len(b) PROVE msg[s.p + q - 1] = b[q]
    <3>1. q + Len(a) \in 1 .. Len(c) /\ ~ (q + Len(a) <= Len(a)) /\ q + Len(a) - Len(a) = q
      BY <1>1
    <3>2. c[q + Len(a)] = b[q + Len(a) - Len(a)]
      BY <1>2, <3>1
    <3>3. msg[r.p + (q + Len(a)) - 1] = c[q + Len(a)]
      BY <1>5, <3>1
    <3>4. s.p + q - 1 = r.p + (q + Len(a)) - 1
      BY <1>1, <1>4, <1>7
    <3>. QED BY <3>1, <3>2, <3>3, <3>4
  <2>. QED BY <2>1, <2>2 DEF At
<1>. QED BY <1>6, <1>8, <1>9

\* The bytes that lie in the message at a place are that slice of it.
LEMMA SliceIs ==
    ASSUME msg \in Bytes8, NEW r, Inside(r), NEW b \in Seq(0 .. 255), At(r, b)
    PROVE  SubSeq(msg, r.p, r.p + Len(b) - 1) = b
<1>. DEFINE lo == r.p
            hi == r.p + Len(b) - 1
            t == SubSeq(msg, lo, hi)
<1>1. /\ Len(b) \in Nat /\ r.p \in Nat \ {0} /\ r.end \in Nat /\ Len(msg) \in Nat
      /\ Len(b) <= r.end - r.p /\ r.end <= Len(msg) + 1
      /\ \A q \in 1 .. Len(b) : msg[r.p + q - 1] = b[q]
  BY DEF At, Inside, Reader, Bytes8, Rem
<1>2. lo \in Int /\ hi \in Int /\ hi - lo + 1 = Len(b) /\ (lo <= hi <=> Len(b) # 0)
  BY <1>1
<1>3. \A k \in lo .. hi : msg[k] \in 0 .. 255
  <2>1. \A k \in lo .. hi : k \in 1 .. Len(msg)
    BY <1>1
  <2>. QED BY <2>1, ElementOfSeq DEF Bytes8
<1>4. \A q \in 1 .. Len(b) : msg[lo + q - 1] = b[q]
  BY <1>1
<1>. HIDE DEF lo, hi
<1>5. /\ t \in Seq(0 .. 255) /\ Len(t) = IF lo <= hi THEN hi - lo + 1 ELSE 0
      /\ \A k \in 1 .. hi - lo + 1 : t[k] = msg[lo + k - 1]
  BY <1>2, <1>3, SubSeqProperties
<1>. HIDE DEF t
<1>6. Len(t) = Len(b) /\ \A k \in 1 .. Len(t) : t[k] = b[k]
  BY <1>1, <1>2, <1>4, <1>5
<1>7. t = b
  BY <1>5, <1>6, SeqEqual
<1>. QED BY <1>7 DEF t, lo, hi

\* A varint that lies in the message ends where it was written to end, and says its number.
LEMMA VarintAt ==
    ASSUME msg \in Bytes8, NEW r, Inside(r), NEW v \in Nat, v < Word64, At(r, PutVarint[v])
    PROVE  /\ Ends(r) # {} /\ Min(Ends(r)) = Len(PutVarint[v])
           /\ Value(r, Len(PutVarint[v])) = v
<1>. DEFINE b == PutVarint[v]
            len == Len(b)
<1>1. /\ b \in Seq(0 .. 255) /\ len \in Nat \ {0} /\ Base128[b] = v
      /\ \A k \in 1 .. len : b[k] < 128 <=> k = len
  BY VarintIs DEF IsVarint
<1>2. len <= Digits
  <2>1. Word64 - 1 \in Nat /\ v <= Word64 - 1 /\ Digits \in Nat
    BY Widths
  <2>2. Len(PutVarint[v]) <= Len(PutVarint[Word64 - 1])
    BY <2>1, LongerVarint
  <2>3. Len(PutVarint[Word64 - 1]) \in Nat
    BY <2>1, VarintType
  <2>. QED BY <1>1, <2>1, <2>2, <2>3, PbAssumption
<1>3. len <= Rem(r) /\ \A q \in 1 .. len : msg[r.p + q - 1] = b[q]
  BY DEF At
<1>4. r.p \in Nat \ {0} /\ r.end \in Nat /\ Len(msg) \in Nat /\ Rem(r) \in Nat
  BY DEF Inside, Reader, Bytes8, Rem
<1>. HIDE DEF b
<1>5. len \in Ends(r)
  BY <1>1, <1>2, <1>3, Widths DEF Ends
<1>6. \A k \in Ends(r) : len <= k
  <2>. SUFFICES ASSUME NEW k \in Ends(r), k < len PROVE FALSE
    BY <1>1, Widths DEF Ends
  <2>1. k \in 1 .. len /\ k # len /\ msg[r.p + k - 1] < 128
    BY <1>1, Widths DEF Ends
  <2>. QED BY <1>1, <1>3, <2>1
<1>7. Min(Ends(r)) = len
  <2>1. Min(Ends(r)) \in Ends(r) /\ Min(Ends(r)) \in Nat /\ \A k \in Ends(r) : Min(Ends(r)) <= k
    BY <1>5, EndsOf
  <2>2. Min(Ends(r)) <= len /\ len <= Min(Ends(r))
    BY <1>5, <1>6, <2>1
  <2>. QED BY <1>1, <2>1, <2>2
<1>8. SubSeq(msg, r.p, r.p + len - 1) = b
  BY <1>1, <1>3, SliceIs DEF At
<1>9. Value(r, len) = v % Word64
  BY <1>1, <1>8 DEF Value
<1>10. v % Word64 = v
  BY Widths, ModType
<1>. QED BY <1>5, <1>7, <1>9, <1>10 DEF b

\* pb_pull_varint reads back what pb_put_varint wrote.
LEMMA NumberAt ==
    ASSUME msg \in Bytes8, NEW r, Inside(r), NEW v \in Nat, v < Word64, At(r, PutVarint[v])
    PROVE  PullVarint(r) = [ok |-> TRUE, val |-> v, rest |-> Advance(r, Len(PutVarint[v]))]
BY VarintAt DEF PullVarint

\* pb_pull_tag reads back the tag of a field that has something behind it.
LEMMA TagAt ==
    ASSUME msg \in Bytes8, NEW r, Inside(r), NEW field \in FieldNumber, NEW w \in 0 .. 7,
           At(r, Tag(field, w)), Len(Tag(field, w)) < Rem(r)
    PROVE  PullTag(r) = [ok |-> TRUE, wire |-> w, field |-> field,
                         rest |-> Advance(r, Len(Tag(field, w)))]
<1>. DEFINE v == field * 8 + w
            len == Len(PutVarint[v])
<1>1. v \in Nat /\ v < Word64
  <2>1. v \in Nat /\ v < Word
    BY KeyOf
  <2>. HIDE DEF v
  <2>. QED BY <2>1, Widths
<1>2. Ends(r) # {} /\ Min(Ends(r)) = len /\ Value(r, len) = v
  BY <1>1, VarintAt DEF Tag
<1>3. len \in Nat \ {0} /\ len < Rem(r)
  BY <1>1, VarintType DEF Tag
<1>4. v % 8 = w /\ v \div 8 = field /\ field % Word = field
  BY KeyOf, Widths, ModType
<1>5. Rem(r) > 0
  BY <1>3 DEF Rem, Inside, Reader
<1>6. Tag(field, w) = PutVarint[v]
  BY DEF Tag
<1>. HIDE DEF v
<1>. QED BY <1>2, <1>3, <1>4, <1>5, <1>6 DEF PullTag

\* A length and as many bytes.
LEMMA BytesAre ==
    ASSUME msg \in Bytes8, NEW r, Inside(r), NEW b \in Seq(0 .. 255), Len(b) < Word64,
           At(r, PutVarint[Len(b)] \o b)
    PROVE  LET s == Advance(r, Len(PutVarint[Len(b)])) IN
           /\ Inside(s) /\ At(s, b)
           /\ PullBytes(r) = [ok |-> TRUE, val |-> [from |-> s.p, len |-> Len(b)],
                              rest |-> Advance(s, Len(b))]
<1>. DEFINE c == PutVarint[Len(b)]
            s == Advance(r, Len(c))
<1>1. Len(b) \in Nat /\ c \in Seq(0 .. 255)
  BY VarintType
<1>2. At(r, c) /\ Inside(s) /\ At(s, b)
  BY <1>1, AtParts
<1>3. PullVarint(r) = [ok |-> TRUE, val |-> Len(b), rest |-> s]
  BY <1>1, <1>2, NumberAt
<1>4. ~ (Len(b) > Rem(s))
  <2>1. Len(b) <= Rem(s)
    BY <1>2 DEF At
  <2>2. Rem(s) \in Nat
    BY <1>2 DEF Inside, Reader, Rem
  <2>. QED BY <1>1, <2>1, <2>2
<1>. HIDE DEF s
<1>5. PullBytes(r) = [ok |-> TRUE, val |-> [from |-> s.p, len |-> Len(b)],
                      rest |-> Advance(s, Len(b))]
  BY <1>3, <1>4 DEF PullBytes
<1>. QED BY <1>2, <1>5 DEF s

\* A field is a tag and what follows it.
WireOf(f) ==
    IF f.kind = "number" THEN 0
    ELSE IF f.kind = "fixed" THEN (IF Len(f.val) = 4 THEN 5 ELSE 1)
    ELSE 2
Content(f) == IF f.kind = "sub" THEN EncodeSub(f.val) ELSE f.val
Body(f) ==
    IF f.kind = "number" THEN PutVarint[f.val]
    ELSE IF f.kind = "fixed" THEN f.val
    ELSE PutVarint[Len(Content(f))] \o Content(f)

\* The kinds of a field, submessages among them.
LEMMA FieldCases ==
    ASSUME NEW f \in Field
    PROVE  /\ f.field \in FieldNumber
           /\ \/ f.kind = "number" /\ f.val \in Nat /\ f.val < Word64
              \/ f.kind \in {"bytes", "sub"} /\ Content(f) \in Seq(0 .. 255)
              \/ f.kind = "fixed" /\ f.val \in Seq(0 .. 255) /\ Len(f.val) \in {4, 8}
           /\ f.kind = "sub" <=> f \notin FlatField
           /\ f.kind = "sub" => f.val \in Seq(FlatField)
<1>1. CASE f \in FlatField
  BY <1>1, FlatCases DEF Content
<1>2. CASE f \notin FlatField
  <2>1. f.kind = "sub" /\ f.field \in FieldNumber /\ f.val \in Seq(FlatField)
    BY <1>2 DEF Field, FieldNumber
  <2>. QED BY <1>2, <2>1, SubType DEF Content
<1>. QED BY <1>1, <1>2

\* Every field is its tag and a body that is not empty.
LEMMA FieldShape ==
    ASSUME NEW f \in Field
    PROVE  /\ WireOf(f) \in 0 .. 7
           /\ Tag(f.field, WireOf(f)) \in Seq(0 .. 255)
           /\ Body(f) \in Seq(0 .. 255) /\ Len(Body(f)) \in Nat \ {0}
           /\ EncodeField(f) = Tag(f.field, WireOf(f)) \o Body(f)
<1>1. WireOf(f) \in 0 .. 7
  BY DEF WireOf
<1>2. f.field \in FieldNumber
  BY FieldCases
<1>3. Tag(f.field, WireOf(f)) \in Seq(0 .. 255)
  BY <1>1, <1>2, TagType
<1>4. CASE f.kind = "number"
  <2>1. Body(f) = PutVarint[f.val] /\ WireOf(f) = 0 /\ f.val \in Nat
    BY <1>4, FieldCases DEF Body, WireOf
  <2>2. EncodeField(f) = Tag(f.field, WireOf(f)) \o Body(f)
    BY <1>4, <2>1 DEF EncodeField, EncodeFlat
  <2>. QED BY <1>1, <1>3, <2>1, <2>2, VarintType
<1>5. CASE f.kind = "fixed"
  <2>1. Body(f) = f.val /\ f.val \in Seq(0 .. 255) /\ Len(f.val) \in {4, 8}
    BY <1>5, FieldCases DEF Body
  <2>2. EncodeField(f) = Tag(f.field, WireOf(f)) \o Body(f)
    BY <1>5, <2>1 DEF EncodeField, EncodeFlat, WireOf
  <2>. QED BY <1>1, <1>3, <2>1, <2>2
<1>6. CASE f.kind \in {"bytes", "sub"}
  <2>. DEFINE b == Content(f)
              l == PutVarint[Len(b)]
  <2>1. Body(f) = l \o b /\ WireOf(f) = 2
    BY <1>6 DEF Body, WireOf
  <2>2. b \in Seq(0 .. 255) /\ Len(b) \in Nat
    BY <1>6, FieldCases
  <2>3. l \in Seq(0 .. 255) /\ Len(l) \in Nat \ {0}
    BY <2>2, VarintType
  <2>4. Body(f) \in Seq(0 .. 255) /\ Len(Body(f)) = Len(l) + Len(b)
    <3>. HIDE DEF l, b
    <3>. QED BY <2>1, <2>2, <2>3, ConcatProperties
  <2>5. EncodeField(f) = EncodeLd(f.field, b)
    BY <1>6 DEF EncodeField, EncodeFlat, Content
  <2>6. EncodeLd(f.field, b) = (Tag(f.field, 2) \o l) \o b
    BY DEF EncodeLd
  <2>. HIDE DEF l, b
  <2>7. EncodeLd(f.field, b) = Tag(f.field, 2) \o (l \o b)
    BY <1>3, <2>1, <2>2, <2>3, <2>6, ConcatAssociative, SMTT(30)
  <2>. QED BY <1>1, <1>3, <2>1, <2>2, <2>3, <2>4, <2>5, <2>7
<1>. QED BY <1>4, <1>5, <1>6, FieldCases

\* A reader moved on is a reader.
LEMMA AdvanceIs ==
    ASSUME NEW r \in Reader, NEW a \in Nat
    PROVE  Advance(r, a) = [p |-> r.p + a, end |-> r.end] /\ Advance(r, a) \in Reader
BY DEF Advance, Reader

\* Moved on twice.
LEMMA AdvanceTwice ==
    ASSUME NEW r \in Reader, NEW a \in Nat, NEW b \in Nat
    PROVE  Advance(Advance(r, a), b) = Advance(r, a + b)
<1>. DEFINE s == Advance(r, a)
<1>1. s = [p |-> r.p + a, end |-> r.end] /\ s \in Reader
  BY AdvanceIs
<1>. HIDE DEF s
<1>2. Advance(s, b) = [p |-> s.p + b, end |-> s.end]
  BY <1>1, AdvanceIs
<1>3. Advance(r, a + b) = [p |-> r.p + (a + b), end |-> r.end]
  BY AdvanceIs
<1>4. (r.p + a) + b = r.p + (a + b)
  BY DEF Reader
<1>5. s.p = r.p + a /\ s.end = r.end
  BY <1>1
<1>. QED BY <1>2, <1>3, <1>4, <1>5 DEF s

\* How a field that lies at the beginning of r is read.
Past(r, f) == Advance(r, Len(EncodeField(f)))
ReadsTag(r, f) ==
    /\ PullTag(r).ok /\ PullTag(r).field = f.field /\ PullTag(r).wire = WireOf(f)
    /\ SkipField(PullTag(r).rest, PullTag(r).wire) = Past(r, f)
    /\ Inside(Past(r, f))
ReadsNumber(r, f) ==
    PullVarint(PullTag(r).rest) = [ok |-> TRUE, val |-> f.val, rest |-> Past(r, f)]
ReadsBytes(r, f) ==
    LET b == PullBytes(PullTag(r).rest)
        s == [p |-> b.val.from, end |-> b.val.from + b.val.len]
    IN  /\ b.ok /\ b.rest = Past(r, f)
        /\ b.val.len = Len(Content(f)) /\ b.val.from + b.val.len = Past(r, f).p
        /\ b.val \in View /\ Inside(s) /\ At(s, Content(f))

\* A field that lies in the message is read as it was written, or skipped to its end.
LEMMA FieldAt ==
    ASSUME msg \in Bytes8, NEW r, Inside(r), NEW f \in Field,
           At(r, EncodeField(f)), Len(EncodeField(f)) < Word64
    PROVE  /\ ReadsTag(r, f)
           /\ f.kind = "number" => ReadsNumber(r, f)
           /\ f.kind \in {"bytes", "sub"} => ReadsBytes(r, f)
<1>. DEFINE t == Tag(f.field, WireOf(f))
            s == Advance(r, Len(t))
            b == Content(f)
<1>1. /\ WireOf(f) \in 0 .. 7 /\ t \in Seq(0 .. 255)
      /\ Body(f) \in Seq(0 .. 255) /\ Len(Body(f)) \in Nat \ {0}
      /\ EncodeField(f) = t \o Body(f)
  BY FieldShape
<1>2. f.field \in FieldNumber
  BY FieldCases
<1>3. Len(t) \in Nat /\ Len(EncodeField(f)) = Len(t) + Len(Body(f))
  <2>. HIDE DEF t
  <2>. QED BY <1>1, ConcatProperties
<1>4. At(r, t) /\ Inside(s) /\ At(s, Body(f)) /\ Rem(s) = Rem(r) - Len(t)
  <2>. HIDE DEF t
  <2>. QED BY <1>1, AtParts
<1>5. Len(t) < Rem(r)
  <2>1. Len(Body(f)) <= Rem(s)
    BY <1>4 DEF At
  <2>2. Rem(r) \in Int
    BY DEF Rem, Inside, Reader
  <2>. HIDE DEF t, s
  <2>. QED BY <1>1, <1>3, <1>4, <2>1, <2>2
<1>6. PullTag(r) = [ok |-> TRUE, wire |-> WireOf(f), field |-> f.field, rest |-> s]
  BY <1>1, <1>2, <1>4, <1>5, TagAt
<1>7. r \in Reader /\ s \in Reader /\ Past(r, f) = Advance(s, Len(Body(f)))
  <2>1. r \in Reader /\ s \in Reader
    BY <1>4 DEF Inside
  <2>2. Advance(s, Len(Body(f))) = Advance(r, Len(t) + Len(Body(f)))
    BY <1>1, <1>3, <2>1, AdvanceTwice
  <2>. HIDE DEF t, s
  <2>. QED BY <1>3, <2>1, <2>2 DEF Past
<1>8. Inside(Past(r, f))
  <2>1. Len(Body(f)) <= Rem(s)
    BY <1>4 DEF At
  <2>. HIDE DEF t, s
  <2>2. Past(r, f) = [p |-> s.p + Len(Body(f)), end |-> s.end]
    BY <1>1, <1>7, AdvanceIs
  <2>. QED BY <1>1, <1>4, <2>1, <2>2 DEF Inside, Reader, Rem
<1>. HIDE DEF s, t
<1>9. CASE f.kind = "number"
  <2>1. Body(f) = PutVarint[f.val] /\ WireOf(f) = 0 /\ f.val \in Nat /\ f.val < Word64
    BY <1>9, FieldCases DEF Body, WireOf
  <2>2. PullVarint(s) = [ok |-> TRUE, val |-> f.val, rest |-> Past(r, f)]
    BY <1>4, <1>7, <2>1, NumberAt
  <2>3. SkipField(s, 0) = PullVarint(s).rest
    BY DEF SkipField
  <2>. QED BY <1>6, <1>8, <1>9, <2>1, <2>2, <2>3 DEF ReadsTag, ReadsNumber
<1>10. CASE f.kind = "fixed"
  <2>1. Body(f) = f.val /\ Len(f.val) \in {4, 8} /\ WireOf(f) = IF Len(f.val) = 4 THEN 5 ELSE 1
    BY <1>10, FieldCases DEF Body, WireOf
  <2>2. Len(f.val) <= Rem(s) /\ Rem(s) \in Int
    BY <1>4, <2>1 DEF At, Inside, Reader, Rem
  <2>3. CASE Len(f.val) = 4
    <3>1. SkipField(s, 5) = Advance(s, 4)
      BY <2>2, <2>3 DEF SkipField
    <3>. QED BY <1>6, <1>7, <1>8, <1>10, <2>1, <2>3, <3>1 DEF ReadsTag
  <2>4. CASE Len(f.val) = 8
    <3>1. SkipField(s, 1) = Advance(s, 8)
      BY <2>2, <2>4 DEF SkipField
    <3>. QED BY <1>6, <1>7, <1>8, <1>10, <2>1, <2>4, <3>1 DEF ReadsTag
  <2>. QED BY <2>1, <2>3, <2>4
<1>11. CASE f.kind \in {"bytes", "sub"}
  <2>. DEFINE l == PutVarint[Len(b)]
              u == Advance(s, Len(l))
  <2>1. Body(f) = l \o b /\ WireOf(f) = 2 /\ b \in Seq(0 .. 255)
    BY <1>11, FieldCases DEF Body, WireOf
  <2>2. Len(b) \in Nat /\ l \in Seq(0 .. 255) /\ Len(l) \in Nat \ {0}
    BY <2>1, VarintType
  <2>3. Len(Body(f)) = Len(l) + Len(b)
    <3>. HIDE DEF l, b
    <3>. QED BY <2>1, <2>2, ConcatProperties
  <2>4. Len(b) < Word64
    <3>. HIDE DEF l, b
    <3>. QED BY <1>3, <2>2, <2>3, Widths
  <2>5. /\ Inside(u) /\ At(u, b)
        /\ PullBytes(s) = [ok |-> TRUE, val |-> [from |-> u.p, len |-> Len(b)],
                           rest |-> Advance(u, Len(b))]
    <3>. HIDE DEF b
    <3>. QED BY <1>4, <2>1, <2>4, BytesAre
  <2>6. Advance(u, Len(b)) = Past(r, f)
    <3>1. Advance(u, Len(b)) = Advance(s, Len(l) + Len(b))
      BY <1>7, <2>2, AdvanceTwice
    <3>. HIDE DEF l, b, u
    <3>. QED BY <1>7, <2>3, <3>1
  <2>7. SkipField(s, 2) = PullBytes(s).rest
    BY DEF SkipField
  <2>. HIDE DEF u, l, b
  <2>8. u.p \in Nat \ {0} /\ u.end \in Nat /\ u \in Reader /\ Len(b) <= Rem(u)
    BY <2>5 DEF Inside, Reader, At
  <2>9. Past(r, f).p = u.p + Len(b)
    BY <2>2, <2>6, <2>8, AdvanceIs
  <2>. DEFINE w == [p |-> u.p, end |-> u.p + Len(b)]
  <2>10. Inside(w)
    BY <2>2, <2>5, <2>8 DEF Inside, Reader, Rem
  <2>11. At(w, b)
    BY <2>2, <2>5, <2>8 DEF At, Rem
  <2>12. ReadsTag(r, f)
    BY <1>6, <1>8, <2>1, <2>5, <2>6, <2>7 DEF ReadsTag
  <2>13. [from |-> u.p, len |-> Len(b)] \in View
    BY <2>2, <2>8 DEF View
  <2>14. ReadsBytes(r, f)
    <3>1. PullTag(r).rest = s
      BY <1>6
    <3>2. PullBytes(PullTag(r).rest) = [ok |-> TRUE, val |-> [from |-> u.p, len |-> Len(b)],
                                        rest |-> Past(r, f)]
      BY <2>5, <2>6, <3>1
    <3>. QED BY <2>9, <2>10, <2>11, <2>13, <3>2 DEF ReadsBytes, b
  <2>. QED BY <1>11, <2>12, <2>14
<1>. QED BY <1>9, <1>10, <1>11, FieldCases

-------------------------------------------------------------------------------
\* Where a parser is in a well-formed message, and what it has found so far.

\* The first k fields.
Top(k) == SubSeq(fields, 1, k)

\* The submessages of the fields, one after the other.
SubCode == [f \in Field |-> IF f.kind = "sub" THEN f.val ELSE <<>>]
FlatOf(fs) == Laid(fs, SubCode)

\* The codes of s fill w, and a reader that has read those of the first k is at r.
Stand(r, w, s, e, k) ==
    /\ Inside(w) /\ At(w, Laid(s, e)) /\ Rem(w) = Len(Laid(s, e))
    /\ k \in 0 .. Len(s)
    /\ r = Advance(w, Len(Laid(SubSeq(s, 1, k), e)))

\* What g has under a name is what the fields fs say; the two commands of the handshake
\* have not had the field they want.
Says(g, name, fs, field) ==
    IF name \in Numbers THEN g[name] = NumberIn(fs, field, Defaults[name])
    ELSE IF name \in {"ssid", "pass"} THEN BytesAt(g[name]) = LastIn(fs, field, "bytes")
    ELSE IF name = "inner" THEN
        IF g["inner"] # Null /\ g["field"] = field
        THEN BytesAt(g["inner"]) = LastIn(fs, field, "bytes")
        ELSE g["inner"] = Null => LastIn(fs, field, "bytes") = <<>>
    ELSE name \in {"key", "verify"} => LastIn(fs, field, "bytes") = <<>>

\* g has what fs say, under every name of this depth.
Heard(g, d, fs) == \A t \in Known[parser] : t[1] = d => Says(g, t[4], fs, t[2])

\* The payload of a session message, once it has come.
Holds(v, b) == At([p |-> v.from, end |-> v.from + v.len], b) /\ v.len = Len(b)

Payload(g, k) ==
    IF g["sec1"] = Null THEN \A h \in 1 .. k : fields[h].kind # "sub"
    ELSE \E h \in 1 .. k : fields[h].kind = "sub" /\ Holds(g["sec1"], EncodeSub(fields[h].val))

\* The first k fields have been read.
InMessage(r, g, k) ==
    /\ Stand(r, Whole(msg), fields, FieldCode, k)
    /\ Heard(g, 0, Top(k))
    /\ Heard(g, 1, IF parser = "session" THEN <<>> ELSE FlatOf(Top(k)))
    /\ parser = "session" => Payload(g, k)

SubAt(k) == k \in 1 .. Len(fields) /\ fields[k].kind = "sub"

\* In the k-th field, a submessage, j of its fields have been read.
InSub(r, o, g, k, j, w) ==
    /\ SubAt(k) /\ Stand(o, Whole(msg), fields, FieldCode, k)
    /\ Stand(r, w, fields[k].val, FlatCode, j)
    /\ Heard(g, 0, Top(k)) /\ Heard(g, 1, FlatOf(Top(k - 1)) \o SubSeq(fields[k].val, 1, j))

\* In the k-th field, the Sec1 payload, j of its fields have been read.
InPayload(r, g, k, j, w) ==
    /\ SubAt(k) /\ AllOf(fields, 2, "number") # {}
    /\ Stand(r, w, fields[k].val, FlatCode, j)
    /\ Heard(g, 0, fields) /\ Heard(g, 1, SubSeq(fields[k].val, 1, j))

Place(r, o, d, g) ==
    \/ d = 0 /\ \E k \in Nat : InMessage(r, g, k)
    \/ d = 1 /\ parser # "session" /\
          \E k \in Nat, j \in Nat, w \in Reader : InSub(r, o, g, k, j, w)
    \/ d = 1 /\ parser = "session" /\
          \E k \in Nat, j \in Nat, w \in Reader : InPayload(r, g, k, j, w)

-------------------------------------------------------------------------------
\* What one field more says.

\* Max, where the last field of a kind counts.
LEMMA Greatest ==
    ASSUME NEW N \in Nat, NEW S \in SUBSET (1 .. N), S # {}
    PROVE  Max(S) \in S /\ \A k \in S : k <= Max(S)
<1>. DEFINE Up == {u \in Nat : \A k \in S : k <= u}
<1>1. N \in Up
  OBVIOUS
<1>2. PICK u \in Up : \A v \in Up : u <= v
  BY <1>1, LeastNumber
<1>3. u \in S
  <2>. SUFFICES ASSUME u \notin S PROVE FALSE
    OBVIOUS
  <2>1. PICK k \in S : TRUE
    OBVIOUS
  <2>2. u \in Nat /\ \A h \in S : h \in Nat /\ h <= u
    BY <1>2
  <2>3. u # 0 /\ u - 1 \in Nat
    BY <2>1, <2>2
  <2>4. u - 1 \in Up
    BY <2>2, <2>3
  <2>. QED BY <1>2, <2>2, <2>3, <2>4
<1>4. \A k \in S : k <= u /\ k \in Nat
  BY <1>2
<1>. HIDE DEF Up
<1>. DEFINE M == Max(S)
<1>5. \E x \in S : \A y \in S : x >= y
  BY <1>3, <1>4
<1>6. M \in S /\ \A y \in S : M >= y
  BY <1>5 DEF Max
<1>. HIDE DEF M
<1>7. \A y \in S : y <= M
  BY <1>6
<1>. QED BY <1>6, <1>7 DEF M

\* f is a field with this number, of this kind.
Matches(f, field, kind) == f.field = field /\ f.kind = kind

\* The places of the fields with a number and a kind.
LEMMA AllOfIs ==
    ASSUME NEW fs \in Seq(Field), NEW field, NEW kind
    PROVE  /\ Len(fs) \in Nat /\ AllOf(fs, field, kind) \in SUBSET (1 .. Len(fs))
           /\ \A k \in 1 .. Len(fs) :
                 fs[k] \in Field /\ (k \in AllOf(fs, field, kind) <=> Matches(fs[k], field, kind))
BY ElementOfSeq DEF AllOf, Matches

\* The last of them is what LastIn finds.
LEMMA LastIs ==
    ASSUME NEW fs \in Seq(Field), NEW field, NEW kind, NEW k \in AllOf(fs, field, kind),
           \A h \in AllOf(fs, field, kind) : h <= k
    PROVE  LastIn(fs, field, kind) = <<fs[k].val>>
<1>. DEFINE S == AllOf(fs, field, kind)
<1>1. Len(fs) \in Nat /\ S \in SUBSET (1 .. Len(fs)) /\ S # {}
  BY AllOfIs
<1>2. Max(S) \in S /\ \A h \in S : h <= Max(S)
  <2>. HIDE DEF S
  <2>. QED BY <1>1, Greatest
<1>3. k <= Max(S) /\ Max(S) <= k /\ k \in Nat /\ Max(S) \in Nat
  BY <1>1, <1>2
<1>4. k = Max(S)
  <2>. DEFINE M == Max(S)
  <2>1. k <= M /\ M <= k /\ k \in Nat /\ M \in Nat
    BY <1>3
  <2>. HIDE DEF M
  <2>. QED BY <2>1 DEF M
<1>. QED BY <1>1, <1>4 DEF LastIn

\* One more at the end of a sequence.
LEMMA AppendIs ==
    ASSUME NEW T, NEW fs \in Seq(T), NEW f \in T
    PROVE  /\ fs \o <<f>> \in Seq(T) /\ Len(fs \o <<f>>) = Len(fs) + 1
           /\ \A k \in 1 .. Len(fs) : (fs \o <<f>>)[k] = fs[k]
           /\ (fs \o <<f>>)[Len(fs) + 1] = f
<1>1. <<f>> \in Seq(T) /\ Len(<<f>>) = 1 /\ <<f>>[1] = f
  BY OneByte
<1>2. Len(fs) \in Nat /\ Len(fs) + 1 - Len(fs) = 1
  OBVIOUS
<1>3. fs \o <<f>> \in Seq(T) /\ Len(fs \o <<f>>) = Len(fs) + 1
  BY <1>1, <1>2, ConcatProperties
<1>4. \A k \in 1 .. Len(fs) + 1 :
         (fs \o <<f>>)[k] = IF k <= Len(fs) THEN fs[k] ELSE <<f>>[k - Len(fs)]
  BY <1>1, <1>2, ConcatProperties
<1>. QED BY <1>1, <1>2, <1>3, <1>4

\* One more field: it is the last one if it is of the kind.
LEMMA LastGrows ==
    ASSUME NEW fs \in Seq(Field), NEW f \in Field, NEW field, NEW kind
    PROVE  LastIn(fs \o <<f>>, field, kind) =
               IF Matches(f, field, kind) THEN <<f.val>> ELSE LastIn(fs, field, kind)
<1>. DEFINE gs == fs \o <<f>>
            L == Len(fs)
            S == AllOf(fs, field, kind)
            G == AllOf(gs, field, kind)
<1>1. /\ gs \in Seq(Field) /\ Len(gs) = L + 1 /\ L \in Nat
      /\ (\A k \in 1 .. L : gs[k] = fs[k]) /\ gs[L + 1] = f
  BY AppendIs
<1>2. /\ S \in SUBSET (1 .. L) 
      /\ \A k \in 1 .. L : k \in S <=> Matches(fs[k], field, kind)
  BY AllOfIs
<1>. HIDE DEF gs
<1>3. /\ G \in SUBSET (1 .. L + 1)
      /\ \A k \in 1 .. L + 1 : k \in G <=> Matches(gs[k], field, kind)
  BY <1>1, AllOfIs
<1>4. \A k \in 1 .. L : k \in S <=> k \in G
  BY <1>1, <1>2, <1>3
<1>. HIDE DEF G, S
<1>5. CASE Matches(f, field, kind)
  <2>1. L + 1 \in G /\ \A h \in G : h <= L + 1
    BY <1>1, <1>3, <1>5
  <2>2. LastIn(gs, field, kind) = <<gs[L + 1].val>>
    BY <1>1, <2>1, LastIs DEF G
  <2>. QED BY <1>1, <1>5, <2>2 DEF gs
<1>6. CASE ~Matches(f, field, kind)
  <2>1. S = G
    <3>1. L + 1 \notin G
      BY <1>1, <1>3, <1>6
    <3>2. \A k \in 1 .. L + 1 : k \in 1 .. L \/ k = L + 1
      BY <1>1
    <3>. QED BY <1>2, <1>3, <1>4, <3>1, <3>2
  <2>2. CASE S = {}
    BY <1>6, <2>1, <2>2 DEF LastIn, S, G, gs
  <2>3. CASE S # {}
    <3>1. Max(S) \in S
      BY <1>1, <1>2, <2>3, Greatest
    <3>2. gs[Max(S)] = fs[Max(S)]
      BY <1>1, <1>2, <3>1
    <3>. QED BY <1>6, <2>1, <2>3, <3>2 DEF LastIn, S, G, gs
  <2>. QED BY <2>2, <2>3
<1>. QED BY <1>5, <1>6

\* LastIn finds nothing when there is none, and only then.
LEMMA NoneSaid ==
    ASSUME NEW fs \in Seq(Field), NEW field, NEW kind
    PROVE  LastIn(fs, field, kind) = <<>> <=> AllOf(fs, field, kind) = {}
<1>1. \A x : <<x>> # <<>>
  OBVIOUS
<1>. QED BY <1>1 DEF LastIn

\* NumberIn is the last number, or the default.
LEMMA NumberLast ==
    ASSUME NEW fs \in Seq(Field), NEW field, NEW default
    PROVE  NumberIn(fs, field, default) =
               IF LastIn(fs, field, "number") = <<>> THEN default
               ELSE LastIn(fs, field, "number")[1]
BY NoneSaid DEF NumberIn

\* One more field: its number counts if it is of the kind.
LEMMA NumberGrows ==
    ASSUME NEW fs \in Seq(Field), NEW f \in Field, NEW field, NEW default
    PROVE  NumberIn(fs \o <<f>>, field, default) =
               IF Matches(f, field, "number") THEN f.val ELSE NumberIn(fs, field, default)
<1>. DEFINE gs == fs \o <<f>>
<1>1. gs \in Seq(Field)
  BY AppendIs
<1>2. LastIn(gs, field, "number") =
          IF Matches(f, field, "number") THEN <<f.val>> ELSE LastIn(fs, field, "number")
  BY LastGrows
<1>3. \A x : <<x>> # <<>> /\ <<x>>[1] = x
  OBVIOUS
<1>. HIDE DEF gs
<1>4. NumberIn(gs, field, default) =
          IF LastIn(gs, field, "number") = <<>> THEN default ELSE LastIn(gs, field, "number")[1]
  BY <1>1, NumberLast
<1>5. NumberIn(fs, field, default) =
          IF LastIn(fs, field, "number") = <<>> THEN default ELSE LastIn(fs, field, "number")[1]
  BY NumberLast
<1>6. CASE Matches(f, field, "number")
  <2>1. LastIn(gs, field, "number") = <<f.val>>
    BY <1>2, <1>6
  <2>2. NumberIn(gs, field, default) = <<f.val>>[1]
    BY <1>3, <1>4, <2>1
  <2>. QED BY <1>3, <1>6, <2>2 DEF gs
<1>7. CASE ~Matches(f, field, "number")
  <2>1. LastIn(gs, field, "number") = LastIn(fs, field, "number")
    BY <1>2, <1>7
  <2>. QED BY <1>4, <1>5, <1>7, <2>1 DEF gs
<1>. QED BY <1>6, <1>7

\* A number that is there is not the mark of one that is missing.
LEMMA NumberMissing ==
    ASSUME NEW fs \in Seq(Field), NEW field, NEW default,
           \A k \in 1 .. Len(fs) : Matches(fs[k], field, "number") => fs[k].val # Absent
    PROVE  /\ NumberIn(fs, field, Absent) = Absent <=> AllOf(fs, field, "number") = {}
           /\ NumberIn(fs, field, default) =
                  IF AllOf(fs, field, "number") = {} THEN default ELSE NumberIn(fs, field, Absent)
<1>. DEFINE S == AllOf(fs, field, "number")
<1>1. /\ Len(fs) \in Nat /\ S \in SUBSET (1 .. Len(fs))
      /\ \A k \in 1 .. Len(fs) : k \in S <=> Matches(fs[k], field, "number")
  BY AllOfIs
<1>2. CASE S = {}
  BY <1>2 DEF NumberIn
<1>3. CASE S # {}
  <2>1. \A x : <<x>>[1] = x
    OBVIOUS
  <2>2. \A d : NumberIn(fs, field, d) = fs[Max(S)].val
    BY <1>3, <2>1 DEF NumberIn, LastIn
  <2>. HIDE DEF S
  <2>3. Max(S) \in S
    BY <1>1, <1>3, Greatest
  <2>4. fs[Max(S)].val # Absent
    BY <1>1, <2>3
  <2>. QED BY <1>3, <2>2, <2>4 DEF S
<1>. QED BY <1>2, <1>3

\* The fields of a submessage are fields.
LEMMA FlatIsField ==
    ASSUME NEW s \in Seq(FlatField)
    PROVE  s \in Seq(Field)
<1>1. \A f \in FlatField : f \in Field
  BY DEF Field
<1>2. Len(s) \in Nat /\ \A k \in 1 .. Len(s) : s[k] \in FlatField
  BY ElementOfSeq
<1>3. s = [k \in 1 .. Len(s) |-> s[k]]
  OBVIOUS
<1>4. \A k \in 1 .. Len(s) : s[k] \in Field
  BY <1>1, <1>2
<1>5. s \in [1 .. Len(s) -> Field]
  BY <1>3, <1>4
<1>. QED BY <1>2, <1>5, FunctionIsSeq

\* What a field adds to the fields of the submessages.
LEMMA SubCodeIs ==
    /\ SubCode \in [Field -> Seq(FlatField)]
    /\ \A f \in Field : SubCode[f] = IF f.kind = "sub" THEN f.val ELSE <<>>
<1>1. \A f \in Field : f.kind = "sub" => f.val \in Seq(FlatField)
  BY FieldCases
<1>2. <<>> \in Seq(FlatField)
  OBVIOUS
<1>. QED BY <1>1, <1>2 DEF SubCode

\* The beginning of a sequence, one longer.
LEMMA TopGrows ==
    ASSUME NEW T, NEW s \in Seq(T), NEW k \in 0 .. Len(s) - 1
    PROVE  /\ SubSeq(s, 1, k) \in Seq(T) /\ s[k + 1] \in T
           /\ SubSeq(s, 1, k + 1) = SubSeq(s, 1, k) \o <<s[k + 1]>>
           /\ k + 1 \in 1 .. Len(s)
<1>1. Len(s) \in Nat /\ k + 1 \in 1 .. Len(s) /\ k \in 0 .. Len(s) /\ k + 1 \in 0 .. Len(s)
  OBVIOUS
<1>2. s[k + 1] \in T /\ \A h \in 1 .. Len(s) : s[h] \in T
  BY <1>1, ElementOfSeq
<1>. DEFINE a == SubSeq(s, 1, k)
            b == SubSeq(s, 1, k + 1)
            c == a \o <<s[k + 1]>>
<1>3. a \in Seq(T) /\ Len(a) = k /\ \A h \in 1 .. k : a[h] = s[h]
  BY <1>1, <1>2, SubSeqProperties
<1>4. b \in Seq(T) /\ Len(b) = k + 1 /\ \A h \in 1 .. k + 1 : b[h] = s[h]
  BY <1>1, <1>2, SubSeqProperties
<1>. HIDE DEF a, b
<1>5. c \in Seq(T) /\ Len(c) = k + 1 /\ (\A h \in 1 .. k : c[h] = a[h]) /\ c[k + 1] = s[k + 1]
  BY <1>2, <1>3, AppendIs
<1>. HIDE DEF c
<1>6. Len(b) = Len(c) /\ \A h \in 1 .. Len(b) : b[h] = c[h]
  BY <1>1, <1>3, <1>4, <1>5
<1>7. b = c
  BY <1>4, <1>5, <1>6, SeqEqual
<1>. QED BY <1>1, <1>2, <1>3, <1>7 DEF a, b, c

\* The whole of a sequence and nothing of it.
LEMMA WholeSeq ==
    ASSUME NEW T, NEW s \in Seq(T)
    PROVE  SubSeq(s, 1, Len(s)) = s /\ SubSeq(s, 1, 0) = <<>>
OBVIOUS

\* The submessages one after the other.
LEMMA FlatOfIs ==
    ASSUME NEW fs \in Seq(Field)
    PROVE  /\ FlatOf(fs) \in Seq(Field) /\ Len(fs) \in Nat
           /\ FlatOf(SubSeq(fs, 1, 0)) = <<>> /\ FlatOf(SubSeq(fs, 1, Len(fs))) = FlatOf(fs)
           /\ \A k \in 0 .. Len(fs) : FlatOf(SubSeq(fs, 1, k)) \in Seq(Field)
           /\ \A k \in 1 .. Len(fs) : FlatOf(SubSeq(fs, 1, k)) =
                FlatOf(SubSeq(fs, 1, k - 1)) \o (IF fs[k].kind = "sub" THEN fs[k].val ELSE <<>>)
<1>1. LaidOut(fs, SubCode, FlatField)
  BY SubCodeIs, LaidIs
<1>2. Len(fs) \in Nat /\ \A k \in 1 .. Len(fs) : fs[k] \in Field
  BY ElementOfSeq
<1>3. FlatOf(fs) \in Seq(FlatField)
  BY <1>1, <1>2, LaidType DEF FlatOf
<1>4. \A k \in 0 .. Len(fs) : FlatOf(SubSeq(fs, 1, k)) \in Seq(FlatField)
  BY <1>1 DEF LaidOut, FlatOf
<1>5. \A k \in 1 .. Len(fs) :
         FlatOf(SubSeq(fs, 1, k)) = FlatOf(SubSeq(fs, 1, k - 1)) \o SubCode[fs[k]]
  BY <1>1 DEF LaidOut, FlatOf
<1>6. FlatOf(SubSeq(fs, 1, 0)) = <<>> /\ FlatOf(SubSeq(fs, 1, Len(fs))) = FlatOf(fs)
  BY <1>1 DEF LaidOut, FlatOf
<1>. QED BY <1>2, <1>3, <1>4, <1>5, <1>6, SubCodeIs, FlatIsField

\* Nothing put before or behind.
LEMMA NothingMore ==
    ASSUME NEW T, NEW s \in Seq(T)
    PROVE  s \o <<>> = s /\ <<>> \o s = s
OBVIOUS

\* With one submessage at most, what they say is what it says.
LEMMA FlatOnly ==
    ASSUME NEW fs \in Seq(Field), NEW h \in 0 .. Len(fs),
           \A k \in 1 .. Len(fs) : k # h => fs[k].kind # "sub",
           h # 0 => fs[h].kind = "sub"
    PROVE  FlatOf(fs) = IF h = 0 THEN <<>> ELSE fs[h].val
<1>. DEFINE Is(k) == FlatOf(SubSeq(fs, 1, k)) = IF h = 0 \/ k < h THEN <<>> ELSE fs[h].val
            S == {k \in Nat : k <= Len(fs) => Is(k)}
<1>0. /\ FlatOf(SubSeq(fs, 1, 0)) = <<>> /\ FlatOf(SubSeq(fs, 1, Len(fs))) = FlatOf(fs)
      /\ \A k \in 0 .. Len(fs) : FlatOf(SubSeq(fs, 1, k)) \in Seq(Field)
      /\ \A k \in 1 .. Len(fs) : FlatOf(SubSeq(fs, 1, k)) =
            FlatOf(SubSeq(fs, 1, k - 1)) \o (IF fs[k].kind = "sub" THEN fs[k].val ELSE <<>>)
  BY FlatOfIs
<1>1. Len(fs) \in Nat /\ h \in Nat
  OBVIOUS
<1>2. 0 \in S
  <2>1. h = 0 \/ 0 < h
    BY <1>1
  <2>2. Is(0)
    BY <1>0, <2>1
  <2>. HIDE DEF Is
  <2>. QED BY <2>2
<1>3. ASSUME NEW k \in S PROVE k + 1 \in S
  <2>1. k \in Nat /\ k + 1 \in Nat /\ (k <= Len(fs) => Is(k))
    OBVIOUS
  <2>. SUFFICES ASSUME k + 1 <= Len(fs) PROVE Is(k + 1)
    BY <2>1
  <2>2. k \in 0 .. Len(fs) - 1 /\ k + 1 \in 1 .. Len(fs) /\ k + 1 - 1 = k
    BY <1>1, <2>1
  <2>. DEFINE a == FlatOf(SubSeq(fs, 1, k))
              x == IF fs[k + 1].kind = "sub" THEN fs[k + 1].val ELSE <<>>
  <2>3. FlatOf(SubSeq(fs, 1, k + 1)) = a \o x
    <3>1. PICK q \in 1 .. Len(fs) : q = k + 1 /\ q - 1 = k
      BY <2>2
    <3>2. FlatOf(SubSeq(fs, 1, q)) =
              FlatOf(SubSeq(fs, 1, q - 1)) \o (IF fs[q].kind = "sub" THEN fs[q].val ELSE <<>>)
      BY <1>0, <3>1
    <3>. QED BY ONLY <3>1, <3>2
  <2>4. a = IF h = 0 \/ k < h THEN <<>> ELSE fs[h].val
    BY <1>1, <2>1, <2>2
  <2>5. a \in Seq(Field)
    <3>1. k \in 0 .. Len(fs)
      BY <1>1, <2>2
    <3>. QED BY <1>0, <3>1
  <2>6. x = IF k + 1 = h THEN fs[h].val ELSE <<>>
    BY <1>1, <2>2
  <2>7. h # 0 => fs[h].val \in Seq(FlatField)
    BY <1>1, FieldCases, ElementOfSeq
  <2>. HIDE DEF a, x
  <2>8. CASE k + 1 = h
    <3>1. a = <<>> /\ x = fs[h].val /\ h # 0 /\ ~ (k + 1 < h)
      BY <1>1, <2>1, <2>4, <2>6, <2>8
    <3>2. <<>> \o fs[h].val = fs[h].val
      BY <2>7, <3>1, NothingMore
    <3>. QED BY <2>3, <3>1, <3>2
  <2>9. CASE k + 1 # h
    <3>1. x = <<>> /\ (k < h <=> k + 1 < h)
      BY <1>1, <2>1, <2>6, <2>9
    <3>2. a \o <<>> = a
      BY <2>5, NothingMore
    <3>. QED BY <2>3, <2>4, <3>1, <3>2
  <2>. QED BY <2>8, <2>9
<1>4. S = Nat
  <2>1. S \in SUBSET Nat
    OBVIOUS
  <2>. HIDE DEF S
  <2>. QED BY <1>2, <1>3, <2>1, NatSetInduction
<1>5. Is(Len(fs))
  BY <1>1, <1>4
<1>6. h = 0 \/ ~ (Len(fs) < h)
  BY <1>1
<1>. QED BY <1>0, <1>5, <1>6

-------------------------------------------------------------------------------
\* What the parsers know.

\* What the fields a parser knows are like.
LEMMA KnownIs ==
    ASSUME parser \in Parsers, NEW t \in Known[parser]
    PROVE  /\ t[1] \in {0, 1} /\ t[4] # "field"
           /\ t[4] \in Numbers \cup Views \cup {"enter"}
           /\ t[3] = IF t[4] \in Numbers THEN 0 ELSE 2
           /\ t[4] = "inner" => t[1] = 1 /\ t[2] \in 20 .. 23 /\ parser = "session"
           /\ t[4] \in {"enter", "sec1"} => t[1] = 0 /\ t[2] = SubField(parser)
           /\ t[4] \notin Numbers /\ t[4] \notin {"enter", "sec1"} /\ t[1] = 0 =>
                 t[2] # SubField(parser)
           /\ t[4] = "key" => parser = "sc0" /\ t[1] = 0 /\ t[2] = 1
           /\ t[4] = "verify" => parser = "sc1" /\ t[1] = 0 /\ t[2] = 2
           /\ t[4] = "sec1" <=> t[4] \in {"enter", "sec1"} /\ parser = "session"
           /\ t[4] = "enter" => parser \in {"config", "result"}
BY DEF Known, Parsers, Numbers, Views, SubField

\* A parser knows each name at one place, the inner message apart, and each place once.
LEMMA KnownOnce ==
    ASSUME parser \in Parsers, NEW t \in Known[parser], NEW u \in Known[parser]
    PROVE  /\ t[4] = u[4] /\ t[4] # "inner" => t[1] = u[1] /\ t[2] = u[2]
           /\ t[1] = u[1] /\ t[2] = u[2] /\ t[3] = u[3] => t[4] = u[4]
<1>1. CASE parser = "session"
  BY <1>1 DEF Known
<1>2. CASE parser = "sc0"
  BY <1>2 DEF Known
<1>3. CASE parser = "sc1"
  BY <1>3 DEF Known
<1>4. CASE parser = "config"
  BY <1>4 DEF Known
<1>5. CASE parser = "type"
  BY <1>5 DEF Known
<1>6. CASE parser = "result"
  BY <1>6 DEF Known
<1>. QED BY <1>1, <1>2, <1>3, <1>4, <1>5, <1>6 DEF Parsers

\* A field of a well-formed message that is read at depth d.
Suits(d, f) ==
    /\ f \in Field /\ Fits(parser, d, f)
    /\ d = 0 => /\ f.kind = "bytes" => f.field # SubField(parser)
                /\ f.kind = "sub" => f.field = SubField(parser)
    /\ d = 1 => f.kind # "sub"

\* What a tag is for is one of the fields the parser knows.
LEMMA ForIs ==
    ASSUME NEW d, NEW tag, NEW name \in For(d, tag)
    PROVE  \E t \in Known[parser] : t[1] = d /\ t[2] = tag.field /\ t[3] = tag.wire /\ t[4] = name
<1>. DEFINE t == <<d, tag.field, tag.wire, name>>
<1>1. t \in Known[parser]
  BY DEF For
<1>. QED BY <1>1

\* The fields that say something under a name of the parser.
LEMMA NameOf ==
    ASSUME parser \in Parsers, NEW d \in {0, 1}, NEW f, Suits(d, f),
           NEW t \in Known[parser], t[1] = d, t[2] = f.field, t[3] = WireOf(f)
    PROVE  /\ t[4] \in Numbers <=> f.kind = "number"
           /\ t[4] \in {"enter", "sec1"} <=> f.kind = "sub"
           /\ t[4] \in Views \ {"sec1"} <=> f.kind = "bytes"
<1>1. f.kind \in {"number", "bytes", "fixed", "sub"}
  BY FieldCases DEF Suits
<1>2. /\ t[4] \in Numbers \cup Views \cup {"enter"}
      /\ t[3] = IF t[4] \in Numbers THEN 0 ELSE 2
      /\ t[4] \in {"enter", "sec1"} => t[1] = 0 /\ t[2] = SubField(parser)
      /\ t[4] \notin Numbers /\ t[4] \notin {"enter", "sec1"} /\ t[1] = 0 =>
            t[2] # SubField(parser)
  BY KnownIs
<1>3. f.kind = "number" <=> WireOf(f) = 0
  BY <1>1 DEF WireOf
<1>4. f.kind \in {"bytes", "sub"} <=> WireOf(f) = 2
  BY <1>1 DEF WireOf
<1>5. t[4] \in Numbers <=> f.kind = "number"
  BY <1>2, <1>3
<1>6. t[4] \notin Numbers => f.kind \in {"bytes", "sub"}
  BY <1>2, <1>4
<1>7. t[4] \in {"enter", "sec1"} => f.kind = "sub"
  BY <1>2, <1>5, <1>6 DEF Suits, Numbers
<1>8. t[4] \notin Numbers /\ t[4] \notin {"enter", "sec1"} => f.kind = "bytes"
  BY <1>2, <1>6 DEF Suits
<1>. QED BY <1>2, <1>5, <1>7, <1>8 DEF Numbers, Views

\* A field says something under the names of the parser that it has.
Speaks(t, d, f) ==
    /\ t[1] = d /\ t[2] = f.field
    /\ IF t[4] \in Numbers THEN f.kind = "number" ELSE f.kind = "bytes"

\* A field that says something has the wire type the parser looks for.
LEMMA SpeaksIs ==
    ASSUME parser \in Parsers, NEW d \in {0, 1}, NEW f, Suits(d, f),
           NEW t \in Known[parser], t[1] = d
    PROVE  Speaks(t, d, f) => t[3] = WireOf(f)
<1>1. t[3] = IF t[4] \in Numbers THEN 0 ELSE 2
  BY KnownIs
<1>. QED BY <1>1 DEF Speaks, WireOf

\* A field that says nothing under a name changes nothing that was said.
LEMMA Silent ==
    ASSUME NEW g, NEW fs \in Seq(Field), NEW f \in Field, NEW t, NEW d, t[1] = d,
           ~ Speaks(t, d, f), Says(g, t[4], fs, t[2])
    PROVE  Says(g, t[4], fs \o <<f>>, t[2])
<1>1. CASE t[4] \in Numbers
  <2>1. ~ Matches(f, t[2], "number")
    BY <1>1 DEF Speaks, Matches
  <2>2. NumberIn(fs \o <<f>>, t[2], Defaults[t[4]]) = NumberIn(fs, t[2], Defaults[t[4]])
    BY <2>1, NumberGrows
  <2>. QED BY <1>1, <2>2 DEF Says
<1>2. CASE t[4] \notin Numbers
  <2>1. ~ Matches(f, t[2], "bytes")
    BY <1>2 DEF Speaks, Matches
  <2>2. LastIn(fs \o <<f>>, t[2], "bytes") = LastIn(fs, t[2], "bytes")
    BY <2>1, LastGrows
  <2>. QED BY <1>2, <2>2 DEF Says
<1>. QED BY <1>1, <1>2

-------------------------------------------------------------------------------
\* How a parser reads on over a field.

Found(f) ==
    /\ ReadsTag(reader, f)
    /\ f.kind = "number" => ReadsNumber(reader, f)
    /\ f.kind \in {"bytes", "sub"} => ReadsBytes(reader, f)

\* What f said was heard, and nothing else changed.
Hears(f) ==
    /\ \A fs \in Seq(Field) : Heard(got, depth, fs) => Heard(got', depth, fs \o <<f>>)
    /\ \A fs \in Seq(Field) : Heard(got, 1 - depth, fs) => Heard(got', 1 - depth, fs)
    /\ parser = "session" /\ depth = 0 =>
          IF f.kind = "sub" THEN got'["sec1"] # Null /\ Holds(got'["sec1"], EncodeSub(f.val))
          ELSE got'["sec1"] = got["sec1"]
    /\ parser \in {"config", "result"} => f.kind # "sub"

\* A step over f.
ReadOn(f) ==
    /\ reader' = Past(reader, f) /\ result' = "run" /\ UNCHANGED <<outer, depth>>
    /\ Hears(f)

\* What was said of the output parameters stays true while they stay.
LEMMA SaysSame ==
    ASSUME NEW g, NEW h, NEW name, NEW fs, NEW field,
           name \in Numbers \cup Views => g[name] = h[name],
           name = "inner" => g["field"] = h["field"]
    PROVE  Says(g, name, fs, field) => Says(h, name, fs, field)
BY DEF Says, Numbers, Views

\* Number reads on over a field that is a number.
LEMMA ReadNumber ==
    ASSUME PbInv, parser \in Parsers, Number, NEW f, Suits(depth, f), Found(f)
    PROVE  ReadOn(f)
<1>1. PICK tag \in {PullTag(reader)}, name \in Numbers :
         /\ tag.ok /\ name \in For(depth, tag)
         /\ LET v == PullVarint(tag.rest) IN
               /\ IF v.ok
                  THEN reader' = v.rest /\ UNCHANGED result
                  ELSE IF Lenient
                  THEN reader' = tag.rest /\ UNCHANGED result
                  ELSE Fails(tag.rest)
               /\ IF v.ok THEN Gets({name}, v.val % Word) ELSE UNCHANGED got
         /\ UNCHANGED <<inputVars, outer, depth>>
  BY DEF Number
<1>2. tag = PullTag(reader) /\ tag.field = f.field /\ tag.wire = WireOf(f)
  BY DEF Found, ReadsTag
<1>3. PICK u \in Known[parser] :
         u[1] = depth /\ u[2] = f.field /\ u[3] = WireOf(f) /\ u[4] = name
  <2>1. name \in For(depth, tag)
    BY <1>1
  <2>. QED BY <1>2, <2>1, ForIs
<1>4. f \in Field /\ depth \in {0, 1}
  BY DEF Suits, PbInv
<1>5. f.kind = "number"
  BY <1>1, <1>3, <1>4, NameOf
<1>6. PullVarint(tag.rest) = [ok |-> TRUE, val |-> f.val, rest |-> Past(reader, f)]
  BY <1>2, <1>5 DEF Found, ReadsNumber
<1>7. f.val \in Nat /\ f.val < Word
  <2>1. <<depth, f.field, 0, name>> \in Known[parser]
    <3>1. WireOf(f) = 0
      BY <1>5 DEF WireOf
    <3>2. <<depth, tag.field, tag.wire, name>> \in Known[parser]
      BY <1>1 DEF For
    <3>. QED BY <1>2, <3>1, <3>2
  <2>2. f.val \in Nat
    BY <1>4, <1>5, FieldCases
  <2>. QED BY <1>1, <1>5, <2>1, <2>2 DEF Suits, Fits
<1>8. f.val % Word = f.val
  BY <1>7, Widths, ModType
<1>9. reader' = Past(reader, f) /\ result' = result /\ Gets({name}, f.val)
  BY <1>1, <1>6, <1>8
<1>10. DOMAIN got = Numbers \cup Views
  BY DEF PbInv, GotGood, GotType
<1>11. /\ \A a \in Numbers \cup Views : a # name => got'[a] = got[a]
       /\ got'[name] = f.val
  BY <1>1, <1>9, <1>10 DEF Gets
<1>12. name # "field" /\ name # "inner" /\ name # "sec1" /\ "field" \in Numbers \cup Views
  BY <1>1, <1>3, KnownIs DEF Numbers, Views
<1>13. ASSUME NEW t \in Known[parser], t[4] # name, NEW fs, Says(got, t[4], fs, t[2])
       PROVE  Says(got', t[4], fs, t[2])
  <2>1. t[4] \in Numbers \cup Views => got[t[4]] = got'[t[4]]
    BY <1>11, <1>13
  <2>2. got["field"] = got'["field"]
    BY <1>11, <1>12
  <2>. QED BY <1>13, <2>1, <2>2, SaysSame
<1>14. ASSUME NEW fs \in Seq(Field), Heard(got, depth, fs)
       PROVE  Heard(got', depth, fs \o <<f>>)
  <2>. SUFFICES ASSUME NEW t \in Known[parser], t[1] = depth
                PROVE  Says(got', t[4], fs \o <<f>>, t[2])
    BY DEF Heard
  <2>1. Says(got, t[4], fs, t[2])
    BY <1>14 DEF Heard
  <2>2. CASE t[4] = name
    <3>1. t[2] = f.field
      BY <1>3, <1>12, <2>2, KnownOnce
    <3>2. NumberIn(fs \o <<f>>, t[2], Defaults[t[4]]) = f.val
      BY <1>4, <1>5, <3>1, NumberGrows DEF Matches
    <3>. QED BY <1>1, <1>11, <2>2, <3>2 DEF Says
  <2>3. CASE t[4] # name
    <3>1. ~ Speaks(t, depth, f)
      <4>. SUFFICES ASSUME Speaks(t, depth, f) PROVE FALSE
        OBVIOUS
      <4>1. t[3] = WireOf(f)
        BY <1>4, SpeaksIs
      <4>. QED BY <1>3, <2>3, <4>1, KnownOnce DEF Speaks
    <3>2. Says(got, t[4], fs \o <<f>>, t[2])
      BY <1>4, <2>1, <3>1, Silent
    <3>. QED BY <1>13, <2>3, <3>2
  <2>. QED BY <2>2, <2>3
<1>15. ASSUME NEW fs \in Seq(Field), Heard(got, 1 - depth, fs)
       PROVE  Heard(got', 1 - depth, fs)
  <2>. SUFFICES ASSUME NEW t \in Known[parser], t[1] = 1 - depth
                PROVE  Says(got', t[4], fs, t[2])
    BY DEF Heard
  <2>1. Says(got, t[4], fs, t[2])
    BY <1>15 DEF Heard
  <2>2. t[4] # name
    <3>1. t[1] # depth
      BY <1>4
    <3>. QED BY <1>3, <1>12, <3>1, KnownOnce
  <2>. QED BY <1>13, <2>1, <2>2
<1>16. got'["sec1"] = got["sec1"]
  BY <1>11, <1>12 DEF Views
<1>17. result' = "run"
  BY <1>9 DEF Number, Reading, Running
<1>. QED BY <1>1, <1>5, <1>9, <1>14, <1>15, <1>16, <1>17 DEF ReadOn, Hears

\* Skip reads on over a field that the parser does not know.
LEMMA ReadSkip ==
    ASSUME PbInv, parser \in Parsers, Skip, NEW f, Suits(depth, f), Found(f)
    PROVE  ReadOn(f)
<1>1. PICK tag \in {PullTag(reader)} :
        /\ tag.ok /\ For(depth, tag) = {}
        /\ reader' = SkipField(tag.rest, tag.wire)
        /\ UNCHANGED <<inputVars, outer, depth, got, result>>
  BY DEF Skip
<1>2. /\ tag = PullTag(reader) /\ tag.field = f.field /\ tag.wire = WireOf(f)
      /\ reader' = Past(reader, f)
  BY <1>1 DEF Found, ReadsTag
<1>3. f \in Field /\ depth \in {0, 1}
  BY DEF Suits, PbInv
<1>4. \A t \in Known[parser] : ~ (t[1] = depth /\ t[2] = f.field /\ t[3] = WireOf(f))
  <2>. SUFFICES ASSUME NEW t \in Known[parser],
                       t[1] = depth, t[2] = f.field, t[3] = WireOf(f)
                PROVE  FALSE
    OBVIOUS
  <2>1. t[4] \in Numbers \cup Views \cup {"enter"}
    BY KnownIs
  <2>2. <<depth, tag.field, tag.wire, t[4]>> \in Known[parser]
    <3>1. t = <<t[1], t[2], t[3], t[4]>>
      BY DEF Known, Parsers
    <3>. QED BY <1>2, <3>1
  <2>. QED BY <1>1, <2>1, <2>2 DEF For
<1>5. ASSUME NEW fs \in Seq(Field), Heard(got, depth, fs)
      PROVE  Heard(got, depth, fs \o <<f>>)
  <2>. SUFFICES ASSUME NEW t \in Known[parser], t[1] = depth
                PROVE  Says(got, t[4], fs \o <<f>>, t[2])
    BY DEF Heard
  <2>1. Says(got, t[4], fs, t[2])
    BY <1>5 DEF Heard
  <2>2. ~ Speaks(t, depth, f)
    BY <1>3, <1>4, SpeaksIs DEF Speaks
  <2>. QED BY <1>3, <2>1, <2>2, Silent
<1>6. ~ (parser = "session" /\ depth = 0 /\ f.kind = "sub")
  <2>. SUFFICES ASSUME parser = "session", depth = 0, f.kind = "sub" PROVE FALSE
    OBVIOUS
  <2>1. f.field = 11 /\ WireOf(f) = 2
    BY DEF Suits, SubField, WireOf
  <2>2. <<0, 11, 2, "sec1">> \in Known[parser]
    BY DEF Known
  <2>. QED BY <1>4, <2>1, <2>2
<1>7. ~ (parser \in {"config", "result"} /\ f.kind = "sub")
  <2>. SUFFICES ASSUME parser \in {"config", "result"}, f.kind = "sub" PROVE FALSE
    OBVIOUS
  <2>1. f.field = SubField(parser) /\ WireOf(f) = 2 /\ depth = 0
    BY <1>3 DEF Suits, WireOf
  <2>2. <<0, SubField(parser), 2, "enter">> \in Known[parser]
    BY DEF Known, SubField
  <2>. QED BY <1>4, <2>1, <2>2
<1>8. result' = "run" /\ got' = got /\ UNCHANGED <<outer, depth>>
  BY <1>1 DEF Skip, Reading, Running
<1>. QED BY <1>2, <1>5, <1>6, <1>7, <1>8 DEF ReadOn, Hears

\* Bytes that are found are the ones that were written.
LEMMA BytesFound ==
    ASSUME PbInv, NEW f, f \in Field, f.kind \in {"bytes", "sub"}, Found(f)
    PROVE  LET v == PullBytes(PullTag(reader).rest).val IN
           /\ v # Null /\ BytesAt(v) = <<Content(f)>>
           /\ Holds(v, Content(f)) /\ v.len = Len(Content(f))
<1>. DEFINE v == PullBytes(PullTag(reader).rest).val
            s == [p |-> v.from, end |-> v.from + v.len]
<1>1. v \in View /\ v.len = Len(Content(f)) /\ Inside(s) /\ At(s, Content(f))
  BY DEF Found, ReadsBytes
<1>2. msg \in Bytes8 /\ Content(f) \in Seq(0 .. 255)
  BY FieldCases DEF PbInv
<1>. HIDE DEF v
<1>3. v # Null
  BY <1>1 DEF Null, View, Inside, Reader
<1>4. SubSeq(msg, s.p, s.p + Len(Content(f)) - 1) = Content(f)
  <2>. HIDE DEF s
  <2>. QED BY <1>1, <1>2, SliceIs
<1>5. BytesAt(v) = <<Content(f)>>
  BY <1>1, <1>3, <1>4 DEF BytesAt
<1>. QED BY <1>1, <1>3, <1>5 DEF Holds, v

\* Bytes reads on over a field of bytes: a name, a password, a command, the payload.
LEMMA ReadBytes ==
    ASSUME PbInv, parser \in Parsers, parser \notin {"sc0", "sc1"},
           Bytes, NEW f, Suits(depth, f), Found(f)
    PROVE  ReadOn(f)
<1>1. PICK tag \in {PullTag(reader)}, name \in Views :
         /\ tag.ok /\ name \in For(depth, tag)
         /\ LET b == PullBytes(tag.rest) IN
               IF b.ok /\ (name = "key" => b.val.len = KeyLen)
               THEN /\ reader' = b.rest
                    /\ got' = [got EXCEPT ![name] = b.val,
                                          !.field = IF name = "inner" THEN tag.field ELSE @]
                    /\ result' = IF name \in {"key", "verify"} THEN "ok" ELSE result
               ELSE Fails(tag.rest) /\ UNCHANGED got
         /\ UNCHANGED <<inputVars, outer, depth>>
  BY DEF Bytes
<1>2. tag = PullTag(reader) /\ tag.field = f.field /\ tag.wire = WireOf(f)
  BY DEF Found, ReadsTag
<1>3. PICK u \in Known[parser] :
         u[1] = depth /\ u[2] = f.field /\ u[3] = WireOf(f) /\ u[4] = name
  <2>1. name \in For(depth, tag)
    BY <1>1
  <2>. QED BY <1>2, <2>1, ForIs
<1>4. f \in Field /\ depth \in {0, 1}
  BY DEF Suits, PbInv
<1>5. /\ name \in {"enter", "sec1"} <=> f.kind = "sub"
      /\ name \in Views \ {"sec1"} <=> f.kind = "bytes"
      /\ name \notin {"key", "verify"}
  BY <1>3, <1>4, NameOf, KnownIs
<1>6. f.kind \in {"bytes", "sub"}
  BY <1>1, <1>5
<1>. DEFINE v == PullBytes(tag.rest).val
<1>7. PullBytes(tag.rest).ok /\ PullBytes(tag.rest).rest = Past(reader, f)
  BY <1>2, <1>6 DEF Found, ReadsBytes
<1>8. v # Null /\ BytesAt(v) = <<Content(f)>> /\ Holds(v, Content(f))
  BY <1>2, <1>4, <1>6, BytesFound
<1>9. /\ reader' = Past(reader, f) /\ result' = result
      /\ got' = [got EXCEPT ![name] = v, !.field = IF name = "inner" THEN tag.field ELSE @]
  BY <1>1, <1>5, <1>7
<1>. HIDE DEF v
<1>10. DOMAIN got = Numbers \cup Views
  BY DEF PbInv, GotGood, GotType
<1>11. /\ \A a \in Numbers \cup Views : a # name /\ a # "field" => got'[a] = got[a]
       /\ got'[name] = v
       /\ got'["field"] = IF name = "inner" THEN f.field ELSE got["field"]
  BY <1>1, <1>2, <1>9, <1>10 DEF Numbers, Views
<1>12. ASSUME NEW t \in Known[parser], t[4] # name, NEW fs, Says(got, t[4], fs, t[2])
       PROVE  Says(got', t[4], fs, t[2])
  <2>0. t[4] # "field"
    BY KnownIs
  <2>1. t[4] \in Numbers \cup Views => got[t[4]] = got'[t[4]]
    BY <1>11, <1>12, <2>0
  <2>2. t[4] = "inner" => got["field"] = got'["field"]
    BY <1>11, <1>12
  <2>. QED BY <1>12, <2>1, <2>2, SaysSame
<1>13. ASSUME NEW fs \in Seq(Field), Heard(got, depth, fs)
       PROVE  Heard(got', depth, fs \o <<f>>)
  <2>. SUFFICES ASSUME NEW t \in Known[parser], t[1] = depth
                PROVE  Says(got', t[4], fs \o <<f>>, t[2])
    BY DEF Heard
  <2>1. Says(got, t[4], fs, t[2])
    BY <1>13 DEF Heard
  <2>2. CASE t[4] = name
    <3>1. name # "inner" => t[2] = f.field
      BY <1>3, <2>2, KnownOnce
    <3>2. f.kind = "bytes" /\ t[2] = f.field => LastIn(fs \o <<f>>, t[2], "bytes") = <<f.val>>
      BY <1>4, LastGrows DEF Matches
    <3>3. f.kind = "bytes" => BytesAt(v) = <<f.val>>
      BY <1>8 DEF Content
    <3>4. name \notin Numbers
      BY <1>1 DEF Numbers, Views
    <3>5. CASE name \in {"ssid", "pass"}
      <4>1. BytesAt(got'[name]) = LastIn(fs \o <<f>>, t[2], "bytes")
        BY <1>5, <1>11, <3>1, <3>2, <3>3, <3>5 DEF Views
      <4>. QED BY <2>2, <3>4, <3>5, <4>1 DEF Says
    <3>6. CASE name = "inner"
      <4>1. got'["inner"] # Null /\ got'["field"] = f.field
        BY <1>8, <1>11, <3>6
      <4>2. t[2] = f.field => BytesAt(got'["inner"]) = LastIn(fs \o <<f>>, t[2], "bytes")
        BY <1>5, <1>11, <3>2, <3>3, <3>6 DEF Views
      <4>. QED BY <2>2, <3>4, <3>6, <4>1, <4>2 DEF Says
    <3>7. CASE name = "sec1"
      BY <2>2, <3>4, <3>7 DEF Says
    <3>. QED BY <1>1, <1>5, <3>5, <3>6, <3>7 DEF Views
  <2>3. CASE t[4] # name
    <3>1. ~ Speaks(t, depth, f)
      <4>. SUFFICES ASSUME Speaks(t, depth, f) PROVE FALSE
        OBVIOUS
      <4>1. t[3] = WireOf(f)
        BY <1>4, SpeaksIs
      <4>. QED BY <1>3, <2>3, <4>1, KnownOnce DEF Speaks
    <3>2. Says(got, t[4], fs \o <<f>>, t[2])
      BY <1>4, <2>1, <3>1, Silent
    <3>. QED BY <1>12, <2>3, <3>2
  <2>. QED BY <2>2, <2>3
<1>14. ASSUME NEW fs \in Seq(Field), Heard(got, 1 - depth, fs)
       PROVE  Heard(got', 1 - depth, fs)
  <2>. SUFFICES ASSUME NEW t \in Known[parser], t[1] = 1 - depth
                PROVE  Says(got', t[4], fs, t[2])
    BY DEF Heard
  <2>1. Says(got, t[4], fs, t[2])
    BY <1>14 DEF Heard
  <2>2. t[4] # name
    <3>1. t[1] # depth
      BY <1>4
    <3>. QED BY <1>3, <3>1, KnownOnce, KnownIs
  <2>. QED BY <1>12, <2>1, <2>2
<1>15. parser = "session" /\ depth = 0 =>
          IF f.kind = "sub" THEN got'["sec1"] # Null /\ Holds(got'["sec1"], EncodeSub(f.val))
          ELSE got'["sec1"] = got["sec1"]
  <2>1. CASE f.kind = "sub"
    <3>1. name = "sec1" /\ Content(f) = EncodeSub(f.val)
      BY <1>1, <1>5, <2>1 DEF Content, Views
    <3>. QED BY <1>8, <1>11, <2>1, <3>1
  <2>2. CASE f.kind # "sub"
    <3>1. name # "sec1"
      BY <1>5, <2>2
    <3>. QED BY <1>11, <2>2, <3>1 DEF Views
  <2>. QED BY <2>1, <2>2
<1>16. result' = "run"
  BY <1>9 DEF Bytes, Reading, Running
<1>17. parser \in {"config", "result"} => f.kind # "sub"
  <2>1. f.kind = "sub" => name = "sec1"
    BY <1>1, <1>5 DEF Views
  <2>2. name = "sec1" => parser = "session"
    BY <1>3, KnownIs
  <2>. QED BY <2>1, <2>2
<1>. QED BY <1>1, <1>9, <1>13, <1>14, <1>15, <1>16, <1>17 DEF ReadOn, Hears

-------------------------------------------------------------------------------
\* How a reader walks over the codes of a sequence of fields.

\* The beginning of what lies in r lies in r.
LEMMA AtBegins ==
    ASSUME NEW r, NEW a \in Seq(0 .. 255), NEW b \in Seq(0 .. 255), Begins(a, b), At(r, b),
           Rem(r) \in Int
    PROVE  At(r, a)
<1>1. Len(a) \in Nat /\ Len(b) \in Nat /\ Len(a) <= Len(b) /\ \A q \in 1 .. Len(a) : b[q] = a[q]
  BY DEF Begins
<1>2. Len(b) <= Rem(r) /\ \A q \in 1 .. Len(b) : msg[r.p + q - 1] = b[q]
  BY DEF At
<1>3. Len(a) <= Rem(r)
  BY <1>1, <1>2
<1>4. ASSUME NEW q \in 1 .. Len(a) PROVE msg[r.p + q - 1] = a[q]
  <2>1. q \in 1 .. Len(b)
    BY <1>1
  <2>. QED BY <1>1, <1>2, <2>1
<1>. QED BY <1>3, <1>4 DEF At

\* The code of a field is not empty.
LEMMA CodeSize ==
    ASSUME NEW f \in Field
    PROVE  EncodeField(f) \in Seq(0 .. 255) /\ Len(EncodeField(f)) \in Nat \ {0}
<1>. DEFINE t == Tag(f.field, WireOf(f))
            b == Body(f)
<1>1. /\ t \in Seq(0 .. 255) /\ b \in Seq(0 .. 255) /\ Len(b) \in Nat \ {0}
      /\ EncodeField(f) = t \o b
  BY FieldShape
<1>. HIDE DEF t, b
<1>2. Len(t \o b) = Len(t) + Len(b) /\ t \o b \in Seq(0 .. 255)
  BY <1>1, ConcatProperties
<1>3. Len(t) \in Nat
  BY <1>1
<1>. QED BY <1>1, <1>2, <1>3

\* The codes that are read: of the fields of a message or of a submessage.
Codes(e, S) == S \subseteq Field /\ e = [f \in S |-> EncodeField(f)]

\* The codes of a message and of a submessage.
LEMMA CodesAre == Codes(FieldCode, Field) /\ Codes(FlatCode, FlatField)
<1>1. ASSUME NEW f \in FlatField PROVE f \in Field /\ EncodeFlat(f) = EncodeField(f)
  <2>1. f \in Field
    BY DEF Field
  <2>2. f.kind # "sub"
    BY FlatCases
  <2>. QED BY <2>1, <2>2 DEF EncodeField
<1>. QED BY <1>1 DEF Codes, FieldCode, FlatCode

\* At the end all fields have been read; before it the next one lies where the reader is.
LEMMA StandNext ==
    ASSUME msg \in Bytes8, Len(msg) < Word64, NEW S, NEW e, Codes(e, S), NEW s \in Seq(S),
           NEW w, NEW k, Stand(reader, w, s, e, k)
    PROVE  /\ Len(s) \in Nat /\ k \in Nat /\ (Rem(reader) = 0 <=> k = Len(s))
           /\ k # Len(s) =>
                 /\ k \in 0 .. Len(s) - 1 /\ s[k + 1] \in S /\ s[k + 1] \in Field
                 /\ Found(s[k + 1]) /\ Stand(Past(reader, s[k + 1]), w, s, e, k + 1)
<1>. DEFINE all == Laid(s, e)
            a == Laid(SubSeq(s, 1, k), e)
<1>1. e \in [S -> Seq(0 .. 255)]
  BY CodeSize DEF Codes
<1>2. LaidOut(s, e, 0 .. 255)
  BY <1>1, LaidIs
<1>3. /\ Inside(w) /\ At(w, all) /\ Rem(w) = Len(all)
      /\ k \in 0 .. Len(s) /\ Len(s) \in Nat /\ k \in Nat
      /\ reader = Advance(w, Len(a))
  BY DEF Stand
<1>4. a \in Seq(0 .. 255) /\ all \in Seq(0 .. 255)
  BY <1>2, <1>3, LaidType DEF LaidOut
<1>5. w \in Reader /\ Rem(w) \in Int /\ Len(a) \in Nat /\ Len(all) \in Nat
  BY <1>3, <1>4 DEF Inside, Reader, Rem
<1>6. CASE k = Len(s)
  <2>1. a = all
    BY <1>2, <1>6 DEF LaidOut
  <2>. DEFINE len == Len(a)
  <2>2. reader = [p |-> w.p + len, end |-> w.end] /\ len \in Nat
    BY <1>3, <1>5, AdvanceIs
  <2>3. w.end - w.p = len
    BY <1>3, <2>1 DEF Rem
  <2>. HIDE DEF len
  <2>4. Rem(reader) = 0
    BY <1>5, <2>2, <2>3 DEF Rem, Reader
  <2>. QED BY <1>3, <1>6, <2>4
<1>7. CASE k # Len(s)
  <2>1. k \in 0 .. Len(s) - 1 /\ k + 1 \in 1 .. Len(s) /\ k + 1 - 1 = k /\ k + 1 \in 0 .. Len(s)
    BY <1>3, <1>7
  <2>. DEFINE f == s[k + 1]
              b == EncodeField(f)
              c == Laid(SubSeq(s, 1, k + 1), e)
  <2>2. f \in S /\ f \in Field /\ e[f] = b
    BY <2>1, ElementOfSeq DEF Codes
  <2>3. c = a \o b
    <3>1. PICK q \in 1 .. Len(s) : q = k + 1 /\ q - 1 = k
      BY <2>1
    <3>2. Laid(SubSeq(s, 1, q), e) = Laid(SubSeq(s, 1, q - 1), e) \o e[s[q]]
      BY <1>2, <3>1 DEF LaidOut
    <3>. QED BY <2>2, <3>1, <3>2
  <2>4. Begins(c, all) /\ c \in Seq(0 .. 255)
    BY <1>2, <2>1 DEF LaidOut
  <2>5. b \in Seq(0 .. 255) /\ Len(b) \in Nat \ {0}
    BY <2>2, CodeSize
  <2>. HIDE DEF f, a, c, all
  <2>6. At(w, a \o b)
    BY <1>3, <1>4, <1>5, <2>3, <2>4, AtBegins
  <2>. HIDE DEF b
  <2>7. Inside(reader) /\ At(reader, b)
    BY <1>3, <1>4, <2>5, <2>6, AtParts
  <2>8. /\ Len(b) <= Rem(reader) /\ Rem(reader) <= Len(msg)
        /\ Len(msg) \in Nat /\ Rem(reader) \in Nat
    BY <2>7 DEF At, Inside, Reader, Bytes8, Rem
  <2>9. Len(b) < Word64 /\ Rem(reader) # 0
    BY <2>5, <2>8, Widths
  <2>10. Found(f)
    BY <2>2, <2>7, <2>9, FieldAt DEF Found, b
  <2>11. Past(reader, f) = Advance(w, Len(c))
    <3>1. Past(reader, f) = Advance(reader, Len(b))
      BY DEF Past, b
    <3>2. Advance(Advance(w, Len(a)), Len(b)) = Advance(w, Len(a) + Len(b))
      BY <1>5, <2>5, AdvanceTwice
    <3>3. Len(c) = Len(a) + Len(b)
      BY <1>4, <2>3, <2>5, ConcatProperties
    <3>. QED BY <1>3, <3>1, <3>2, <3>3
  <2>12. Stand(Past(reader, f), w, s, e, k + 1)
    BY <1>3, <2>1, <2>11 DEF Stand, all, c
  <2>. QED BY <1>3, <1>7, <2>1, <2>2, <2>9, <2>10, <2>12 DEF f
<1>. QED BY <1>6, <1>7

\* The beginning of a sequence of codes.
LEMMA StandBegin ==
    ASSUME NEW S, NEW e, Codes(e, S), NEW s \in Seq(S), NEW w,
           Inside(w), At(w, Laid(s, e)), Rem(w) = Len(Laid(s, e))
    PROVE  Stand(w, w, s, e, 0)
<1>1. e \in [S -> Seq(0 .. 255)]
  BY CodeSize DEF Codes
<1>2. Laid(SubSeq(s, 1, 0), e) = <<>>
  <2>1. LaidOut(s, e, 0 .. 255)
    BY <1>1, LaidIs
  <2>. QED BY <2>1 DEF LaidOut
<1>3. Len(<<>>) = 0 /\ 0 \in 0 .. Len(s)
  OBVIOUS
<1>4. Advance(w, 0) = w
  BY DEF Advance, Inside, Reader
<1>. QED BY <1>2, <1>3, <1>4 DEF Stand

\* The input is the code of well-formed fields.
Formed == WellFormed([parser |-> parser, fields |-> fields]) /\ msg = EncodeFields(fields)

\* What it means that a message is well formed, field by field.
LEMMA FormFacts ==
    ASSUME Formed
    PROVE  /\ parser \in Parsers /\ fields \in Seq(Field) /\ Len(fields) \in Nat
           /\ msg \in Bytes8 /\ Len(msg) \in Nat /\ Len(msg) < Word64
           /\ \A k \in 1 .. Len(fields) :
                 /\ fields[k] \in Field /\ Suits(0, fields[k])
                 /\ fields[k].kind = "sub" =>
                       /\ fields[k].val \in Seq(FlatField)
                       /\ \A j \in 1 .. Len(fields[k].val) : Suits(1, fields[k].val[j])
           /\ \A j, k \in 1 .. Len(fields) :
                 Single(parser, fields[j]) /\ Single(parser, fields[k]) => j = k
<1>1. /\ parser \in Parsers /\ fields \in Seq(Field) /\ Len(EncodeFields(fields)) < Word64
      /\ \A k \in DOMAIN fields :
            /\ Fits(parser, 0, fields[k])
            /\ fields[k].kind = "bytes" => fields[k].field # SubField(parser)
            /\ fields[k].kind = "sub" =>
                  /\ fields[k].field = SubField(parser)
                  /\ \A j \in DOMAIN fields[k].val : Fits(parser, 1, fields[k].val[j])
      /\ \A j, k \in DOMAIN fields :
            Single(parser, fields[j]) /\ Single(parser, fields[k]) => j = k
  BY DEF Formed, WellFormed
<1>2. Len(fields) \in Nat /\ DOMAIN fields = 1 .. Len(fields)
  BY <1>1
<1>3. msg \in Bytes8 /\ Len(msg) \in Nat /\ Len(msg) < Word64
  BY <1>1, FieldsType DEF Formed, Bytes8
<1>4. ASSUME NEW k \in 1 .. Len(fields)
      PROVE  /\ fields[k] \in Field /\ Suits(0, fields[k])
             /\ fields[k].kind = "sub" =>
                   /\ fields[k].val \in Seq(FlatField)
                   /\ \A j \in 1 .. Len(fields[k].val) : Suits(1, fields[k].val[j])
  <2>1. fields[k] \in Field
    BY <1>1, ElementOfSeq
  <2>2. Suits(0, fields[k])
    BY <1>1, <1>2, <2>1 DEF Suits
  <2>3. ASSUME fields[k].kind = "sub"
        PROVE  /\ fields[k].val \in Seq(FlatField)
               /\ \A j \in 1 .. Len(fields[k].val) : Suits(1, fields[k].val[j])
    <3>1. fields[k].val \in Seq(FlatField)
      BY <2>1, <2>3, FieldCases
    <3>. SUFFICES ASSUME NEW j \in 1 .. Len(fields[k].val) PROVE Suits(1, fields[k].val[j])
      BY <3>1
    <3>2. fields[k].val[j] \in FlatField
      BY <3>1, ElementOfSeq
    <3>3. fields[k].val[j] \in Field /\ fields[k].val[j].kind # "sub"
      BY <3>2, FlatCases DEF Field
    <3>4. Fits(parser, 1, fields[k].val[j])
      BY <1>1, <1>2, <2>3, <3>1
    <3>. QED BY <3>3, <3>4 DEF Suits
  <2>. QED BY <2>1, <2>2, <2>3
<1>. QED BY <1>1, <1>2, <1>3, <1>4

\* Three of the parsers know nothing inside a submessage.
LEMMA NoInner ==
    ASSUME parser \in Parsers \ {"config", "result", "session"}, NEW g, NEW fs
    PROVE  Heard(g, 1, fs)
BY DEF Heard, Known, Parsers

\* One field more of the message.
LEMMA OnInMessage ==
    ASSUME PbInv, Formed, depth = 0, NEW k, InMessage(reader, got, k), k < Len(fields),
           ReadOn(fields[k + 1])
    PROVE  InMessage(reader', got', k + 1)
<1>. DEFINE f == fields[k + 1]
<1>1. /\ parser \in Parsers /\ fields \in Seq(Field) /\ Len(fields) \in Nat
      /\ msg \in Bytes8 /\ Len(msg) < Word64
  BY FormFacts
<1>2. Stand(reader, Whole(msg), fields, FieldCode, k)
  BY DEF InMessage
<1>3. /\ k \in 0 .. Len(fields) - 1 /\ f \in Field
      /\ Stand(Past(reader, f), Whole(msg), fields, FieldCode, k + 1)
  <2>1. Codes(FieldCode, Field) /\ k # Len(fields)
    BY <1>1, CodesAre
  <2>. QED BY <1>1, <1>2, <2>1, StandNext
<1>4. /\ k + 1 \in 1 .. Len(fields) /\ k + 1 \in 0 .. Len(fields) /\ k \in Nat
      /\ \A q \in 1 .. k + 1 : q \in 1 .. k \/ q = k + 1
  BY <1>1, <1>3
<1>5. Top(k) \in Seq(Field) /\ Top(k + 1) = Top(k) \o <<f>>
  BY <1>1, <1>3, TopGrows DEF Top
<1>6. Heard(got', 0, Top(k + 1))
  BY <1>5 DEF InMessage, ReadOn, Hears
<1>7. Heard(got', 1, IF parser = "session" THEN <<>> ELSE FlatOf(Top(k + 1)))
  <2>0. \A fs \in Seq(Field) : Heard(got, 1, fs) => Heard(got', 1, fs)
    BY DEF ReadOn, Hears
  <2>1. CASE parser = "session"
    <3>1. <<>> \in Seq(Field)
      OBVIOUS
    <3>. QED BY <2>0, <2>1, <3>1 DEF InMessage
  <2>2. CASE parser \in {"config", "result"}
    <3>1. f.kind # "sub"
      BY <2>2 DEF ReadOn, Hears
    <3>2. PICK q \in 1 .. Len(fields) : q = k + 1 /\ q - 1 = k
      BY <1>4
    <3>3. FlatOf(SubSeq(fields, 1, q)) = FlatOf(SubSeq(fields, 1, q - 1)) \o
              (IF fields[q].kind = "sub" THEN fields[q].val ELSE <<>>)
      BY <1>1, FlatOfIs
    <3>4. FlatOf(Top(k)) \in Seq(Field)
      <4>1. k \in 0 .. Len(fields)
        BY <1>1, <1>3
      <4>. QED BY <1>1, <4>1, FlatOfIs DEF Top
    <3>5. FlatOf(Top(k + 1)) = FlatOf(Top(k)) \o <<>>
      BY <3>1, <3>2, <3>3 DEF Top
    <3>6. FlatOf(Top(k + 1)) = FlatOf(Top(k))
      BY <3>4, <3>5, NothingMore
    <3>. QED BY <2>0, <2>2, <3>4, <3>6 DEF InMessage
  <2>. QED BY <1>1, <2>1, <2>2, NoInner
<1>8. parser = "session" => Payload(got', k + 1)
  <2>. SUFFICES ASSUME parser = "session" PROVE Payload(got', k + 1)
    OBVIOUS
  <2>0. Payload(got, k)
    BY DEF InMessage
  <2>1. CASE f.kind = "sub"
    <3>1. got'["sec1"] # Null /\ Holds(got'["sec1"], EncodeSub(f.val))
      BY <2>1 DEF ReadOn, Hears
    <3>2. k + 1 \in 1 .. k + 1
      BY <1>4
    <3>. QED BY <2>1, <3>1, <3>2 DEF Payload
  <2>2. CASE f.kind # "sub"
    <3>1. got'["sec1"] = got["sec1"]
      BY <2>2 DEF ReadOn, Hears
    <3>2. \A q \in 1 .. k : q \in 1 .. k + 1
      BY <1>4
    <3>. QED BY <1>4, <2>0, <2>2, <3>1, <3>2 DEF Payload
  <2>. QED BY <2>1, <2>2
<1>. QED BY <1>3, <1>6, <1>7, <1>8 DEF InMessage, ReadOn

\* Reading on over a field of a submessage.
LEMMA OnInSub ==
    ASSUME PbInv, Formed, depth = 1, NEW k, NEW j, NEW w, InSub(reader, outer, got, k, j, w),
           j < Len(fields[k].val), ReadOn(fields[k].val[j + 1])
    PROVE  InSub(reader', outer', got', k, j + 1, w)
<1>. DEFINE s == fields[k].val
            f == s[j + 1]
            x == FlatOf(Top(k - 1))
<1>1. /\ fields \in Seq(Field) /\ msg \in Bytes8 /\ Len(msg) < Word64 /\ SubAt(k)
      /\ s \in Seq(FlatField) /\ Stand(reader, w, s, FlatCode, j)
  BY FormFacts DEF InSub, SubAt
<1>. HIDE DEF s
<1>2. /\ j \in 0 .. Len(s) - 1 /\ f \in Field /\ Len(s) \in Nat
      /\ Stand(Past(reader, f), w, s, FlatCode, j + 1)
  BY <1>1, StandNext, CodesAre DEF s
<1>3. x \in Seq(Field)
  <2>1. k - 1 \in 0 .. Len(fields) /\ Len(fields) \in Nat
    BY <1>1 DEF SubAt
  <2>. QED BY <1>1, <2>1, FlatOfIs DEF Top
<1>4. SubSeq(s, 1, j) \in Seq(Field) /\ SubSeq(s, 1, j + 1) = SubSeq(s, 1, j) \o <<f>>
  BY <1>1, <1>2, FlatIsField, TopGrows
<1>. DEFINE y == SubSeq(s, 1, j)
<1>5. x \o SubSeq(s, 1, j + 1) = (x \o y) \o <<f>>
  <2>1. <<f>> \in Seq(Field)
    BY <1>2, OneByte
  <2>2. y \in Seq(Field) /\ SubSeq(s, 1, j + 1) = y \o <<f>>
    BY <1>4
  <2>. HIDE DEF x, y, f
  <2>3. (x \o y) \o <<f>> = x \o (y \o <<f>>)
    BY <1>3, <2>1, <2>2, ConcatAssociative
  <2>. QED BY <2>2, <2>3
<1>6. x \o y \in Seq(Field) /\ Top(k) \in Seq(Field)
  <2>1. Top(k) \in Seq(Field)
    <3>1. k \in 1 .. Len(fields) /\ \A q \in 1 .. k : fields[q] \in Field
      BY <1>1, ElementOfSeq DEF SubAt
    <3>. QED BY <3>1, SubSeqProperties DEF Top
  <2>. HIDE DEF x, y
  <2>. QED BY <1>3, <1>4, <2>1, ConcatType DEF y
<1>7. Heard(got', 0, Top(k)) /\ Heard(got', 1, x \o SubSeq(s, 1, j + 1))
  <2>1. Heard(got, 0, Top(k)) /\ Heard(got, 1, x \o y)
    BY DEF InSub, s
  <2>2. Hears(f) /\ 1 - depth = 0
    BY DEF ReadOn, s
  <2>. HIDE DEF x, y, f
  <2>. QED BY <1>5, <1>6, <2>1, <2>2 DEF Hears
<1>. QED BY <1>1, <1>2, <1>7 DEF InSub, ReadOn, s

\* Reading on over a field of the Sec1 payload.
LEMMA OnInPayload ==
    ASSUME PbInv, Formed, depth = 1, NEW k, NEW j, NEW w, InPayload(reader, got, k, j, w),
           j < Len(fields[k].val), ReadOn(fields[k].val[j + 1])
    PROVE  InPayload(reader', got', k, j + 1, w)
<1>. DEFINE s == fields[k].val
            f == s[j + 1]
<1>1. /\ fields \in Seq(Field) /\ msg \in Bytes8 /\ Len(msg) < Word64 /\ SubAt(k)
      /\ s \in Seq(FlatField) /\ Stand(reader, w, s, FlatCode, j)
  BY FormFacts DEF InPayload, SubAt
<1>. HIDE DEF s
<1>2. /\ j \in 0 .. Len(s) - 1 /\ f \in Field /\ Len(s) \in Nat
      /\ Stand(Past(reader, f), w, s, FlatCode, j + 1)
  BY <1>1, StandNext, CodesAre DEF s
<1>4. SubSeq(s, 1, j) \in Seq(Field) /\ SubSeq(s, 1, j + 1) = SubSeq(s, 1, j) \o <<f>>
  BY <1>1, <1>2, FlatIsField, TopGrows
<1>7. Heard(got', 0, fields) /\ Heard(got', 1, SubSeq(s, 1, j + 1))
  <2>1. Heard(got, 0, fields) /\ Heard(got, 1, SubSeq(s, 1, j))
    BY DEF InPayload, s
  <2>2. Hears(f) /\ 1 - depth = 0
    BY DEF ReadOn, s
  <2>. HIDE DEF f
  <2>. QED BY <1>1, <1>4, <2>1, <2>2 DEF Hears
<1>. QED BY <1>1, <1>2, <1>7 DEF InPayload, ReadOn, s

\* The field that a parser is at, and what is so when it has read on.
LEMMA NextHere ==
    ASSUME PbInv, Formed, Place(reader, outer, depth, got), Rem(reader) # 0
    PROVE  \E f : /\ Suits(depth, f) /\ Found(f)
                  /\ ReadOn(f) => Place(reader', outer', depth', got')
<1>1. /\ fields \in Seq(Field) /\ msg \in Bytes8 /\ Len(msg) < Word64
      /\ \A k \in 1 .. Len(fields) : Suits(0, fields[k])
      /\ \A k \in 1 .. Len(fields) : fields[k].kind = "sub" =>
            /\ fields[k].val \in Seq(FlatField)
            /\ \A j \in 1 .. Len(fields[k].val) : Suits(1, fields[k].val[j])
      /\ Codes(FieldCode, Field) /\ Codes(FlatCode, FlatField)
  BY FormFacts, CodesAre
<1>2. CASE depth = 0 /\ \E k \in Nat : InMessage(reader, got, k)
  <2>1. PICK k \in Nat : InMessage(reader, got, k)
    BY <1>2
  <2>2. Stand(reader, Whole(msg), fields, FieldCode, k)
    BY <2>1 DEF InMessage
  <2>3. k # Len(fields) /\ Len(fields) \in Nat
    BY <1>1, <2>2, StandNext
  <2>4. k \in 0 .. Len(fields) - 1 /\ Found(fields[k + 1])
    BY <1>1, <2>2, <2>3, StandNext
  <2>5. k < Len(fields) /\ k + 1 \in Nat /\ k + 1 \in 1 .. Len(fields)
    BY <2>3, <2>4
  <2>6. ASSUME ReadOn(fields[k + 1])
        PROVE  Place(reader', outer', depth', got')
    <3>1. InMessage(reader', got', k + 1)
      BY <1>2, <2>1, <2>5, <2>6, OnInMessage
    <3>2. depth' = 0
      BY <1>2, <2>6 DEF ReadOn
    <3>. QED BY <2>5, <3>1, <3>2 DEF Place
  <2>. QED BY <1>1, <1>2, <2>4, <2>5, <2>6
<1>3. CASE /\ depth = 1 /\ parser # "session"
           /\ \E k \in Nat, j \in Nat, w \in Reader : InSub(reader, outer, got, k, j, w)
  <2>1. PICK k \in Nat, j \in Nat, w \in Reader : InSub(reader, outer, got, k, j, w)
    BY <1>3
  <2>. DEFINE s == fields[k].val
  <2>2. Stand(reader, w, s, FlatCode, j) /\ s \in Seq(FlatField) /\ k \in 1 .. Len(fields)
    BY <1>1, <2>1 DEF InSub, SubAt
  <2>0. \A q \in 1 .. Len(s) : Suits(1, s[q])
    BY <1>1, <2>1 DEF InSub, SubAt
  <2>. HIDE DEF s
  <2>3. j # Len(s) /\ Len(s) \in Nat
    BY <1>1, <2>2, StandNext
  <2>4. j \in 0 .. Len(s) - 1 /\ Found(s[j + 1])
    BY <1>1, <2>2, <2>3, StandNext
  <2>5. j < Len(s) /\ j + 1 \in Nat /\ j + 1 \in 1 .. Len(s)
    BY <2>3, <2>4
  <2>6. ASSUME ReadOn(s[j + 1])
        PROVE  Place(reader', outer', depth', got')
    <3>1. InSub(reader', outer', got', k, j + 1, w)
      BY <1>3, <2>1, <2>5, <2>6, OnInSub DEF s
    <3>2. depth' = 1
      BY <1>3, <2>6 DEF ReadOn
    <3>. QED BY <1>3, <2>5, <3>1, <3>2 DEF Place
  <2>7. Suits(depth, s[j + 1])
    BY <1>3, <2>0, <2>5
  <2>. QED BY <2>4, <2>6, <2>7
<1>4. CASE /\ depth = 1 /\ parser = "session"
           /\ \E k \in Nat, j \in Nat, w \in Reader : InPayload(reader, got, k, j, w)
  <2>1. PICK k \in Nat, j \in Nat, w \in Reader : InPayload(reader, got, k, j, w)
    BY <1>4
  <2>. DEFINE s == fields[k].val
  <2>2. Stand(reader, w, s, FlatCode, j) /\ s \in Seq(FlatField) /\ k \in 1 .. Len(fields)
    BY <1>1, <2>1 DEF InPayload, SubAt
  <2>0. \A q \in 1 .. Len(s) : Suits(1, s[q])
    BY <1>1, <2>1 DEF InPayload, SubAt
  <2>. HIDE DEF s
  <2>3. j # Len(s) /\ Len(s) \in Nat
    BY <1>1, <2>2, StandNext
  <2>4. j \in 0 .. Len(s) - 1 /\ Found(s[j + 1])
    BY <1>1, <2>2, <2>3, StandNext
  <2>5. j < Len(s) /\ j + 1 \in Nat /\ j + 1 \in 1 .. Len(s)
    BY <2>3, <2>4
  <2>6. ASSUME ReadOn(s[j + 1])
        PROVE  Place(reader', outer', depth', got')
    <3>1. InPayload(reader', got', k, j + 1, w)
      BY <1>4, <2>1, <2>5, <2>6, OnInPayload DEF s
    <3>2. depth' = 1
      BY <1>4, <2>6 DEF ReadOn
    <3>. QED BY <1>4, <2>5, <3>1, <3>2 DEF Place
  <2>7. Suits(depth, s[j + 1])
    BY <1>4, <2>0, <2>5
  <2>. QED BY <2>4, <2>6, <2>7
<1>. QED BY <1>2, <1>3, <1>4 DEF Place

\* Into a submessage.
LEMMA OnEnter ==
    ASSUME PbInv, Formed, Place(reader, outer, depth, got), Enter
    PROVE  result' = "run" /\ Place(reader', outer', depth', got')
<1>1. /\ parser \in Parsers /\ fields \in Seq(Field) /\ msg \in Bytes8 /\ Len(msg) < Word64
      /\ \A h \in 1 .. Len(fields) : fields[h] \in Field /\ Suits(0, fields[h]) 
      /\ Codes(FieldCode, Field) /\ Codes(FlatCode, FlatField)
  BY FormFacts, CodesAre
<1>2. PICK tag \in {PullTag(reader)} :
        /\ tag.ok /\ "enter" \in For(depth, tag)
        /\ LET b == PullBytes(tag.rest) IN
              IF b.ok
              THEN /\ outer' = b.rest
                   /\ reader' = [p |-> b.val.from, end |-> b.val.from + b.val.len]
                   /\ depth' = 1
                   /\ UNCHANGED result
              ELSE Fails(tag.rest) /\ UNCHANGED <<outer, depth>>
        /\ UNCHANGED <<inputVars, got>>
  BY DEF Enter
<1>3. depth = 0 /\ parser # "session" /\ Running /\ Rem(reader) # 0
  <2>1. Running /\ Rem(reader) > 0
    BY DEF Enter, Reading
  <2>2. Rem(reader) # 0
    BY <2>1 DEF PbInv, Inside, Reader, Rem
  <2>. QED BY <1>1, <1>2, <2>1, <2>2, EnterIs
<1>4. PICK k \in Nat : InMessage(reader, got, k)
  BY <1>3 DEF Place
<1>5. Stand(reader, Whole(msg), fields, FieldCode, k)
  BY <1>4 DEF InMessage
<1>6. k # Len(fields) /\ Len(fields) \in Nat
  BY <1>1, <1>3, <1>5, StandNext
<1>. DEFINE f == fields[k + 1]
<1>7. /\ k \in 0 .. Len(fields) - 1 /\ Found(f) 
      /\ Stand(Past(reader, f), Whole(msg), fields, FieldCode, k + 1)
  BY <1>1, <1>5, <1>6, StandNext
<1>8. k + 1 \in 1 .. Len(fields) /\ k + 1 \in Nat /\ f \in Field /\ Suits(0, f)
  BY <1>1, <1>6, <1>7
<1>9. Top(k) \in Seq(Field) /\ Top(k + 1) = Top(k) \o <<f>>
  BY <1>1, <1>7, TopGrows DEF Top
<1>. HIDE DEF f
<1>10. f.kind = "sub"
  <2>1. tag.field = f.field /\ tag.wire = WireOf(f)
    BY <1>2, <1>7 DEF Found, ReadsTag
  <2>2. PICK u \in Known[parser] :
           u[1] = depth /\ u[2] = f.field /\ u[3] = WireOf(f) /\ u[4] = "enter"
    BY <1>2, <2>1, ForIs
  <2>. QED BY <1>1, <1>3, <1>8, <2>2, NameOf
<1>. DEFINE s == f.val
            v == PullBytes(tag.rest).val
            w == [p |-> v.from, end |-> v.from + v.len]
<1>11. /\ PullBytes(tag.rest).ok /\ PullBytes(tag.rest).rest = Past(reader, f)
       /\ v \in View /\ v.len = Len(EncodeSub(s)) /\ Inside(w) /\ At(w, EncodeSub(s))
  BY <1>2, <1>7, <1>10 DEF Found, ReadsBytes, Content
<1>12. /\ reader' = w /\ outer' = Past(reader, f) /\ depth' = 1 /\ result' = "run"
       /\ got' = got
  BY <1>2, <1>3, <1>11 DEF Running
<1>13. s \in Seq(FlatField) /\ EncodeSub(s) = Laid(s, FlatCode)
  BY <1>8, <1>10, FieldCases, SubIsLaid
<1>. HIDE DEF v
<1>14. Rem(w) = Len(EncodeSub(s)) /\ w \in Reader
  BY <1>11 DEF View, Rem, Inside
<1>. HIDE DEF w, s
<1>15. Stand(w, w, s, FlatCode, 0)
  BY <1>1, <1>11, <1>13, <1>14, StandBegin
<1>16. Heard(got, 0, Top(k + 1))
  <2>. SUFFICES ASSUME NEW t \in Known[parser], t[1] = 0
                PROVE  Says(got, t[4], Top(k) \o <<f>>, t[2])
    BY <1>9 DEF Heard
  <2>1. Says(got, t[4], Top(k), t[2])
    BY <1>4 DEF InMessage, Heard
  <2>2. ~ Speaks(t, 0, f)
    BY <1>10 DEF Speaks
  <2>. QED BY <1>8, <1>9, <2>1, <2>2, Silent
<1>17. Heard(got, 1, FlatOf(Top(k)) \o SubSeq(s, 1, 0))
  <2>1. FlatOf(Top(k)) \in Seq(Field)
    <3>1. k \in 0 .. Len(fields)
      BY <1>6, <1>7
    <3>. QED BY <1>1, <3>1, FlatOfIs DEF Top
  <2>2. SubSeq(s, 1, 0) = <<>>
    BY <1>13, WholeSeq
  <2>3. FlatOf(Top(k)) \o SubSeq(s, 1, 0) = FlatOf(Top(k))
    BY <2>1, <2>2, NothingMore
  <2>. QED BY <1>3, <1>4, <2>3 DEF InMessage
<1>18. InSub(w, Past(reader, f), got, k + 1, 0, w)
  <2>1. PICK q \in 1 .. Len(fields) : q = k + 1 /\ q - 1 = k
    BY <1>8
  <2>2. fields[q] = f /\ f.val = s
    BY <2>1 DEF f, s
  <2>3. InSub(w, Past(reader, f), got, q, 0, w)
    BY <1>7, <1>10, <1>15, <1>16, <1>17, <2>1, <2>2 DEF InSub, SubAt
  <2>. QED BY <2>1, <2>3
<1>. QED BY <1>3, <1>8, <1>12, <1>14, <1>18 DEF Place

\* Back to the message.
LEMMA OnLeave ==
    ASSUME PbInv, Formed, Place(reader, outer, depth, got), Leave
    PROVE  result' = "run" /\ Place(reader', outer', depth', got')
<1>1. /\ parser \in Parsers /\ fields \in Seq(Field) /\ msg \in Bytes8 /\ Len(msg) < Word64
      /\ \A h \in 1 .. Len(fields) : fields[h].kind = "sub" => fields[h].val \in Seq(FlatField)
      /\ Codes(FlatCode, FlatField)
  BY FormFacts, CodesAre
<1>2. /\ depth = 1 /\ parser # "session" /\ Rem(reader) = 0 /\ reader' = outer /\ depth' = 0
      /\ got' = got /\ result' = "run"
  BY DEF Leave, Running
<1>3. PICK k \in Nat, j \in Nat, w \in Reader : InSub(reader, outer, got, k, j, w)
  BY <1>2 DEF Place
<1>. DEFINE s == fields[k].val
<1>4. Stand(reader, w, s, FlatCode, j) /\ s \in Seq(FlatField)
  BY <1>1, <1>3 DEF InSub, SubAt
<1>5. k \in 1 .. Len(fields) /\ fields[k].kind = "sub"
  BY <1>3 DEF InSub, SubAt
<1>6. j = Len(s)
  <2>. HIDE DEF s
  <2>. QED BY <1>1, <1>2, <1>4, StandNext
<1>7. FlatOf(Top(k)) = FlatOf(Top(k - 1)) \o s
  BY <1>1, <1>5, FlatOfIs DEF Top
<1>8. SubSeq(s, 1, j) = s
  BY <1>4, <1>6, WholeSeq
<1>9. Heard(got, 0, Top(k)) /\ Heard(got, 1, FlatOf(Top(k)))
  BY <1>3, <1>7, <1>8 DEF InSub
<1>10. InMessage(outer, got, k)
  BY <1>2, <1>3, <1>9 DEF InSub, InMessage
<1>. QED BY <1>2, <1>10 DEF Place

-------------------------------------------------------------------------------
\* The end of a parse.

\* What RoundTrip says of g and res.
Good(g, res) ==
    LET s == FlatOf(fields) IN
    /\ parser = "config" =>
          /\ res = "ok" /\ g["msg"] = NumberIn(fields, 1, 0)
          /\ BytesAt(g["ssid"]) = LastIn(s, 1, "bytes")
          /\ BytesAt(g["pass"]) = LastIn(s, 2, "bytes")
    /\ parser = "type" => res = "ok" /\ g["msg"] = NumberIn(fields, 1, 0)
    /\ parser = "result" =>
          res = "ok" /\ g["start"] = NumberIn(s, 1, 0) /\ g["count"] = NumberIn(s, 2, 4)
    /\ parser = "sc1" =>
          IF LastIn(fields, 2, "bytes") = <<>> THEN res = "error"
          ELSE res = "ok" /\ BytesAt(g["verify"]) = LastIn(fields, 2, "bytes")
    /\ parser = "sc0" =>
          IF LastIn(fields, 1, "bytes") = <<>> \/ Len(LastIn(fields, 1, "bytes")[1]) # KeyLen
          THEN res = "error"
          ELSE res = "ok" /\ BytesAt(g["key"]) = LastIn(fields, 1, "bytes")
    /\ parser = "session" =>
          IF \/ \A f \in 20 .. 23 : LastIn(s, f, "bytes") = <<>>
             \/ LastIn(fields, 2, "number") = <<>>
          THEN res = "error"
          ELSE /\ res = "ok" /\ g["version"] = NumberIn(fields, 2, 0)
               /\ \E f \in 20 .. 23 : /\ LastIn(s, f, "bytes") # <<>>
                                      /\ BytesAt(g["inner"]) = LastIn(s, f, "bytes")
                                      /\ g["msg"] = NumberIn(s, 1, f - 20)

\* The fields of the message, and those of its submessages.
LEMMA FlatIs ==
    ASSUME fields \in Seq(Field)
    PROVE  Flat(0) = fields /\ Flat(1) = FlatOf(fields)
<1>1. \A k \in DOMAIN fields :
         SubCode[fields[k]] = IF fields[k].kind = "sub" THEN fields[k].val ELSE <<>>
  BY SubCodeIs, ElementOfSeq
<1>2. [k \in DOMAIN fields |-> SubCode[fields[k]]] =
         [k \in DOMAIN fields |-> IF fields[k].kind = "sub" THEN fields[k].val ELSE <<>>]
  BY <1>1
<1>3. Flat(1) = FlattenSeq([k \in DOMAIN fields |-> IF fields[k].kind = "sub"
                                                    THEN fields[k].val ELSE <<>>])
  BY DEF Flat
<1>4. FlatOf(fields) = FlattenSeq([k \in DOMAIN fields |-> SubCode[fields[k]]])
  BY DEF FlatOf, Laid
<1>5. Flat(1) = FlatOf(fields)
  BY <1>2, <1>3, <1>4
<1>. QED BY <1>5 DEF Flat

\* Good is RoundTrip.
LEMMA GoodIs ==
    ASSUME parser \in Parsers, fields \in Seq(Field), Good(got, result)
    PROVE  RoundTrip
<1>1. Flat(0) = fields /\ Flat(1) = FlatOf(fields)
  BY FlatIs
<1>2. CASE parser = "config"
  BY <1>1, <1>2 DEF Good, RoundTrip, LastOf, NumberOr
<1>3. CASE parser = "type"
  BY <1>1, <1>3 DEF Good, RoundTrip, LastOf, NumberOr
<1>4. CASE parser = "result"
  BY <1>1, <1>4 DEF Good, RoundTrip, LastOf, NumberOr
<1>5. CASE parser = "sc1"
  BY <1>1, <1>5 DEF Good, RoundTrip, LastOf, NumberOr
<1>6. CASE parser = "sc0"
  BY <1>1, <1>6 DEF Good, RoundTrip, LastOf, NumberOr
<1>7. CASE parser = "session"
  <2>. DEFINE inner == {f \in 20 .. 23 : LastOf(1, f, "bytes") # <<>>}
  <2>1. inner = {} <=> \A f \in 20 .. 23 : LastIn(FlatOf(fields), f, "bytes") = <<>>
    BY <1>1 DEF LastOf
  <2>2. \A f \in inner : f \in 20 .. 23 /\ LastIn(FlatOf(fields), f, "bytes") # <<>>
    BY <1>1 DEF LastOf
  <2>3. \A f \in 20 .. 23 : LastIn(FlatOf(fields), f, "bytes") # <<>> => f \in inner
    BY <1>1 DEF LastOf
  <2>4. IF inner = {} \/ LastIn(fields, 2, "number") = <<>> THEN result = "error"
        ELSE /\ result = "ok" /\ got["version"] = NumberIn(fields, 2, 0)
             /\ \E f \in inner : /\ BytesAt(got["inner"]) = LastIn(FlatOf(fields), f, "bytes")
                                 /\ got["msg"] = NumberIn(FlatOf(fields), 1, f - 20)
    <3>. HIDE DEF inner
    <3>. QED BY <1>7, <2>1, <2>3 DEF Good
  <2>. QED BY <1>1, <1>7, <2>4 DEF RoundTrip, LastOf, NumberOr
<1>. QED BY <1>2, <1>3, <1>4, <1>5, <1>6, <1>7 DEF Parsers

\* What is heard of a place the parser knows.
LEMMA HeardAt ==
    ASSUME NEW g, NEW d, NEW fs, Heard(g, d, fs), NEW field, NEW w, NEW name,
           <<d, field, w, name>> \in Known[parser]
    PROVE  Says(g, name, fs, field)
<1>. DEFINE t == <<d, field, w, name>>
<1>1. t \in Known[parser] /\ t[1] = d /\ t[2] = field /\ t[4] = name
  OBVIOUS
<1>. HIDE DEF t
<1>. QED BY <1>1 DEF Heard

\* ... where it is a number.
LEMMA HeardNumber ==
    ASSUME NEW g, NEW d, NEW fs, Heard(g, d, fs), NEW field, NEW name \in Numbers,
           <<d, field, 0, name>> \in Known[parser]
    PROVE  g[name] = NumberIn(fs, field, Defaults[name])
BY HeardAt DEF Says

\* ... where it is bytes.
LEMMA HeardBytes ==
    ASSUME NEW g, NEW d, NEW fs, Heard(g, d, fs), NEW field, NEW name,
           <<d, field, 2, name>> \in Known[parser]
    PROVE  /\ name \in {"ssid", "pass"} => BytesAt(g[name]) = LastIn(fs, field, "bytes")
           /\ name \in {"key", "verify"} => LastIn(fs, field, "bytes") = <<>>
           /\ name = "inner" => IF g["inner"] # Null /\ g["field"] = field
                                THEN BytesAt(g["inner"]) = LastIn(fs, field, "bytes")
                                ELSE g["inner"] = Null => LastIn(fs, field, "bytes") = <<>>
<1>1. Says(g, name, fs, field)
  BY HeardAt
<1>. QED BY <1>1 DEF Says, Numbers

\* A number that the fields have is not the mark of one that is missing.
LEMMA Present ==
    ASSUME NEW d \in {0, 1}, NEW fs \in Seq(Field), \A k \in 1 .. Len(fs) : Suits(d, fs[k]),
           NEW field, NEW name \in Numbers, <<d, field, 0, name>> \in Known[parser],
           Defaults[name] = Absent
    PROVE  \A k \in 1 .. Len(fs) : Matches(fs[k], field, "number") => fs[k].val # Absent
<1>. SUFFICES ASSUME NEW k \in 1 .. Len(fs), Matches(fs[k], field, "number")
              PROVE  fs[k].val # Absent
  OBVIOUS
<1>1. fs[k].kind = "number" /\ fs[k].field = field /\ Fits(parser, d, fs[k])
  BY DEF Matches, Suits
<1>2. <<d, fs[k].field, 0, name>> \in Known[parser]
  BY <1>1
<1>. QED BY <1>1, <1>2 DEF Fits

\* At the end of the message.
LEMMA AtEnd ==
    ASSUME PbInv, Formed, NEW k, InMessage(reader, got, k), Rem(reader) = 0
    PROVE  /\ k = Len(fields) /\ Heard(got, 0, fields)
           /\ parser # "session" => Heard(got, 1, FlatOf(fields))
           /\ parser = "session" => Payload(got, Len(fields))
<1>1. fields \in Seq(Field) /\ msg \in Bytes8 /\ Len(msg) < Word64 /\ Codes(FieldCode, Field)
  BY FormFacts, CodesAre
<1>2. Stand(reader, Whole(msg), fields, FieldCode, k)
  BY DEF InMessage
<1>3. k = Len(fields)
  BY <1>1, <1>2, StandNext
<1>4. Top(k) = fields
  BY <1>1, <1>3, WholeSeq DEF Top
<1>. QED BY <1>3, <1>4 DEF InMessage

\* The submessage of a session message is the only one.
LEMMA OneSub ==
    ASSUME Formed, parser = "session", NEW k \in 1 .. Len(fields), fields[k].kind = "sub"
    PROVE  FlatOf(fields) = fields[k].val
<1>1. /\ fields \in Seq(Field) /\ Len(fields) \in Nat
      /\ \A j, h \in 1 .. Len(fields) :
            Single(parser, fields[j]) /\ Single(parser, fields[h]) => j = h
  BY FormFacts
<1>2. \A j \in 1 .. Len(fields) : fields[j].kind = "sub" => j = k
  BY <1>1 DEF Single
<1>3. k \in 0 .. Len(fields) /\ k # 0
  BY <1>1
<1>. QED BY <1>1, <1>2, <1>3, FlatOnly

\* The payload of a session message is entered, or the message is refused as it should be.
LEMMA OnEnterSec1 ==
    ASSUME PbInv, Formed, Place(reader, outer, depth, got), EnterSec1
    PROVE  \/ result' # "run" /\ Good(got', result')
           \/ result' = "run" /\ Place(reader', outer', depth', got')
<1>1. /\ Running /\ Rem(reader) = 0 /\ depth = 0 /\ parser = "session" /\ got' = got
      /\ IF got["version"] = Absent \/ got["sec1"] = Null
         THEN result' = "error" /\ UNCHANGED <<reader, depth>>
         ELSE /\ reader' = [p |-> got["sec1"].from, end |-> got["sec1"].from + got["sec1"].len]
              /\ depth' = 1
              /\ UNCHANGED result
  BY DEF EnterSec1
<1>2. PICK q \in Nat : InMessage(reader, got, q)
  BY <1>1 DEF Place
<1>3. Heard(got, 0, fields) /\ Payload(got, Len(fields))
  BY <1>1, <1>2, AtEnd
<1>4. /\ fields \in Seq(Field) /\ Len(fields) \in Nat /\ msg \in Bytes8
      /\ \A h \in 1 .. Len(fields) :
            fields[h].kind = "sub" => fields[h].val \in Seq(FlatField)
      /\ \A h \in 1 .. Len(fields) : Suits(0, fields[h])
      /\ Codes(FlatCode, FlatField)
  BY FormFacts, CodesAre
<1>5. got["version"] = NumberIn(fields, 2, Absent)
  <2>1. <<0, 2, 0, "version">> \in Known[parser] /\ "version" \in Numbers
    BY <1>1 DEF Known, Numbers
  <2>2. Defaults["version"] = Absent
    BY DEF Defaults
  <2>. QED BY <1>3, <2>1, <2>2, HeardNumber
<1>6. got["version"] = Absent <=> AllOf(fields, 2, "number") = {}
  <2>1. <<0, 2, 0, "version">> \in Known[parser] /\ "version" \in Numbers
    BY <1>1 DEF Known, Numbers
  <2>2. Defaults["version"] = Absent
    BY DEF Defaults
  <2>3. \A k \in 1 .. Len(fields) : Matches(fields[k], 2, "number") => fields[k].val # Absent
    BY <1>4, <2>1, <2>2, Present
  <2>. QED BY <1>4, <1>5, <2>3, NumberMissing
<1>7. CASE got["version"] = Absent
  <2>1. LastIn(fields, 2, "number") = <<>>
    BY <1>4, <1>6, <1>7, NoneSaid
  <2>2. result' = "error"
    BY <1>1, <1>7
  <2>. QED BY <1>1, <2>1, <2>2 DEF Good
<1>8. CASE got["sec1"] = Null
  <2>1. \A h \in 1 .. Len(fields) : fields[h].kind # "sub"
    BY <1>3, <1>8 DEF Payload
  <2>2. FlatOf(fields) = <<>>
    <3>1. 0 \in 0 .. Len(fields)
      BY <1>4
    <3>. QED BY <1>4, <2>1, <3>1, FlatOnly
  <2>3. \A f \in 20 .. 23 : LastIn(FlatOf(fields), f, "bytes") = <<>>
    <3>1. \A f \in 20 .. 23 : AllOf(<<>>, f, "bytes") = {}
      BY DEF AllOf
    <3>. QED BY <2>2, <3>1 DEF LastIn
  <2>4. result' = "error"
    BY <1>1, <1>8
  <2>. QED BY <1>1, <2>3, <2>4 DEF Good
<1>9. CASE got["version"] # Absent /\ got["sec1"] # Null
  <2>. DEFINE v == got["sec1"]
              w == [p |-> v.from, end |-> v.from + v.len]
  <2>1. PICK k \in 1 .. Len(fields) :
           fields[k].kind = "sub" /\ Holds(v, EncodeSub(fields[k].val))
    BY <1>3, <1>9 DEF Payload
  <2>. DEFINE s == fields[k].val
  <2>2. s \in Seq(FlatField) /\ EncodeSub(s) = Laid(s, FlatCode)
    BY <1>4, <2>1, SubIsLaid
  <2>3. v \in View /\ ViewInside(v)
    BY DEF PbInv, GotGood, GotType, Views
  <2>4. reader' = w /\ depth' = 1 /\ result' = "run"
    BY <1>1, <1>9 DEF Running
  <2>. HIDE DEF v, s
  <2>5. Inside(w) /\ Rem(w) = v.len /\ w \in Reader
    BY <1>4, <1>9, <2>3 DEF v, View, ViewInside, Inside, Reader, Rem, Bytes8
  <2>6. At(w, Laid(s, FlatCode)) /\ Rem(w) = Len(Laid(s, FlatCode))
    BY <2>1, <2>2, <2>5 DEF Holds, s
  <2>. HIDE DEF w
  <2>7. Stand(w, w, s, FlatCode, 0)
    BY <1>4, <2>2, <2>5, <2>6, StandBegin
  <2>8. SubSeq(s, 1, 0) = <<>>
    BY <2>2, WholeSeq
  <2>9. Heard(got, 1, SubSeq(s, 1, 0))
    BY <1>1, <1>2, <2>8 DEF InMessage
  <2>10. InPayload(w, got, k, 0, w)
    BY <1>3, <1>6, <1>9, <2>1, <2>7, <2>9 DEF InPayload, SubAt, s
  <2>11. k \in Nat /\ 0 \in Nat
    BY <1>4
  <2>. QED BY <1>1, <2>4, <2>5, <2>10, <2>11 DEF Place
<1>. QED BY <1>7, <1>8, <1>9

\* What the end of a parse changes.
LEMMA FinishGot ==
    ASSUME PbInv, Finish
    PROVE  /\ \A a \in Numbers \cup Views : a # "msg" => got'[a] = got[a]
           /\ got'["msg"] = IF got["msg"] = Absent /\ result' = "ok" THEN Inferred ELSE got["msg"]
           /\ result' =
                 IF parser \in {"sc0", "sc1"} \/ (parser = "session" /\ got["inner"] = Null)
                 THEN "error" ELSE "ok"
           /\ Rem(reader) = 0 /\ IF parser = "session" THEN depth = 1 ELSE depth = 0
<1>1. DOMAIN got = Numbers \cup Views
  BY DEF PbInv, GotGood, GotType
<1>2. /\ IF got["msg"] = Absent /\ result' = "ok" THEN Gets({"msg"}, Inferred) ELSE UNCHANGED got
      /\ result' = IF parser \in {"sc0", "sc1"} \/ (parser = "session" /\ got["inner"] = Null)
                   THEN "error" ELSE "ok"
      /\ Rem(reader) = 0 /\ IF parser = "session" THEN depth = 1 ELSE depth = 0
  BY DEF Finish
<1>3. "msg" \in Numbers \cup Views
  BY DEF Numbers
<1>4. CASE got["msg"] = Absent /\ result' = "ok"
  BY <1>1, <1>2, <1>3, <1>4 DEF Gets
<1>5. CASE ~ (got["msg"] = Absent /\ result' = "ok")
  BY <1>2, <1>5
<1>. QED BY <1>2, <1>4, <1>5

\* At the end of a message that is not one of the session.
LEMMA OnFinishFlat ==
    ASSUME PbInv, Formed, Place(reader, outer, depth, got), Finish, parser # "session"
    PROVE  result' # "run" /\ Good(got', result')
<1>1. /\ \A a \in Numbers \cup Views : a # "msg" => got'[a] = got[a]
      /\ got'["msg"] = IF got["msg"] = Absent /\ result' = "ok" THEN Inferred ELSE got["msg"]
      /\ result' = IF parser \in {"sc0", "sc1"} THEN "error" ELSE "ok"
      /\ Rem(reader) = 0 /\ depth = 0 /\ Inferred = 0
  BY FinishGot DEF Inferred
<1>2. PICK k \in Nat : InMessage(reader, got, k)
  BY <1>1 DEF Place
<1>3. Heard(got, 0, fields) /\ Heard(got, 1, FlatOf(fields))
  BY <1>1, <1>2, AtEnd
<1>4. /\ parser \in Parsers /\ fields \in Seq(Field)
      /\ \A h \in 1 .. Len(fields) : Suits(0, fields[h])
  BY FormFacts
<1>5. CASE parser = "sc0"
  <2>1. <<0, 1, 2, "key">> \in Known[parser]
    BY <1>5 DEF Known
  <2>2. LastIn(fields, 1, "bytes") = <<>>
    BY <1>3, <2>1, HeardBytes
  <2>. QED BY <1>1, <1>5, <2>2 DEF Good
<1>6. CASE parser = "sc1"
  <2>1. <<0, 2, 2, "verify">> \in Known[parser]
    BY <1>6 DEF Known
  <2>2. LastIn(fields, 2, "bytes") = <<>>
    BY <1>3, <2>1, HeardBytes
  <2>. QED BY <1>1, <1>6, <2>2 DEF Good
<1>7. CASE parser = "result"
  <2>1. <<1, 1, 0, "start">> \in Known[parser] /\ <<1, 2, 0, "count">> \in Known[parser]
    BY <1>7 DEF Known
  <2>2. "start" \in Numbers /\ "count" \in Numbers
    BY DEF Numbers
  <2>3. Defaults["start"] = 0 /\ Defaults["count"] = 4
    BY DEF Defaults
  <2>4. got["start"] = NumberIn(FlatOf(fields), 1, 0)
    BY <1>3, <2>1, <2>2, <2>3, HeardNumber
  <2>5. got["count"] = NumberIn(FlatOf(fields), 2, 4)
    BY <1>3, <2>1, <2>2, <2>3, HeardNumber
  <2>6. got'["start"] = got["start"] /\ got'["count"] = got["count"]
    BY <1>1, <2>2
  <2>. QED BY <1>1, <1>7, <2>4, <2>5, <2>6 DEF Good
<1>8. CASE parser \in {"config", "type"}
  <2>1. <<0, 1, 0, "msg">> \in Known[parser] /\ "msg" \in Numbers /\ Defaults["msg"] = Absent
    BY <1>8 DEF Known, Numbers, Defaults
  <2>2. got["msg"] = NumberIn(fields, 1, Absent)
    BY <1>3, <2>1, HeardNumber
  <2>3. \A h \in 1 .. Len(fields) : Matches(fields[h], 1, "number") => fields[h].val # Absent
    BY <1>4, <2>1, Present
  <2>4. /\ got["msg"] = Absent <=> AllOf(fields, 1, "number") = {}
        /\ NumberIn(fields, 1, 0) = IF AllOf(fields, 1, "number") = {} THEN 0 ELSE got["msg"]
    BY <1>4, <2>2, <2>3, NumberMissing
  <2>5. result' = "ok" /\ got'["msg"] = NumberIn(fields, 1, 0)
    BY <1>1, <1>8, <2>4
  <2>6. CASE parser = "type"
    BY <2>5, <2>6 DEF Good
  <2>7. CASE parser = "config"
    <3>1. <<1, 1, 2, "ssid">> \in Known[parser] /\ <<1, 2, 2, "pass">> \in Known[parser]
      BY <2>7 DEF Known
    <3>2. BytesAt(got["ssid"]) = LastIn(FlatOf(fields), 1, "bytes")
      BY <1>3, <3>1, HeardBytes
    <3>3. BytesAt(got["pass"]) = LastIn(FlatOf(fields), 2, "bytes")
      BY <1>3, <3>1, HeardBytes
    <3>4. got'["ssid"] = got["ssid"] /\ got'["pass"] = got["pass"]
      BY <1>1 DEF Views
    <3>. QED BY <2>5, <2>7, <3>2, <3>3, <3>4 DEF Good
  <2>. QED BY <1>8, <2>6, <2>7
<1>. QED BY <1>4, <1>5, <1>6, <1>7, <1>8 DEF Parsers

\* At the end of the payload of a session message.
LEMMA OnFinishSession ==
    ASSUME PbInv, Formed, Place(reader, outer, depth, got), Finish, parser = "session"
    PROVE  result' # "run" /\ Good(got', result')
<1>1. /\ \A a \in Numbers \cup Views : a # "msg" => got'[a] = got[a]
      /\ got'["msg"] = IF got["msg"] = Absent /\ result' = "ok" THEN Inferred ELSE got["msg"]
      /\ result' = IF got["inner"] = Null THEN "error" ELSE "ok"
      /\ Rem(reader) = 0 /\ depth = 1 /\ Inferred = got["field"] - 20
  BY FinishGot DEF Inferred
<1>2. PICK k \in Nat, j \in Nat, w \in Reader : InPayload(reader, got, k, j, w)
  BY <1>1 DEF Place
<1>3. /\ fields \in Seq(Field) /\ msg \in Bytes8 /\ Len(msg) < Word64
      /\ k \in 1 .. Len(fields) /\ fields[k].kind = "sub"
      /\ \A h \in 1 .. Len(fields) : Suits(0, fields[h])
      /\ Codes(FlatCode, FlatField)
  BY <1>2, FormFacts, CodesAre DEF InPayload, SubAt
<1>. DEFINE s == fields[k].val
<1>4. s \in Seq(FlatField) /\ \A h \in 1 .. Len(s) : Suits(1, s[h])
  BY <1>3, FormFacts
<1>5. FlatOf(fields) = s
  BY <1>3, OneSub
<1>6. Stand(reader, w, s, FlatCode, j) /\ Heard(got, 0, fields) /\ Heard(got, 1, SubSeq(s, 1, j))
  BY <1>2 DEF InPayload
<1>7. AllOf(fields, 2, "number") # {}
  BY <1>2 DEF InPayload
<1>. HIDE DEF s
<1>8. j = Len(s)
  BY <1>1, <1>3, <1>4, <1>6, StandNext
<1>9. Heard(got, 1, s) /\ s \in Seq(Field)
  BY <1>4, <1>6, <1>8, WholeSeq, FlatIsField
<1>10. LastIn(fields, 2, "number") # <<>>
  BY <1>3, <1>7, NoneSaid
<1>11. \A f \in 20 .. 23 : IF got["inner"] # Null /\ got["field"] = f
                           THEN BytesAt(got["inner"]) = LastIn(s, f, "bytes")
                           ELSE got["inner"] = Null => LastIn(s, f, "bytes") = <<>>
  <2>1. \A f \in 20 .. 23 : <<1, f, 2, "inner">> \in Known[parser]
    BY DEF Known
  <2>. QED BY <1>9, <2>1, HeardBytes
<1>12. CASE got["inner"] = Null
  <2>1. \A f \in 20 .. 23 : LastIn(s, f, "bytes") = <<>>
    BY <1>11, <1>12
  <2>. QED BY <1>1, <1>5, <1>12, <2>1 DEF Good
<1>13. CASE got["inner"] # Null
  <2>. DEFINE f == got["field"]
  <2>1. f \in 20 .. 23
    BY <1>13 DEF PbInv, GotGood
  <2>2. BytesAt(got["inner"]) = LastIn(s, f, "bytes")
    BY <1>11, <1>13, <2>1
  <2>3. LastIn(s, f, "bytes") # <<>>
    <3>1. \A x : <<x>> # <<>>
      OBVIOUS
    <3>. QED BY <1>13, <2>2, <3>1 DEF BytesAt
  <2>4. got'["inner"] = got["inner"] /\ got'["version"] = got["version"]
    BY <1>1 DEF Numbers, Views
  <2>5. got["version"] = NumberIn(fields, 2, 0)
    <3>1. <<0, 2, 0, "version">> \in Known[parser] /\ "version" \in Numbers
      BY DEF Known, Numbers
    <3>2. Defaults["version"] = Absent
      BY DEF Defaults
    <3>3. got["version"] = NumberIn(fields, 2, Absent)
      BY <1>6, <3>1, <3>2, HeardNumber
    <3>4. NumberIn(fields, 2, Absent) = NumberIn(fields, 2, 0)
      BY <1>7 DEF NumberIn
    <3>. QED BY <3>3, <3>4
  <2>6. got'["msg"] = NumberIn(s, 1, f - 20)
    <3>1. <<1, 1, 0, "msg">> \in Known[parser] /\ "msg" \in Numbers /\ Defaults["msg"] = Absent
      BY DEF Known, Numbers, Defaults
    <3>2. got["msg"] = NumberIn(s, 1, Absent)
      BY <1>9, <3>1, HeardNumber
    <3>3. \A h \in 1 .. Len(s) : Matches(s[h], 1, "number") => s[h].val # Absent
      BY <1>4, <1>9, <3>1, Present
    <3>4. /\ got["msg"] = Absent <=> AllOf(s, 1, "number") = {}
          /\ NumberIn(s, 1, f - 20) =
                 IF AllOf(s, 1, "number") = {} THEN f - 20 ELSE got["msg"]
      BY <1>9, <3>2, <3>3, NumberMissing
    <3>. QED BY <1>1, <1>13, <3>4
  <2>7. result' = "ok"
    BY <1>1, <1>13
  <2>. HIDE DEF f
  <2>. QED BY <1>5, <1>10, <2>1, <2>2, <2>3, <2>4, <2>5, <2>6, <2>7 DEF Good
<1>. QED BY <1>12, <1>13

\* The two commands of the handshake are read up to the field they want.
LEMMA OnKey ==
    ASSUME PbInv, Formed, Place(reader, outer, depth, got), Bytes, parser \in {"sc0", "sc1"}
    PROVE  result' # "run" /\ Good(got', result')
<1>1. PICK tag \in {PullTag(reader)}, name \in Views :
         /\ tag.ok /\ name \in For(depth, tag)
         /\ LET b == PullBytes(tag.rest) IN
               IF b.ok /\ (name = "key" => b.val.len = KeyLen)
               THEN /\ reader' = b.rest
                    /\ got' = [got EXCEPT ![name] = b.val,
                                          !.field = IF name = "inner" THEN tag.field ELSE @]
                    /\ result' = IF name \in {"key", "verify"} THEN "ok" ELSE result
               ELSE Fails(tag.rest) /\ UNCHANGED got
         /\ UNCHANGED <<inputVars, outer, depth>>
  BY DEF Bytes
<1>2. PICK u \in Known[parser] :
         u[1] = depth /\ u[2] = tag.field /\ u[3] = tag.wire /\ u[4] = name
  <2>1. name \in For(depth, tag)
    BY <1>1
  <2>. QED BY <2>1, ForIs
<1>. DEFINE n0 == IF parser = "sc0" THEN 1 ELSE 2
<1>3. name = (IF parser = "sc0" THEN "key" ELSE "verify") /\ depth = 0 /\ tag.field = n0
  BY <1>2 DEF Known
<1>4. /\ parser \in Parsers /\ fields \in Seq(Field) /\ Len(fields) \in Nat
      /\ msg \in Bytes8 /\ Len(msg) < Word64
      /\ \A h \in 1 .. Len(fields) : fields[h] \in Field /\ Suits(0, fields[h])
      /\ \A j, h \in 1 .. Len(fields) :
            Single(parser, fields[j]) /\ Single(parser, fields[h]) => j = h
      /\ Codes(FieldCode, Field)
  BY FormFacts, CodesAre
<1>5. PICK k \in Nat : InMessage(reader, got, k)
  BY <1>3 DEF Place
<1>6. Stand(reader, Whole(msg), fields, FieldCode, k)
  BY <1>5 DEF InMessage
<1>7. Rem(reader) # 0
  <2>1. Rem(reader) > 0
    BY DEF Bytes, Reading
  <2>. QED BY <2>1 DEF PbInv, Inside, Reader, Rem
<1>8. k # Len(fields)
  BY <1>4, <1>6, <1>7, StandNext
<1>. DEFINE f == fields[k + 1]
<1>9. k \in 0 .. Len(fields) - 1 /\ Found(f)
  BY <1>4, <1>6, <1>8, StandNext
<1>10. k + 1 \in 1 .. Len(fields) /\ f \in Field /\ Suits(0, f)
  BY <1>4, <1>9
<1>. HIDE DEF f
<1>11. tag = PullTag(reader) /\ tag.field = f.field /\ tag.wire = WireOf(f)
  BY <1>1, <1>9 DEF Found, ReadsTag
<1>12. f.kind = "bytes" /\ f.field = n0
  <2>1. name \in Views \ {"sec1"}
    BY <1>3 DEF Views
  <2>2. f.kind = "bytes"
    BY <1>2, <1>3, <1>4, <1>10, <1>11, <2>1, NameOf
  <2>. QED BY <1>3, <1>11, <2>2
<1>13. LastIn(fields, n0, "bytes") = <<f.val>>
  <2>1. k + 1 \in AllOf(fields, n0, "bytes")
    BY <1>4, <1>10, <1>12 DEF AllOf, f
  <2>2. ASSUME NEW h \in AllOf(fields, n0, "bytes") PROVE h <= k + 1
    <3>1. h \in 1 .. Len(fields) /\ Single(parser, fields[h])
      BY <1>4, <2>2 DEF AllOf, Single
    <3>2. Single(parser, fields[k + 1])
      BY <1>12 DEF Single, f
    <3>3. h = k + 1
      BY <1>4, <1>10, <3>1, <3>2
    <3>. QED BY <1>10, <3>3
  <2>. QED BY <1>4, <2>1, <2>2, LastIs DEF f
<1>. DEFINE b == PullBytes(tag.rest)
<1>14. /\ b.ok /\ b.val # Null /\ BytesAt(b.val) = <<f.val>> /\ b.val.len = Len(f.val)
  BY <1>9, <1>10, <1>11, <1>12, BytesFound DEF Found, ReadsBytes, Content
<1>15. /\ b.val.len = KeyLen \/ name # "key" =>
             result' = "ok" /\ got' = [got EXCEPT ![name] = b.val]
       /\ ~ (b.val.len = KeyLen \/ name # "key") => result' = "error"
  <2>1. name # "inner" /\ ~ Lenient /\ name \in {"key", "verify"}
    BY <1>3 DEF Lenient
  <2>2. CASE b.val.len = KeyLen \/ name # "key"
    <3>1. got' = [got EXCEPT ![name] = b.val,
                             !.field = IF name = "inner" THEN tag.field ELSE @]
      BY <1>1, <1>14, <2>2
    <3>2. got' = [got EXCEPT ![name] = b.val]
      BY <2>1, <3>1
    <3>3. result' = "ok"
      BY <1>1, <1>14, <2>1, <2>2
    <3>. QED BY <2>2, <3>2, <3>3
  <2>3. CASE ~ (b.val.len = KeyLen \/ name # "key")
    <3>1. Fails(tag.rest)
      BY <1>1, <2>3
    <3>. QED BY <2>1, <2>3, <3>1 DEF Fails
  <2>. QED BY <2>2, <2>3
<1>. HIDE DEF b
<1>16. name \in DOMAIN got
  BY <1>1 DEF PbInv, GotGood, GotType
<1>17. \A x : <<x>> # <<>> /\ <<x>>[1] = x
  OBVIOUS
<1>18. CASE parser = "sc0"
  BY <1>3, <1>13, <1>14, <1>15, <1>16, <1>17, <1>18 DEF Good
<1>19. CASE parser = "sc1"
  BY <1>3, <1>13, <1>14, <1>15, <1>16, <1>17, <1>19 DEF Good
<1>. QED BY <1>18, <1>19

-------------------------------------------------------------------------------
\* A well-formed message is read as what it says.

\* The strengthening of RoundTrip: a running parser is at some place, with what was said up to it.
FormInv ==
    formed =>
        /\ Formed
        /\ Running => Place(reader, outer, depth, got)
        /\ RoundTrip

\* Good, told of a state.
LEMMA GoodTold == parser \in Parsers /\ fields \in Seq(Field) /\ Good(got, result) => RoundTrip
BY GoodIs

\* Good, told of the state after a step.
LEMMA GoodNext ==
    ASSUME Formed, UNCHANGED inputVars, Good(got', result')
    PROVE  RoundTrip'
<1>1. parser \in Parsers /\ fields \in Seq(Field)
  BY FormFacts
<1>2. (parser \in Parsers /\ fields \in Seq(Field))'
  BY <1>1 DEF inputVars
<1>3. Good(got, result)'
  BY DEF Good, inputVars, BytesAt
<1>4. (parser \in Parsers /\ fields \in Seq(Field) /\ Good(got, result) => RoundTrip)'
  BY GoodTold, PTL
<1>. QED BY <1>2, <1>3, <1>4

\* A place in the state after a step: the message is still the same.
LEMMA PlaceNext ==
    ASSUME UNCHANGED inputVars, Place(reader', outer', depth', got')
    PROVE  Place(reader, outer, depth, got)'
<1>1. UNCHANGED <<parser, msg, fields>>
  BY DEF inputVars
<1>2. ASSUME NEW r, NEW w, NEW s, NEW e, NEW k, Stand(r, w, s, e, k)
      PROVE  Stand(r, w, s, e, k)'
  BY <1>1, <1>2 DEF Stand, Inside, At
<1>3. ASSUME NEW g, NEW d, NEW fs, Heard(g, d, fs)
      PROVE  Heard(g, d, fs)'
  BY <1>1, <1>3 DEF Heard, Says, BytesAt
<1>4. ASSUME NEW g, NEW k, Payload(g, k)
      PROVE  Payload(g, k)'
  BY <1>1, <1>4 DEF Payload, Holds, At
<1>5. ASSUME NEW r, NEW g, NEW k, InMessage(r, g, k)
      PROVE  InMessage(r, g, k)'
  <2>1. Stand(r, Whole(msg), fields, FieldCode, k)'
    <3>1. Stand(r, Whole(msg), fields, FieldCode, k)
      BY <1>5 DEF InMessage
    <3>. QED BY <1>1, <1>2, <3>1
  <2>2. Heard(g, 0, Top(k))'
    <3>1. Heard(g, 0, Top(k)) /\ Top(k)' = Top(k)
      BY <1>1, <1>5 DEF InMessage, Top
    <3>. QED BY <1>1, <1>3, <3>1
  <2>3. Heard(g, 1, IF parser = "session" THEN <<>> ELSE FlatOf(Top(k)))'
    <3>. DEFINE x == IF parser = "session" THEN <<>> ELSE FlatOf(Top(k))
    <3>1. Heard(g, 1, x) /\ x' = x
      BY <1>1, <1>5 DEF InMessage, Top
    <3>. HIDE DEF x
    <3>2. Heard(g, 1, x)'
      BY <1>3, <3>1
    <3>. QED BY <3>2 DEF x
  <2>4. (parser = "session" => Payload(g, k))'
    BY <1>1, <1>4, <1>5 DEF InMessage
  <2>. QED BY <2>1, <2>2, <2>3, <2>4 DEF InMessage
<1>6. \A k : SubAt(k) => SubAt(k)'
  BY <1>1 DEF SubAt
<1>7. ASSUME NEW r, NEW o, NEW g, NEW k, NEW j, NEW w, InSub(r, o, g, k, j, w)
      PROVE  InSub(r, o, g, k, j, w)'
  <2>1. Stand(o, Whole(msg), fields, FieldCode, k)' /\ Stand(r, w, fields[k].val, FlatCode, j)'
    <3>1. Stand(o, Whole(msg), fields, FieldCode, k) /\ Stand(r, w, fields[k].val, FlatCode, j)
      BY <1>7 DEF InSub
    <3>. QED BY <1>1, <1>2, <3>1
  <2>2. Heard(g, 0, Top(k))'
    <3>1. Heard(g, 0, Top(k)) /\ Top(k)' = Top(k)
      BY <1>1, <1>7 DEF InSub, Top
    <3>. QED BY <1>1, <1>3, <3>1
  <2>3. Heard(g, 1, FlatOf(Top(k - 1)) \o SubSeq(fields[k].val, 1, j))'
    <3>. DEFINE x == FlatOf(Top(k - 1)) \o SubSeq(fields[k].val, 1, j)
    <3>1. Heard(g, 1, x) /\ x' = x
      BY <1>1, <1>7 DEF InSub, Top
    <3>. HIDE DEF x
    <3>2. Heard(g, 1, x)'
      BY <1>3, <3>1
    <3>. QED BY <3>2 DEF x
  <2>. QED BY <1>6, <1>7, <2>1, <2>2, <2>3 DEF InSub
<1>8. ASSUME NEW r, NEW g, NEW k, NEW j, NEW w, InPayload(r, g, k, j, w)
      PROVE  InPayload(r, g, k, j, w)'
  <2>1. Stand(r, w, fields[k].val, FlatCode, j)'
    <3>1. Stand(r, w, fields[k].val, FlatCode, j)
      BY <1>8 DEF InPayload
    <3>. QED BY <1>1, <1>2, <3>1
  <2>2. Heard(g, 0, fields)' /\ Heard(g, 1, SubSeq(fields[k].val, 1, j))'
    <3>1. Heard(g, 0, fields) /\ Heard(g, 1, SubSeq(fields[k].val, 1, j))
      BY <1>8 DEF InPayload
    <3>. QED BY <1>1, <1>3, <3>1
  <2>3. (AllOf(fields, 2, "number") # {})'
    BY <1>1, <1>8 DEF InPayload
  <2>. QED BY <1>6, <1>8, <2>1, <2>2, <2>3 DEF InPayload
<1>. QED BY <1>1, <1>5, <1>7, <1>8 DEF Place

\* A step of a parser in a well-formed message.
LEMMA ParseForm ==
    ASSUME PbInv, formed, FormInv, Parse
    PROVE  FormInv'
<1>1. Running
  BY DEF Parse, BadTag, Number, Bytes, Enter, Skip, Leave, EnterSec1, Finish, Reading
<1>2. Formed /\ Place(reader, outer, depth, got) /\ parser \in Parsers
  BY <1>1, FormFacts DEF FormInv
<1>3. UNCHANGED inputVars
  BY DEF Parse, BadTag, Number, Bytes, Enter, Skip, Leave, EnterSec1, Finish
<1>4. \/ result' # "run" /\ Good(got', result')
      \/ result' = "run" /\ Place(reader', outer', depth', got')
  <2>1. CASE BadTag \/ Number \/ Skip \/ (Bytes /\ parser \notin {"sc0", "sc1"})
    <3>1. Rem(reader) # 0
      <4>1. Rem(reader) > 0
        BY <2>1 DEF BadTag, Number, Skip, Bytes, Reading
      <4>. QED BY <4>1 DEF PbInv, Inside, Reader, Rem
    <3>2. PICK f : /\ Suits(depth, f) /\ Found(f)
                   /\ ReadOn(f) => Place(reader', outer', depth', got')
      BY <1>2, <3>1, NextHere
    <3>3. ~ BadTag
      BY <3>2 DEF BadTag, Found, ReadsTag
    <3>4. ReadOn(f)
      BY <1>2, <2>1, <3>2, <3>3, ReadNumber, ReadSkip, ReadBytes
    <3>. QED BY <3>2, <3>4 DEF ReadOn
  <2>2. CASE Bytes /\ parser \in {"sc0", "sc1"}
    BY <1>2, <2>2, OnKey
  <2>3. CASE Enter
    BY <1>2, <2>3, OnEnter
  <2>4. CASE Leave
    BY <1>2, <2>4, OnLeave
  <2>5. CASE EnterSec1
    BY <1>2, <2>5, OnEnterSec1
  <2>6. CASE Finish
    BY <1>2, <2>6, OnFinishFlat, OnFinishSession
  <2>. QED BY <2>1, <2>2, <2>3, <2>4, <2>5, <2>6 DEF Parse
<1>5. Formed'
  BY <1>2, <1>3 DEF Formed, inputVars
<1>6. CASE result' # "run" /\ Good(got', result')
  <2>1. RoundTrip'
    BY <1>2, <1>3, <1>6, GoodNext
  <2>. QED BY <1>5, <1>6, <2>1 DEF FormInv, Running
<1>7. CASE result' = "run" /\ Place(reader', outer', depth', got')
  <2>1. Place(reader, outer, depth, got)'
    BY <1>3, <1>7, PlaceNext
  <2>2. RoundTrip'
    BY <1>7 DEF RoundTrip, Running
  <2>. QED BY <1>5, <2>1, <2>2 DEF FormInv
<1>. QED BY <1>4, <1>6, <1>7

\* FormInv holds while the page of results is written.
LEMMA FormFrame == ASSUME FormInv, UNCHANGED pbVars PROVE FormInv'
<1>1. UNCHANGED <<parser, msg, formed, fields, reader, outer, depth, got, result>>
  BY DEF pbVars, inputVars
<1>2. Formed => Formed'
  BY <1>1 DEF Formed
<1>3. Place(reader, outer, depth, got) => Place(reader, outer, depth, got)'
  BY <1>1, PlaceNext DEF inputVars
<1>4. Running' <=> Running
  BY <1>1 DEF Running
<1>5. RoundTrip => RoundTrip'
  BY <1>1 DEF RoundTrip, Running, BytesAt, LastOf, NumberOr, Flat
<1>. QED BY <1>1, <1>2, <1>3, <1>4, <1>5 DEF FormInv

\* Nothing found is what no fields say.
LEMMA NothingSaid ==
    ASSUME NEW d, parser \in Parsers
    PROVE  Heard(Unset, d, <<>>)
<1>. SUFFICES ASSUME NEW t \in Known[parser] PROVE Says(Unset, t[4], <<>>, t[2])
  BY DEF Heard
<1>1. \A field, kind : AllOf(<<>>, field, kind) = {}
  BY DEF AllOf
<1>2. \A field : LastIn(<<>>, field, "bytes") = <<>>
  BY <1>1 DEF LastIn
<1>3. \A field, default : NumberIn(<<>>, field, default) = default
  BY <1>1 DEF NumberIn
<1>4. /\ \A name \in Numbers : Unset[name] = Defaults[name]
      /\ \A v \in Views : Unset[v] = Null
  BY DEF Unset, Numbers, Views
<1>5. BytesAt(Null) = <<>>
  BY DEF BytesAt
<1>. QED BY <1>2, <1>3, <1>4, <1>5 DEF Says, Views

\* FormInv holds before the first step.
LEMMA FormInit == ASSUME Init PROVE FormInv
<1>. SUFFICES ASSUME formed PROVE FormInv
  BY DEF FormInv
<1>1. PbInit
  BY DEF Init, PbIdle
<1>2. PICK m \in Messages : parser = m.parser /\ msg = EncodeFields(m.fields) /\ fields = m.fields
  BY <1>1 DEF PbInit
<1>3. WellFormed(m)
  BY PbAssumption
<1>4. WellFormed([parser |-> parser, fields |-> fields])
  BY <1>2, <1>3 DEF WellFormed
<1>5. Formed
  BY <1>2, <1>4 DEF Formed
<1>6. reader = Whole(msg) /\ depth = 0 /\ got = Unset /\ result = "run"
  BY <1>1 DEF PbInit
<1>7. /\ parser \in Parsers /\ fields \in Seq(Field) /\ Len(fields) \in Nat
      /\ msg \in Bytes8 /\ Len(msg) \in Nat /\ Codes(FieldCode, Field)
  BY <1>5, FormFacts, CodesAre
<1>8. msg = Laid(fields, FieldCode)
  BY <1>5, <1>7, FieldsIsLaid DEF Formed
<1>. DEFINE w == Whole(msg)
<1>9. w = [p |-> 1, end |-> Len(msg) + 1]
  BY DEF Whole
<1>10. Inside(w) /\ At(w, msg) /\ Rem(w) = Len(msg)
  <2>1. Inside(w) /\ Rem(w) = Len(msg)
    BY <1>7, <1>9 DEF Inside, Reader, Rem
  <2>2. \A q \in 1 .. Len(msg) : w.p + q - 1 = q
    BY <1>7, <1>9
  <2>. QED BY <1>7, <2>1, <2>2 DEF At
<1>. HIDE DEF w
<1>11. Stand(w, w, fields, FieldCode, 0)
  BY <1>7, <1>8, <1>10, StandBegin
<1>12. Top(0) = <<>> /\ FlatOf(Top(0)) = <<>>
  BY <1>7, WholeSeq, FlatOfIs DEF Top
<1>13. Heard(got, 0, Top(0)) /\ Heard(got, 1, IF parser = "session" THEN <<>> ELSE FlatOf(Top(0)))
  BY <1>6, <1>7, <1>12, NothingSaid
<1>14. Payload(got, 0)
  <2>1. got["sec1"] = Null
    BY <1>6 DEF Unset, Views
  <2>. QED BY <2>1 DEF Payload
<1>15. InMessage(reader, got, 0)
  BY <1>6, <1>11, <1>13, <1>14 DEF InMessage, w
<1>16. Place(reader, outer, depth, got)
  BY <1>6, <1>15 DEF Place
<1>17. RoundTrip
  BY <1>6 DEF RoundTrip, Running
<1>. QED BY <1>5, <1>16, <1>17 DEF FormInv

\* FormInv is inductive, with PbInv.
LEMMA FormNext == ASSUME PbInv, FormInv, [Next]_<<pbVars, pageVars>> PROVE FormInv'
<1>1. CASE UNCHANGED pbVars
  BY <1>1, FormFrame
<1>2. CASE Parse /\ formed
  BY <1>2, ParseForm
<1>3. CASE Parse /\ ~formed
  <2>1. formed' = formed
    BY <1>3 DEF Parse, BadTag, Number, Bytes, Enter, Skip, Leave, EnterSec1, Finish, inputVars
  <2>. QED BY <1>3, <2>1 DEF FormInv
<1>. QED BY <1>1, <1>2, <1>3 DEF Next

\* Every message that a sender writes, with whatever unknown fields in it, of whatever wire
\* type, and in whatever order, is read by its parser as what it says, within every bound of
\* the lengths that the code has: a number that is there is found, the last of a kind counts,
\* one that is not there has its default, and bytes are found as they were written.
THEOREM MessageReadBack == Spec => []RoundTrip
<1>1. Init => FormInv
  BY FormInit
<1>2. PbInv /\ FormInv /\ [Next]_<<pbVars, pageVars>> => FormInv'
  BY FormNext
<1>3. FormInv => RoundTrip
  BY DEF FormInv, RoundTrip
<1>. QED BY <1>1, <1>2, <1>3, PbAlways, PTL DEF Spec
===============================================================================
