--------------------------- MODULE BufSock_proofs ---------------------------
(***************************************************************************)
(* Proofs about one direction of a connection, for every size of header,   *)
(* blocks, wire and triggers: the bytes under way are those of the blocks  *)
(* that are still to be received, and the connection is a channel.         *)
(***************************************************************************)
EXTENDS BufSock, SequenceTheorems, WellFoundedInduction, TLAPS

LEMMA Least ==
    ASSUME NEW S \in SUBSET Nat, S # {}
    PROVE  \E x \in S : \A y \in S : x <= y
<1>1. PICK x \in S : \A y \in S : ~(<<y, x>> \in OpToRel(<, Nat))
  BY WFMin, NatLessThanWellFounded, Zenon
<1>2. \A y \in S : ~(y < x)
  BY <1>1, Zenon DEF OpToRel
<1> QED BY <1>2

(* A set of numbers that has no first one is empty *)
LEMMA NoFirst ==
    ASSUME NEW a \in Nat, NEW b \in Nat, NEW S \in SUBSET (a .. b),
           a \notin S, \A i \in S : i > a => i - 1 \in S
    PROVE  S = {}
<1> SUFFICES ASSUME S # {} PROVE FALSE
  OBVIOUS
<1>1. PICK x \in S : \A y \in S : x <= y
  <2>1. S \in SUBSET Nat
    OBVIOUS
  <2> QED BY <2>1, Least
<1>2. x \in a .. b /\ x > a
  OBVIOUS
<1>3. x - 1 \in S /\ x - 1 < x
  BY <1>2
<1> QED BY <1>1, <1>2, <1>3

----------------------------------------------------------------------------
(* Sequences that are put together *)

LEMMA Joined ==
    ASSUME NEW S, NEW s \in Seq(S), NEW t \in Seq(S)
    PROVE  /\ s \o t \in Seq(S) /\ Len(s \o t) = Len(s) + Len(t)
           /\ \A i \in 1 .. Len(s) : (s \o t)[i] = s[i]
           /\ \A i \in 1 .. Len(t) : (s \o t)[Len(s) + i] = t[i]
           /\ Len(s) \in Nat /\ Len(t) \in Nat
<1>1. Len(s) \in Nat /\ Len(t) \in Nat
  BY LenProperties
<1>2. \A i \in 1 .. Len(s) : i \in 1 .. Len(s) + Len(t) /\ i <= Len(s)
  BY <1>1
<1>3. \A i \in 1 .. Len(t) :
         /\ Len(s) + i \in 1 .. Len(s) + Len(t) /\ ~(Len(s) + i <= Len(s))
         /\ (Len(s) + i) - Len(s) = i
  BY <1>1
<1> QED BY <1>1, <1>2, <1>3, ConcatProperties

LEMMA BytesAssociate ==
    \A a, b, c \in Seq(Bytes) : (a \o b) \o c = a \o (b \o c)
BY ConcatAssociative

(* Two ways to cut a sequence at the same place *)
LEMMA SameCut ==
    ASSUME NEW S, NEW s \in Seq(S), NEW t \in Seq(S), NEW u \in Seq(S), NEW v \in Seq(S)
    PROVE  s \o t = u \o v /\ Len(s) = Len(u) => s = u /\ t = v
<1>1. /\ Len(s) \in Nat /\ Len(t) \in Nat /\ Len(s \o t) = Len(s) + Len(t)
      /\ \A i \in 1 .. Len(s) : (s \o t)[i] = s[i]
      /\ \A i \in 1 .. Len(t) : (s \o t)[Len(s) + i] = t[i]
  BY Joined
<1>2. /\ Len(u) \in Nat /\ Len(v) \in Nat /\ Len(u \o v) = Len(u) + Len(v)
      /\ \A i \in 1 .. Len(u) : (u \o v)[i] = u[i]
      /\ \A i \in 1 .. Len(v) : (u \o v)[Len(u) + i] = v[i]
  BY Joined
<1> HAVE s \o t = u \o v /\ Len(s) = Len(u)
<1>3. Len(t) = Len(v)
  BY <1>1, <1>2
<1>4. s = u
  <2>1. \A i \in 1 .. Len(s) : s[i] = u[i]
    BY <1>1, <1>2
  <2> QED BY <2>1, SeqEqual
<1>5. t = v
  <2>1. \A i \in 1 .. Len(t) : t[i] = v[i]
    BY <1>1, <1>2, <1>3
  <2> QED BY <2>1, <1>3, SeqEqual
<1> QED BY <1>4, <1>5

(* The first elements of a sequence that can be cut in two ways *)
LEMMA FirstOfCut ==
    ASSUME NEW S, NEW s \in Seq(S), NEW t \in Seq(S), NEW u \in Seq(S), NEW v \in Seq(S),
           s \o t = u \o v, Len(s) <= Len(u)
    PROVE  \A i \in 1 .. Len(s) : s[i] = u[i]
<1>1. Len(s) \in Nat /\ Len(u) \in Nat
  BY Joined
<1>2. \A i \in 1 .. Len(s) : i \in 1 .. Len(u)
  BY <1>1
<1> QED BY <1>2, Joined

(* A sequence is what is before a place and what is behind it *)
LEMMA CutAt ==
    ASSUME NEW S, NEW s \in Seq(S), NEW n \in 0 .. Len(s)
    PROVE  /\ SubSeq(s, 1, n) \in Seq(S) /\ Len(SubSeq(s, 1, n)) = n
           /\ SubSeq(s, n + 1, Len(s)) \in Seq(S)
           /\ Len(SubSeq(s, n + 1, Len(s))) = Len(s) - n
           /\ s = SubSeq(s, 1, n) \o SubSeq(s, n + 1, Len(s))
           /\ \A i \in 1 .. Len(s) - n : SubSeq(s, n + 1, Len(s))[i] = s[n + i]
<1>1. Len(s) \in Nat /\ \A i \in 1 .. Len(s) : s[i] \in S
  BY LenProperties, ElementOfSeq
<1>2. /\ SubSeq(s, 1, n) \in Seq(S)
      /\ Len(SubSeq(s, 1, n)) = n
  <2>1. \A i \in 1 .. n : s[i] \in S
    BY <1>1
  <2> QED BY <2>1, <1>1, SubSeqProperties
<1>3. /\ SubSeq(s, n + 1, Len(s)) \in Seq(S)
      /\ Len(SubSeq(s, n + 1, Len(s))) = Len(s) - n
      /\ \A i \in 1 .. Len(s) - n : SubSeq(s, n + 1, Len(s))[i] = s[n + i]
  <2>1. n + 1 \in Int /\ Len(s) \in Int /\ \A i \in n + 1 .. Len(s) : s[i] \in S
    BY <1>1
  <2>2. /\ SubSeq(s, n + 1, Len(s)) \in Seq(S)
        /\ Len(SubSeq(s, n + 1, Len(s)))
              = IF n + 1 <= Len(s) THEN Len(s) - (n + 1) + 1 ELSE 0
        /\ \A i \in 1 .. Len(s) - (n + 1) + 1 :
              SubSeq(s, n + 1, Len(s))[i] = s[(n + 1) + i - 1]
    BY <2>1, SubSeqProperties
  <2>3. \A i \in 1 .. Len(s) - n : i \in 1 .. Len(s) - (n + 1) + 1 /\ (n + 1) + i - 1 = n + i
    BY <1>1
  <2> QED BY <2>2, <2>3, <1>1
<1>4. SubSeq(s, 1, n) \o SubSeq(s, n + 1, Len(s)) = SubSeq(s, 1, Len(s))
  <2>1. 1 \in 1 .. Len(s) + 1 /\ n \in 1 - 1 .. Len(s) /\ Len(s) \in n .. Len(s)
    BY <1>1
  <2> QED BY <2>1, ConcatAdjacentSubSeq
<1>5. SubSeq(s, 1, Len(s)) = s
  BY SubSeqFull
<1> QED BY <1>2, <1>3, <1>4, <1>5

----------------------------------------------------------------------------
(* Blocks as bytes *)

LEMMA ConstantFacts ==
    /\ HeaderSize \in Nat /\ HeaderSize > 0 /\ WireSize \in Nat /\ BigBuffer \in Nat
    /\ MaxBlocks \in Nat
    /\ \A b \in Blocks : /\ b.length \in Lengths /\ b.length \in Nat /\ b.length > 0
                         /\ Whole(b) \in Nat /\ Whole(b) = HeaderSize + b.length
    /\ \A b \in Blocks, i \in Nat : [block |-> b, at |-> i] \in Bytes
    /\ \A b \in Bytes : b.block \in Blocks
<1>1. /\ HeaderSize \in Nat /\ HeaderSize > 0 /\ WireSize \in Nat /\ BigBuffer \in Nat
      /\ MaxBlocks \in Nat /\ \A n \in Lengths : n \in Nat /\ n > 0
  BY ConstantsAssumption
<1>2. \A b \in Blocks : b.length \in Lengths
  BY DEF Blocks
<1>3. \A b \in Blocks : /\ b.length \in Nat /\ b.length > 0
                        /\ Whole(b) \in Nat /\ Whole(b) = HeaderSize + b.length
  BY <1>1, <1>2 DEF Whole
<1>4. /\ \A b \in Blocks, i \in Nat : [block |-> b, at |-> i] \in Bytes
      /\ \A b \in Bytes : b.block \in Blocks
  BY DEF Bytes
<1> QED BY <1>1, <1>2, <1>3, <1>4

LEMMA EncodeIs ==
    ASSUME NEW b \in Blocks
    PROVE  /\ Encode(b) \in Seq(Bytes)
           /\ Len(Encode(b)) = HeaderSize + b.length
           /\ \A i \in 1 .. HeaderSize + b.length : Encode(b)[i] = [block |-> b, at |-> i]
<1>1. Whole(b) \in Nat /\ Whole(b) = HeaderSize + b.length
  BY ConstantFacts
<1>2. Encode(b) = [i \in 1 .. Whole(b) |-> [block |-> b, at |-> i]]
  BY DEF Encode
<1>3. \A i \in 1 .. Whole(b) : [block |-> b, at |-> i] \in Bytes
  BY ConstantFacts
<1>4. Encode(b) \in [1 .. Whole(b) -> Bytes]
  BY <1>2, <1>3
<1>5. Encode(b) \in Seq(Bytes) /\ Len(Encode(b)) = Whole(b)
  BY <1>1, <1>4, LenProperties
<1> QED BY <1>1, <1>2, <1>5

LEMMA FlattenIs ==
    ASSUME NEW ss
    PROVE  FlattenSeq(ss) =
             IF Len(ss) = 0 THEN ss
             ELSE (CHOOSE g : g = [i \in 1 .. Len(ss) |->
                                     IF i = 1 THEN ss[i] ELSE g[i - 1] \o ss[i]])[Len(ss)]
BY Zenon DEF FlattenSeq

(* The first i blocks as bytes *)
FirstBytes(q, f) ==
    /\ f \in [0 .. Len(q) -> Seq(Bytes)]
    /\ f[0] = <<>>
    /\ \A i \in 1 .. Len(q) : f[i] = f[i - 1] \o Encode(q[i])

(* There is such a function: otherwise there is a first number of blocks *)
(* for which there is none                                               *)
LEMMA FirstBytesExist ==
    ASSUME NEW q \in Seq(Blocks)
    PROVE  \E f : FirstBytes(q, f)
<1> DEFINE N == Len(q)
           Upto(n, f) == /\ f \in [0 .. n -> Seq(Bytes)]
                         /\ f[0] = <<>>
                         /\ \A i \in 1 .. n : f[i] = f[i - 1] \o Encode(q[i])
           None == {n \in 0 .. N : ~\E f : Upto(n, f)}
<1>1. N \in Nat /\ \A i \in 1 .. N : q[i] \in Blocks /\ Encode(q[i]) \in Seq(Bytes)
  BY LenProperties, ElementOfSeq, EncodeIs
<1>2. 0 \notin None
  <2>1. Upto(0, [i \in 0 .. 0 |-> <<>>])
    BY EmptySeq
  <2> QED BY <2>1
<1>3. ASSUME NEW n \in None, n > 0 PROVE n - 1 \in None
  <2>1. n - 1 \in 0 .. N /\ n \in 1 .. N
    BY <1>1, <1>3
  <2> SUFFICES ASSUME NEW f, Upto(n - 1, f) PROVE FALSE
    BY <2>1
  <2> DEFINE g == [i \in 0 .. n |-> IF i = n THEN f[n - 1] \o Encode(q[n]) ELSE f[i]]
  <2>2. /\ f \in [0 .. n - 1 -> Seq(Bytes)] /\ f[0] = <<>>
        /\ \A i \in 1 .. n - 1 : f[i] = f[i - 1] \o Encode(q[i])
    OBVIOUS
  <2>3. f[n - 1] \in Seq(Bytes) /\ f[n - 1] \o Encode(q[n]) \in Seq(Bytes)
    BY <2>1, <2>2, <1>1, ConcatProperties
  <2>4. \A i \in 0 .. n : i # n => i \in 0 .. n - 1 /\ f[i] \in Seq(Bytes)
    BY <2>1, <2>2, <1>1
  <2>5. g \in [0 .. n -> Seq(Bytes)]
    BY <2>3, <2>4
  <2>6. g[0] = <<>>
    BY <2>1, <2>2, <1>1
  <2>7. ASSUME NEW i \in 1 .. n PROVE g[i] = g[i - 1] \o Encode(q[i])
    <3>1. i - 1 \in 0 .. n /\ i - 1 # n /\ i \in 0 .. n /\ g[i - 1] = f[i - 1]
      BY <2>1, <1>1
    <3>2. CASE i = n
      BY <3>1, <3>2
    <3>3. CASE i # n
      <4>1. i \in 1 .. n - 1 /\ g[i] = f[i]
        BY <3>1, <3>3, <2>1, <1>1
      <4> QED BY <4>1, <3>1, <2>2
    <3> QED BY <3>2, <3>3
  <2>8. Upto(n, g)
    BY <2>5, <2>6, <2>7
  <2> QED BY <2>8
<1>4. None = {}
  <2>1. None \in SUBSET (0 .. N) /\ \A i \in None : i > 0 => i - 1 \in None
    BY <1>3
  <2> HIDE DEF None, N
  <2> QED BY <2>1, <1>1, <1>2, NoFirst
<1>5. N \in 0 .. N
  BY <1>1
<1>6. \E f : Upto(N, f)
  BY <1>4, <1>5
<1> QED BY <1>6 DEF FirstBytes

(* What FlattenSeq makes of the blocks *)
LEMMA EncodeAllIs ==
    ASSUME NEW q \in Seq(Blocks), NEW f, FirstBytes(q, f)
    PROVE  EncodeAll(q) = f[Len(q)]
<1> DEFINE N == Len(q)
           ss == [i \in 1 .. N |-> Encode(q[i])]
           F(g) == g = [i \in 1 .. Len(ss) |-> IF i = 1 THEN ss[i] ELSE g[i - 1] \o ss[i]]
           h == CHOOSE g : F(g)
<1>1. N \in Nat /\ \A i \in 1 .. N : q[i] \in Blocks /\ Encode(q[i]) \in Seq(Bytes)
  BY LenProperties, ElementOfSeq, EncodeIs
<1>2. Len(ss) = N /\ ss \in Seq(Seq(Bytes))
  <2>1. ss \in [1 .. N -> Seq(Bytes)]
    BY <1>1
  <2> HIDE DEF ss, N
  <2> QED BY <1>1, <2>1, LenProperties
<1>3. EncodeAll(q) = IF N = 0 THEN ss ELSE h[N]
  <2>1. EncodeAll(q) = FlattenSeq(ss)
    BY DEF EncodeAll
  <2> HIDE DEF ss
  <2> QED BY <2>1, <1>2, FlattenIs
<1>4. /\ f \in [0 .. N -> Seq(Bytes)] /\ f[0] = <<>>
      /\ \A i \in 1 .. N : f[i] = f[i - 1] \o Encode(q[i])
  BY DEF FirstBytes
<1>5. CASE N = 0
  <2>1. ss = <<>>
    BY <1>2, <1>5, EmptySeq
  <2> QED BY <2>1, <1>3, <1>4, <1>5
<1>6. CASE N > 0
  <2> DEFINE r == [i \in 1 .. N |-> f[i]]
  <2>1. F(r)
    <3>1. ASSUME NEW i \in 1 .. N
          PROVE  r[i] = IF i = 1 THEN ss[i] ELSE r[i - 1] \o ss[i]
      <4>1. CASE i = 1
        <5>1. f[1] = <<>> \o Encode(q[1])
          <6>1. 1 \in 1 .. N /\ 1 - 1 = 0
            BY <1>1, <1>6
          <6>2. f[1] = f[1 - 1] \o Encode(q[1])
            BY <6>1, <1>4
          <6> QED BY <6>1, <6>2, <1>4
        <5>2. Encode(q[1]) \in Seq(Bytes)
          BY <1>1, <1>6
        <5> QED BY <5>1, <5>2, <4>1, ConcatEmptySeq
      <4>2. CASE i # 1
        <5>1. i - 1 \in 1 .. N
          BY <1>1, <4>2
        <5> QED BY <5>1, <4>2, <1>4
      <4> QED BY <4>1, <4>2
    <3> QED BY <3>1, <1>2, <1>1
  <2>2. F(h)
    BY <2>1
  <2> HIDE DEF h
  <2> DEFINE Wrong == {i \in 1 .. N : h[i] # f[i]}
  <2>3. \A i \in 1 .. N : h[i] = IF i = 1 THEN ss[i] ELSE h[i - 1] \o ss[i]
    BY <2>2, <1>2
  <2>4. \A i \in 1 .. N : r[i] = IF i = 1 THEN ss[i] ELSE r[i - 1] \o ss[i]
    BY <2>1, <1>2
  <2>5. 1 \notin Wrong
    BY <2>3, <2>4, <1>1, <1>6
  <2>6. \A i \in Wrong : i > 1 => i - 1 \in Wrong
    <3> SUFFICES ASSUME NEW i \in 1 .. N, h[i] # f[i], i > 1, h[i - 1] = f[i - 1] PROVE FALSE
      BY <1>1
    <3>1. i - 1 \in 1 .. N /\ i # 1
      BY <1>1
    <3>2. h[i] = h[i - 1] \o ss[i] /\ f[i] = f[i - 1] \o ss[i]
      BY <3>1, <2>3, <1>4
    <3> QED BY <3>2
  <2>7. Wrong = {}
    <3>1. Wrong \in SUBSET (1 .. N) /\ 1 \in Nat
      OBVIOUS
    <3> HIDE DEF Wrong, N
    <3> QED BY <3>1, <2>5, <2>6, <1>1, NoFirst
  <2>8. N \in 1 .. N
    BY <1>1, <1>6
  <2> QED BY <2>7, <2>8, <1>3, <1>6
<1> QED BY <1>1, <1>5, <1>6

(* No blocks, no bytes; one block more at the end *)
LEMMA EncodeNone == EncodeAll(<<>>) = <<>>
<1>1. <<>> \in Seq(Blocks) /\ Len(<<>>) = 0 /\ <<>> \in Seq(Bytes)
  BY EmptySeq
<1>2. PICK f : FirstBytes(<<>>, f)
  BY <1>1, FirstBytesExist
<1>3. EncodeAll(<<>>) = f[Len(<<>>)]
  BY <1>1, <1>2, EncodeAllIs
<1> QED BY <1>1, <1>2, <1>3 DEF FirstBytes

LEMMA EncodeTyped ==
    ASSUME NEW q \in Seq(Blocks)
    PROVE  EncodeAll(q) \in Seq(Bytes)
<1>1. PICK f : FirstBytes(q, f)
  BY FirstBytesExist
<1>2. EncodeAll(q) = f[Len(q)]
  BY <1>1, EncodeAllIs
<1>3. Len(q) \in 0 .. Len(q)
  BY LenProperties
<1> QED BY <1>1, <1>2, <1>3 DEF FirstBytes

LEMMA EncodeMore ==
    ASSUME NEW q \in Seq(Blocks), NEW b \in Blocks
    PROVE  EncodeAll(Append(q, b)) = EncodeAll(q) \o Encode(b)
<1> DEFINE r == Append(q, b)
           n == Len(q)
<1>1. /\ r \in Seq(Blocks) /\ Len(r) = n + 1 /\ n \in Nat
      /\ \A i \in 1 .. n : r[i] = q[i]
      /\ r[n + 1] = b
  BY AppendProperties, LenProperties
<1> HIDE DEF r
<1>2. PICK f : FirstBytes(r, f)
  BY <1>1, FirstBytesExist
<1>3. /\ f \in [0 .. n + 1 -> Seq(Bytes)] /\ f[0] = <<>>
      /\ \A i \in 1 .. n + 1 : f[i] = f[i - 1] \o Encode(r[i])
  BY <1>1, <1>2 DEF FirstBytes
<1> DEFINE g == [i \in 0 .. n |-> f[i]]
<1>4. FirstBytes(q, g)
  <2>1. g \in [0 .. n -> Seq(Bytes)] /\ g[0] = <<>>
    BY <1>1, <1>3
  <2>2. ASSUME NEW i \in 1 .. n PROVE g[i] = g[i - 1] \o Encode(q[i])
    <3>1. i \in 1 .. n + 1 /\ i \in 0 .. n /\ i - 1 \in 0 .. n
      BY <1>1
    <3> QED BY <3>1, <1>1, <1>3
  <2> QED BY <2>1, <2>2 DEF FirstBytes
<1>5. EncodeAll(r) = f[n + 1] /\ EncodeAll(q) = g[n] /\ n \in 0 .. n
  <2> HIDE DEF g
  <2> QED BY <1>1, <1>2, <1>4, EncodeAllIs
<1>6. f[n + 1] = f[n] \o Encode(b)
  <2>1. n + 1 \in 1 .. n + 1 /\ (n + 1) - 1 = n
    BY <1>1
  <2>2. f[n + 1] = f[(n + 1) - 1] \o Encode(r[n + 1])
    BY <2>1, <1>3
  <2> QED BY <2>1, <2>2, <1>1
<1> QED BY <1>5, <1>6 DEF r

(* The bytes of blocks begin with those of the first one *)
LEMMA EncodeFirst ==
    ASSUME NEW q \in Seq(Blocks), q # <<>>
    PROVE  /\ q[1] \in Blocks /\ Tail(q) \in Seq(Blocks)
           /\ EncodeAll(q) = Encode(q[1]) \o EncodeAll(Tail(q))
<1> DEFINE r == Tail(q)
           n == Len(q)
           first == Encode(q[1])
<1>1. /\ n \in Nat /\ n > 0 /\ r \in Seq(Blocks) /\ Len(r) = n - 1
      /\ \A i \in 1 .. n - 1 : r[i] = q[i + 1]
      /\ \A i \in 1 .. n : q[i] \in Blocks /\ Encode(q[i]) \in Seq(Bytes)
  BY HeadTailProperties, LenProperties, EmptySeq, ElementOfSeq, EncodeIs
<1>2. q[1] \in Blocks /\ first \in Seq(Bytes)
  BY <1>1
<1> HIDE DEF r, first
<1>3. PICK f : FirstBytes(q, f)
  BY FirstBytesExist
<1>4. PICK g : FirstBytes(r, g)
  BY <1>1, FirstBytesExist
<1>5. /\ f \in [0 .. n -> Seq(Bytes)] /\ f[0] = <<>>
      /\ \A i \in 1 .. n : f[i] = f[i - 1] \o Encode(q[i])
  BY <1>3 DEF FirstBytes
<1>6. /\ g \in [0 .. n - 1 -> Seq(Bytes)] /\ g[0] = <<>>
      /\ \A i \in 1 .. n - 1 : g[i] = g[i - 1] \o Encode(r[i])
  BY <1>1, <1>4 DEF FirstBytes
<1> DEFINE Wrong == {i \in 1 .. n : f[i] # first \o g[i - 1]}
<1>7. 1 \notin Wrong
  <2>1. 1 \in 1 .. n /\ 1 - 1 = 0
    BY <1>1
  <2>2. f[1] = f[1 - 1] \o Encode(q[1])
    BY <2>1, <1>5
  <2>3. f[1] = <<>> \o first
    BY <2>1, <2>2, <1>5 DEF first
  <2>4. f[1] = first \o g[0]
    BY <2>3, <1>2, <1>6, ConcatEmptySeq
  <2> QED BY <2>1, <2>4
<1>8. ASSUME NEW i \in 1 .. n, i > 1, f[i - 1] = first \o g[i - 1 - 1]
      PROVE  f[i] = first \o g[i - 1]
  <2>1. /\ i - 1 \in 1 .. n - 1 /\ i - 1 - 1 \in 0 .. n - 1 /\ (i - 1) + 1 = i
    BY <1>1, <1>8
  <2>2. r[i - 1] = q[i]
    BY <2>1, <1>1
  <2>3. g[i - 1] = g[i - 1 - 1] \o Encode(q[i])
    BY <2>1, <2>2, <1>6
  <2>4. f[i] = (first \o g[i - 1 - 1]) \o Encode(q[i])
    BY <1>5, <1>8
  <2>5. g[i - 1 - 1] \in Seq(Bytes) /\ Encode(q[i]) \in Seq(Bytes)
    BY <2>1, <1>1, <1>6
  <2>6. (first \o g[i - 1 - 1]) \o Encode(q[i]) = first \o (g[i - 1 - 1] \o Encode(q[i]))
    <3> DEFINE a == g[i - 1 - 1]
               c == Encode(q[i])
    <3>1. a \in Seq(Bytes) /\ c \in Seq(Bytes)
      BY <2>5
    <3> HIDE DEF a, c
    <3>2. (first \o a) \o c = first \o (a \o c)
      BY <3>1, <1>2, BytesAssociate
    <3> QED BY <3>2 DEF a, c
  <2> QED BY <2>3, <2>4, <2>6
<1>9. Wrong = {}
  <2>1. Wrong \in SUBSET (1 .. n) /\ 1 \in Nat
    OBVIOUS
  <2>2. ASSUME NEW i \in Wrong, i > 1 PROVE i - 1 \in Wrong
    <3>1. i \in 1 .. n /\ i - 1 \in 1 .. n /\ f[i] # first \o g[i - 1]
      BY <1>1, <2>2
    <3>2. f[i - 1] # first \o g[i - 1 - 1]
      BY <3>1, <2>2, <1>8
    <3> QED BY <3>1, <3>2
  <2> HIDE DEF Wrong, n
  <2> QED BY <2>1, <2>2, <1>1, <1>7, NoFirst
<1>10. f[n] = first \o g[n - 1]
  <2>1. n \in 1 .. n
    BY <1>1
  <2> QED BY <2>1, <1>9
<1>11. EncodeAll(q) = f[n] /\ EncodeAll(r) = g[n - 1]
  BY <1>1, <1>3, <1>4, EncodeAllIs
<1> QED BY <1>1, <1>2, <1>10, <1>11 DEF r, first

----------------------------------------------------------------------------
(* The sender *)

(* What flush() has left in its buffer *)
Unsent(buf, from) == SubSeq(buf, from + 1, Len(buf))

LEMMA MinOfTwo ==
    ASSUME NEW a \in Nat, NEW b \in Nat
    PROVE  /\ Min({a, b}) \in Nat /\ Min({a, b}) <= a /\ Min({a, b}) <= b
           /\ Min({a, b}) = a \/ Min({a, b}) = b
<1>1. \E x \in {a, b} : \A y \in {a, b} : x =< y
  BY Z3
<1>2. Min({a, b}) \in {a, b} /\ \A y \in {a, b} : Min({a, b}) =< y
  BY <1>1, Zenon DEF Min
<1> QED BY <1>2

LEMMA UnsentOf ==
    ASSUME NEW buf \in Seq(Bytes), NEW from \in 0 .. Len(buf), NEW more \in Seq(Bytes)
    PROVE  /\ Unsent(buf, from) \in Seq(Bytes)
           /\ Len(Unsent(buf, from)) = Len(buf) - from
           /\ buf \o more \in Seq(Bytes) /\ from \in 0 .. Len(buf \o more)
           /\ Unsent(buf \o more, from) = Unsent(buf, from) \o more
<1> DEFINE all == buf \o more
           before == SubSeq(buf, 1, from)
<1>1. /\ Len(buf) \in Nat /\ Len(more) \in Nat
      /\ all \in Seq(Bytes) /\ Len(all) = Len(buf) + Len(more)
  BY Joined
<1>2. from \in 0 .. Len(all)
  BY <1>1
<1>3. /\ before \in Seq(Bytes) /\ Len(before) = from
      /\ Unsent(buf, from) \in Seq(Bytes) /\ Len(Unsent(buf, from)) = Len(buf) - from
      /\ buf = before \o Unsent(buf, from)
  <2> DEFINE u == SubSeq(buf, from + 1, Len(buf))
  <2>1. /\ before \in Seq(Bytes) /\ Len(before) = from
        /\ u \in Seq(Bytes) /\ Len(u) = Len(buf) - from
        /\ buf = before \o u
    <3>1. before \in Seq(Bytes) /\ Len(before) = from
      BY CutAt
    <3>2. u \in Seq(Bytes) /\ Len(u) = Len(buf) - from
      BY CutAt
    <3>3. buf = SubSeq(buf, 1, from) \o SubSeq(buf, from + 1, Len(buf))
      BY CutAt
    <3> QED BY <3>1, <3>2, <3>3
  <2>2. Unsent(buf, from) = u
    BY DEF Unsent
  <2> HIDE DEF u, before
  <2> QED BY <2>1, <2>2
<1> HIDE DEF before
<1>4. all = before \o (Unsent(buf, from) \o more)
  <2>1. all = (before \o Unsent(buf, from)) \o more
    BY <1>3
  <2> HIDE DEF all
  <2>2. (before \o Unsent(buf, from)) \o more = before \o (Unsent(buf, from) \o more)
    BY <1>3, BytesAssociate
  <2> QED BY <2>1, <2>2
<1> HIDE DEF all
<1>5. /\ SubSeq(all, 1, from) \in Seq(Bytes) /\ Len(SubSeq(all, 1, from)) = from
      /\ Unsent(all, from) \in Seq(Bytes)
      /\ all = SubSeq(all, 1, from) \o Unsent(all, from)
  BY <1>1, <1>2, CutAt DEF Unsent
<1>6. Unsent(buf, from) \o more \in Seq(Bytes)
  BY <1>3, ConcatProperties
<1>7. Unsent(all, from) = Unsent(buf, from) \o more
  <2> DEFINE s == SubSeq(all, 1, from)
             t == Unsent(all, from)
             v == Unsent(buf, from) \o more
  <2>1. s \in Seq(Bytes) /\ t \in Seq(Bytes) /\ v \in Seq(Bytes) /\ before \in Seq(Bytes)
    BY <1>3, <1>5, <1>6
  <2>2. s \o t = before \o v /\ Len(s) = Len(before)
    BY <1>3, <1>4, <1>5
  <2> HIDE DEF s, t, v
  <2>3. t = v
    BY <2>1, <2>2, SameCut
  <2> QED BY <2>3 DEF t, v
<1> QED BY <1>1, <1>2, <1>3, <1>7 DEF all

(* Whatever send() takes, the wire and what is left make the same bytes *)
LEMMA SentKeeps ==
    ASSUME NEW buf \in Seq(Bytes), NEW from \in 0 .. Len(buf),
           wire \in Seq(Bytes), Len(wire) <= WireSize,
           Sent(buf, from, Min({WireSize - Len(wire), Len(buf) - from}))
    PROVE  /\ wire' \in Seq(Bytes) /\ Len(wire') <= WireSize
           /\ ready' \in Seq(Bytes) /\ index' \in 0 .. Len(ready')
           /\ wire' \o Unsent(ready', index') = wire \o Unsent(buf, from)
<1> DEFINE n == Min({WireSize - Len(wire), Len(buf) - from})
           end == from + n
           rest == SubSeq(buf, end + 1, Len(buf))
<1>1. /\ Len(wire) \in Nat /\ Len(buf) \in Nat /\ WireSize \in Nat /\ from \in Nat
      /\ WireSize - Len(wire) \in Nat /\ Len(buf) - from \in Nat
  BY LenProperties, ConstantFacts
<1>2. n \in Nat /\ n <= WireSize - Len(wire) /\ n <= Len(buf) - from
  BY <1>1, MinOfTwo
<1> HIDE DEF n
<1>3. end \in 0 .. Len(buf) /\ end \in Nat
  BY <1>1, <1>2
<1>4. /\ wire' = wire \o Took(n, buf, from)
      /\ \/ end = Len(buf) /\ ready' = <<>> /\ index' = 0
         \/ ready' = rest /\ index' = 0
         \/ ready' = buf /\ index' = end
  BY DEF Sent, n
<1>5. /\ Took(n, buf, from) \in Seq(Bytes) /\ Len(Took(n, buf, from)) = n
  <2>1. /\ from + 1 \in Int /\ from + n \in Int
        /\ \A i \in from + 1 .. from + n : i \in 1 .. Len(buf)
    BY <1>1, <1>2
  <2>2. \A i \in from + 1 .. from + n : buf[i] \in Bytes
    BY <2>1, ElementOfSeq
  <2>3. /\ SubSeq(buf, from + 1, from + n) \in Seq(Bytes)
        /\ Len(SubSeq(buf, from + 1, from + n))
             = IF from + 1 <= from + n THEN (from + n) - (from + 1) + 1 ELSE 0
    BY <2>1, <2>2, SubSeqProperties
  <2> QED BY <2>3, <1>1, <1>2 DEF Took
<1>6. rest \in Seq(Bytes) /\ Len(rest) \in Nat
  BY <1>3, CutAt, LenProperties
<1>7. Took(n, buf, from) \o rest = Unsent(buf, from)
  <2>1. from + 1 \in 1 .. Len(buf) + 1 /\ end \in (from + 1) - 1 .. Len(buf) /\ Len(buf) \in end .. Len(buf)
    BY <1>1, <1>2
  <2> QED BY <2>1, ConcatAdjacentSubSeq DEF Took, Unsent
<1>8. wire' \in Seq(Bytes) /\ Len(wire') <= WireSize
  <2>1. wire' \in Seq(Bytes) /\ Len(wire') = Len(wire) + n
    BY <1>4, <1>5, ConcatProperties
  <2> QED BY <2>1, <1>1, <1>2
<1>9. ready' \in Seq(Bytes) /\ index' \in 0 .. Len(ready')
  <2>1. <<>> \in Seq(Bytes) /\ Len(<<>>) = 0
    BY EmptySeq
  <2> HIDE DEF rest, end
  <2>2. CASE ready' = <<>> /\ index' = 0
    BY <2>1, <2>2
  <2>3. CASE ready' = rest /\ index' = 0
    BY <2>3, <1>6
  <2>4. CASE ready' = buf /\ index' = end
    BY <2>4, <1>3
  <2> QED BY <2>2, <2>3, <2>4, <1>4
<1>10. Unsent(ready', index') = rest
  <2>1. CASE end = Len(buf) /\ ready' = <<>> /\ index' = 0
    <3>1. Len(<<>>) = 0
      BY EmptySeq
    <3>2. SubSeq(<<>>, 1, 0) = <<>>
      BY SubSeqEmpty
    <3>3. rest = <<>>
      BY <2>1, <1>1, SubSeqEmpty
    <3> HIDE DEF rest, end
    <3> QED BY <2>1, <3>1, <3>2, <3>3 DEF Unsent
  <2>2. CASE ready' = rest /\ index' = 0
    <3> HIDE DEF rest
    <3>1. SubSeq(rest, 1, Len(rest)) = rest
      BY <1>6, SubSeqFull
    <3> QED BY <2>2, <3>1 DEF Unsent
  <2>3. CASE ready' = buf /\ index' = end
    BY <2>3 DEF Unsent
  <2> QED BY <1>4, <2>1, <2>2, <2>3
<1>11. wire' \o rest = wire \o Unsent(buf, from)
  <2> HIDE DEF rest
  <2>1. wire' \o rest = (wire \o Took(n, buf, from)) \o rest
    BY <1>4
  <2>2. (wire \o Took(n, buf, from)) \o rest = wire \o (Took(n, buf, from) \o rest)
    BY <1>5, <1>6, BytesAssociate
  <2> QED BY <2>1, <2>2, <1>7
<1> QED BY <1>8, <1>9, <1>10, <1>11

(* What flush() and update() may do, with fifo as the send queue: no byte   *)
(* is lost unless the send fails, and it fails only once the peer is gone   *)
SenderKeeps(fifo) ==
    /\ sendFifo' \in Seq(Blocks)
    /\ ready' \in Seq(Bytes) /\ index' \in 0 .. Len(ready')
    /\ wire' \in Seq(Bytes) /\ Len(wire') <= WireSize
    /\ error' \in BOOLEAN /\ (error => error') /\ (error' => error \/ ~rcv.connected)
    /\ ~error' => wire' \o (Unsent(ready', index') \o EncodeAll(sendFifo'))
                    = wire \o (Unsent(ready, index) \o EncodeAll(fifo))

LEMMA FlushKeeps ==
    ASSUME TypeOK, NEW fifo \in Seq(Blocks), NEW ok \in BOOLEAN, Flush(fifo, ok)
    PROVE  SenderKeeps(fifo)
<1> DEFINE buf == ready \o EncodeAll(fifo)
           from == index
           n == Min({WireSize - Len(wire), Len(buf) - index})
<1>1. /\ ready \in Seq(Bytes) /\ index \in 0 .. Len(ready) /\ error \in BOOLEAN
      /\ wire \in Seq(Bytes) /\ Len(wire) <= WireSize
  BY DEF TypeOK
<1>2. EncodeAll(fifo) \in Seq(Bytes)
  BY EncodeTyped
<1>3. /\ buf \in Seq(Bytes) /\ index \in 0 .. Len(buf)
      /\ Unsent(buf, index) = Unsent(ready, index) \o EncodeAll(fifo)
      /\ Unsent(ready, index) \in Seq(Bytes)
  BY <1>1, <1>2, UnsentOf
<1>4. /\ <<>> \in Seq(Blocks) /\ <<>> \in Seq(Bytes) /\ Len(<<>>) = 0
      /\ sendFifo' = <<>> /\ EncodeAll(sendFifo') = <<>>
  BY EmptySeq, EncodeNone DEF Flush
<1>5. CASE buf = <<>> /\ UNCHANGED <<ready, index, wire, error>>
  <2>1. ready = <<>> /\ EncodeAll(fifo) = <<>>
    BY <1>1, <1>2, <1>5, ConcatEqualIffEmpty
  <2> QED BY <2>1, <1>1, <1>4, <1>5 DEF SenderKeeps
<1>6. CASE ~error /\ Sent(buf, index, n) /\ UNCHANGED error
  <2> HIDE DEF buf
  <2>1. /\ wire' \in Seq(Bytes) /\ Len(wire') <= WireSize
        /\ ready' \in Seq(Bytes) /\ index' \in 0 .. Len(ready')
        /\ wire' \o Unsent(ready', index') = wire \o Unsent(buf, index)
    BY <1>1, <1>3, <1>6, SentKeeps
  <2>2. Unsent(ready', index') \in Seq(Bytes)
    BY <2>1, CutAt DEF Unsent
  <2>3. Unsent(ready', index') \o EncodeAll(sendFifo') = Unsent(ready', index')
    BY <2>2, <1>4, ConcatEmptySeq
  <2> QED BY <2>1, <2>3, <1>1, <1>3, <1>4, <1>6 DEF SenderKeeps
<1>7. CASE /\ ~ok /\ ~rcv.connected
           /\ ready' = <<>> /\ index' = 0
           /\ error' = TRUE
           /\ UNCHANGED wire
  BY <1>1, <1>4, <1>7 DEF SenderKeeps
<1> QED BY <1>5, <1>6, <1>7 DEF Flush

LEMMA UpdateKeeps ==
    ASSUME TypeOK, NEW fifo \in Seq(Blocks), UpdateWith(fifo)
    PROVE  SenderKeeps(fifo) /\ due' \in BOOLEAN
<1>1. CASE \E ok \in BOOLEAN : Flush(fifo, ok) /\ due' = ~ok
  BY <1>1, FlushKeeps
<1>2. CASE \E ok \in BOOLEAN : Flush(fifo, ok) /\ UNCHANGED due
  BY <1>2, FlushKeeps DEF TypeOK
<1>3. CASE sendFifo' = fifo /\ UNCHANGED <<ready, index, due, error, wire>>
  BY <1>3 DEF SenderKeeps, TypeOK
<1> QED BY <1>1, <1>2, <1>3 DEF UpdateWith

----------------------------------------------------------------------------
(* The invariant *)

(* The bytes received of the first block that is still to be received, and *)
(* those behind them                                                       *)
LengthRead == IF rcv.reading THEN Took(HeaderSize, Encode(Pending[1]), 0) ELSE <<>>
Begun == LengthRead \o rcv.got
Behind == wire \o (Unsent(ready, index) \o EncodeAll(sendFifo))

(* A part is never complete between two calls of receivePart *)
PartIsPart ==
    rcv.connected => Len(rcv.got) < (IF rcv.reading THEN rcv.length ELSE HeaderSize)

SockInv ==
    /\ TypeOK
    /\ error => ~rcv.connected
    /\ Len(received) <= Len(sent)
    /\ PartIsPart
    /\ StreamIsWhole

LEMMA PendingIs ==
    ASSUME TypeOK, Len(received) <= Len(sent)
    PROVE  /\ Pending \in Seq(Blocks)
           /\ Len(Pending) = Len(sent) - Len(received)
           /\ \A i \in 1 .. Len(Pending) : Pending[i] = sent[Len(received) + i]
           /\ Len(sent) \in Nat /\ Len(received) \in Nat
<1>1. /\ sent \in Seq(Blocks) /\ Len(sent) \in Nat /\ Len(received) \in Nat
      /\ Len(received) \in 0 .. Len(sent)
  BY LenProperties DEF TypeOK
<1>2. /\ Pending \in Seq(Blocks)
      /\ Len(Pending) = Len(sent) - Len(received)
      /\ \A i \in 1 .. Len(sent) - Len(received) : Pending[i] = sent[Len(received) + i]
  BY <1>1, CutAt DEF Pending
<1> QED BY <1>1, <1>2

LEMMA LengthReadIs ==
    ASSUME TypeOK, Len(received) <= Len(sent), rcv.reading => Pending # <<>>
    PROVE  /\ LengthRead \in Seq(Bytes)
           /\ Len(LengthRead) = IF rcv.reading THEN HeaderSize ELSE 0
           /\ rcv.got \in Seq(Bytes) /\ rcv.length \in Nat
           /\ Begun \in Seq(Bytes) /\ Len(Begun) = Len(LengthRead) + Len(rcv.got)
<1>1. /\ rcv.got \in Seq(Bytes) /\ rcv.length \in Nat
      /\ rcv.reading \in BOOLEAN /\ rcv.connected \in BOOLEAN
  BY DEF TypeOK, Receivers
<1>2. CASE rcv.reading
  <2>1. Pending[1] \in Blocks
    BY <1>2, PendingIs, EncodeFirst
  <2> DEFINE e == Encode(Pending[1])
  <2>2. e \in Seq(Bytes) /\ HeaderSize \in 0 .. Len(e)
    BY <2>1, EncodeIs, ConstantFacts
  <2>3. LengthRead = SubSeq(e, 1, HeaderSize)
    BY <1>2, ConstantFacts DEF LengthRead, Took
  <2> HIDE DEF e
  <2>4. LengthRead \in Seq(Bytes) /\ Len(LengthRead) = HeaderSize
    BY <2>2, <2>3, CutAt
  <2> QED BY <2>4, <1>1, <1>2, ConcatProperties DEF Begun
<1>3. CASE ~rcv.reading
  <2>1. LengthRead = <<>>
    BY <1>3 DEF LengthRead
  <2>2. LengthRead \in Seq(Bytes) /\ Len(LengthRead) = 0
    BY <2>1, EmptySeq
  <2> QED BY <2>2, <1>1, <1>3, ConcatProperties DEF Begun
<1> QED BY <1>1, <1>2, <1>3

LEMMA BehindIs ==
    ASSUME TypeOK
    PROVE  /\ wire \in Seq(Bytes) /\ Unsent(ready, index) \in Seq(Bytes)
           /\ EncodeAll(sendFifo) \in Seq(Bytes)
           /\ Unsent(ready, index) \o EncodeAll(sendFifo) \in Seq(Bytes)
           /\ Behind \in Seq(Bytes)
<1>1. /\ wire \in Seq(Bytes) /\ Unsent(ready, index) \in Seq(Bytes)
      /\ EncodeAll(sendFifo) \in Seq(Bytes)
  BY EncodeTyped, CutAt DEF TypeOK, Unsent
<1>2. Unsent(ready, index) \o EncodeAll(sendFifo) \in Seq(Bytes)
  BY <1>1, ConcatProperties
<1> QED BY <1>1, <1>2, ConcatProperties DEF Behind

LEMMA UnderWayIs ==
    ASSUME TypeOK, Begun \in Seq(Bytes)
    PROVE  BytesUnderWay = Begun \o Behind
<1> DEFINE u == Unsent(ready, index)
           e == EncodeAll(sendFifo)
<1>1. wire \in Seq(Bytes) /\ u \in Seq(Bytes) /\ e \in Seq(Bytes)
  BY BehindIs
<1>2. BytesUnderWay = ((Begun \o wire) \o u) \o e
  BY DEF BytesUnderWay, Begun, LengthRead, Unsent
<1>3. Behind = wire \o (u \o e)
  BY DEF Behind
<1> HIDE DEF u, e
<1>4. Begun \o wire \in Seq(Bytes) /\ u \o e \in Seq(Bytes)
  BY <1>1, ConcatProperties
<1>5. ((Begun \o wire) \o u) \o e = (Begun \o wire) \o (u \o e)
  <2> DEFINE d == Begun \o wire
  <2>1. d \in Seq(Bytes) /\ u \in Seq(Bytes) /\ e \in Seq(Bytes)
    BY <1>1, <1>4
  <2> HIDE DEF d
  <2>2. (d \o u) \o e = d \o (u \o e)
    BY <2>1, BytesAssociate
  <2> QED BY <2>2 DEF d
<1>6. (Begun \o wire) \o (u \o e) = Begun \o (wire \o (u \o e))
  <2> DEFINE v == u \o e
  <2>1. v \in Seq(Bytes)
    BY <1>4
  <2> HIDE DEF v
  <2>2. (Begun \o wire) \o v = Begun \o (wire \o v)
    BY <2>1, <1>1, BytesAssociate
  <2> QED BY <2>2 DEF v
<1> QED BY <1>2, <1>3, <1>5, <1>6

LEMMA StreamIs ==
    ASSUME TypeOK, error => ~rcv.connected, Len(received) <= Len(sent), StreamIsWhole,
           rcv.connected
    PROVE  /\ ~Broken
           /\ rcv.reading => Pending # <<>> /\ rcv.length = Pending[1].length
           /\ Begun \in Seq(Bytes)
           /\ Begun \o Behind = EncodeAll(Pending)
<1>1. ~Broken
  BY DEF Broken, TypeOK
<1>2. /\ rcv.reading => Pending # <<>> /\ rcv.length = Pending[1].length
      /\ BytesUnderWay = EncodeAll(Pending)
  BY <1>1 DEF StreamIsWhole
<1>3. Begun \in Seq(Bytes)
  BY <1>2, LengthReadIs
<1> QED BY <1>1, <1>2, <1>3, UnderWayIs

----------------------------------------------------------------------------
(* The steps of the sender *)

LEMMA PendingMore ==
    ASSUME TypeOK, Len(received) <= Len(sent), NEW b \in Blocks,
           sent' = Append(sent, b), UNCHANGED received
    PROVE  /\ sent' \in Seq(Blocks) /\ Len(sent') = Len(sent) + 1
           /\ Pending' = Append(Pending, b)
           /\ Pending # <<>> => Pending' # <<>> /\ Pending'[1] = Pending[1]
<1> DEFINE n == Len(received)
           p == SubSeq(sent', n + 1, Len(sent'))
           q == Append(Pending, b)
<1>1. /\ sent \in Seq(Blocks) /\ received \in Seq(Blocks)
      /\ n \in Nat /\ Len(sent) \in Nat /\ n <= Len(sent)
      /\ Pending \in Seq(Blocks) /\ Len(Pending) = Len(sent) - n
      /\ \A i \in 1 .. Len(sent) - n : Pending[i] = sent[n + i]
  BY PendingIs DEF TypeOK
<1>2. /\ sent' \in Seq(Blocks) /\ Len(sent') = Len(sent) + 1
      /\ \A i \in 1 .. Len(sent) : sent'[i] = sent[i]
      /\ sent'[Len(sent) + 1] = b
  BY <1>1, AppendProperties
<1>3. n \in 0 .. Len(sent')
  BY <1>1, <1>2
<1>4. /\ p \in Seq(Blocks) /\ Len(p) = Len(sent) + 1 - n
      /\ \A i \in 1 .. Len(sent) + 1 - n : p[i] = sent'[n + i]
  BY <1>2, <1>3, CutAt
<1>5. /\ q \in Seq(Blocks) /\ Len(q) = Len(sent) + 1 - n
      /\ \A i \in 1 .. Len(sent) - n : q[i] = Pending[i]
      /\ q[Len(sent) - n + 1] = b
  BY <1>1, AppendProperties
<1>6. Pending' = p
  BY DEF Pending
<1> HIDE DEF p, q, n
<1>7. ASSUME NEW i \in 1 .. Len(sent) + 1 - n PROVE p[i] = q[i]
  <2>1. CASE i \in 1 .. Len(sent) - n
    <3>1. n + i \in 1 .. Len(sent)
      BY <2>1, <1>1
    <3> QED BY <3>1, <2>1, <1>1, <1>2, <1>4, <1>5
  <2>2. CASE i = Len(sent) + 1 - n
    <3>1. n + i = Len(sent) + 1 /\ i = Len(sent) - n + 1
      BY <2>2, <1>1
    <3> QED BY <3>1, <1>2, <1>4, <1>5
  <2> QED BY <2>1, <2>2, <1>1
<1>8. p = q
  BY <1>4, <1>5, <1>7, SeqEqual
<1>9. ASSUME Pending # <<>> PROVE q # <<>> /\ q[1] = Pending[1]
  <2>1. Len(Pending) > 0
    BY <1>1, <1>9, EmptySeq
  <2>2. 1 \in 1 .. Len(sent) - n
    BY <2>1, <1>1
  <2> QED BY <2>2, <1>1, <1>5, AppendProperties DEF q
<1> QED BY <1>2, <1>6, <1>8, <1>9 DEF q

(* Blocks appended to the send queue are appended to what is behind *)
LEMMA PushKeepsStream ==
    ASSUME TypeOK, NEW b \in Blocks, SenderKeeps(Append(sendFifo, b)), ~error'
    PROVE  Behind' = Behind \o Encode(b)
<1> DEFINE u == Unsent(ready, index)
           e == EncodeAll(sendFifo)
           c == Encode(b)
<1>1. wire \in Seq(Bytes) /\ u \in Seq(Bytes) /\ e \in Seq(Bytes) /\ u \o e \in Seq(Bytes)
  BY BehindIs
<1>2. c \in Seq(Bytes)
  BY EncodeIs
<1>3. Behind' = wire \o (u \o EncodeAll(Append(sendFifo, b)))
  BY DEF SenderKeeps, Behind, Unsent
<1>4. EncodeAll(Append(sendFifo, b)) = e \o c
  BY EncodeMore DEF TypeOK
<1>5. Behind = wire \o (u \o e)
  BY DEF Behind
<1> HIDE DEF u, e, c
<1>6. u \o (e \o c) = (u \o e) \o c
  <2>1. u \in Seq(Bytes) /\ e \in Seq(Bytes) /\ c \in Seq(Bytes)
    BY <1>1, <1>2
  <2> QED BY <2>1, BytesAssociate
<1>7. wire \o ((u \o e) \o c) = (wire \o (u \o e)) \o c
  <2> DEFINE v == u \o e
  <2>1. v \in Seq(Bytes) /\ wire \in Seq(Bytes) /\ c \in Seq(Bytes)
    BY <1>1, <1>2
  <2> HIDE DEF v
  <2>2. wire \o (v \o c) = (wire \o v) \o c
    BY <2>1, BytesAssociate
  <2> QED BY <2>2 DEF v
<1> QED BY <1>3, <1>4, <1>5, <1>6, <1>7 DEF c

LEMMA BegunSame ==
    ASSUME UNCHANGED rcv, rcv.reading => Pending'[1] = Pending[1]
    PROVE  Begun' = Begun
BY DEF Begun, LengthRead, Took, Encode, Whole

LEMMA PushInv ==
    ASSUME SockInv, NEW length \in Lengths, PushBuffer(length)
    PROVE  SockInv'
<1> DEFINE b == [num |-> Len(sent) + 1, length |-> length]
<1>1. TypeOK /\ (error => ~rcv.connected) /\ Len(received) <= Len(sent)
      /\ PartIsPart /\ StreamIsWhole
  BY DEF SockInv
<1>2. sendFifo \in Seq(Blocks) /\ Len(sent) \in Nat /\ received \in Seq(Blocks) /\ rcv \in Receivers
  BY <1>1, PendingIs DEF TypeOK
<1>3. b \in Blocks
  BY <1>2, ConstantFacts DEF Blocks, PushBuffer
<1>4. /\ UpdateWith(Append(sendFifo, b))
      /\ sent' = Append(sent, b)
      /\ UNCHANGED <<rcv, received>>
  BY DEF PushBuffer
<1> HIDE DEF b
<1>5. Append(sendFifo, b) \in Seq(Blocks)
  BY <1>2, <1>3, AppendProperties
<1>6. SenderKeeps(Append(sendFifo, b)) /\ due' \in BOOLEAN
  BY <1>1, <1>4, <1>5, UpdateKeeps
<1>7. /\ sent' \in Seq(Blocks) /\ Len(sent') = Len(sent) + 1
      /\ Pending' = Append(Pending, b)
      /\ Pending # <<>> => Pending' # <<>> /\ Pending'[1] = Pending[1]
  BY <1>1, <1>3, <1>4, PendingMore
<1>8. TypeOK'
  BY <1>2, <1>4, <1>6, <1>7 DEF SenderKeeps, TypeOK
<1>9. (error => ~rcv.connected)' /\ (Len(received) <= Len(sent))' /\ PartIsPart'
  <2>1. (error => ~rcv.connected)'
    BY <1>1, <1>4, <1>6 DEF SenderKeeps
  <2>2. Len(received') <= Len(sent')
    <3>1. Len(received) \in Nat
      BY <1>1, PendingIs
    <3> QED BY <3>1, <1>1, <1>2, <1>4, <1>7
  <2> QED BY <2>1, <2>2, <1>1, <1>4 DEF PartIsPart
<1>10. StreamIsWhole'
  <2> SUFFICES ASSUME ~Broken'
               PROVE  /\ rcv.reading' => Pending' # <<>> /\ rcv.length' = Pending'[1].length
                      /\ BytesUnderWay' = EncodeAll(Pending')
    BY DEF StreamIsWhole
  <2>1. rcv.connected /\ ~error'
    BY <1>4 DEF Broken
  <2>2. /\ rcv.reading => Pending # <<>> /\ rcv.length = Pending[1].length
        /\ Begun \in Seq(Bytes)
        /\ Begun \o Behind = EncodeAll(Pending)
    BY <1>1, <2>1, StreamIs
  <2>3. rcv.reading => Pending' # <<>> /\ rcv.length = Pending'[1].length
    BY <2>2, <1>7
  <2>4. Begun' = Begun
    BY <2>2, <1>4, <1>7, BegunSame
  <2>5. Behind' = Behind \o Encode(b)
    BY <2>1, <1>1, <1>3, <1>6, PushKeepsStream
  <2>6. BytesUnderWay' = Begun' \o Behind'
    <3>1. Begun' \in Seq(Bytes)
      BY <2>2, <2>4
    <3>2. (TypeOK /\ Begun \in Seq(Bytes) => BytesUnderWay = Begun \o Behind)'
      BY UnderWayIs, PTL
    <3> QED BY <3>1, <3>2, <1>8
  <2>7. Begun \o (Behind \o Encode(b)) = (Begun \o Behind) \o Encode(b)
    <3>1. Behind \in Seq(Bytes) /\ Encode(b) \in Seq(Bytes)
      BY <1>1, <1>3, BehindIs, EncodeIs
    <3> DEFINE c == Encode(b)
               d == Behind
               a == Begun
    <3>2. a \in Seq(Bytes) /\ d \in Seq(Bytes) /\ c \in Seq(Bytes)
      BY <3>1, <2>2
    <3> HIDE DEF a, c, d
    <3>3. a \o (d \o c) = (a \o d) \o c
      BY <3>2, BytesAssociate
    <3> QED BY <3>3 DEF a, c, d
  <2>8. EncodeAll(Pending') = EncodeAll(Pending) \o Encode(b)
    <3>1. Pending \in Seq(Blocks)
      BY <1>1, PendingIs
    <3> QED BY <3>1, <1>3, <1>7, EncodeMore
  <2> QED BY <2>2, <2>3, <2>4, <2>5, <2>6, <2>7, <2>8, <1>4
<1> QED BY <1>8, <1>9, <1>10 DEF SockInv

(* update() and flush() between two calls of pushBuffer *)
LEMMA SendInv ==
    ASSUME SockInv, SenderKeeps(sendFifo), due' \in BOOLEAN, UNCHANGED <<rcv, sent, received>>
    PROVE  SockInv'
<1>1. TypeOK /\ (error => ~rcv.connected) /\ Len(received) <= Len(sent)
      /\ PartIsPart /\ StreamIsWhole
  BY DEF SockInv
<1>2. TypeOK'
  BY <1>1 DEF SenderKeeps, TypeOK
<1>3. (error => ~rcv.connected)' /\ (Len(received) <= Len(sent))' /\ PartIsPart'
  BY <1>1 DEF SenderKeeps, PartIsPart
<1>4. Pending' = Pending
  BY DEF Pending
<1>5. StreamIsWhole'
  <2> SUFFICES ASSUME ~Broken'
               PROVE  /\ rcv.reading' => Pending' # <<>> /\ rcv.length' = Pending'[1].length
                      /\ BytesUnderWay' = EncodeAll(Pending')
    BY DEF StreamIsWhole
  <2>1. rcv.connected /\ ~error'
    BY DEF Broken
  <2>2. /\ rcv.reading => Pending # <<>> /\ rcv.length = Pending[1].length
        /\ Begun \in Seq(Bytes)
        /\ Begun \o Behind = EncodeAll(Pending)
    BY <1>1, <2>1, StreamIs
  <2>3. Begun' = Begun
    BY <1>4, BegunSame
  <2>4. Behind' = Behind
    BY <2>1 DEF SenderKeeps, Behind, Unsent
  <2>5. BytesUnderWay' = Begun' \o Behind'
    <3>1. Begun' \in Seq(Bytes)
      BY <2>2, <2>3
    <3>2. (TypeOK /\ Begun \in Seq(Bytes) => BytesUnderWay = Begun \o Behind)'
      BY UnderWayIs, PTL
    <3> QED BY <3>1, <3>2, <1>2
  <2> QED BY <2>2, <2>3, <2>4, <2>5, <1>4
<1> QED BY <1>2, <1>3, <1>5 DEF SockInv

----------------------------------------------------------------------------
(* The steps of the receiver *)

LEMMA RecvKeeps ==
    ASSUME TypeOK, wire # <<>>, NEW n \in Nat, n > 0, Consume(Recv(n))
    PROVE  /\ Recv(n) \in Seq(Bytes) /\ Len(Recv(n)) \in 1 .. n
           /\ wire' \in Seq(Bytes) /\ Len(wire') <= WireSize
           /\ wire = Recv(n) \o wire'
<1> DEFINE m == Min({n, Len(wire)})
<1>1. wire \in Seq(Bytes) /\ Len(wire) \in Nat /\ Len(wire) > 0 /\ Len(wire) <= WireSize
  BY LenProperties, EmptySeq DEF TypeOK
<1>2. m \in Nat /\ m <= n /\ m <= Len(wire) /\ (m = n \/ m = Len(wire))
  BY <1>1, MinOfTwo
<1> HIDE DEF m
<1>3. m \in 0 .. Len(wire) /\ m \in 1 .. n
  BY <1>1, <1>2
<1>4. Recv(n) = SubSeq(wire, 1, m)
  BY DEF Recv, m
<1>5. /\ SubSeq(wire, 1, m) \in Seq(Bytes) /\ Len(SubSeq(wire, 1, m)) = m
      /\ SubSeq(wire, m + 1, Len(wire)) \in Seq(Bytes)
      /\ Len(SubSeq(wire, m + 1, Len(wire))) = Len(wire) - m
      /\ wire = SubSeq(wire, 1, m) \o SubSeq(wire, m + 1, Len(wire))
  BY <1>1, <1>3, CutAt
<1>6. wire' = SubSeq(wire, m + 1, Len(wire))
  BY <1>4, <1>5 DEF Consume
<1>7. Len(wire') <= WireSize
  <2>1. WireSize \in Nat
    BY ConstantFacts
  <2> QED BY <2>1, <1>1, <1>2, <1>5, <1>6
<1> QED BY <1>3, <1>4, <1>5, <1>6, <1>7

(* What has come is the beginning of the bytes of the blocks to receive *)
LEMMA ReceivedIs ==
    ASSUME SockInv, rcv.connected, wire # <<>>, NEW n \in Nat, n > 0, Consume(Recv(n)),
           UNCHANGED <<ready, index, sendFifo>>
    PROVE  /\ Begun \in Seq(Bytes)
           /\ rcv.got \o Recv(n) \in Seq(Bytes)
           /\ Len(rcv.got \o Recv(n)) = Len(rcv.got) + Len(Recv(n))
           /\ Begun \o Recv(n) = LengthRead \o (rcv.got \o Recv(n))
           /\ Begun \o Recv(n) \in Seq(Bytes) /\ Behind' \in Seq(Bytes)
           /\ (Begun \o Recv(n)) \o Behind' = EncodeAll(Pending)
           /\ Pending \in Seq(Blocks) /\ Pending # <<>>
<1> DEFINE r == Recv(n)
           v == Unsent(ready, index) \o EncodeAll(sendFifo)
<1>1. TypeOK /\ (error => ~rcv.connected) /\ Len(received) <= Len(sent) /\ StreamIsWhole
  BY DEF SockInv
<1>2. /\ rcv.reading => Pending # <<>>
      /\ Begun \in Seq(Bytes)
      /\ Begun \o Behind = EncodeAll(Pending)
  BY <1>1, StreamIs
<1>3. /\ LengthRead \in Seq(Bytes) /\ rcv.got \in Seq(Bytes)
      /\ Begun = LengthRead \o rcv.got
  BY <1>1, <1>2, LengthReadIs DEF Begun
<1>4. r \in Seq(Bytes) /\ Len(r) > 0 /\ wire' \in Seq(Bytes) /\ wire = r \o wire'
  BY <1>1, RecvKeeps
<1>5. v \in Seq(Bytes) /\ Behind = wire \o v /\ Behind' = wire' \o v
  BY <1>1, BehindIs DEF Behind, Unsent
<1> HIDE DEF r, v
<1>6. /\ Begun \o r \in Seq(Bytes) /\ Behind' \in Seq(Bytes) /\ rcv.got \o r \in Seq(Bytes)
      /\ Len(rcv.got \o r) = Len(rcv.got) + Len(r)
  BY <1>2, <1>3, <1>4, <1>5, ConcatProperties
<1>7. Begun \o r = LengthRead \o (rcv.got \o r)
  <2> DEFINE g == rcv.got
  <2>1. g \in Seq(Bytes)
    BY <1>3
  <2> HIDE DEF g
  <2>2. (LengthRead \o g) \o r = LengthRead \o (g \o r)
    <3>1. LengthRead \in Seq(Bytes) /\ r \in Seq(Bytes)
      BY <1>3, <1>4
    <3> QED BY <3>1, <2>1, BytesAssociate
  <2> QED BY <2>2, <1>3 DEF g
<1>8. (Begun \o r) \o Behind' = Begun \o Behind
  <2>1. Behind = r \o Behind'
    <3> DEFINE w == wire'
    <3>1. w \in Seq(Bytes) /\ r \in Seq(Bytes) /\ v \in Seq(Bytes)
      BY <1>4, <1>5
    <3> HIDE DEF w
    <3>2. (r \o w) \o v = r \o (w \o v)
      BY <3>1, BytesAssociate
    <3> QED BY <3>2, <1>4, <1>5 DEF w
  <2> DEFINE d == Behind'
             a == Begun
  <2>2. d \in Seq(Bytes) /\ a \in Seq(Bytes) /\ r \in Seq(Bytes)
    BY <1>2, <1>4, <1>6
  <2> HIDE DEF d, a
  <2>3. (a \o r) \o d = a \o (r \o d)
    BY <2>2, BytesAssociate
  <2> QED BY <2>1, <2>3 DEF d, a
<1>9. Pending \in Seq(Blocks) /\ Pending # <<>>
  <2>1. Pending \in Seq(Blocks)
    BY <1>1, PendingIs
  <2>2. ASSUME Pending = <<>> PROVE FALSE
    <3>1. (Begun \o r) \o Behind' = <<>>
      BY <2>2, <1>2, <1>8, EncodeNone
    <3>2. Begun \o r = <<>>
      BY <3>1, <1>6, ConcatEqualIffEmpty
    <3>3. r = <<>>
      BY <3>2, <1>2, <1>4, ConcatEqualIffEmpty
    <3> QED BY <3>3, <1>4, EmptySeq
  <2> QED BY <2>1, <2>2
<1> QED BY <1>2, <1>6, <1>7, <1>8, <1>9 DEF r

(* The invariant after a step of the receiver, from what it leaves *)
LEMMA ReceiveInv ==
    ASSUME TypeOK', (error => ~rcv.connected)', (Len(received) <= Len(sent))', PartIsPart',
           rcv.connected' => /\ rcv.reading' => Pending' # <<>> /\ rcv.length' = Pending'[1].length
                             /\ Begun' \in Seq(Bytes)
                             /\ Begun' \o Behind' = EncodeAll(Pending')
    PROVE  SockInv'
<1>1. ASSUME ~Broken'
      PROVE  /\ rcv.reading' => Pending' # <<>> /\ rcv.length' = Pending'[1].length
             /\ BytesUnderWay' = EncodeAll(Pending')
  <2>1. rcv.connected'
    BY <1>1 DEF Broken
  <2>2. (TypeOK /\ Begun \in Seq(Bytes) => BytesUnderWay = Begun \o Behind)'
    BY UnderWayIs, PTL
  <2> QED BY <2>1, <2>2
<1>2. StreamIsWhole'
  BY <1>1 DEF StreamIsWhole
<1> QED BY <1>2 DEF SockInv

(* A part is read: what has begun grows by it *)
LEMMA PartInv ==
    ASSUME SockInv, rcv.connected, wire # <<>>, NEW n \in Nat, n > 0, Consume(Recv(n)),
           rcv' = [rcv EXCEPT !.got = rcv.got \o Recv(n)],
           Len(rcv.got \o Recv(n)) < (IF rcv.reading THEN rcv.length ELSE HeaderSize),
           UNCHANGED <<sender, sent, received>>
    PROVE  SockInv'
<1> DEFINE r == Recv(n)
<1>1. TypeOK /\ (error => ~rcv.connected) /\ Len(received) <= Len(sent) /\ StreamIsWhole
  BY DEF SockInv
<1>2. UNCHANGED <<sendFifo, ready, index, due, error>>
  BY DEF sender
<1>3. /\ rcv.got \o r \in Seq(Bytes)
      /\ Begun \o r = LengthRead \o (rcv.got \o r)
      /\ Begun \o r \in Seq(Bytes)
      /\ (Begun \o r) \o Behind' = EncodeAll(Pending)
      /\ Pending # <<>>
  BY <1>2, ReceivedIs
<1>4. rcv \in Receivers
  BY <1>1 DEF TypeOK
<1>5. /\ rcv' \in Receivers /\ rcv'.got = rcv.got \o r /\ rcv'.reading = rcv.reading
      /\ rcv'.connected = rcv.connected /\ rcv'.length = rcv.length
  BY <1>3, <1>4 DEF Receivers
<1>6. TypeOK'
  <2>1. wire' \in Seq(Bytes) /\ Len(wire') <= WireSize
    BY <1>1, RecvKeeps
  <2> QED BY <2>1, <1>1, <1>2, <1>5 DEF TypeOK
<1>7. Pending' = Pending /\ Begun' = Begun \o r
  <2>1. Pending' = Pending
    BY DEF Pending
  <2>2. LengthRead' = LengthRead
    BY <2>1, <1>5 DEF LengthRead, Took, Encode, Whole
  <2> QED BY <2>1, <2>2, <1>3, <1>5 DEF Begun
<1>8. PartIsPart'
  BY <1>5 DEF PartIsPart
<1>9. rcv.reading => rcv.length = Pending[1].length
  BY <1>1, StreamIs
<1>10. (error => ~rcv.connected)' /\ (Len(received) <= Len(sent))'
  BY <1>1, <1>2, <1>5
<1> QED BY <1>3, <1>5, <1>6, <1>7, <1>8, <1>9, <1>10, ReceiveInv

(* The length is complete: it is that of the first block to receive *)
LEMMA WholeLength ==
    ASSUME SockInv, rcv.connected, ~rcv.reading, wire # <<>>,
           NEW n \in Nat, n > 0, Consume(Recv(n)), UNCHANGED <<ready, index, sendFifo>>,
           Len(rcv.got \o Recv(n)) = HeaderSize
    PROVE  /\ rcv.got \o Recv(n) = Took(HeaderSize, Encode(Pending[1]), 0)
           /\ Pending[1] \in Blocks
           /\ (rcv.got \o Recv(n))[1].block = Pending[1]
<1> DEFINE g == rcv.got \o Recv(n)
           e == Encode(Pending[1])
           s == SubSeq(e, 1, HeaderSize)
           x == SubSeq(e, HeaderSize + 1, Len(e))
           rest == EncodeAll(Tail(Pending))
           d == Behind'
<1>1. /\ g \in Seq(Bytes) /\ d \in Seq(Bytes)
      /\ Begun \o Recv(n) = LengthRead \o g
      /\ (Begun \o Recv(n)) \o d = EncodeAll(Pending)
      /\ Pending \in Seq(Blocks) /\ Pending # <<>>
  BY ReceivedIs
<1>2. /\ Pending[1] \in Blocks /\ Tail(Pending) \in Seq(Blocks)
      /\ EncodeAll(Pending) = e \o rest
  BY <1>1, EncodeFirst
<1>3. /\ e \in Seq(Bytes) /\ HeaderSize \in 0 .. Len(e) /\ HeaderSize \in Nat /\ HeaderSize > 0
      /\ e[1] = [block |-> Pending[1], at |-> 1]
  <2>1. /\ Pending[1].length \in Nat /\ HeaderSize \in Nat /\ HeaderSize > 0
    BY <1>2, ConstantFacts
  <2>2. 1 \in 1 .. HeaderSize + Pending[1].length
    BY <2>1
  <2> QED BY <2>1, <2>2, <1>2, EncodeIs
<1>4. rest \in Seq(Bytes)
  BY <1>2, EncodeTyped
<1>5. LengthRead = <<>>
  BY DEF LengthRead
<1>6. LengthRead \o g = g
  <2> HIDE DEF g
  <2> QED BY <1>1, <1>5, ConcatEmptySeq
<1>7. Len(g) = HeaderSize /\ Took(HeaderSize, e, 0) = s
  BY <1>3 DEF Took
<1>8. g \o d = e \o rest
  BY <1>1, <1>2, <1>6
<1> HIDE DEF g, e, rest, d
<1>9. s \in Seq(Bytes) /\ Len(s) = HeaderSize /\ x \in Seq(Bytes) /\ e = s \o x /\ s[1] = e[1]
  <2>1. /\ s \in Seq(Bytes) /\ Len(s) = HeaderSize /\ x \in Seq(Bytes) /\ e = s \o x
    BY <1>3, CutAt
  <2>2. 1 \in 1 .. Len(s)
    BY <2>1, <1>3
  <2> HIDE DEF s, x
  <2>3. (s \o x)[1] = s[1]
    BY <2>1, <2>2, Joined
  <2> QED BY <2>1, <2>3
<1> HIDE DEF s, x
<1>10. g = s
  <2>1. (s \o x) \o rest = s \o (x \o rest)
    BY <1>4, <1>9, BytesAssociate
  <2>2. x \o rest \in Seq(Bytes)
    BY <1>4, <1>9, ConcatProperties
  <2> DEFINE v == x \o rest
  <2>3. v \in Seq(Bytes) /\ g \o d = s \o v
    BY <2>1, <2>2, <1>8, <1>9
  <2> HIDE DEF v
  <2> QED BY <2>3, <1>1, <1>7, <1>9, SameCut
<1>11. g[1].block = Pending[1]
  BY <1>3, <1>9, <1>10
<1> QED BY <1>2, <1>7, <1>10, <1>11 DEF g, e

LEMMA ReceiveLengthInv ==
    ASSUME SockInv, ReceiveLength
    PROVE  SockInv'
<1> DEFINE n == HeaderSize - Len(rcv.got)
           r == Recv(n)
           g == rcv.got \o r
           length == g[1].block.length
<1>1. TypeOK /\ (error => ~rcv.connected) /\ Len(received) <= Len(sent)
      /\ PartIsPart /\ StreamIsWhole
  BY DEF SockInv
<1>2. /\ rcv.connected /\ ~rcv.reading /\ wire # <<>> /\ Consume(r)
      /\ rcv' = IF Len(g) < HeaderSize THEN [rcv EXCEPT !.got = g]
                ELSE IF length > MaxExpected THEN [rcv EXCEPT !.connected = FALSE, !.got = g]
                ELSE [rcv EXCEPT !.reading = TRUE, !.length = length, !.got = <<>>]
      /\ UNCHANGED <<sender, sent, received>>
  BY DEF ReceiveLength
<1>3. UNCHANGED <<sendFifo, ready, index, due, error>>
  BY <1>2 DEF sender
<1>4. /\ rcv \in Receivers /\ rcv.got \in Seq(Bytes) /\ Len(rcv.got) \in Nat
      /\ Len(rcv.got) < HeaderSize /\ HeaderSize \in Nat
  BY <1>1, <1>2, ConstantFacts, LenProperties DEF TypeOK, Receivers, PartIsPart
<1>5. n \in Nat /\ n > 0
  BY <1>4
<1> HIDE DEF n
<1>6. /\ r \in Seq(Bytes) /\ Len(r) \in 1 .. n
      /\ wire' \in Seq(Bytes) /\ Len(wire') <= WireSize
  BY <1>1, <1>2, <1>5, RecvKeeps
<1>7. /\ Begun \in Seq(Bytes) /\ g \in Seq(Bytes) /\ Len(g) = Len(rcv.got) + Len(r)
      /\ Begun \o r = LengthRead \o g
      /\ (Begun \o r) \o Behind' = EncodeAll(Pending)
      /\ Pending \in Seq(Blocks) /\ Pending # <<>>
  BY <1>2, <1>3, <1>5, ReceivedIs
<1>8. Len(g) \in Nat /\ Len(g) <= HeaderSize
  <2>1. n = HeaderSize - Len(rcv.got)
    BY DEF n
  <2> HIDE DEF r, g
  <2> QED BY <2>1, <1>4, <1>6, <1>7
<1>9. CASE Len(g) < HeaderSize
  BY <1>2, <1>5, <1>9, PartInv
<1>10. CASE Len(g) = HeaderSize
  <2>1. /\ g = Took(HeaderSize, Encode(Pending[1]), 0)
        /\ Pending[1] \in Blocks
        /\ g[1].block = Pending[1]
    BY <1>2, <1>3, <1>5, <1>10, WholeLength
  <2>2. length = Pending[1].length /\ length \in Nat /\ length > 0
    BY <2>1, ConstantFacts
  <2> HIDE DEF length, r, g
  <2>3. Pending' = Pending
    BY <1>2 DEF Pending
  <2>4. (Len(received) <= Len(sent))'
    BY <1>1, <1>2
  <2>5. CASE rcv' = [rcv EXCEPT !.connected = FALSE, !.got = g]
    <3>1. rcv' \in Receivers /\ ~rcv'.connected
      BY <2>5, <1>4, <1>7 DEF Receivers
    <3>2. TypeOK'
      BY <3>1, <1>1, <1>2, <1>3, <1>6 DEF TypeOK
    <3>3. (error => ~rcv.connected)' /\ PartIsPart'
      BY <3>1 DEF PartIsPart
    <3> QED BY <3>1, <3>2, <3>3, <2>4, ReceiveInv
  <2>6. CASE rcv' = [rcv EXCEPT !.reading = TRUE, !.length = length, !.got = <<>>]
    <3>0. <<>> \in Seq(Bytes) /\ Len(<<>>) = 0
      BY EmptySeq
    <3>1. /\ rcv' \in Receivers /\ rcv'.connected = rcv.connected /\ rcv'.reading = TRUE
          /\ rcv'.length = length /\ rcv'.got = <<>>
      BY <3>0, <2>2, <2>6, <1>4 DEF Receivers
    <3>2. TypeOK'
      BY <3>1, <1>1, <1>2, <1>3, <1>6 DEF TypeOK
    <3>3. (error => ~rcv.connected)'
      BY <3>1, <1>1, <1>3
    <3>4. PartIsPart'
      BY <3>0, <3>1, <2>2 DEF PartIsPart
    <3>5. Begun' = Begun \o r
      <4>1. Begun' = Took(HeaderSize, Encode(Pending[1]), 0) \o <<>>
        BY <3>1, <2>3 DEF Begun, LengthRead, Took, Encode, Whole
      <4>2. Begun' = g
        BY <4>1, <2>1, <1>7, ConcatEmptySeq
      <4>3. LengthRead \o g = g
        <5>1. LengthRead = <<>>
          BY <1>2 DEF LengthRead
        <5> QED BY <5>1, <1>7, ConcatEmptySeq
      <4> QED BY <4>2, <4>3, <1>7
    <3>6. /\ rcv'.length = Pending'[1].length /\ Pending' # <<>>
          /\ Begun' \in Seq(Bytes)
          /\ Begun' \o Behind' = EncodeAll(Pending')
      <4>1. Begun \o r \in Seq(Bytes)
        BY <1>6, <1>7, ConcatProperties
      <4> QED BY <4>1, <3>1, <3>5, <2>2, <2>3, <1>7
    <3> QED BY <3>1, <3>2, <3>3, <3>4, <3>6, <2>4, ReceiveInv
  <2> QED BY <2>5, <2>6, <1>2, <1>10
<1> QED BY <1>4, <1>8, <1>9, <1>10

(* The block is complete: the bytes that have begun are all of its bytes,  *)
(* and what is behind them are those of the next blocks                    *)
LEMMA WholeBlock ==
    ASSUME SockInv, rcv.connected, rcv.reading, wire # <<>>,
           NEW n \in Nat, n > 0, Consume(Recv(n)), UNCHANGED <<ready, index, sendFifo>>,
           Len(rcv.got \o Recv(n)) = rcv.length
    PROVE  /\ Pending \in Seq(Blocks) /\ Pending # <<>> /\ Pending[1] \in Blocks
           /\ (rcv.got \o Recv(n))[1].block = Pending[1]
           /\ Behind' = EncodeAll(Tail(Pending)) /\ Behind' \in Seq(Bytes)
<1> DEFINE g == rcv.got \o Recv(n)
           e == Encode(Pending[1])
           rest == EncodeAll(Tail(Pending))
           d == Behind'
           l == LengthRead
<1>1. /\ g \in Seq(Bytes) /\ d \in Seq(Bytes)
      /\ Begun \o Recv(n) = l \o g
      /\ (Begun \o Recv(n)) \o d = EncodeAll(Pending)
      /\ Pending \in Seq(Blocks) /\ Pending # <<>>
  BY ReceivedIs
<1>2. /\ Pending[1] \in Blocks /\ Tail(Pending) \in Seq(Blocks)
      /\ EncodeAll(Pending) = e \o rest
  BY <1>1, EncodeFirst
<1>3. l \in Seq(Bytes) /\ Len(l) = HeaderSize /\ rcv.length = Pending[1].length
  <2>1. TypeOK /\ Len(received) <= Len(sent) /\ rcv.length = Pending[1].length
    BY StreamIs DEF SockInv
  <2> QED BY <2>1, <1>1, LengthReadIs
<1>4. /\ e \in Seq(Bytes) /\ Len(e) = HeaderSize + rcv.length
      /\ rcv.length \in Nat /\ rcv.length > 0 /\ HeaderSize \in Nat
      /\ e[HeaderSize + 1].block = Pending[1]
  <2>1. /\ Pending[1].length \in Nat /\ Pending[1].length > 0 /\ HeaderSize \in Nat
    BY <1>2, ConstantFacts
  <2>2. HeaderSize + 1 \in 1 .. HeaderSize + Pending[1].length
    BY <2>1
  <2>3. /\ e \in Seq(Bytes) /\ Len(e) = HeaderSize + Pending[1].length
        /\ \A i \in 1 .. HeaderSize + Pending[1].length : e[i] = [block |-> Pending[1], at |-> i]
    BY <1>2, EncodeIs
  <2>4. e[HeaderSize + 1] = [block |-> Pending[1], at |-> HeaderSize + 1]
    BY <2>2, <2>3
  <2> HIDE DEF e
  <2> QED BY <2>1, <2>3, <2>4, <1>3
<1>5. rest \in Seq(Bytes)
  BY <1>2, EncodeTyped
<1>6. Len(g) = rcv.length
  OBVIOUS
<1>7. (l \o g) \o d = e \o rest
  BY <1>1, <1>2
<1> HIDE DEF g, e, rest, d, l
<1>8. /\ l \o g \in Seq(Bytes) /\ Len(l \o g) = Len(e)
      /\ (l \o g)[HeaderSize + 1] = g[1]
  <2>0. \A a, c \in Seq(Bytes) :
           /\ a \o c \in Seq(Bytes) /\ Len(a \o c) = Len(a) + Len(c)
           /\ \A i \in 1 .. Len(c) : (a \o c)[Len(a) + i] = c[i]
    BY Joined
  <2>1. l \o g \in Seq(Bytes) /\ Len(l \o g) = Len(l) + Len(g)
        /\ \A i \in 1 .. Len(g) : (l \o g)[Len(l) + i] = g[i]
    BY <2>0, <1>1, <1>3, Zenon
  <2>2. 1 \in 1 .. Len(g)
    BY <1>4, <1>6
  <2> QED BY <2>1, <2>2, <1>3, <1>4, <1>6
<1>9. l \o g = e /\ d = rest
  <2> DEFINE a == l \o g
  <2>1. a \in Seq(Bytes) /\ a \o d = e \o rest /\ Len(a) = Len(e)
    BY <1>7, <1>8
  <2> HIDE DEF a
  <2>2. a = e /\ d = rest
    BY <2>1, <1>1, <1>4, <1>5, SameCut
  <2> QED BY <2>2 DEF a
<1>10. g[1].block = Pending[1]
  BY <1>4, <1>8, <1>9
<1> QED BY <1>1, <1>2, <1>9, <1>10 DEF g, d, rest

LEMMA PendingLess ==
    ASSUME TypeOK, Len(received) <= Len(sent), Pending # <<>>,
           received' = Append(received, Pending[1]), UNCHANGED sent
    PROVE  /\ received' \in Seq(Blocks) /\ Len(received') = Len(received) + 1
           /\ Len(received) < Len(sent) /\ Pending[1] = sent[Len(received) + 1]
           /\ Pending' = Tail(Pending)
<1> DEFINE n == Len(received)
<1>1. /\ sent \in Seq(Blocks) /\ received \in Seq(Blocks)
      /\ n \in Nat /\ Len(sent) \in Nat /\ n <= Len(sent)
      /\ Pending \in Seq(Blocks) /\ Len(Pending) = Len(sent) - n
      /\ \A i \in 1 .. Len(sent) - n : Pending[i] = sent[n + i]
  BY PendingIs DEF TypeOK
<1>2. Len(Pending) > 0
  BY <1>1, EmptySeq
<1>3. 1 \in 1 .. Len(sent) - n
  BY <1>1, <1>2
<1>4. Pending[1] \in Blocks /\ Pending[1] = sent[n + 1]
  BY <1>1, <1>3, ElementOfSeq
<1>5. received' \in Seq(Blocks) /\ Len(received') = n + 1
  BY <1>1, <1>4, AppendProperties
<1> DEFINE p == SubSeq(sent, (n + 1) + 1, Len(sent))
           q == Tail(Pending)
<1>6. Pending' = p
  BY <1>5 DEF Pending
<1>7. n + 1 \in 0 .. Len(sent)
  BY <1>1, <1>2
<1>8. /\ p \in Seq(Blocks) /\ Len(p) = Len(sent) - (n + 1)
      /\ \A i \in 1 .. Len(sent) - (n + 1) : p[i] = sent[(n + 1) + i]
  BY <1>1, <1>7, CutAt
<1>9. /\ q \in Seq(Blocks) /\ Len(q) = Len(Pending) - 1
      /\ \A i \in 1 .. Len(q) : q[i] = Pending[i + 1]
  BY <1>1, HeadTailProperties
<1> HIDE DEF p, q, n
<1>10. Len(p) = Len(q)
  BY <1>1, <1>8, <1>9
<1>11. ASSUME NEW i \in 1 .. Len(p) PROVE p[i] = q[i]
  <2>1. /\ i \in 1 .. Len(sent) - (n + 1) /\ i \in 1 .. Len(q)
        /\ i + 1 \in 1 .. Len(sent) - n /\ n + (i + 1) = (n + 1) + i
    BY <1>1, <1>8, <1>10
  <2> QED BY <2>1, <1>1, <1>8, <1>9
<1>12. p = q
  BY <1>8, <1>9, <1>10, <1>11, SeqEqual
<1> QED BY <1>1, <1>2, <1>4, <1>5, <1>6, <1>12 DEF n, q

(* What receivePart hands over is the first block that was still to be received *)
LEMMA ReceivePayloadIs ==
    ASSUME SockInv, ReceivePayload
    PROVE  LET n == rcv.length - Len(rcv.got)
               g == rcv.got \o Recv(n)
           IN  /\ n \in Nat /\ n > 0 /\ Consume(Recv(n))
               /\ rcv.connected /\ rcv.reading /\ wire # <<>>
               /\ UNCHANGED <<sendFifo, ready, index, due, error, sent>>
               /\ \/ /\ Len(g) < rcv.length /\ rcv' = [rcv EXCEPT !.got = g]
                     /\ UNCHANGED received
                  \/ /\ Len(g) = rcv.length
                     /\ rcv' = [rcv EXCEPT !.reading = FALSE, !.got = <<>>]
                     /\ Pending # <<>> /\ received' = Append(received, Pending[1])
                     /\ Behind' = EncodeAll(Tail(Pending)) /\ Behind' \in Seq(Bytes)
<1> DEFINE n == rcv.length - Len(rcv.got)
           r == Recv(n)
           g == rcv.got \o r
<1>1. TypeOK /\ PartIsPart
  BY DEF SockInv
<1>2. /\ rcv.connected /\ rcv.reading /\ wire # <<>> /\ Consume(r)
      /\ IF Len(g) = rcv.length
         THEN /\ rcv' = [rcv EXCEPT !.reading = FALSE, !.got = <<>>]
              /\ received' = Append(received, g[1].block)
         ELSE /\ rcv' = [rcv EXCEPT !.got = g]
              /\ UNCHANGED received
      /\ UNCHANGED <<sendFifo, ready, index, due, error, sent>>
  BY DEF ReceivePayload, sender
<1>3. /\ rcv.got \in Seq(Bytes) /\ Len(rcv.got) \in Nat /\ rcv.length \in Nat
      /\ Len(rcv.got) < rcv.length
  BY <1>1, <1>2, LenProperties DEF TypeOK, Receivers, PartIsPart
<1>4. n \in Nat /\ n > 0 /\ n = rcv.length - Len(rcv.got)
  BY <1>3
<1> HIDE DEF n
<1>5. Len(r) \in 1 .. n /\ Len(g) = Len(rcv.got) + Len(r)
  BY <1>1, <1>2, <1>4, RecvKeeps, ReceivedIs
<1>6. Len(g) <= rcv.length /\ Len(g) \in Nat
  <2> HIDE DEF r, g
  <2> QED BY <1>3, <1>4, <1>5
<1>7. CASE Len(g) = rcv.length
  <2>1. /\ Pending # <<>>
        /\ g[1].block = Pending[1]
        /\ Behind' = EncodeAll(Tail(Pending)) /\ Behind' \in Seq(Bytes)
    BY <1>2, <1>4, <1>7, WholeBlock
  <2> HIDE DEF r, g
  <2>2. rcv' = [rcv EXCEPT !.reading = FALSE, !.got = <<>>]
        /\ received' = Append(received, Pending[1])
    BY <2>1, <1>2, <1>7
  <2> QED BY <2>1, <2>2, <1>2, <1>4, <1>7 DEF n, r, g
<1>8. CASE Len(g) < rcv.length
  <2> HIDE DEF r, g
  <2>1. rcv' = [rcv EXCEPT !.got = g] /\ UNCHANGED received
    BY <1>2, <1>3, <1>6, <1>8
  <2> QED BY <2>1, <1>2, <1>4, <1>8 DEF n, r, g
<1>9. Len(g) = rcv.length \/ Len(g) < rcv.length
  <2> HIDE DEF r, g
  <2> QED BY <1>3, <1>6
<1> QED BY <1>7, <1>8, <1>9, Zenon

LEMMA ReceivePayloadInv ==
    ASSUME SockInv, ReceivePayload
    PROVE  SockInv'
<1> DEFINE n == rcv.length - Len(rcv.got)
           g == rcv.got \o Recv(n)
<1>1. TypeOK /\ (error => ~rcv.connected) /\ Len(received) <= Len(sent)
  BY DEF SockInv
<1>2. /\ n \in Nat /\ n > 0 /\ Consume(Recv(n))
      /\ rcv.connected /\ rcv.reading /\ wire # <<>>
      /\ UNCHANGED <<sendFifo, ready, index, due, error, sent>>
      /\ \/ /\ Len(g) < rcv.length /\ rcv' = [rcv EXCEPT !.got = g]
            /\ UNCHANGED received
         \/ /\ Len(g) = rcv.length
            /\ rcv' = [rcv EXCEPT !.reading = FALSE, !.got = <<>>]
            /\ Pending # <<>> /\ received' = Append(received, Pending[1])
            /\ Behind' = EncodeAll(Tail(Pending)) /\ Behind' \in Seq(Bytes)
  BY ReceivePayloadIs
<1> HIDE DEF n
<1>3. CASE Len(g) < rcv.length /\ rcv' = [rcv EXCEPT !.got = g] /\ UNCHANGED received
  BY <1>2, <1>3, PartInv DEF sender
<1>4. CASE /\ rcv' = [rcv EXCEPT !.reading = FALSE, !.got = <<>>]
           /\ Pending # <<>> /\ received' = Append(received, Pending[1])
           /\ Behind' = EncodeAll(Tail(Pending)) /\ Behind' \in Seq(Bytes)
  <2> HIDE DEF g
  <2>1. /\ received' \in Seq(Blocks) /\ Len(received') = Len(received) + 1
        /\ Len(received) < Len(sent)
        /\ Pending' = Tail(Pending)
    BY <1>1, <1>2, <1>4, PendingLess
  <2>2. Len(received') <= Len(sent') /\ Len(sent) \in Nat
    <3>1. Len(sent) \in Nat /\ Len(received) \in Nat
      BY <1>1, PendingIs
    <3> QED BY <3>1, <2>1, <1>2
  <2>3. <<>> \in Seq(Bytes) /\ Len(<<>>) = 0 /\ HeaderSize \in Nat /\ HeaderSize > 0
    BY EmptySeq, ConstantFacts
  <2>4. /\ rcv' \in Receivers /\ rcv'.connected = rcv.connected /\ rcv'.reading = FALSE
        /\ rcv'.got = <<>>
    BY <1>1, <1>4, <2>3 DEF TypeOK, Receivers
  <2>5. wire' \in Seq(Bytes) /\ Len(wire') <= WireSize
    BY <1>1, <1>2, RecvKeeps
  <2>6. TypeOK'
    BY <2>1, <2>4, <2>5, <1>1, <1>2 DEF TypeOK
  <2>7. (error => ~rcv.connected)' /\ PartIsPart'
    BY <2>3, <2>4, <1>1, <1>2 DEF PartIsPart
  <2>8. Begun' = <<>>
    <3>1. Begun' = <<>> \o <<>>
      BY <2>4 DEF Begun, LengthRead
    <3> QED BY <3>1, <2>3, ConcatEmptySeq
  <2>9. Begun' \in Seq(Bytes) /\ Begun' \o Behind' = EncodeAll(Pending')
    BY <2>1, <2>3, <2>8, <1>4, ConcatEmptySeq
  <2> QED BY <2>2, <2>4, <2>6, <2>7, <2>9, ReceiveInv
<1> QED BY <1>2, <1>3, <1>4

LEMMA CloseInv ==
    ASSUME SockInv, Close
    PROVE  SockInv'
<1>1. /\ TypeOK /\ Len(received) <= Len(sent)
      /\ rcv' = [rcv EXCEPT !.connected = FALSE]
      /\ UNCHANGED <<sendFifo, ready, index, due, error, wire, sent, received>>
  BY DEF SockInv, Close, sender
<1>2. rcv' \in Receivers /\ ~rcv'.connected
  BY <1>1 DEF TypeOK, Receivers
<1>3. TypeOK'
  BY <1>1, <1>2 DEF TypeOK
<1>4. (error => ~rcv.connected)' /\ (Len(received) <= Len(sent))' /\ PartIsPart'
  BY <1>1, <1>2 DEF PartIsPart
<1> QED BY <1>2, <1>3, <1>4, ReceiveInv

LEMMA InitInv == Init => SockInv
<1> SUFFICES ASSUME Init PROVE SockInv
  OBVIOUS
<1>1. /\ sendFifo = <<>> /\ ready = <<>> /\ index = 0
      /\ due = FALSE /\ error = FALSE /\ wire = <<>>
      /\ rcv = [connected |-> TRUE, reading |-> FALSE, length |-> 0, got |-> <<>>]
      /\ sent = <<>> /\ received = <<>>
  BY DEF Init
<1>2. <<>> \in Seq(Bytes) /\ <<>> \in Seq(Blocks) /\ Len(<<>>) = 0
  BY EmptySeq
<1>3. HeaderSize \in Nat /\ HeaderSize > 0 /\ WireSize \in Nat
  BY ConstantFacts
<1>4. TypeOK
  <2>1. rcv \in Receivers
    BY <1>1, <1>2 DEF Receivers
  <2>2. sendFifo \in Seq(Blocks) /\ sent \in Seq(Blocks) /\ received \in Seq(Blocks)
    BY <1>1, <1>2
  <2>3. /\ ready \in Seq(Bytes) /\ wire \in Seq(Bytes) /\ Len(wire) <= WireSize
        /\ index \in 0 .. Len(ready)
    BY <1>1, <1>2, <1>3
  <2>4. {due, error} \subseteq BOOLEAN
    BY <1>1
  <2> QED BY <2>1, <2>2, <2>3, <2>4 DEF TypeOK
<1>5. PartIsPart
  BY <1>1, <1>2, <1>3 DEF PartIsPart
<1>6. StreamIsWhole
  <2>1. SubSeq(<<>>, 1, 0) = <<>>
    BY SubSeqEmpty
  <2>2. Pending = <<>>
    BY <2>1, <1>1, <1>2 DEF Pending
  <2>3. Unsent(ready, index) = <<>> /\ EncodeAll(sendFifo) = <<>> /\ EncodeAll(Pending) = <<>>
    BY <2>1, <2>2, <1>1, <1>2, EncodeNone DEF Unsent
  <2>4. <<>> \o <<>> = <<>>
    BY <1>2, ConcatEmptySeq
  <2>5. Behind = <<>>
    BY <2>3, <2>4, <1>1 DEF Behind
  <2>6. Begun = <<>>
    BY <2>4, <1>1 DEF Begun, LengthRead
  <2>7. BytesUnderWay = <<>>
    BY <2>4, <2>5, <2>6, <1>2, <1>4, UnderWayIs
  <2> QED BY <2>3, <2>7, <1>1 DEF StreamIsWhole
<1> QED BY <1>1, <1>2, <1>4, <1>5, <1>6 DEF SockInv

LEMMA StepInv == SockInv /\ [Next]_vars => SockInv'
<1> SUFFICES ASSUME SockInv, [Next]_vars PROVE SockInv'
  OBVIOUS
<1>1. TypeOK
  BY DEF SockInv
<1>2. ASSUME NEW length \in Lengths, PushBuffer(length) PROVE SockInv'
  BY <1>2, PushInv
<1>3. CASE Update
  <2>1. SenderKeeps(sendFifo) /\ due' \in BOOLEAN
    BY <1>1, <1>3, UpdateKeeps DEF Update, TypeOK
  <2> QED BY <2>1, <1>3, SendInv DEF Update
<1>4. CASE CallFlush
  <2>1. SenderKeeps(sendFifo) /\ due' \in BOOLEAN
    BY <1>1, <1>4, FlushKeeps DEF CallFlush, TypeOK
  <2> QED BY <2>1, <1>4, SendInv DEF CallFlush
<1>5. CASE TimeElapses
  <2>1. SenderKeeps(sendFifo)
    BY <1>1, <1>5 DEF TimeElapses, SenderKeeps, TypeOK
  <2> QED BY <2>1, <1>5, SendInv DEF TimeElapses
<1>6. CASE ReceiveLength
  BY <1>6, ReceiveLengthInv
<1>7. CASE ReceivePayload
  BY <1>7, ReceivePayloadInv
<1>8. CASE Close
  BY <1>8, CloseInv
<1>9. CASE UNCHANGED vars
  <2>1. UNCHANGED <<sendFifo, ready, index, due, error, wire, rcv, sent, received>>
    BY <1>9 DEF vars, sender
  <2>2. SenderKeeps(sendFifo) /\ due' \in BOOLEAN
    BY <2>1, <1>1 DEF SenderKeeps, TypeOK
  <2> QED BY <2>1, <2>2, SendInv
<1> QED BY <1>2, <1>3, <1>4, <1>5, <1>6, <1>7, <1>8, <1>9 DEF Next

----------------------------------------------------------------------------
(* The theorems *)

(* Whatever TCP takes and delivers at a time and whenever flush() runs, the *)
(* invariant holds: no part is ever complete between two calls of           *)
(* receivePart, and the bytes under way are those of the blocks that are    *)
(* still to be received.                                                    *)
THEOREM SockInvHolds == Spec => []SockInv
BY InitInv, StepInv, PTL DEF Spec

(* The types, and the bytes under way: the rest of the block being read,    *)
(* the wire, what flush() has left in _ReadyToSendBuffer and the send queue *)
(* are the blocks still to be received, each behind its length.             *)
THEOREM StreamHolds == Spec => []BytesAreWhole
<1>1. SockInv => BytesAreWhole
  BY DEF SockInv, BytesAreWhole
<1> QED BY <1>1, SockInvHolds, PTL

LEMMA SendIsSend ==
    ASSUME SockInv, NEW length \in Lengths, PushBuffer(length)
    PROVE  Abstract!Send
<1> DEFINE b == [num |-> Len(sent) + 1, length |-> length]
<1>1. TypeOK /\ Len(received) <= Len(sent) /\ error \in BOOLEAN /\ sent \in Seq(Blocks)
  BY DEF SockInv, TypeOK
<1>2. b \in Blocks
  BY <1>1, PendingIs, ConstantFacts DEF Blocks, PushBuffer
<1>3. /\ UpdateWith(Append(sendFifo, b)) /\ sent' = Append(sent, b)
      /\ UNCHANGED <<rcv, received>>
  BY DEF PushBuffer
<1> HIDE DEF b
<1>4. SenderKeeps(Append(sendFifo, b))
  BY <1>1, <1>2, <1>3, AppendProperties, UpdateKeeps DEF TypeOK
<1>5. Broken' \in {Broken, TRUE}
  BY <1>1, <1>3, <1>4 DEF SenderKeeps, Broken
<1>6. Len(sent') = Len(sent) + 1 /\ \A i \in 1 .. Len(sent) : sent'[i] = sent[i]
  BY <1>1, <1>2, <1>3, AppendProperties
<1>7. SubSeq(sent', 1, Len(sent)) = sent
  <2>1. /\ sent' \in Seq(Blocks) /\ Len(sent) \in Nat /\ Len(sent) \in 0 .. Len(sent')
    BY <1>1, <1>2, <1>3, <1>6, AppendProperties, LenProperties
  <2> DEFINE p == SubSeq(sent', 1, Len(sent))
  <2>2. p \in Seq(Blocks) /\ Len(p) = Len(sent)
    BY <2>1, CutAt
  <2>3. \A i \in 1 .. Len(sent) : p[i] = sent'[i]
    <3>1. \A i \in 1 .. Len(sent) : sent'[i] \in Blocks
      BY <1>1, <1>6, ElementOfSeq
    <3>2. \A i \in 1 .. Len(sent) - 1 + 1 : p[i] = sent'[1 + i - 1]
      BY <3>1, <2>1, SubSeqProperties
    <3> HIDE DEF p
    <3> QED BY <3>2, <2>1
  <2> HIDE DEF p
  <2>4. p = sent
    BY <2>2, <2>3, <1>1, <1>6, SeqEqual
  <2> QED BY <2>4 DEF p
<1> QED BY <1>3, <1>5, <1>6, <1>7 DEF Abstract!Send

LEMMA ReceiveIsReceive ==
    ASSUME SockInv, ReceivePayload
    PROVE  Abstract!Receive \/ UNCHANGED <<sent, received, Broken>>
<1>1. TypeOK /\ Len(received) <= Len(sent)
  BY DEF SockInv
<1>2. /\ UNCHANGED <<error, sent>>
      /\ \/ rcv'.connected = rcv.connected /\ UNCHANGED received
         \/ /\ rcv'.connected = rcv.connected
            /\ Pending # <<>> /\ received' = Append(received, Pending[1])
  BY <1>1, ReceivePayloadIs DEF TypeOK, Receivers
<1>3. Broken' = Broken
  BY <1>2 DEF Broken
<1>4. CASE Pending # <<>> /\ received' = Append(received, Pending[1])
  <2>1. Len(received) < Len(sent) /\ Pending[1] = sent[Len(received) + 1]
    BY <1>1, <1>2, <1>4, PendingLess
  <2> QED BY <2>1, <1>2, <1>3, <1>4 DEF Abstract!Receive
<1> QED BY <1>2, <1>3, <1>4

LEMMA AnyIsStep ==
    ASSUME SockInv, [Next]_vars
    PROVE  [Abstract!Next]_<<sent, received, Broken>>
<1>1. /\ TypeOK /\ (error => ~rcv.connected) /\ error \in BOOLEAN
      /\ rcv \in Receivers /\ rcv.connected \in BOOLEAN
  BY DEF SockInv, TypeOK, Receivers
<1>2. ASSUME SenderKeeps(sendFifo), UNCHANGED <<rcv, sent, received>>
      PROVE  UNCHANGED <<sent, received, Broken>>
  BY <1>1, <1>2 DEF SenderKeeps, Broken
<1>3. ASSUME NEW length \in Lengths, PushBuffer(length) PROVE Abstract!Next
  BY <1>3, SendIsSend DEF Abstract!Next
<1>4. CASE Update
  <2>1. SenderKeeps(sendFifo)
    BY <1>1, <1>4, UpdateKeeps DEF Update, TypeOK
  <2> QED BY <2>1, <1>2, <1>4 DEF Update
<1>5. CASE CallFlush
  <2>1. SenderKeeps(sendFifo)
    BY <1>1, <1>5, FlushKeeps DEF CallFlush, TypeOK
  <2> QED BY <2>1, <1>2, <1>5 DEF CallFlush
<1>6. CASE TimeElapses
  BY <1>6 DEF TimeElapses, Broken
<1>7. CASE ReceiveLength
  <2>1. UNCHANGED <<error, sent, received>> /\ rcv.connected
    BY <1>7 DEF ReceiveLength, sender
  <2>2. rcv'.connected \in {rcv.connected, FALSE}
    BY <1>1, <1>7 DEF ReceiveLength, Receivers
  <2>3. Broken' = Broken \/ Broken' = TRUE
    BY <2>1, <2>2, <1>1 DEF Broken
  <2> QED BY <2>1, <2>3 DEF Abstract!Next, Abstract!Break
<1>8. CASE ReceivePayload
  BY <1>8, ReceiveIsReceive DEF Abstract!Next
<1>9. CASE Close
  <2>1. UNCHANGED <<sent, received>> /\ rcv' = [rcv EXCEPT !.connected = FALSE]
    BY <1>9 DEF Close
  <2>2. ~rcv'.connected
    BY <2>1, <1>1 DEF Receivers
  <2>3. Broken' = TRUE
    BY <2>2 DEF Broken
  <2> QED BY <2>1, <2>3 DEF Abstract!Next, Abstract!Break
<1>10. CASE UNCHANGED vars
  BY <1>10 DEF vars, sender, Broken
<1> QED BY <1>3, <1>4, <1>5, <1>6, <1>7, <1>8, <1>9, <1>10 DEF Next

(* The connection is a channel: pushBuffer sends, the receipt of the last  *)
(* byte of a block receives it, whole, once and in order, and everything   *)
(* between changes nothing or breaks the connection.                       *)
THEOREM ChannelHolds == Spec => ChannelSpec
<1>1. Init => Abstract!Init
  BY DEF Init, Abstract!Init, Broken
<1>2. SockInv /\ [Next]_vars => [Abstract!Next]_<<sent, received, Broken>>
  BY AnyIsStep
<1> QED BY <1>1, <1>2, SockInvHolds, PTL DEF Spec, ChannelSpec, Abstract!Spec
=============================================================================
