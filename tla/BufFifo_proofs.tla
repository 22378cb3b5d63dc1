--------------------------- MODULE BufFifo_proofs ---------------------------
(***************************************************************************)
(* Proofs about the ring buffer, for every size of header, blocks and      *)
(* array: the pointers are exact, the blocks stay intact and in order, and *)
(* the array grows in proportion to what is stored.                        *)
(***************************************************************************)
EXTENDS BufFifo, SequenceTheorems, WellFoundedInduction, TLAPS

USE DEF NULL

LEMMA Least ==
    ASSUME NEW S \in SUBSET Nat, S # {}
    PROVE  \E x \in S : \A y \in S : x <= y
<1>1. PICK x \in S : \A y \in S : ~(<<y, x>> \in OpToRel(<, Nat))
  BY WFMin, NatLessThanWellFounded, Zenon
<1>2. \A y \in S : ~(y < x)
  BY <1>1, Zenon DEF OpToRel
<1> QED BY <1>2

----------------------------------------------------------------------------
(* The invariant *)

(* t[i] is the number of bytes of the first i blocks of q *)
EndsOf(q, t) ==
    /\ t \in [0 .. Len(q) -> Nat]
    /\ t[0] = 0
    /\ \A i \in 1 .. Len(q) : t[i] = t[i - 1] + Whole(q[i].size)
    /\ \A i, j \in 0 .. Len(q) : i < j => t[i] < t[j]

(* the first k blocks follow one another from the tail up to the rewinder, *)
(* the others from the beginning of the array up to the head               *)
LaidOut(n, t, k, hd, tl, rw) ==
    /\ k \in 0 .. n
    /\ rw = NULL => k = n /\ hd = tl + t[n]
    /\ rw # NULL => k < n /\ rw = tl + t[k] /\ hd = t[n] - t[k] /\ hd <= tl

PlaceOf(tl, t, k, i) == IF i <= k THEN tl + t[i - 1] ELSE t[i - 1] - t[k]

Held(b, p, m, z) ==
    /\ p >= 0 /\ p + Whole(b.size) <= z
    /\ \A i \in 0 .. Whole(b.size) - 1 : m[p + i] = [block |-> b, at |-> i]

AllHeld(q, t, k, tl, m, z) == \A i \in 1 .. Len(q) : Held(q[i], PlaceOf(tl, t, k, i), m, z)

(* the first block of those at the beginning had no room at the rewinder *)
NoRoomBehind(q, k, rw, z) == rw # NULL => z - rw < Whole(q[k + 1].size)

Layout(t, k) ==
    /\ EndsOf(stored, t)
    /\ LaidOut(Len(stored), t, k, head, tail, rewinder)
    /\ AllHeld(stored, t, k, tail, mem, size)
    /\ NoRoomBehind(stored, k, rewinder, size)

FifoInv == TypeOK /\ EmptyIsExact /\ \E t, k : Layout(t, k)

----------------------------------------------------------------------------
(* Facts *)

LEMMA ConstantFacts ==
    /\ HeaderSize \in Nat /\ HeaderSize > 0
    /\ \A s \in Sizes : s \in Nat /\ s > 0 /\ Whole(s) \in Nat /\ Whole(s) > HeaderSize
    /\ \A b \in Blocks : b.size \in Sizes
    /\ Junk \in Bytes
    /\ \A b \in Blocks, i \in Nat : [block |-> b, at |-> i] \in Bytes
BY ConstantsAssumption DEF Blocks, Bytes, Whole

LEMMA StoredFacts ==
    ASSUME TypeOK
    PROVE  /\ Len(stored) \in Nat /\ stored \in Seq(Blocks)
           /\ \A i \in 1 .. Len(stored) : /\ stored[i] \in Blocks /\ stored[i].size \in Sizes
                                          /\ Whole(stored[i].size) \in Nat
                                          /\ Whole(stored[i].size) > 0
           /\ stored = <<>> <=> Len(stored) = 0
<1>1. stored \in Seq(Blocks)
  BY DEF TypeOK
<1>2. Len(stored) \in Nat /\ (stored = <<>> <=> Len(stored) = 0)
  BY <1>1, LenProperties, EmptySeq
<1>3. \A i \in 1 .. Len(stored) : stored[i] \in Blocks
  BY <1>1, ElementOfSeq
<1> QED BY <1>1, <1>2, <1>3, ConstantFacts

(* Where the blocks are, and what size() and front() make of it *)
LEMMA LayoutFacts ==
    ASSUME TypeOK, EmptyIsExact, NEW t, NEW k, Layout(t, k)
    PROVE  /\ \A i \in 0 .. Len(stored) : t[i] \in Nat
           /\ \A i, j \in 0 .. Len(stored) : i <= j => t[i] <= t[j]
           /\ \A i \in 1 .. Len(stored) :
                 LET p == PlaceOf(tail, t, k, i)
                     end == p + Whole(stored[i].size)
                 IN  /\ p \in Nat /\ end <= size
                     /\ i <= k => p = tail + t[i - 1] /\ end = tail + t[i] /\ p >= tail
                     /\ i > k => p = t[i - 1] - t[k] /\ end = t[i] - t[k] /\ end <= head
           /\ Used = t[Len(stored)]
           /\ stored # <<>> => First = PlaceOf(tail, t, k, 1)
           /\ stored # <<>> => (k = 0 <=> tail = rewinder)
<1> DEFINE n == Len(stored)
<1>1. n \in Nat /\ k \in 0 .. n /\ t[0] = 0
  BY StoredFacts DEF Layout, LaidOut, EndsOf
<1>2. \A i \in 0 .. n : t[i] \in Nat
  BY DEF Layout, EndsOf
<1>3. \A i, j \in 0 .. n : i <= j => t[i] <= t[j]
  <2> SUFFICES ASSUME NEW i \in 0 .. n, NEW j \in 0 .. n, i <= j PROVE t[i] <= t[j]
    OBVIOUS
  <2>1. CASE i = j
    BY <2>1, <1>2
  <2>2. CASE i < j
    BY <2>2, <1>2 DEF Layout, EndsOf
  <2> QED BY <2>1, <2>2
<1>4. /\ size \in Nat /\ head \in Nat /\ tail \in Nat
      /\ rewinder \in Nat \/ rewinder = NULL
      /\ empty \in BOOLEAN /\ (empty <=> n = 0)
  BY StoredFacts, ConstantsAssumption DEF TypeOK, EmptyIsExact
<1>5. /\ rewinder = NULL => k = n /\ head = tail + t[n]
      /\ rewinder # NULL => k < n /\ rewinder = tail + t[k] /\ head = t[n] - t[k] /\ head <= tail
  BY DEF Layout, LaidOut
<1>6. ASSUME NEW i \in 1 .. n
      PROVE  LET p == PlaceOf(tail, t, k, i)
                 end == p + Whole(stored[i].size)
             IN  /\ p \in Nat /\ end <= size
                 /\ i <= k => p = tail + t[i - 1] /\ end = tail + t[i] /\ p >= tail
                 /\ i > k => p = t[i - 1] - t[k] /\ end = t[i] - t[k] /\ end <= head
  <2>1. /\ i - 1 \in 0 .. n /\ i \in 0 .. n /\ n \in 0 .. n
        /\ t[i] = t[i - 1] + Whole(stored[i].size)
        /\ Whole(stored[i].size) \in Nat
    BY <1>1, StoredFacts DEF Layout, EndsOf
  <2>2. /\ PlaceOf(tail, t, k, i) >= 0
        /\ PlaceOf(tail, t, k, i) + Whole(stored[i].size) <= size
    BY DEF Layout, AllHeld, Held
  <2>3. CASE i <= k
    <3>1. PlaceOf(tail, t, k, i) = tail + t[i - 1] /\ t[i - 1] \in Nat
      BY <2>1, <2>3, <1>2 DEF PlaceOf
    <3>2. ~(i > k)
      BY <2>3, <1>1
    <3> QED BY <3>1, <3>2, <2>1, <2>2, <1>4
  <2>4. CASE i > k
    <3>1. t[k] <= t[i - 1] /\ t[i] <= t[n] /\ rewinder # NULL
      BY <2>1, <2>4, <1>1, <1>3, <1>5
    <3>2. PlaceOf(tail, t, k, i) = t[i - 1] - t[k]
      BY <2>4, <1>1 DEF PlaceOf
    <3>3. /\ t[i - 1] \in Nat /\ t[i] \in Nat /\ t[k] \in Nat /\ t[n] \in Nat
          /\ head = t[n] - t[k]
      BY <2>1, <3>1, <1>1, <1>2, <1>5
    <3>4. /\ t[i - 1] - t[k] \in Nat
          /\ (t[i - 1] - t[k]) + Whole(stored[i].size) = t[i] - t[k]
          /\ t[i] - t[k] <= head
      <4>1. t[i - 1] - t[k] \in Nat
        BY <3>1, <3>3
      <4>2. (t[i - 1] - t[k]) + Whole(stored[i].size) = t[i] - t[k]
        BY <3>3, <2>1
      <4>3. t[i] - t[k] <= head
        BY <3>1, <3>3
      <4> QED BY <4>1, <4>2, <4>3
    <3>5. ~(i <= k)
      BY <2>4, <1>1
    <3> QED BY <3>2, <3>4, <3>5, <2>2
  <2> QED BY <2>3, <2>4, <1>1
<1>7. n > 0 => t[n] > 0
  BY <1>1 DEF Layout, EndsOf
<1>8. k > 0 => t[k] > 0
  BY <1>1 DEF Layout, EndsOf
<1>9. Used = t[n]
  <2>1. CASE empty
    BY <2>1, <1>1, <1>4 DEF Used
  <2>2. CASE ~empty /\ rewinder = NULL
    BY <2>2, <1>1, <1>2, <1>4, <1>5, <1>7 DEF Used
  <2>3. CASE ~empty /\ rewinder # NULL
    <3>1. /\ t[n] \in Nat /\ t[k] \in Nat /\ rewinder \in Nat
          /\ rewinder = tail + t[k] /\ head = t[n] - t[k] /\ head <= tail
      BY <2>3, <1>1, <1>2, <1>4, <1>5
    <3>2. CASE head = tail
      BY <3>1, <3>2, <2>3 DEF Used
    <3>3. CASE head < tail
      BY <3>1, <3>3, <2>3, <1>4 DEF Used
    <3> QED BY <3>1, <3>2, <3>3, <1>4
  <2> QED BY <2>1, <2>2, <2>3, <1>4
<1>10. ASSUME n > 0
       PROVE  /\ First = PlaceOf(tail, t, k, 1)
              /\ k = 0 <=> tail = rewinder
  <2>1. CASE k = 0
    BY <2>1, <1>10, <1>1, <1>4, <1>5 DEF First, PlaceOf
  <2>2. CASE k > 0
    BY <2>2, <1>10, <1>1, <1>2, <1>4, <1>5, <1>8 DEF First, PlaceOf
  <2> QED BY <2>1, <2>2, <1>1
<1> QED BY <1>2, <1>3, <1>6, <1>9, <1>10, <1>1, StoredFacts

----------------------------------------------------------------------------
(* push() *)

LEMMA NextIdType ==
    ASSUME TypeOK PROVE (nextId + 1) % Ids \in 0 .. Ids - 1
BY ConstantsAssumption DEF TypeOK

LEMMA BlockWritten ==
    ASSUME TypeOK, NEW s \in Sizes, NEW h \in Nat, NEW z \in Nat,
           NEW m \in [0 .. z - 1 -> Bytes], h + Whole(s) <= z, Write(s, h, m)
    PROVE  /\ NewBlock(s) \in Blocks /\ NewBlock(s).size = s
           /\ mem' \in [0 .. z - 1 -> Bytes]
           /\ Held(NewBlock(s), h, mem', z)
           /\ \A b \in Blocks, p \in Nat :
                 Held(b, p, m, z) /\ (p + Whole(b.size) <= h \/ h + Whole(s) <= p)
                   => Held(b, p, mem', z)
<1> DEFINE new == NewBlock(s)
<1>1. new \in Blocks /\ new.size = s
  BY DEF TypeOK, NewBlock, Blocks
<1> HIDE DEF new
<1>2. /\ DOMAIN m = 0 .. z - 1
      /\ mem' = [p \in 0 .. z - 1 |-> IF p \in h .. h + Whole(s) - 1
                                       THEN [block |-> new, at |-> p - h] ELSE m[p]]
      /\ Whole(s) \in Nat /\ Whole(s) > 0
  BY ConstantFacts DEF Write, new
<1>3. \A p \in h .. h + Whole(s) - 1 : [block |-> new, at |-> p - h] \in Bytes
  BY <1>1, <1>2, ConstantFacts
<1>4. mem' \in [0 .. z - 1 -> Bytes]
  BY <1>2, <1>3
<1>5. Held(new, h, mem', z)
  BY <1>1, <1>2 DEF Held
<1>6. ASSUME NEW b \in Blocks, NEW p \in Nat, Held(b, p, m, z),
             p + Whole(b.size) <= h \/ h + Whole(s) <= p
      PROVE  Held(b, p, mem', z)
  <2>1. Whole(b.size) \in Nat /\ p + Whole(b.size) <= z
    BY <1>6, ConstantFacts DEF Held
  <2>2. ASSUME NEW i \in 0 .. Whole(b.size) - 1
        PROVE  mem'[p + i] = [block |-> b, at |-> i]
    <3>1. p + i \in 0 .. z - 1 /\ p + i \notin h .. h + Whole(s) - 1
      BY <1>2, <1>6, <2>1
    <3>2. m[p + i] = [block |-> b, at |-> i]
      BY <1>6 DEF Held
    <3> QED BY <3>1, <3>2, <1>2
  <2> QED BY <2>1, <2>2 DEF Held
<1> QED BY <1>1, <1>4, <1>5, <1>6 DEF new

More(q, t, b) ==
    [i \in 0 .. Len(q) + 1 |-> IF i <= Len(q) THEN t[i] ELSE t[Len(q)] + Whole(b.size)]

LEMMA MoreEnds ==
    ASSUME TypeOK, NEW t, EndsOf(stored, t), NEW b \in Blocks
    PROVE  /\ Append(stored, b) \in Seq(Blocks)
           /\ Len(Append(stored, b)) = Len(stored) + 1
           /\ \A i \in 1 .. Len(stored) : Append(stored, b)[i] = stored[i]
           /\ Append(stored, b)[Len(stored) + 1] = b
           /\ EndsOf(Append(stored, b), More(stored, t, b))
           /\ \A i \in 0 .. Len(stored) : More(stored, t, b)[i] = t[i]
           /\ More(stored, t, b)[Len(stored) + 1] = t[Len(stored)] + Whole(b.size)
<1> DEFINE n == Len(stored)
           q == Append(stored, b)
           u == More(stored, t, b)
<1>1. /\ n \in Nat /\ q \in Seq(Blocks) /\ Len(q) = n + 1
      /\ \A i \in 1 .. n : q[i] = stored[i]
      /\ q[n + 1] = b
  BY StoredFacts, AppendProperties
<1>2. /\ t \in [0 .. n -> Nat] /\ t[0] = 0
      /\ \A i \in 1 .. n : t[i] = t[i - 1] + Whole(stored[i].size)
      /\ \A i, j \in 0 .. n : i < j => t[i] < t[j]
  BY DEF EndsOf
<1>3. Whole(b.size) \in Nat /\ Whole(b.size) > 0
  BY ConstantFacts
<1>4. /\ u = [i \in 0 .. n + 1 |-> IF i <= n THEN t[i] ELSE t[n] + Whole(b.size)]
      /\ \A i \in 0 .. n : u[i] = t[i]
      /\ u[n + 1] = t[n] + Whole(b.size)
  BY <1>1 DEF More
<1> HIDE DEF q, u, n
<1>5. \A i \in 0 .. n + 1 : i \in 0 .. n \/ i = n + 1
  BY <1>1
<1>6. n \in 0 .. n /\ 0 \in 0 .. n /\ t[n] \in Nat
  BY <1>1, <1>2
<1>7. u \in [0 .. n + 1 -> Nat]
  BY <1>2, <1>3, <1>4, <1>6, <1>1
<1>8. \A i \in 1 .. n + 1 : u[i] = u[i - 1] + Whole(q[i].size)
  <2> SUFFICES ASSUME NEW i \in 1 .. n + 1 PROVE u[i] = u[i - 1] + Whole(q[i].size)
    OBVIOUS
  <2>1. CASE i \in 1 .. n
    <3>1. i \in 0 .. n /\ i - 1 \in 0 .. n
      BY <2>1, <1>1
    <3>2. u[i] = t[i] /\ u[i - 1] = t[i - 1]
      BY <3>1, <1>4
    <3> QED BY <3>2, <2>1, <1>1, <1>2
  <2>2. CASE i = n + 1
    BY <2>2, <1>1, <1>4, <1>6
  <2> QED BY <2>1, <2>2, <1>1
<1>9. \A i, j \in 0 .. n + 1 : i < j => u[i] < u[j]
  <2> SUFFICES ASSUME NEW i \in 0 .. n + 1, NEW j \in 0 .. n + 1, i < j PROVE u[i] < u[j]
    OBVIOUS
  <2>1. i \in 0 .. n /\ u[i] = t[i] /\ t[i] \in Nat
    BY <1>1, <1>2, <1>4
  <2>2. CASE j \in 0 .. n
    BY <2>1, <2>2, <1>2, <1>4
  <2>3. CASE j = n + 1
    <3>1. t[i] <= t[n]
      BY <2>1, <1>1, <1>2, <1>6
    <3> QED BY <2>1, <2>3, <3>1, <1>3, <1>4, <1>6
  <2> QED BY <2>2, <2>3, <1>5
<1>10. EndsOf(q, u)
  BY <1>1, <1>2, <1>4, <1>6, <1>7, <1>8, <1>9 DEF EndsOf
<1> QED BY <1>1, <1>4, <1>10 DEF n, q, u

(* What it takes that a block is written at h behind the others *)
LEMMA BlockPushed ==
    ASSUME TypeOK, NEW s \in Sizes, NEW t, EndsOf(stored, t), NEW c, NEW u,
           u = More(stored, t, NewBlock(s)),
           NEW h \in Nat, NEW m, Write(s, h, m),
           size' \in 0 .. MaxSize, m \in [0 .. size' - 1 -> Bytes], h + Whole(s) <= size',
           tail' \in 0 .. size', rewinder' \in (0 .. size') \cup {NULL},
           LaidOut(Len(stored) + 1, u, c, head', tail', rewinder'),
           NoRoomBehind(Append(stored, NewBlock(s)), c, rewinder', size'),
           PlaceOf(tail', u, c, Len(stored) + 1) = h,
           \A i \in 1 .. Len(stored) :
              LET p == PlaceOf(tail', u, c, i)
              IN  /\ p \in Nat /\ Held(stored[i], p, m, size')
                  /\ p + Whole(stored[i].size) <= h \/ h + Whole(s) <= p
    PROVE  FifoInv'
<1> DEFINE n == Len(stored)
           b == NewBlock(s)
<1>1. size' \in Nat
  BY ConstantsAssumption
<1>2. /\ b \in Blocks /\ b.size = s
      /\ mem' \in [0 .. size' - 1 -> Bytes]
      /\ Held(b, h, mem', size')
      /\ \A d \in Blocks, p \in Nat :
            Held(d, p, m, size') /\ (p + Whole(d.size) <= h \/ h + Whole(s) <= p)
              => Held(d, p, mem', size')
  BY <1>1, BlockWritten
<1>3. /\ stored' = Append(stored, b) /\ stored' \in Seq(Blocks) /\ Len(stored') = n + 1
      /\ \A i \in 1 .. n : stored'[i] = stored[i]
      /\ stored'[n + 1] = b
      /\ EndsOf(stored', u)
      /\ n \in Nat
  BY <1>2, MoreEnds, StoredFacts DEF Write
<1>4. /\ head' = h + Whole(s) /\ head' \in 0 .. size'
      /\ empty' = FALSE /\ nextId' \in 0 .. Ids - 1
  BY ConstantFacts, NextIdType, <1>1 DEF Write
<1>5. TypeOK'
  BY <1>2, <1>3, <1>4 DEF TypeOK
<1>6. EmptyIsExact'
  <2>1. \A q \in Seq(Blocks) : q = <<>> <=> Len(q) = 0
    BY EmptySeq
  <2>2. stored' # <<>>
    BY <2>1, <1>3
  <2> QED BY <2>2, <1>4 DEF EmptyIsExact
<1>7. AllHeld(stored', u, c, tail', mem', size')
  <2> SUFFICES ASSUME NEW i \in 1 .. n + 1
               PROVE  Held(stored'[i], PlaceOf(tail', u, c, i), mem', size')
    BY <1>3 DEF AllHeld
  <2>1. CASE i \in 1 .. n
    <3>1. stored[i] \in Blocks
      BY <2>1, StoredFacts
    <3> QED BY <2>1, <3>1, <1>2, <1>3
  <2>2. CASE i = n + 1
    BY <2>2, <1>2, <1>3
  <2> QED BY <2>1, <2>2, <1>3
<1>8. Layout(u, c)'
  BY <1>3, <1>7 DEF Layout
<1> QED BY <1>5, <1>6, <1>8 DEF FifoInv

(* The places of the blocks that were there, with one more *)
LEMMA SamePlaces ==
    ASSUME TypeOK, NEW t, EndsOf(stored, t), NEW b \in Blocks, NEW tl,
           NEW k \in 0 .. Len(stored), NEW c \in {k, k + 1},
           c = k \/ k = Len(stored), NEW i \in 1 .. Len(stored)
    PROVE  PlaceOf(tl, More(stored, t, b), c, i) = PlaceOf(tl, t, k, i)
<1>1. Len(stored) \in Nat
  BY StoredFacts
<1>2. /\ i - 1 \in 0 .. Len(stored)
      /\ \A j \in 0 .. Len(stored) : More(stored, t, b)[j] = t[j]
  BY <1>1, MoreEnds
<1>3. CASE c = k
  BY <1>1, <1>2, <1>3 DEF PlaceOf
<1>4. CASE c = k + 1 /\ k = Len(stored)
  BY <1>1, <1>2, <1>4 DEF PlaceOf
<1> QED BY <1>3, <1>4

LEMMA Numbers ==
    ASSUME TypeOK
    PROVE  /\ size \in 0 .. MaxSize /\ size \in Nat /\ head \in 0 .. size /\ tail \in 0 .. size
           /\ rewinder \in (0 .. size) \cup {NULL}
           /\ mem \in [0 .. size - 1 -> Bytes]
           /\ MaxSize \in Nat
BY ConstantsAssumption DEF TypeOK

LEMMA PushIntoEmptyKeeps ==
    ASSUME FifoInv, NEW s \in Sizes, PushIntoEmpty(s) PROVE FifoInv'
<1>1. PICK t, k : Layout(t, k)
  BY DEF FifoInv
<1> DEFINE u == More(stored, t, NewBlock(s))
<1>2. TypeOK /\ EmptyIsExact /\ EndsOf(stored, t)
  BY <1>1 DEF FifoInv, Layout
<1>3. Len(stored) = 0 /\ rewinder = NULL
  BY <1>1, <1>2, StoredFacts DEF PushIntoEmpty, FitsEmpty, EmptyIsExact, Layout, LaidOut
<1>4. /\ size' = size /\ tail' = 0 /\ rewinder' = NULL /\ Write(s, 0, mem)
      /\ head' = 0 + Whole(s) /\ size >= Whole(s)
  BY <1>3 DEF PushIntoEmpty, FitsEmpty, Write
<1>5. /\ NewBlock(s) \in Blocks /\ NewBlock(s).size = s
      /\ Whole(s) \in Nat
  BY <1>2, ConstantFacts DEF TypeOK, NewBlock, Blocks
<1>6. u[0] = 0 /\ u[1] = Whole(s)
  <2>1. u[0] = t[0] /\ u[0 + 1] = t[0] + Whole(s) /\ t[0] = 0
    BY <1>2, <1>3, <1>5, MoreEnds DEF EndsOf
  <2> QED BY <2>1, <1>5
<1>7. LaidOut(Len(stored) + 1, u, 1, head', tail', rewinder')
  BY <1>3, <1>4, <1>5, <1>6 DEF LaidOut
<1>8. PlaceOf(tail', u, 1, Len(stored) + 1) = 0
  BY <1>3, <1>4, <1>6 DEF PlaceOf
<1>9. NoRoomBehind(Append(stored, NewBlock(s)), 1, rewinder', size')
  BY <1>4 DEF NoRoomBehind
<1> HIDE DEF u
<1> QED BY <1>2, <1>3, <1>4, <1>5, <1>7, <1>8, <1>9, BlockPushed, Numbers DEF u

LEMMA PushAfterKeeps ==
    ASSUME FifoInv, NEW s \in Sizes, PushAfter(s) PROVE FifoInv'
<1>1. PICK t, k : Layout(t, k)
  BY DEF FifoInv
<1> DEFINE u == More(stored, t, NewBlock(s))
           n == Len(stored)
<1>2. TypeOK /\ EmptyIsExact /\ EndsOf(stored, t)
  BY <1>1 DEF FifoInv, Layout
<1>3. /\ size' = size /\ tail' = tail /\ rewinder' = rewinder /\ Write(s, head, mem)
      /\ head' = head + Whole(s) /\ tail < head /\ size - head >= Whole(s)
  BY DEF PushAfter, FitsAfter, Write
<1>4. /\ NewBlock(s) \in Blocks /\ NewBlock(s).size = s
      /\ Whole(s) \in Nat
  BY <1>2, ConstantFacts DEF TypeOK, NewBlock, Blocks
<1>5. n \in Nat /\ k = n /\ rewinder = NULL /\ head = tail + t[n]
  BY <1>1, <1>2, <1>3, Numbers, StoredFacts DEF Layout, LaidOut
<1>6. u[n] = t[n] /\ u[n + 1] = t[n] + Whole(s) /\ t[n] \in Nat
  BY <1>1, <1>2, <1>4, <1>5, MoreEnds, LayoutFacts
<1>7. LaidOut(n + 1, u, n + 1, head', tail', rewinder')
  <2>1. tail \in Nat
    BY <1>2, Numbers
  <2>2. head' = tail' + u[n + 1]
    BY <2>1, <1>3, <1>4, <1>5, <1>6
  <2>3. n + 1 \in 0 .. n + 1
    BY <1>5
  <2> QED BY <2>2, <2>3, <1>3, <1>5 DEF LaidOut
<1>8. PlaceOf(tail', u, n + 1, n + 1) = head
  BY <1>3, <1>5, <1>6 DEF PlaceOf
<1>9. ASSUME NEW i \in 1 .. n
      PROVE  LET p == PlaceOf(tail', u, n + 1, i)
             IN  /\ p \in Nat /\ Held(stored[i], p, mem, size')
                 /\ p + Whole(stored[i].size) <= head \/ head + Whole(s) <= p
  <2>1. PlaceOf(tail', u, n + 1, i) = PlaceOf(tail, t, k, i)
    BY <1>2, <1>3, <1>4, <1>5, SamePlaces
  <2>2. Held(stored[i], PlaceOf(tail, t, k, i), mem, size)
    BY <1>1 DEF Layout, AllHeld
  <2>3. /\ PlaceOf(tail, t, k, i) \in Nat
        /\ PlaceOf(tail, t, k, i) + Whole(stored[i].size) = tail + t[i]
        /\ t[i] <= t[n] /\ t[i] \in Nat
    BY <1>1, <1>2, <1>5, LayoutFacts
  <2>4. PlaceOf(tail, t, k, i) + Whole(stored[i].size) <= head
    BY <2>3, <1>2, <1>5, <1>6, Numbers
  <2> QED BY <2>1, <2>2, <2>3, <2>4, <1>3
<1> HIDE DEF u
<1>10. head + Whole(s) <= size'
  BY <1>2, <1>3, <1>4, Numbers
<1>11. NoRoomBehind(Append(stored, NewBlock(s)), n + 1, rewinder', size')
  BY <1>3, <1>5 DEF NoRoomBehind
<1> QED BY <1>2, <1>3, <1>7, <1>8, <1>9, <1>10, <1>11, BlockPushed, Numbers DEF u

LEMMA PushBeforeKeeps ==
    ASSUME FifoInv, NEW s \in Sizes, PushBefore(s) PROVE FifoInv'
<1>1. PICK t, k : Layout(t, k)
  BY DEF FifoInv
<1> DEFINE u == More(stored, t, NewBlock(s))
           n == Len(stored)
<1>2. TypeOK /\ EmptyIsExact /\ EndsOf(stored, t)
  BY <1>1 DEF FifoInv, Layout
<1>3. /\ size' = size /\ tail' = tail /\ rewinder' = head /\ Write(s, 0, mem)
      /\ head' = 0 + Whole(s) /\ tail < head /\ tail >= Whole(s)
      /\ ~FitsAfter(s)
  BY DEF PushBefore, FitsBefore, Write
<1>4. /\ NewBlock(s) \in Blocks /\ NewBlock(s).size = s
      /\ Whole(s) \in Nat
  BY <1>2, ConstantFacts DEF TypeOK, NewBlock, Blocks
<1>5. n \in Nat /\ k = n /\ rewinder = NULL /\ head = tail + t[n]
  BY <1>1, <1>2, <1>3, Numbers, StoredFacts DEF Layout, LaidOut
<1>6. u[n] = t[n] /\ u[n + 1] = t[n] + Whole(s) /\ t[n] \in Nat
  BY <1>1, <1>2, <1>4, <1>5, MoreEnds, LayoutFacts
<1>7. LaidOut(n + 1, u, n, head', tail', rewinder')
  BY <1>2, <1>3, <1>4, <1>5, <1>6, Numbers DEF LaidOut
<1>8. PlaceOf(tail', u, n, n + 1) = 0
  BY <1>3, <1>5, <1>6 DEF PlaceOf
<1>9. ASSUME NEW i \in 1 .. n
      PROVE  LET p == PlaceOf(tail', u, n, i)
             IN  /\ p \in Nat /\ Held(stored[i], p, mem, size')
                 /\ p + Whole(stored[i].size) <= 0 \/ 0 + Whole(s) <= p
  <2>1. PlaceOf(tail', u, n, i) = PlaceOf(tail, t, k, i)
    BY <1>2, <1>3, <1>4, <1>5, SamePlaces
  <2>2. Held(stored[i], PlaceOf(tail, t, k, i), mem, size)
    BY <1>1 DEF Layout, AllHeld
  <2>3. PlaceOf(tail, t, k, i) \in Nat /\ PlaceOf(tail, t, k, i) >= tail
    BY <1>1, <1>2, <1>5, LayoutFacts
  <2> QED BY <2>1, <2>2, <2>3, <1>2, <1>3, <1>4, Numbers
<1> HIDE DEF u
<1>10. 0 + Whole(s) <= size' /\ rewinder' \in 0 .. size'
  BY <1>2, <1>3, <1>4, Numbers
<1>11. NoRoomBehind(Append(stored, NewBlock(s)), n, rewinder', size')
  <2>1. size - head < Whole(s)
    BY <1>2, <1>3, <1>4, Numbers DEF FitsAfter
  <2>2. Append(stored, NewBlock(s))[n + 1].size = s
    BY <1>2, <1>4, MoreEnds
  <2> QED BY <2>1, <2>2, <1>3 DEF NoRoomBehind
<1> QED BY <1>2, <1>3, <1>7, <1>8, <1>9, <1>10, <1>11, BlockPushed, Numbers DEF u

LEMMA PushBetweenKeeps ==
    ASSUME FifoInv, NEW s \in Sizes, PushBetween(s) PROVE FifoInv'
<1>1. PICK t, k : Layout(t, k)
  BY DEF FifoInv
<1> DEFINE u == More(stored, t, NewBlock(s))
           n == Len(stored)
<1>2. TypeOK /\ EmptyIsExact /\ EndsOf(stored, t)
  BY <1>1 DEF FifoInv, Layout
<1>3. /\ size' = size /\ tail' = tail /\ rewinder' = rewinder /\ Write(s, head, mem)
      /\ head' = head + Whole(s) /\ tail > head /\ tail - head >= Whole(s)
  BY DEF PushBetween, FitsBetween, Write
<1>4. /\ NewBlock(s) \in Blocks /\ NewBlock(s).size = s
      /\ Whole(s) \in Nat
  BY <1>2, ConstantFacts DEF TypeOK, NewBlock, Blocks
<1>5. n \in Nat /\ k \in 0 .. n /\ \A i \in 0 .. n : t[i] \in Nat
  BY <1>1, <1>2, StoredFacts, LayoutFacts DEF Layout, LaidOut
<1>6. rewinder # NULL /\ k < n /\ rewinder = tail + t[k] /\ head = t[n] - t[k]
  <2>1. t[n] \in Nat
    BY <1>5
  <2> QED BY <2>1, <1>1, <1>2, <1>3, Numbers DEF Layout, LaidOut
<1>7. u[n] = t[n] /\ u[k] = t[k] /\ u[n + 1] = t[n] + Whole(s) /\ t[n] \in Nat /\ t[k] \in Nat
  BY <1>2, <1>4, <1>5, MoreEnds
<1>8. LaidOut(n + 1, u, k, head', tail', rewinder')
  <2>1. head' = u[n + 1] - u[k] /\ head' <= tail'
    <3>1. head \in Int /\ tail \in Int
      BY <1>2, Numbers
    <3>2. head' = (t[n] - t[k]) + Whole(s)
      BY <1>3, <1>6
    <3>3. head' = u[n + 1] - u[k]
      BY <3>2, <1>4, <1>7
    <3>4. head' <= tail'
      BY <3>1, <1>3, <1>4
    <3> QED BY <3>3, <3>4
  <2>2. rewinder' # NULL /\ k < n + 1 /\ k \in 0 .. n + 1 /\ rewinder' = tail' + u[k]
    BY <1>3, <1>5, <1>6, <1>7
  <2> QED BY <2>1, <2>2 DEF LaidOut
<1>9. PlaceOf(tail', u, k, n + 1) = head
  BY <1>3, <1>5, <1>6, <1>7 DEF PlaceOf
<1>10. ASSUME NEW i \in 1 .. n
       PROVE  LET p == PlaceOf(tail', u, k, i)
              IN  /\ p \in Nat /\ Held(stored[i], p, mem, size')
                  /\ p + Whole(stored[i].size) <= head \/ head + Whole(s) <= p
  <2>1. PlaceOf(tail', u, k, i) = PlaceOf(tail, t, k, i)
    BY <1>2, <1>3, <1>4, <1>5, SamePlaces
  <2>2. Held(stored[i], PlaceOf(tail, t, k, i), mem, size)
    BY <1>1 DEF Layout, AllHeld
  <2>3. /\ PlaceOf(tail, t, k, i) \in Nat
        /\ i <= k => PlaceOf(tail, t, k, i) >= tail
        /\ i > k => PlaceOf(tail, t, k, i) + Whole(stored[i].size) <= head
    BY <1>1, <1>2, LayoutFacts
  <2> QED BY <2>1, <2>2, <2>3, <1>2, <1>3, <1>4, <1>5, Numbers
<1> HIDE DEF u
<1>11. head + Whole(s) <= size'
  BY <1>2, <1>3, <1>4, Numbers
<1>12. NoRoomBehind(Append(stored, NewBlock(s)), k, rewinder', size')
  <2>1. k + 1 \in 1 .. n
    BY <1>5, <1>6
  <2>2. Append(stored, NewBlock(s))[k + 1] = stored[k + 1]
    BY <2>1, <1>2, <1>4, MoreEnds
  <2>3. NoRoomBehind(stored, k, rewinder, size)
    BY <1>1 DEF Layout
  <2> QED BY <2>2, <2>3, <1>3 DEF NoRoomBehind
<1> QED BY <1>2, <1>3, <1>8, <1>9, <1>10, <1>11, <1>12, BlockPushed, Numbers DEF u

----------------------------------------------------------------------------
(* resize() *)

LEMMA ResizedHolds ==
    ASSUME TypeOK, EmptyIsExact, NEW t, NEW k, Layout(t, k),
           NEW z \in Nat, Used <= z
    PROVE  /\ Resized(z) \in [0 .. z - 1 -> Bytes]
           /\ AllHeld(stored, t, Len(stored), 0, Resized(z), z)
<1> DEFINE n == Len(stored)
           before == IF tail < head THEN Used ELSE rewinder - tail
<1>1. /\ n \in Nat /\ k \in 0 .. n /\ t[0] = 0 /\ Used = t[n]
      /\ \A i \in 0 .. n : t[i] \in Nat
      /\ \A i, j \in 0 .. n : i <= j => t[i] <= t[j]
  BY StoredFacts, LayoutFacts DEF Layout, LaidOut, EndsOf
<1>2. /\ rewinder = NULL => k = n /\ head = tail + t[n]
      /\ rewinder # NULL => k < n /\ rewinder = tail + t[k] /\ head = t[n] - t[k] /\ head <= tail
  BY DEF Layout, LaidOut
<1>3. t[n] \in Nat /\ t[k] \in Nat /\ t[k] <= t[n]
  BY <1>1
<1>4. /\ t[n] > 0 => before = t[k]
      /\ before \in Int
  <2>1. CASE rewinder = NULL
    BY <2>1, <1>1, <1>2, <1>3, Numbers
  <2>2. CASE rewinder # NULL
    BY <2>2, <1>1, <1>2, <1>3, Numbers
  <2> QED BY <2>1, <2>2
<1>5. Resized(z) = [p \in 0 .. z - 1 |->
                      IF p >= Used THEN Junk
                      ELSE IF p < before THEN mem[tail + p] ELSE mem[p - before]]
  BY DEF Resized
<1> HIDE DEF before
<1>6. \A p \in 0 .. z - 1 : p < Used /\ p < before => Resized(z)[p] = mem[tail + p]
  BY <1>1, <1>3, <1>5
<1>7. \A p \in 0 .. z - 1 : p < Used /\ ~(p < before) => Resized(z)[p] = mem[p - before]
  BY <1>1, <1>3, <1>5
<1>8. ASSUME NEW p \in 0 .. z - 1
      PROVE  Resized(z)[p] \in Bytes
  <2>1. CASE p >= Used
    BY <2>1, <1>5, ConstantFacts
  <2>2. CASE p < Used /\ p < before
    <3>1. tail + p \in 0 .. size - 1
      <4>1. p < t[k]
        BY <2>2, <1>1, <1>3, <1>4
      <4>2. tail + t[k] <= size /\ tail \in Nat /\ size \in Nat
        <5>1. CASE rewinder = NULL
          BY <5>1, <1>2, Numbers
        <5>2. CASE rewinder # NULL
          BY <5>2, <1>2, Numbers
        <5> QED BY <5>1, <5>2
      <4> QED BY <4>1, <4>2, <1>3
    <3>2. mem[tail + p] \in Bytes
      BY <3>1, Numbers
    <3> QED BY <3>2, <2>2, <1>6
  <2>3. CASE p < Used /\ ~(p < before)
    <3>1. p - before \in 0 .. size - 1
      <4>1. t[n] > 0 /\ before = t[k]
        BY <2>3, <1>1, <1>3, <1>4
      <4>2. rewinder # NULL
        BY <4>1, <2>3, <1>1, <1>2, <1>3
      <4>3. head \in Int /\ size \in Int /\ head <= size
        BY Numbers
      <4>4. p < t[n] /\ ~(p < t[k]) /\ head = t[n] - t[k]
        BY <4>1, <4>2, <2>3, <1>1, <1>2
      <4> QED BY <4>1, <4>3, <4>4, <1>3
    <3>2. mem[p - before] \in Bytes
      BY <3>1, Numbers
    <3> QED BY <3>2, <2>3, <1>7
  <2>4. p >= Used \/ p < Used
    BY <1>1, <1>3
  <2> QED BY <2>1, <2>2, <2>3, <2>4
<1>9. Resized(z) \in [0 .. z - 1 -> Bytes]
  BY <1>5, <1>8
<1>10. ASSUME NEW i \in 1 .. n
       PROVE  Held(stored[i], PlaceOf(0, t, n, i), Resized(z), z)
  <2>1. /\ i - 1 \in 0 .. n /\ i \in 0 .. n
        /\ t[i - 1] \in Nat /\ t[i] \in Nat /\ t[i] <= t[n]
        /\ t[i] = t[i - 1] + Whole(stored[i].size)
        /\ Whole(stored[i].size) \in Nat /\ Whole(stored[i].size) > 0
    <3>1. i - 1 \in 0 .. n /\ i \in 0 .. n /\ n \in 0 .. n
      BY <1>1
    <3> QED BY <3>1, <1>1, StoredFacts DEF Layout, EndsOf
  <2>2. PlaceOf(0, t, n, i) = t[i - 1]
    BY <1>1, <2>1 DEF PlaceOf
  <2>3. Held(stored[i], PlaceOf(tail, t, k, i), mem, size)
    BY DEF Layout, AllHeld
  <2>4. before = t[k]
    BY <1>3, <1>4, <2>1
  <2>5. ASSUME NEW j \in 0 .. Whole(stored[i].size) - 1
        PROVE  Resized(z)[t[i - 1] + j] = [block |-> stored[i], at |-> j]
    <3>1. t[i - 1] + j < t[i]
      BY <2>1
    <3>2. t[i - 1] + j < t[n] /\ t[n] <= z
      <4>1. t[n] <= z
        BY <1>1
      <4> QED BY <4>1, <2>1, <3>1, <1>3
    <3>3. t[i - 1] + j \in 0 .. z - 1 /\ t[i - 1] + j < Used
      <4>1. t[i - 1] + j \in Nat
        BY <2>1
      <4>2. t[i - 1] + j \in 0 .. z - 1
        BY <4>1, <3>2, <1>3
      <4> QED BY <4>2, <3>2, <1>1
    <3>4. mem[PlaceOf(tail, t, k, i) + j] = [block |-> stored[i], at |-> j]
      BY <2>3 DEF Held
    <3>5. CASE i <= k
      <4>1. t[i - 1] + j < before
        <5>1. t[i] <= t[k]
          BY <2>1, <3>5, <1>1
        <5> QED BY <5>1, <2>1, <2>4, <3>1, <1>3
      <4>2. PlaceOf(tail, t, k, i) = tail + t[i - 1]
        BY <3>5 DEF PlaceOf
      <4>3. tail \in Int
        BY Numbers
      <4>4. PlaceOf(tail, t, k, i) + j = tail + (t[i - 1] + j)
        BY <4>2, <4>3, <2>1
      <4>5. Resized(z)[t[i - 1] + j] = mem[tail + (t[i - 1] + j)]
        BY <4>1, <3>3, <1>6
      <4> QED BY <4>4, <4>5, <3>4
    <3>6. CASE i > k
      <4>1. t[k] <= t[i - 1]
        <5>1. k <= i - 1
          BY <3>6, <1>1
        <5> QED BY <5>1, <2>1, <1>1
      <4>2. ~(t[i - 1] + j < before)
        BY <4>1, <2>1, <2>4, <1>3
      <4>3. PlaceOf(tail, t, k, i) = t[i - 1] - t[k]
        BY <3>6, <1>1 DEF PlaceOf
      <4>4. PlaceOf(tail, t, k, i) + j = (t[i - 1] + j) - before
        BY <4>3, <2>1, <2>4, <1>3
      <4>5. Resized(z)[t[i - 1] + j] = mem[(t[i - 1] + j) - before]
        BY <4>2, <3>3, <1>7
      <4> QED BY <4>4, <4>5, <3>4
    <3> QED BY <3>5, <3>6, <1>1
  <2>6. t[i - 1] >= 0 /\ t[i - 1] + Whole(stored[i].size) <= z
    BY <2>1, <1>1, <1>3
  <2> QED BY <2>2, <2>5, <2>6 DEF Held
<1> QED BY <1>9, <1>10 DEF AllHeld

LEMMA UsedFits ==
    ASSUME TypeOK, EmptyIsExact, NEW t, NEW k, Layout(t, k)
    PROVE  Used <= size
<1>1. /\ Used = t[Len(stored)] /\ t[Len(stored)] \in Nat
      /\ k \in 0 .. Len(stored) /\ t[k] \in Nat
  BY StoredFacts, LayoutFacts DEF Layout, LaidOut
<1>2. /\ rewinder = NULL => head = tail + t[Len(stored)]
      /\ rewinder # NULL => /\ rewinder = tail + t[k] /\ head = t[Len(stored)] - t[k]
                            /\ head <= tail
  BY DEF Layout, LaidOut
<1>3. head \in Nat /\ tail \in Nat /\ size \in Nat /\ head <= size
      /\ (rewinder = NULL \/ (rewinder \in Nat /\ rewinder <= size))
  BY Numbers
<1>4. CASE rewinder = NULL
  BY <1>1, <1>2, <1>3, <1>4
<1>5. CASE rewinder # NULL
  <2>1. t[Len(stored)] = head + t[k] /\ tail + t[k] <= size /\ head <= tail
    BY <1>1, <1>2, <1>3, <1>5
  <2> QED BY <2>1, <1>1, <1>3
<1> QED BY <1>4, <1>5

LEMMA ResizeKeeps ==
    ASSUME FifoInv, NEW z \in Resizes, Resize(z) PROVE FifoInv'
<1>1. PICK t, k : Layout(t, k)
  BY DEF FifoInv
<1> DEFINE n == Len(stored)
<1>2. TypeOK /\ EmptyIsExact /\ EndsOf(stored, t) /\ n \in Nat
  BY <1>1, StoredFacts DEF FifoInv, Layout
<1>3. PICK x : /\ x = (IF z = 0 THEN DefaultSize ELSE z)
               /\ x <= MaxSize /\ ~(x < size /\ Used > x)
               /\ mem' = Resized(x) /\ size' = x
               /\ tail' = 0 /\ head' = Used /\ rewinder' = NULL
               /\ UNCHANGED <<empty, nextId, stored>>
  BY DEF Resize
<1>4. Used = t[n] /\ t[n] \in Nat
  BY <1>1, <1>2, LayoutFacts
<1>5. Used <= size
  BY <1>1, <1>2, <1>4, UsedFits
<1>6. x \in Nat /\ x \in 0 .. MaxSize /\ Used <= x
  BY <1>2, <1>3, <1>4, <1>5, Numbers, ConstantsAssumption
<1>7. Resized(x) \in [0 .. x - 1 -> Bytes] /\ AllHeld(stored, t, n, 0, Resized(x), x)
  BY <1>1, <1>2, <1>6, ResizedHolds
<1>8. TypeOK'
  BY <1>2, <1>3, <1>4, <1>6, <1>7 DEF TypeOK
<1>9. EmptyIsExact'
  BY <1>2, <1>3 DEF EmptyIsExact
<1>10. LaidOut(n, t, n, head', tail', rewinder')
  BY <1>2, <1>3, <1>4 DEF LaidOut
<1>11. NoRoomBehind(stored', n, rewinder', size')
  BY <1>3 DEF NoRoomBehind
<1>12. Layout(t, n)'
  BY <1>2, <1>3, <1>7, <1>10, <1>11 DEF Layout
<1> QED BY <1>8, <1>9, <1>12 DEF FifoInv

LEMMA PushGrownKeeps ==
    ASSUME FifoInv, NEW s \in Sizes, PushGrown(s) PROVE FifoInv'
<1>1. PICK t, k : Layout(t, k)
  BY DEF FifoInv
<1> DEFINE u == More(stored, t, NewBlock(s))
           n == Len(stored)
<1>2. TypeOK /\ EmptyIsExact /\ EndsOf(stored, t) /\ n \in Nat
  BY <1>1, StoredFacts DEF FifoInv, Layout
<1>3. PICK z \in 1 .. MaxSize :
         z >= Used + Whole(s) /\ size' = z /\ Write(s, Used, Resized(z))
  BY DEF PushGrown
<1>4. /\ tail' = 0 /\ rewinder' = NULL /\ head' = Used + Whole(s)
      /\ Used = t[n] /\ t[n] \in Nat
  BY <1>1, <1>2, <1>3, LayoutFacts DEF PushGrown, Write
<1>5. /\ NewBlock(s) \in Blocks /\ NewBlock(s).size = s
      /\ Whole(s) \in Nat /\ z \in Nat /\ z \in 0 .. MaxSize
  BY <1>2, ConstantFacts, Numbers DEF TypeOK, NewBlock, Blocks
<1>6. Resized(z) \in [0 .. z - 1 -> Bytes] /\ AllHeld(stored, t, n, 0, Resized(z), z)
  BY <1>1, <1>2, <1>3, <1>4, <1>5, ResizedHolds
<1>7. u[n] = t[n] /\ u[n + 1] = t[n] + Whole(s)
  BY <1>2, <1>5, MoreEnds
<1>8. LaidOut(n + 1, u, n + 1, head', tail', rewinder')
  BY <1>2, <1>4, <1>5, <1>7 DEF LaidOut
<1>9. PlaceOf(tail', u, n + 1, n + 1) = Used
  BY <1>2, <1>4, <1>7 DEF PlaceOf
<1>10. ASSUME NEW i \in 1 .. n
       PROVE  LET p == PlaceOf(tail', u, n + 1, i)
              IN  /\ p \in Nat /\ Held(stored[i], p, Resized(z), size')
                  /\ p + Whole(stored[i].size) <= Used \/ Used + Whole(s) <= p
  <2>1. PlaceOf(tail', u, n + 1, i) = PlaceOf(0, t, n, i)
    BY <1>2, <1>4, <1>5, SamePlaces
  <2>2. Held(stored[i], PlaceOf(0, t, n, i), Resized(z), z)
    BY <1>6 DEF AllHeld
  <2>3. i - 1 \in 0 .. n /\ i \in 0 .. n /\ n \in 0 .. n
    BY <1>2
  <2>4. /\ t[i - 1] \in Nat /\ t[i] <= t[n]
        /\ t[i] = t[i - 1] + Whole(stored[i].size)
    BY <2>3, <1>1, <1>2, LayoutFacts DEF EndsOf
  <2>5. PlaceOf(0, t, n, i) = t[i - 1]
    BY <2>4, <1>2 DEF PlaceOf
  <2> QED BY <2>1, <2>2, <2>4, <2>5, <1>3, <1>4
<1> HIDE DEF u
<1>11. Used + Whole(s) <= size' /\ Used \in Nat
  BY <1>3, <1>4
<1>12. /\ size' \in 0 .. MaxSize /\ Resized(z) \in [0 .. size' - 1 -> Bytes]
       /\ tail' \in 0 .. size' /\ rewinder' \in (0 .. size') \cup {NULL}
  BY <1>3, <1>4, <1>5, <1>6
<1>13. Write(s, Used, Resized(z)) /\ TypeOK /\ EndsOf(stored, t)
  BY <1>2, <1>3
<1>14. u = More(stored, t, NewBlock(s))
  BY DEF u
<1>15. NoRoomBehind(Append(stored, NewBlock(s)), n + 1, rewinder', size')
  BY <1>4 DEF NoRoomBehind
<1> QED BY <1>8, <1>9, <1>10, <1>11, <1>12, <1>13, <1>14, <1>15, BlockPushed

----------------------------------------------------------------------------
(* pop() and clear() *)

Less(q, t) == [i \in 0 .. Len(q) - 1 |-> t[i + 1] - t[1]]

LEMMA LessEnds ==
    ASSUME TypeOK, stored # <<>>, NEW t, EndsOf(stored, t)
    PROVE  /\ Tail(stored) \in Seq(Blocks)
           /\ Len(Tail(stored)) = Len(stored) - 1
           /\ \A i \in 1 .. Len(stored) - 1 : Tail(stored)[i] = stored[i + 1]
           /\ EndsOf(Tail(stored), Less(stored, t))
           /\ \A i \in 0 .. Len(stored) - 1 : Less(stored, t)[i] = t[i + 1] - t[1]
<1> DEFINE n == Len(stored)
           q == Tail(stored)
           u == Less(stored, t)
<1>1. /\ n \in Nat /\ n > 0 /\ q \in Seq(Blocks) /\ Len(q) = n - 1
      /\ \A i \in 1 .. n - 1 : q[i] = stored[i + 1]
  BY StoredFacts, HeadTailProperties
<1>2. /\ t \in [0 .. n -> Nat] /\ t[0] = 0
      /\ \A i \in 1 .. n : t[i] = t[i - 1] + Whole(stored[i].size)
      /\ \A i, j \in 0 .. n : i < j => t[i] < t[j]
  BY DEF EndsOf
<1>3. /\ u = [i \in 0 .. n - 1 |-> t[i + 1] - t[1]]
      /\ \A i \in 0 .. n - 1 : u[i] = t[i + 1] - t[1]
  BY DEF Less
<1> HIDE DEF q, u, n
<1>4. ASSUME NEW i \in 0 .. n - 1
      PROVE  i + 1 \in 0 .. n /\ t[i + 1] \in Nat /\ t[1] \in Nat /\ t[1] <= t[i + 1]
  <2>1. i + 1 \in 0 .. n /\ 1 \in 0 .. n
    BY <1>1
  <2>2. CASE i = 0
    BY <2>1, <2>2, <1>2
  <2>3. CASE i > 0
    BY <2>1, <2>3, <1>2
  <2> QED BY <2>1, <2>2, <2>3, <1>1
<1>5. u \in [0 .. n - 1 -> Nat] /\ u[0] = 0
  BY <1>1, <1>3, <1>4
<1>6. \A i \in 1 .. n - 1 : u[i] = u[i - 1] + Whole(q[i].size)
  <2> SUFFICES ASSUME NEW i \in 1 .. n - 1 PROVE u[i] = u[i - 1] + Whole(q[i].size)
    OBVIOUS
  <2>1. i \in 0 .. n - 1 /\ i - 1 \in 0 .. n - 1 /\ i + 1 \in 1 .. n /\ (i + 1) - 1 = i
    BY <1>1
  <2>2. /\ u[i] = t[i + 1] - t[1] /\ u[i - 1] = t[i] - t[1]
        /\ t[i + 1] = t[i] + Whole(stored[i + 1].size)
        /\ q[i] = stored[i + 1]
    <3>1. u[i] = t[i + 1] - t[1] /\ u[i - 1] = t[i] - t[1]
      BY <2>1, <1>3
    <3>2. t[i + 1] = t[i] + Whole(stored[i + 1].size)
      BY <2>1, <1>2
    <3>3. q[i] = stored[i + 1]
      BY <1>1
    <3> QED BY <3>1, <3>2, <3>3
  <2>3. Whole(stored[i + 1].size) \in Nat /\ t[i] \in Nat /\ t[1] \in Nat
    BY <2>1, <1>1, <1>2, StoredFacts DEF n
  <2> QED BY <2>2, <2>3
<1>7. \A i, j \in 0 .. n - 1 : i < j => u[i] < u[j]
  <2> SUFFICES ASSUME NEW i \in 0 .. n - 1, NEW j \in 0 .. n - 1, i < j PROVE u[i] < u[j]
    OBVIOUS
  <2>1. /\ i + 1 \in 0 .. n /\ j + 1 \in 0 .. n /\ i + 1 < j + 1
        /\ t[i + 1] \in Nat /\ t[j + 1] \in Nat /\ t[1] \in Nat
    BY <1>1, <1>4
  <2>2. t[i + 1] < t[j + 1]
    BY <2>1, <1>2
  <2>3. u[i] = t[i + 1] - t[1] /\ u[j] = t[j + 1] - t[1]
    BY <1>3
  <2> QED BY <2>1, <2>2, <2>3
<1>8. EndsOf(q, u)
  BY <1>1, <1>5, <1>6, <1>7 DEF EndsOf
<1> QED BY <1>1, <1>3, <1>8 DEF n, q, u

LEMMA PopFacts ==
    ASSUME FifoInv, Pop, NEW t, NEW k, Layout(t, k)
    PROVE  LET n == Len(stored)
               end == First + Whole(stored[1].size)
           IN  /\ n \in Nat /\ n > 0 /\ stored # <<>>
               /\ First = PlaceOf(tail, t, k, 1) /\ First \in Nat /\ end \in 0 .. size
               /\ mem' = [p \in 0 .. size - 1 |-> IF p \in First .. end - 1 THEN Junk ELSE mem[p]]
               /\ tail' = end
               /\ rewinder' = (IF tail = rewinder THEN NULL ELSE rewinder)
               /\ empty' = (end = head)
               /\ stored' = Tail(stored)
               /\ UNCHANGED <<size, head, nextId>>
<1>1. TypeOK /\ EmptyIsExact
  BY DEF FifoInv
<1>2. Len(stored) \in Nat /\ Len(stored) > 0 /\ stored # <<>>
  BY <1>1, StoredFacts DEF Pop, EmptyIsExact
<1>3. 1 \in 1 .. Len(stored)
  BY <1>2
<1>4. /\ First = PlaceOf(tail, t, k, 1) /\ First \in Nat
      /\ First + Whole(stored[1].size) <= size
      /\ Whole(stored[1].size) \in Nat /\ Whole(stored[1].size) > 0
  BY <1>1, <1>2, <1>3, LayoutFacts, StoredFacts
<1>5. Held(stored[1], First, mem, size)
  BY <1>3, <1>4 DEF Layout, AllHeld
<1>6. mem[First + 0] = [block |-> stored[1], at |-> 0]
  BY <1>4, <1>5 DEF Held
<1>7. FrontSize = stored[1].size
  BY <1>4, <1>6 DEF FrontSize
<1>8. DOMAIN mem = 0 .. size - 1
  BY <1>1, Numbers
<1>9. First + Whole(stored[1].size) \in 0 .. size
  BY <1>1, <1>4, Numbers
<1> QED BY <1>2, <1>4, <1>7, <1>8, <1>9 DEF Pop

(* Where the blocks are that remain *)
LEMMA PopPlaces ==
    ASSUME FifoInv, Pop, NEW t, NEW k, Layout(t, k)
    PROVE  \E c : LET n == Len(stored)
                      u == Less(stored, t)
                  IN  /\ LaidOut(n - 1, u, c, head, tail', rewinder')
                      /\ \A i \in 1 .. n - 1 :
                            /\ PlaceOf(tail', u, c, i) = PlaceOf(tail, t, k, i + 1)
                            /\ \/ PlaceOf(tail, t, k, i + 1) >= tail'
                               \/ PlaceOf(tail, t, k, i + 1) + Whole(stored[i + 1].size) <= First
                      /\ tail' = head <=> n = 1
                      /\ tail' = First + Whole(stored[1].size)
                      /\ NoRoomBehind(Tail(stored), c, rewinder', size)
<1> DEFINE n == Len(stored)
           u == Less(stored, t)
<1>1. TypeOK /\ EmptyIsExact /\ EndsOf(stored, t)
  BY DEF FifoInv, Layout
<1>2. /\ n \in Nat /\ n > 0 /\ stored # <<>>
      /\ First = PlaceOf(tail, t, k, 1)
      /\ tail' = First + Whole(stored[1].size)
      /\ rewinder' = (IF tail = rewinder THEN NULL ELSE rewinder)
  BY PopFacts
<1>3. /\ k \in 0 .. n /\ t[0] = 0
      /\ rewinder = NULL => k = n /\ head = tail + t[n]
      /\ rewinder # NULL => k < n /\ rewinder = tail + t[k] /\ head = t[n] - t[k] /\ head <= tail
  BY DEF Layout, LaidOut, EndsOf
<1>4. /\ \A i \in 0 .. n : t[i] \in Nat
      /\ \A i, j \in 0 .. n : i <= j => t[i] <= t[j]
      /\ \A i, j \in 0 .. n : i < j => t[i] < t[j]
      /\ \A i \in 1 .. n : t[i] = t[i - 1] + Whole(stored[i].size)
      /\ k = 0 <=> tail = rewinder
  BY <1>1, <1>2, LayoutFacts DEF EndsOf
<1>5. \A i \in 0 .. n - 1 : u[i] = t[i + 1] - t[1]
  BY <1>1, <1>2, LessEnds
<1>6. /\ 0 \in 0 .. n /\ 1 \in 0 .. n /\ n \in 0 .. n /\ 1 \in 1 .. n /\ n - 1 \in 0 .. n - 1
      /\ (n - 1) + 1 = n
  BY <1>2
<1> HIDE DEF n
<1>7. /\ t[1] \in Nat /\ t[n] \in Nat /\ t[k] \in Nat /\ t[1] = Whole(stored[1].size)
      /\ t[1] > 0 /\ t[1] <= t[n] /\ (t[1] = t[n] <=> n = 1)
  <2>1. t[1] \in Nat /\ t[n] \in Nat /\ t[k] \in Nat /\ t[1] <= t[n]
    <3>1. 1 <= n
      BY <1>2
    <3> QED BY <3>1, <1>3, <1>4, <1>6
  <2>2. t[1] = t[0] + Whole(stored[1].size) /\ t[0] < t[1]
    <3>1. t[1] = t[1 - 1] + Whole(stored[1].size)
      BY <1>4, <1>6
    <3> QED BY <3>1, <1>4, <1>6
  <2>3. Whole(stored[1].size) \in Nat
    BY <1>1, <1>6, StoredFacts DEF n
  <2>4. t[1] = t[n] <=> n = 1
    <3>1. n # 1 => t[1] < t[n]
      BY <1>2, <1>4, <1>6
    <3> QED BY <3>1, <2>1
  <2> QED BY <2>1, <2>2, <2>3, <2>4, <1>3
<1>8. /\ tail \in Nat /\ head \in Nat /\ (rewinder \in Nat \/ rewinder = NULL)
  BY <1>1, Numbers
<1>9. \A i \in 1 .. n - 1 : /\ i + 1 \in 1 .. n /\ i - 1 \in 0 .. n - 1 /\ (i - 1) + 1 = i
                            /\ i \in 0 .. n /\ (i + 1) - 1 = i
                            /\ t[i] \in Nat /\ t[1] <= t[i]
                            /\ u[i - 1] = t[i] - t[1]
  BY <1>2, <1>4, <1>5, <1>6
<1> HIDE DEF u
<1>10. CASE k = 0
  <2>1. /\ rewinder # NULL /\ head = t[n] /\ head <= tail
        /\ rewinder' = NULL /\ First = 0 /\ tail' = t[1]
    BY <1>10, <1>2, <1>3, <1>4, <1>7, <1>8 DEF PlaceOf
  <2>2. u[n - 1] = t[n] - t[1]
    BY <1>5, <1>6
  <2>3. LaidOut(n - 1, u, n - 1, head, tail', rewinder')
    BY <2>1, <2>2, <1>2, <1>7 DEF LaidOut
  <2>4. ASSUME NEW i \in 1 .. n - 1
        PROVE  /\ PlaceOf(tail', u, n - 1, i) = PlaceOf(tail, t, k, i + 1)
               /\ PlaceOf(tail, t, k, i + 1) >= tail'
    <3>1. PlaceOf(tail, t, k, i + 1) = t[i]
      BY <1>3, <1>9, <1>10 DEF PlaceOf
    <3>2. PlaceOf(tail', u, n - 1, i) = t[1] + (t[i] - t[1])
      BY <2>1, <1>2, <1>9 DEF PlaceOf
    <3> QED BY <3>1, <3>2, <2>1, <1>7, <1>9
  <2>5. tail' = head <=> n = 1
    BY <2>1, <1>7
  <2>6. NoRoomBehind(Tail(stored), n - 1, rewinder', size)
    BY <2>1 DEF NoRoomBehind
  <2> QED BY <2>3, <2>4, <2>5, <2>6, <1>2 DEF n, u
<1>11. CASE k > 0
  <2>1. First = tail /\ tail' = tail + t[1] /\ rewinder' = rewinder
    BY <1>11, <1>2, <1>3, <1>4, <1>7, <1>8 DEF PlaceOf
  <2>2. k - 1 \in 0 .. n - 1 /\ u[k - 1] = t[k] - t[1]
    BY <1>11, <1>2, <1>3, <1>5
  <2>3. u[n - 1] = t[n] - t[1]
    BY <1>5, <1>6
  <2>4. LaidOut(n - 1, u, k - 1, head, tail', rewinder') /\ (tail' = head <=> n = 1)
    <3>1. CASE rewinder = NULL
      <4>1. head = tail' + u[n - 1] /\ k - 1 = n - 1 /\ rewinder' = NULL
        BY <2>1, <2>3, <3>1, <1>2, <1>3, <1>7, <1>8
      <4>2. tail' = head <=> n = 1
        BY <2>1, <3>1, <1>3, <1>7, <1>8
      <4> QED BY <4>1, <4>2, <2>2 DEF LaidOut
    <3>2. CASE rewinder # NULL
      <4>1. rewinder' = tail' + u[k - 1] /\ head = u[n - 1] - u[k - 1]
        BY <2>1, <2>2, <2>3, <3>2, <1>3, <1>7, <1>8
      <4>2. head <= tail' /\ k - 1 < n - 1 /\ rewinder' # NULL
        BY <2>1, <3>2, <1>2, <1>3, <1>7, <1>8
      <4>3. tail' # head /\ n # 1
        BY <2>1, <3>2, <1>2, <1>3, <1>7, <1>8, <1>11
      <4> QED BY <4>1, <4>2, <4>3, <2>2 DEF LaidOut
    <3> QED BY <3>1, <3>2
  <2>5. ASSUME NEW i \in 1 .. n - 1
        PROVE  /\ PlaceOf(tail', u, k - 1, i) = PlaceOf(tail, t, k, i + 1)
               /\ \/ PlaceOf(tail, t, k, i + 1) >= tail'
                  \/ PlaceOf(tail, t, k, i + 1) + Whole(stored[i + 1].size) <= First
    <3>1. CASE i + 1 <= k
      <4>1. PlaceOf(tail, t, k, i + 1) = tail + t[i]
        BY <3>1, <1>9 DEF PlaceOf
      <4>2. i <= k - 1 /\ PlaceOf(tail', u, k - 1, i) = tail' + (t[i] - t[1])
        BY <3>1, <1>3, <1>9, <1>2 DEF PlaceOf
      <4> QED BY <4>1, <4>2, <2>1, <1>7, <1>8, <1>9
    <3>2. CASE i + 1 > k
      <4>1. PlaceOf(tail, t, k, i + 1) = t[i] - t[k]
        BY <3>2, <1>3, <1>9, <1>2 DEF PlaceOf
      <4>2. PlaceOf(tail', u, k - 1, i) = (t[i] - t[1]) - (t[k] - t[1])
        BY <3>2, <2>2, <1>3, <1>9, <1>2 DEF PlaceOf
      <4>3. PlaceOf(tail, t, k, i + 1) + Whole(stored[i + 1].size) <= head
        BY <3>2, <1>1, <1>9, LayoutFacts DEF n
      <4>4. rewinder # NULL /\ head <= tail
        BY <3>2, <1>3, <1>9, <1>2
      <4>5. Whole(stored[i + 1].size) \in Nat
        BY <1>1, <1>9, StoredFacts DEF n
      <4> QED BY <4>1, <4>2, <4>3, <4>4, <4>5, <2>1, <1>7, <1>8, <1>9
    <3> QED BY <3>1, <3>2, <1>2, <1>3
  <2>6. NoRoomBehind(Tail(stored), k - 1, rewinder', size)
    <3> SUFFICES ASSUME rewinder # NULL
                 PROVE  size - rewinder < Whole(Tail(stored)[(k - 1) + 1].size)
      BY <2>1 DEF NoRoomBehind
    <3>1. k \in 1 .. n - 1 /\ (k - 1) + 1 = k
      BY <1>2, <1>3, <1>11
    <3>2. Tail(stored)[k] = stored[k + 1]
      BY <3>1, <1>1, <1>2, LessEnds DEF n
    <3>3. NoRoomBehind(stored, k, rewinder, size)
      BY DEF Layout
    <3> QED BY <3>1, <3>2, <3>3 DEF NoRoomBehind
  <2> QED BY <2>4, <2>5, <2>6, <1>2 DEF n, u
<1> QED BY <1>2, <1>3, <1>10, <1>11

LEMMA PopKeeps == FifoInv /\ Pop => FifoInv'
<1> SUFFICES ASSUME FifoInv, Pop PROVE FifoInv'
  OBVIOUS
<1>1. PICK t, k : Layout(t, k)
  BY DEF FifoInv
<1>0. PICK u : u = Less(stored, t)
  OBVIOUS
<1> DEFINE n == Len(stored)
           end == First + Whole(stored[1].size)
<1>2. TypeOK /\ EmptyIsExact /\ EndsOf(stored, t)
  BY <1>1 DEF FifoInv, Layout
<1>3. /\ n \in Nat /\ n > 0 /\ stored # <<>>
      /\ First \in Nat /\ end \in 0 .. size
      /\ mem' = [p \in 0 .. size - 1 |-> IF p \in First .. end - 1 THEN Junk ELSE mem[p]]
      /\ tail' = end
      /\ rewinder' = (IF tail = rewinder THEN NULL ELSE rewinder)
      /\ empty' = (end = head)
      /\ stored' = Tail(stored)
      /\ size' = size /\ head' = head /\ nextId' = nextId
  BY <1>1, PopFacts
<1>4. PICK c : /\ LaidOut(n - 1, u, c, head, tail', rewinder')
               /\ \A i \in 1 .. n - 1 :
                     /\ PlaceOf(tail', u, c, i) = PlaceOf(tail, t, k, i + 1)
                     /\ \/ PlaceOf(tail, t, k, i + 1) >= tail'
                        \/ PlaceOf(tail, t, k, i + 1) + Whole(stored[i + 1].size) <= First
               /\ tail' = head <=> n = 1
               /\ NoRoomBehind(Tail(stored), c, rewinder', size)
  BY <1>0, <1>1, PopPlaces
<1>5. /\ stored' \in Seq(Blocks) /\ Len(stored') = n - 1
      /\ \A i \in 1 .. n - 1 : stored'[i] = stored[i + 1]
      /\ EndsOf(stored', u)
  BY <1>0, <1>2, <1>3, LessEnds
<1> HIDE DEF n, end
<1>6. mem' \in [0 .. size - 1 -> Bytes]
  BY <1>2, <1>3, Numbers, ConstantFacts
<1>7. TypeOK'
  BY <1>2, <1>3, <1>5, <1>6, Numbers DEF TypeOK
<1>8. EmptyIsExact'
  <2>1. \A q \in Seq(Blocks) : q = <<>> <=> Len(q) = 0
    BY EmptySeq
  <2>2. stored' = <<>> <=> Len(stored') = 0
    BY <2>1, <1>5
  <2>3. empty' <=> n = 1
    BY <1>3, <1>4
  <2> QED BY <2>2, <2>3, <1>3, <1>5 DEF EmptyIsExact
<1>9. ASSUME NEW i \in 1 .. n - 1
      PROVE  Held(stored'[i], PlaceOf(tail', u, c, i), mem', size')
  <2> DEFINE p == PlaceOf(tail, t, k, i + 1)
             b == stored[i + 1]
  <2>1. i + 1 \in 1 .. n
    BY <1>3
  <2>2. Held(b, p, mem, size) /\ Whole(b.size) \in Nat /\ p \in Nat
    BY <2>1, <1>1, <1>2, StoredFacts, LayoutFacts DEF Layout, AllHeld, n
  <2>3. p >= end \/ p + Whole(b.size) <= First
    BY <1>3, <1>4
  <2>4. end \in Nat /\ size \in Nat
    BY <1>2, <1>3, Numbers
  <2> HIDE DEF p, b
  <2>5. ASSUME NEW j \in 0 .. Whole(b.size) - 1
        PROVE  mem'[p + j] = [block |-> b, at |-> j]
    <3>1. mem[p + j] = [block |-> b, at |-> j] /\ p + Whole(b.size) <= size
      BY <2>2 DEF Held
    <3>2. p + j \in 0 .. size - 1 /\ p + j \notin First .. end - 1
      BY <3>1, <2>2, <2>3, <2>4, <1>3
    <3> QED BY <3>1, <3>2, <1>3
  <2>6. Held(b, p, mem', size)
    BY <2>2, <2>5 DEF Held
  <2> QED BY <2>6, <1>3, <1>4, <1>5 DEF p, b
<1>10. Layout(u, c)'
  <2>1. AllHeld(stored', u, c, tail', mem', size')
    BY <1>5, <1>9 DEF AllHeld
  <2>2. LaidOut(Len(stored'), u, c, head', tail', rewinder')
    BY <1>3, <1>4, <1>5
  <2>3. NoRoomBehind(stored', c, rewinder', size')
    BY <1>3, <1>4
  <2> QED BY <2>1, <2>2, <2>3, <1>5 DEF Layout
<1> QED BY <1>7, <1>8, <1>10 DEF FifoInv

LEMMA NothingStored ==
    LET t == [i \in 0 .. 0 |-> 0]
    IN  /\ EndsOf(<<>>, t) /\ t[0] = 0
        /\ \A m, z : AllHeld(<<>>, t, 0, 0, m, z)
        /\ LaidOut(0, t, 0, 0, 0, NULL)
BY DEF EndsOf, AllHeld, LaidOut

LEMMA ClearKeeps == FifoInv /\ Clear => FifoInv'
<1> SUFFICES ASSUME FifoInv, Clear PROVE FifoInv'
  OBVIOUS
<1>1. /\ mem' = [p \in DOMAIN mem |-> Junk] /\ tail' = 0 /\ head' = 0 /\ rewinder' = NULL
      /\ empty' = TRUE /\ stored' = <<>> /\ size' = size /\ nextId' = nextId
  BY DEF Clear
<1>2. TypeOK
  BY DEF FifoInv
<1>3. TypeOK'
  BY <1>1, <1>2, Numbers, ConstantFacts, EmptySeq DEF TypeOK
<1>4. EmptyIsExact'
  BY <1>1 DEF EmptyIsExact
<1>5. PICK t : t = [i \in 0 .. 0 |-> 0]
  OBVIOUS
<1>6. Layout(t, 0)'
  BY <1>1, <1>5, NothingStored DEF Layout, NoRoomBehind
<1> QED BY <1>3, <1>4, <1>6 DEF FifoInv

----------------------------------------------------------------------------
(* The invariant is inductive *)

LEMMA FifoInitially == Init => FifoInv
<1> SUFFICES ASSUME Init PROVE FifoInv
  OBVIOUS
<1>1. TypeOK /\ EmptyIsExact
  BY ConstantsAssumption, EmptySeq DEF Init, TypeOK, EmptyIsExact
<1>2. Layout([i \in 0 .. 0 |-> 0], 0)
  BY NothingStored DEF Init, Layout, NoRoomBehind
<1> QED BY <1>1, <1>2 DEF FifoInv

LEMMA FifoInductive == FifoInv /\ [Next]_vars => FifoInv'
<1> SUFFICES ASSUME FifoInv, [Next]_vars PROVE FifoInv'
  OBVIOUS
<1>1. ASSUME NEW s \in Sizes, Push(s) PROVE FifoInv'
  BY <1>1, PushIntoEmptyKeeps, PushAfterKeeps, PushBeforeKeeps, PushBetweenKeeps,
     PushGrownKeeps DEF Push
<1>2. CASE Pop
  BY <1>2, PopKeeps
<1>3. CASE Clear
  BY <1>3, ClearKeeps
<1>4. ASSUME NEW z \in Resizes, Resize(z) PROVE FifoInv'
  BY <1>4, ResizeKeeps
<1>5. CASE UNCHANGED vars
  BY <1>5 DEF vars, FifoInv, TypeOK, EmptyIsExact, Layout
<1> QED BY <1>1, <1>2, <1>3, <1>4, <1>5 DEF Next

(* A set that has no first number is empty *)
LEMMA NoFirst ==
    ASSUME NEW a \in Nat, NEW b \in Nat, NEW S \in SUBSET (a .. b),
           a \notin S, \A i \in S : i > a => i - 1 \in S
    PROVE  S = {}
<1> SUFFICES ASSUME S # {} PROVE FALSE
  OBVIOUS
<1>1. PICK x \in S : \A y \in S : x <= y
  <2>1. S \in SUBSET Nat
    OBVIOUS
  <2> QED BY <2>1, Least
<1>2. x \in a .. b /\ x > a
  OBVIOUS
<1>3. x - 1 \in S /\ x - 1 < x
  BY <1>2
<1> QED BY <1>1, <1>2, <1>3

LEMMA TotalIs ==
    ASSUME TypeOK, EmptyIsExact, NEW t, NEW k, Layout(t, k)
    PROVE  Total[Len(stored)] = t[Len(stored)]
<1> DEFINE n == Len(stored)
           Step(f) == [i \in 0 .. n |-> IF i = 0 THEN 0 ELSE f[i - 1] + Whole(stored[i].size)]
<1>1. n \in Nat /\ t \in [0 .. n -> Nat] /\ t[0] = 0
      /\ \A i \in 1 .. n : t[i] = t[i - 1] + Whole(stored[i].size)
  BY StoredFacts DEF Layout, EndsOf
<1>2. t = Step(t)
  BY <1>1
<1>3. Total = CHOOSE f : f = Step(f)
  BY DEF Total
<1> HIDE DEF Step
<1>4. Total = Step(Total)
  BY <1>2, <1>3
<1>5. Total[0] = 0 /\ \A i \in 1 .. n : Total[i] = Total[i - 1] + Whole(stored[i].size)
  <2>1. Total = [i \in 0 .. n |-> IF i = 0 THEN 0 ELSE Total[i - 1] + Whole(stored[i].size)]
    BY <1>4 DEF Step
  <2> HIDE DEF n
  <2> QED BY <2>1, <1>1
<1> DEFINE D == {i \in 0 .. n : Total[i] # t[i]}
<1>6. D = {}
  <2>1. 0 \notin D /\ D \in SUBSET (0 .. n)
    BY <1>1, <1>5
  <2>2. ASSUME NEW i \in D, i > 0
        PROVE  i - 1 \in D
    BY <2>2, <1>1, <1>5
  <2> HIDE DEF D
  <2> QED BY <2>1, <2>2, <1>1, NoFirst
<1> QED BY <1>1, <1>6

LEMMA PlacesAre ==
    ASSUME TypeOK, EmptyIsExact, NEW t, NEW k, Layout(t, k)
    PROVE  \A i \in 1 .. Len(stored) : Places[i] = PlaceOf(tail, t, k, i)
<1> DEFINE n == Len(stored)
           pl == [i \in 1 .. n |-> PlaceOf(tail, t, k, i)]
           Step(f) == [i \in 1 .. n |->
                         IF i = 1 THEN First
                         ELSE LET end == f[i - 1] + Whole(stored[i - 1].size)
                              IN  IF end = rewinder THEN 0 ELSE end]
<1>1. /\ n \in Nat /\ k \in 0 .. n
      /\ rewinder = NULL => k = n /\ head = tail + t[n]
      /\ rewinder # NULL => k < n /\ rewinder = tail + t[k] /\ head = t[n] - t[k] /\ head <= tail
      /\ tail \in Nat /\ (rewinder \in Nat \/ rewinder = NULL)
  BY StoredFacts, Numbers DEF Layout, LaidOut
<1>2. /\ \A i \in 0 .. n : t[i] \in Nat
      /\ \A i, j \in 0 .. n : i <= j => t[i] <= t[j]
      /\ \A i, j \in 0 .. n : i < j => t[i] < t[j]
  BY LayoutFacts DEF Layout, EndsOf
<1>3. ASSUME NEW i \in 1 .. n
      PROVE  pl[i] = Step(pl)[i]
  <2>1. CASE i = 1
    <3>1. First = PlaceOf(tail, t, k, 1)
      BY <2>1, <1>1, LayoutFacts, StoredFacts
    <3> QED BY <2>1, <3>1
  <2>2. CASE i > 1
    <3> DEFINE end == PlaceOf(tail, t, k, i - 1) + Whole(stored[i - 1].size)
    <3>1. i - 1 \in 1 .. n /\ i - 1 \in 0 .. n /\ k \in 0 .. n /\ n \in 0 .. n
      BY <2>2, <1>1
    <3>2. /\ i - 1 <= k => end = tail + t[i - 1]
          /\ i - 1 > k => end = t[i - 1] - t[k]
      <4>1. \A j \in 1 .. n :
              LET p == PlaceOf(tail, t, k, j)
                  stop == p + Whole(stored[j].size)
              IN  /\ j <= k => stop = tail + t[j]
                  /\ j > k => stop = t[j] - t[k]
        BY LayoutFacts
      <4> QED BY <4>1, <3>1
    <3>3. Step(pl)[i] = IF end = rewinder THEN 0 ELSE end
      BY <2>2, <3>1
    <3>4. t[i - 1] \in Nat /\ t[k] \in Nat /\ t[n] \in Nat
      BY <3>1, <1>2
    <3> HIDE DEF end
    <3>5. PlaceOf(tail, t, k, i) = IF i <= k THEN tail + t[i - 1] ELSE t[i - 1] - t[k]
      BY DEF PlaceOf
    <3>6. CASE i <= k
      <4>1. t[i - 1] < t[k]
        BY <3>1, <3>6, <1>2, <1>1
      <4>2. end # rewinder
        BY <4>1, <3>1, <3>2, <3>4, <3>6, <1>1
      <4> QED BY <4>2, <3>1, <3>2, <3>3, <3>5, <3>6, <1>1
    <3>7. CASE i - 1 = k
      <4>1. rewinder # NULL /\ end = rewinder
        BY <3>1, <3>2, <3>7, <1>1
      <4> QED BY <4>1, <3>1, <3>3, <3>4, <3>5, <3>7, <1>1
    <3>8. CASE i - 1 > k
      <4>1. t[i - 1] < t[n] /\ rewinder # NULL /\ i - 1 < n
        BY <3>1, <3>8, <1>1, <1>2
      <4>2. end # rewinder
        BY <4>1, <3>2, <3>4, <3>8, <1>1
      <4> QED BY <4>2, <3>1, <3>2, <3>3, <3>5, <3>8, <1>1
    <3> QED BY <3>1, <3>6, <3>7, <3>8
  <2> QED BY <2>1, <2>2
<1>4. pl = Step(pl)
  BY <1>3
<1>5. Places = CHOOSE f : f = Step(f)
  BY DEF Places
<1> HIDE DEF Step
<1>6. Places = Step(Places)
  BY <1>4, <1>5
<1>7. Places = [i \in 1 .. n |->
                  IF i = 1 THEN First
                  ELSE LET end == Places[i - 1] + Whole(stored[i - 1].size)
                       IN  IF end = rewinder THEN 0 ELSE end]
  BY <1>6 DEF Step
<1>8. pl = [i \in 1 .. n |->
              IF i = 1 THEN First
              ELSE LET end == pl[i - 1] + Whole(stored[i - 1].size)
                   IN  IF end = rewinder THEN 0 ELSE end]
  BY <1>4 DEF Step
<1>9. CASE n = 0
  BY <1>9
<1>10. CASE n > 0
  <2> HIDE DEF pl
  <2>1. Places[1] = pl[1]
    BY <1>7, <1>8, <1>10, <1>1
  <2> DEFINE D == {i \in 1 .. n : Places[i] # pl[i]}
  <2>2. 1 \notin D /\ D \in SUBSET (1 .. n)
    BY <2>1
  <2>3. ASSUME NEW i \in D, i > 1
        PROVE  i - 1 \in D
    <3> SUFFICES ASSUME i - 1 \notin D PROVE FALSE
      OBVIOUS
    <3>1. i \in 1 .. n /\ i - 1 \in 1 .. n /\ i # 1
      BY <2>3, <1>1
    <3>2. Places[i - 1] = pl[i - 1]
      BY <3>1
    <3>3. Places[i] # pl[i]
      OBVIOUS
    <3> HIDE DEF D
    <3>4. Places[i] = (LET end == Places[i - 1] + Whole(stored[i - 1].size)
                       IN  IF end = rewinder THEN 0 ELSE end)
      BY <3>1, <1>7, Zenon
    <3>5. pl[i] = (LET end == pl[i - 1] + Whole(stored[i - 1].size)
                   IN  IF end = rewinder THEN 0 ELSE end)
      BY <3>1, <1>8, Zenon
    <3> QED BY <3>2, <3>3, <3>4, <3>5, Zenon
  <2>4. D = {}
    <3> HIDE DEF D
    <3> QED BY <2>2, <2>3, <1>1, NoFirst
  <2>5. \A i \in 1 .. n : Places[i] = pl[i]
    BY <2>4
  <2> QED BY <2>5 DEF pl
<1> QED BY <1>1, <1>9, <1>10

----------------------------------------------------------------------------
(* What push() makes of the array *)

(* the blocks of the new array, and the sizes of those that count *)
LEMMA GrownFacts ==
    ASSUME FifoInv, NEW s \in Sizes, PushGrown(s)
    PROVE  /\ Whole(s) \in Nat /\ Whole(s) > 0 /\ Used \in Nat
           /\ Len(stored') = Len(stored) + 1
           /\ stored'[Len(stored')].size = s
           /\ \A i \in 1 .. Len(stored) : stored'[i] = stored[i]
           /\ \A i \in 1 .. Len(stored') : /\ Whole(stored'[i].size) \in Nat
                                           /\ Whole(stored'[i].size) > 0
<1>1. TypeOK /\ EmptyIsExact /\ Len(stored) \in Nat
  BY StoredFacts DEF FifoInv
<1>2. PICK t, k : Layout(t, k)
  BY DEF FifoInv
<1>3. stored' = Append(stored, NewBlock(s))
  BY DEF PushGrown, Write
<1>4. NewBlock(s) \in Blocks /\ NewBlock(s).size = s
  BY <1>1 DEF TypeOK, NewBlock, Blocks
<1>5. /\ Len(stored') = Len(stored) + 1
      /\ \A i \in 1 .. Len(stored) : stored'[i] = stored[i]
      /\ stored'[Len(stored) + 1] = NewBlock(s)
  BY <1>1, <1>2, <1>3, <1>4, MoreEnds DEF Layout
<1>6. Whole(s) \in Nat /\ Whole(s) > 0
  BY ConstantFacts
<1>7. Used \in Nat
  BY <1>1, <1>2, LayoutFacts
<1>8. ASSUME NEW i \in 1 .. Len(stored')
      PROVE  Whole(stored'[i].size) \in Nat /\ Whole(stored'[i].size) > 0
  <2>1. CASE i \in 1 .. Len(stored)
    BY <2>1, <1>1, <1>5, StoredFacts
  <2>2. CASE i = Len(stored) + 1
    BY <2>2, <1>4, <1>5, <1>6
  <2> QED BY <2>1, <2>2, <1>1, <1>5
<1> QED BY <1>4, <1>5, <1>6, <1>7, <1>8

(* the free bytes are fewer than the new block and one other *)
LEMMA FewBytesFree ==
    ASSUME FifoInv, NEW s \in Sizes, PushGrown(s)
    PROVE  \E i \in 1 .. Len(stored') : size - Used < Whole(s) + Whole(stored'[i].size)
<1> DEFINE n == Len(stored)
<1>1. TypeOK /\ EmptyIsExact /\ n \in Nat
  BY StoredFacts DEF FifoInv
<1>2. PICK t, k : Layout(t, k)
  BY DEF FifoInv
<1>3. /\ size \in Nat /\ head \in Nat /\ tail \in Nat
      /\ rewinder \in Nat \/ rewinder = NULL
      /\ empty <=> n = 0
  BY <1>1, Numbers, StoredFacts DEF EmptyIsExact
<1>4. /\ Whole(s) \in Nat /\ Whole(s) > 0
      /\ Len(stored') = n + 1
      /\ stored'[n + 1].size = s
      /\ \A i \in 1 .. n : stored'[i] = stored[i]
  BY GrownFacts
<1>5. ~FitsEmpty(s) /\ ~FitsAfter(s) /\ ~FitsBefore(s) /\ ~FitsBetween(s)
  BY DEF PushGrown, Fits
<1>6. /\ k \in 0 .. n
      /\ rewinder = NULL => head = tail + t[n]
      /\ rewinder # NULL => k < n /\ rewinder = tail + t[k] /\ head = t[n] - t[k] /\ head <= tail
  BY <1>2 DEF Layout, LaidOut
<1>7. Used = t[n] /\ t[n] \in Nat /\ t[k] \in Nat /\ (n = 0 => t[n] = 0) /\ (n > 0 => t[n] > 0)
  <2>1. Used = t[n] /\ \A i \in 0 .. n : t[i] \in Nat
    BY <1>1, <1>2, LayoutFacts
  <2>2. t[0] = 0 /\ (n > 0 => t[0] < t[n])
    BY <1>1, <1>2 DEF Layout, EndsOf
  <2> QED BY <2>1, <2>2, <1>1, <1>6
<1>8. n + 1 \in 1 .. Len(stored')
  BY <1>1, <1>4
<1> HIDE DEF n
<1>9. CASE n = 0
  <2>1. size < Whole(s)
    BY <1>3, <1>4, <1>5, <1>9 DEF FitsEmpty
  <2> QED BY <2>1, <1>3, <1>4, <1>7, <1>8, <1>9
<1>10. CASE n > 0 /\ rewinder = NULL
  <2>1. tail < head
    BY <1>3, <1>6, <1>7, <1>10
  <2>2. size - head < Whole(s) /\ tail < Whole(s)
    BY <2>1, <1>3, <1>4, <1>5 DEF FitsAfter, FitsBefore
  <2>3. size - Used < Whole(s) + Whole(s)
    BY <2>2, <1>3, <1>4, <1>6, <1>7, <1>10
  <2> QED BY <2>3, <1>4, <1>8
<1>11. CASE n > 0 /\ rewinder # NULL
  <2>1. k + 1 \in 1 .. n /\ k + 1 \in 1 .. Len(stored')
    BY <1>1, <1>4, <1>6, <1>11
  <2>2. size - rewinder < Whole(stored'[k + 1].size)
    BY <2>1, <1>2, <1>4, <1>11 DEF Layout, NoRoomBehind
  <2>3. tail - head < Whole(s)
    BY <1>3, <1>4, <1>5, <1>6, <1>11 DEF FitsBetween
  <2>4. Whole(stored'[k + 1].size) \in Nat
    BY <2>1, GrownFacts
  <2>5. size - Used = (size - rewinder) + (tail - head)
    BY <1>3, <1>6, <1>7, <1>11
  <2>6. size - Used < Whole(s) + Whole(stored'[k + 1].size)
    BY <2>2, <2>3, <2>4, <2>5, <1>3, <1>4, <1>11
  <2> QED BY <2>1, <2>6
<1> QED BY <1>1, <1>9, <1>10, <1>11 DEF n

LEMMA TwiceFacts ==
    \A z \in Nat : Twice(z) \in Nat /\ Twice(z) > 0 /\ (z > 0 => Twice(z) = 2 * z)
BY ConstantsAssumption DEF Twice

(* f is the first m arrays of the loop *)
Arrays(f, m) == f = [k \in 1 .. m |-> Twice(IF k = 1 THEN size ELSE f[k - 1])]

(* the equation of the arrays has a solution *)
LEMMA ArraysExist == \A m \in Nat : \E f : Arrays(f, m)
<1> DEFINE S == {m \in Nat : ~ \E f : Arrays(f, m)}
<1> SUFFICES ASSUME S # {} PROVE FALSE
  OBVIOUS
<1>1. PICK m \in S : \A y \in S : m <= y
  <2>1. S \in SUBSET Nat
    OBVIOUS
  <2> HIDE DEF S
  <2> QED BY <2>1, Least
<1>2. m \in Nat /\ ~ \E f : Arrays(f, m)
  OBVIOUS
<1>3. CASE m = 0
  <2> DEFINE g == [k \in 1 .. 0 |-> 0]
  <2>1. g = [k \in 1 .. 0 |-> Twice(IF k = 1 THEN size ELSE g[k - 1])]
    OBVIOUS
  <2> QED BY <2>1, <1>2, <1>3 DEF Arrays
<1>4. CASE m > 0
  <2>1. m - 1 \in Nat /\ m - 1 < m
    BY <1>2, <1>4
  <2>2. m - 1 \notin S
    BY <2>1, <1>1, <1>2
  <2>3. PICK f : Arrays(f, m - 1)
    BY <2>1, <2>2
  <2> DEFINE g == [k \in 1 .. m |-> IF k < m THEN f[k]
                                    ELSE Twice(IF k = 1 THEN size ELSE f[k - 1])]
  <2>4. \A k \in 1 .. m - 1 : f[k] = Twice(IF k = 1 THEN size ELSE f[k - 1])
    BY <2>3 DEF Arrays
  <2>5. \A k \in 1 .. m : k # 1 => g[k - 1] = f[k - 1]
    BY <1>2
  <2>6. ASSUME NEW k \in 1 .. m
        PROVE  g[k] = Twice(IF k = 1 THEN size ELSE g[k - 1])
    <3>1. g[k] = Twice(IF k = 1 THEN size ELSE f[k - 1])
      <4>1. CASE k < m
        <5>1. k \in 1 .. m - 1
          BY <4>1, <1>2
        <5> QED BY <5>1, <4>1, <2>4
      <4>2. CASE ~(k < m)
        BY <4>2
      <4> QED BY <4>1, <4>2
    <3> HIDE DEF g
    <3> QED BY <3>1, <2>5
  <2>7. g = [k \in 1 .. m |-> Twice(IF k = 1 THEN size ELSE g[k - 1])]
    BY <2>6
  <2> HIDE DEF g
  <2> QED BY <2>7, <1>2 DEF Arrays
<1> QED BY <1>2, <1>3, <1>4

LEMMA DoubledIs ==
    ASSUME TypeOK
    PROVE  /\ \A k \in 1 .. MaxSize : Doubled[k] = Twice(IF k = 1 THEN size ELSE Doubled[k - 1])
           /\ \A k \in 1 .. MaxSize : Doubled[k] \in Nat /\ Doubled[k] > 0
<1>1. MaxSize \in Nat /\ size \in Nat
  BY Numbers
<1>2. Doubled = CHOOSE f : Arrays(f, MaxSize)
  BY DEF Doubled, Arrays
<1>3. Arrays(Doubled, MaxSize)
  BY <1>1, <1>2, ArraysExist
<1>4. \A k \in 1 .. MaxSize : Doubled[k] = Twice(IF k = 1 THEN size ELSE Doubled[k - 1])
  BY <1>3 DEF Arrays
<1> DEFINE D == {k \in 1 .. MaxSize : ~(Doubled[k] \in Nat /\ Doubled[k] > 0)}
<1>5. D = {}
  <2>1. D \in SUBSET (1 .. MaxSize)
    OBVIOUS
  <2>2. 1 \notin D
    BY <1>1, <1>4, TwiceFacts
  <2>3. ASSUME NEW k \in D, k > 1
        PROVE  k - 1 \in D
    BY <2>3, <1>1, <1>4, TwiceFacts
  <2> HIDE DEF D
  <2> QED BY <2>1, <2>2, <2>3, <1>1, NoFirst
<1> QED BY <1>4, <1>5

(* the new array is the first that is large enough *)
LEMMA GrownSize ==
    ASSUME FifoInv, NEW s \in Sizes, PushGrown(s)
    PROVE  /\ size' \in Nat
           /\ size' = DefaultSize \/ size' = 2 * size \/ size' < 2 * (Used + Whole(s))
<1>1. TypeOK /\ size \in Nat
  BY Numbers DEF FifoInv
<1>2. PICK k, n \in 1 .. MaxSize :
         /\ n = Doubled[k] /\ n >= Used + Whole(s)
         /\ \A j \in 1 .. k - 1 : Doubled[j] < Used + Whole(s)
         /\ size' = n
         /\ Write(s, Used, Resized(n))
  BY DEF PushGrown
<1>3. MaxSize \in Nat /\ k \in Nat /\ size' \in Nat
  BY <1>1, <1>2, Numbers
<1>4. Used \in Nat /\ Whole(s) \in Nat
  BY GrownFacts
<1>5. CASE k = 1
  <2>1. 1 \in 1 .. MaxSize
    BY <1>5
  <2>2. Doubled[1] = Twice(size)
    BY <2>1, <1>1, DoubledIs
  <2>3. size' = Twice(size)
    BY <2>2, <1>2, <1>5
  <2> QED BY <2>3, <1>1, <1>3 DEF Twice
<1>6. CASE k > 1
  <2>1. k - 1 \in 1 .. MaxSize /\ k - 1 \in 1 .. k - 1 /\ k # 1
    BY <1>3, <1>6
  <2>2. /\ size' = Twice(Doubled[k - 1])
        /\ Doubled[k - 1] \in Nat /\ Doubled[k - 1] > 0
        /\ Doubled[k - 1] < Used + Whole(s)
    BY <2>1, <1>1, <1>2, DoubledIs
  <2>3. size' = 2 * Doubled[k - 1]
    BY <2>2, TwiceFacts
  <2> QED BY <2>2, <2>3, <1>3, <1>4
<1> QED BY <1>3, <1>5, <1>6

----------------------------------------------------------------------------
(* Theorems *)

(* For every size of header, block and array: the types of the variables,  *)
(* and a set of places, one behind the other, at which the array has       *)
(* exactly the bytes of the blocks that are stored (buf_fifo.cpp, push,    *)
(* pop, clear, resize).                                                    *)
THEOREM FifoInvHolds == Spec => []FifoInv
BY FifoInitially, FifoInductive, PTL DEF Spec

(* The pointers, the flag and size() agree with the blocks, in every       *)
(* position of the head, the tail and the rewinder.                        *)
THEOREM PointersHold == Spec => []PointersAreExact
<1>1. FifoInv => PointersAreExact
  <2> SUFFICES ASSUME FifoInv PROVE PointersAreExact
    OBVIOUS
  <2>1. PICK t, k : Layout(t, k)
    BY DEF FifoInv
  <2>2. TypeOK /\ EmptyIsExact
    BY DEF FifoInv
  <2>3. SizeIsExact
    BY <2>1, <2>2, LayoutFacts, TotalIs DEF SizeIsExact
  <2> QED BY <2>2, <2>3 DEF PointersAreExact
<1> QED BY <1>1, FifoInvHolds, PTL

(* Nothing that is stored is overwritten, lost or put out of order: every  *)
(* block is in one piece where the one before it, or the rewinder, says.   *)
THEOREM BlocksStayIntact == Spec => []BlocksIntact
<1>1. FifoInv => BlocksIntact
  <2> SUFFICES ASSUME FifoInv, Len(stored) > 0
               PROVE  /\ \A i \in 1 .. Len(stored) : IsAt(stored[i], Places[i])
                      /\ head = Places[Len(stored)] + Whole(stored[Len(stored)].size)
    BY DEF BlocksIntact
  <2>1. PICK t, k : Layout(t, k)
    BY DEF FifoInv
  <2>2. TypeOK /\ EmptyIsExact
    BY DEF FifoInv
  <2>3. \A i \in 1 .. Len(stored) : Places[i] = PlaceOf(tail, t, k, i)
    BY <2>1, <2>2, PlacesAre
  <2>4. \A i \in 1 .. Len(stored) : IsAt(stored[i], Places[i])
    BY <2>1, <2>3 DEF Layout, AllHeld, Held, IsAt
  <2>5. Len(stored) \in 1 .. Len(stored) /\ k \in 0 .. Len(stored)
    BY <2>1, <2>2, StoredFacts DEF Layout, LaidOut
  <2>6. head = PlaceOf(tail, t, k, Len(stored)) + Whole(stored[Len(stored)].size)
    <3>1. CASE rewinder = NULL
      BY <3>1, <2>1, <2>2, <2>5, LayoutFacts DEF Layout, LaidOut
    <3>2. CASE rewinder # NULL
      BY <3>2, <2>1, <2>2, <2>5, LayoutFacts DEF Layout, LaidOut
    <3> QED BY <3>1, <3>2
  <2> QED BY <2>3, <2>4, <2>5, <2>6
<1> QED BY <1>1, FifoInvHolds, PTL

(* Every array that push() makes starts from the size before and is at     *)
(* most twice what did not hold the blocks and the new one, or twice what  *)
(* did hold them but not in one piece: then the free bytes are few, since  *)
(* the block at the beginning of the array had no room at the rewinder.    *)
THEOREM GrowthIsBounded == Spec => GrowsInProportion
<1> DEFINE new == Whole(stored'[Len(stored')].size)
           other(i) == Whole(stored'[i].size)
           A == size' > size /\ stored' # stored =>
                   \E i \in 1 .. Len(stored') :
                      /\ size - Used < new + other(i)
                      /\ size' = DefaultSize \/ size' < 2 * (Used + new + other(i))
<1>1. FifoInv /\ [Next]_vars => [A]_vars
  <2> SUFFICES ASSUME FifoInv, Next, size' > size, stored' # stored
               PROVE  \E i \in 1 .. Len(stored') :
                         /\ size - Used < new + other(i)
                         /\ size' = DefaultSize \/ size' < 2 * (Used + new + other(i))
    OBVIOUS
  <2>1. TypeOK /\ EmptyIsExact /\ size \in Nat
    BY Numbers DEF FifoInv
  <2>2. PICK s \in Sizes : PushGrown(s)
    BY <2>1 DEF Next, Push, PushIntoEmpty, PushAfter, PushBefore, PushBetween, Pop, Clear, Resize
  <2>3. PICK i \in 1 .. Len(stored') : size - Used < Whole(s) + other(i)
    BY <2>2, FewBytesFree
  <2>4. new = Whole(s) /\ Whole(s) \in Nat /\ other(i) \in Nat /\ other(i) > 0 /\ Used \in Nat
    BY <2>2, GrownFacts
  <2>5. size' \in Nat /\ (size' = DefaultSize \/ size' = 2 * size \/ size' < 2 * (Used + Whole(s)))
    BY <2>2, GrownSize
  <2> HIDE DEF new, other
  <2>6. size' = DefaultSize \/ size' < 2 * (Used + new + other(i))
    BY <2>1, <2>3, <2>4, <2>5
  <2> QED BY <2>3, <2>4, <2>6
<1> QED BY <1>1, FifoInvHolds, PTL DEF Spec, GrowsInProportion
=============================================================================
