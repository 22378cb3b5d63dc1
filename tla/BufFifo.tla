------------------------------ MODULE BufFifo ------------------------------
(***************************************************************************)
(* CBufFIFO, the ring buffer behind the receive queue of CBufNetBase and   *)
(* the send queue of CBufSock: blocks of variable size, each behind a      *)
(* header that holds its size, in one byte array with a head, a tail and a *)
(* "rewinder", the place where the blocks stop before the head has gone    *)
(* back to the beginning.  A block never wraps around: it is put where it  *)
(* fits in one piece, or the array grows.                                  *)
(*                                                                         *)
(* A byte is the block it belongs to and its position in it.  What is      *)
(* removed becomes Junk (pop() overwrites it in the NL_DEBUG build only):  *)
(* a stale byte of the program shows as Junk.                              *)
(***************************************************************************)
EXTENDS Integers, Sequences, FiniteSetsExt

CONSTANTS HeaderSize,    \* sizeof(TFifoSize)
          DefaultSize,   \* what resize(0) makes, 100 in the code
          Sizes,         \* sizes of the blocks that are pushed
          Resizes,       \* arguments of the calls of resize()
          MaxSize,       \* bound: bytes in the array
          Ids            \* blocks are numbered modulo Ids

ASSUME ConstantsAssumption ==
    /\ HeaderSize \in Nat \ {0} /\ DefaultSize \in Nat \ {0}
    /\ Sizes \subseteq Nat \ {0} /\ Resizes \subseteq Nat
    /\ MaxSize \in Nat /\ Ids \in Nat \ {0}

VARIABLES mem,        \* _Buffer
          size,       \* _BufferSize
          empty,      \* _Empty
          head,       \* _Head, as an offset in _Buffer
          tail,       \* _Tail
          rewinder,   \* _Rewinder
          nextId,     \* number of the next block
          stored      \* history: the blocks pushed and not popped

vars == <<mem, size, empty, head, tail, rewinder, nextId, stored>>

NULL == -1
Blocks == [id : 0 .. Ids - 1, size : Sizes]
Junk == [block |-> [id |-> NULL, size |-> 0], at |-> 0]
Bytes == [block : Blocks, at : Nat] \cup {Junk}

TypeOK ==
    /\ size \in 0 .. MaxSize
    /\ mem \in [0 .. size - 1 -> Bytes]
    /\ empty \in BOOLEAN
    /\ head \in 0 .. size /\ tail \in 0 .. size
    /\ rewinder \in 0 .. size \cup {NULL}
    /\ nextId \in 0 .. Ids - 1
    /\ stored \in Seq(Blocks)

Init ==
    /\ mem = [p \in {} |-> Junk]
    /\ size = 0
    /\ empty = TRUE
    /\ head = 0 /\ tail = 0
    /\ rewinder = NULL
    /\ nextId = 0
    /\ stored = <<>>

----------------------------------------------------------------------------
(* size(): bytes used, headers included *)
Used ==
    CASE empty -> 0
      [] ~empty /\ head = tail -> IF rewinder = NULL THEN size ELSE rewinder
      [] ~empty /\ head > tail -> head - tail
      [] OTHER -> (rewinder - tail) + head

(* where the oldest block begins, as front() and pop() find it *)
First == IF rewinder # NULL /\ tail = rewinder THEN 0 ELSE tail

(* slip: the part behind the rewinder is forgotten *)
Slip_Resized(n) ==
    [p \in 0 .. n - 1 |->
        IF p < Used /\ tail + p < size THEN mem[tail + p] ELSE Junk]

(* the array after resize(n), which puts the blocks at its beginning *)
Resized(n) ==
    LET before == IF tail < head THEN Used ELSE rewinder - tail   \* bytes up to the rewinder
    IN  [p \in 0 .. n - 1 |->
            IF p >= Used THEN Junk
            ELSE IF p < before THEN mem[tail + p]
            ELSE mem[p - before]]

(* resize(n); it refuses to become smaller than what it holds *)
Resize(n) ==
    LET s == IF n = 0 THEN DefaultSize ELSE n IN
    /\ s <= MaxSize
    /\ ~ (s < size /\ Used > s)
    /\ mem' = Resized(s)
    /\ size' = s
    /\ tail' = 0 /\ head' = Used /\ rewinder' = NULL
    /\ UNCHANGED <<empty, nextId, stored>>

----------------------------------------------------------------------------
(* push(): one action per outcome of canFit() *)

Whole(s) == HeaderSize + s

NewBlock(s) == [id |-> nextId, size |-> s]

(* writes the block at h in the array m *)
Write(s, h, m) ==
    /\ mem' = [p \in DOMAIN m |->
                  IF p \in h .. h + Whole(s) - 1
                  THEN [block |-> NewBlock(s), at |-> p - h] ELSE m[p]]
    /\ head' = h + Whole(s)
    /\ empty' = FALSE
    /\ nextId' = (nextId + 1) % Ids
    /\ stored' = Append(stored, NewBlock(s))

FitsEmpty(s) == empty /\ size >= Whole(s)

(* slip: no room for the header *)
Slip_FitsAfter(s) == tail < head /\ size - head >= s

FitsAfter(s) == tail < head /\ size - head >= Whole(s)

(* slip: the head may also rewind over the blocks at the tail *)
Slip_FitsBefore(s) == tail < head /\ ~FitsAfter(s) /\ tail > 0

(* slip: the beginning is tried before the room behind the head *)
Slip_FitsBeforeFirst(s) == tail < head /\ tail >= Whole(s)

FitsBefore(s) == tail < head /\ ~FitsAfter(s) /\ tail >= Whole(s)

FitsBetween(s) == tail > head /\ tail - head >= Whole(s)

PushIntoEmpty(s) ==
    /\ FitsEmpty(s)
    /\ Write(s, 0, mem)
    /\ tail' = 0
    /\ UNCHANGED <<size, rewinder>>

PushAfter(s) ==
    /\ FitsAfter(s)
    /\ Write(s, head, mem)
    /\ UNCHANGED <<size, tail, rewinder>>

(* slip: the rewinder is not set *)
Slip_PushBefore(s) ==
    /\ FitsBefore(s)
    /\ Write(s, 0, mem)
    /\ UNCHANGED <<size, tail, rewinder>>

PushBefore(s) ==
    /\ FitsBefore(s)
    /\ rewinder' = head
    /\ Write(s, 0, mem)
    /\ UNCHANGED <<size, tail>>

PushBetween(s) ==
    /\ FitsBetween(s)
    /\ Write(s, head, mem)
    /\ UNCHANGED <<size, tail, rewinder>>

Fits(s) == FitsEmpty(s) \/ FitsAfter(s) \/ FitsBefore(s) \/ FitsBetween(s)

(* resize(_BufferSize * 2): no array at all becomes one of the default size *)
Twice(z) == IF z = 0 THEN DefaultSize ELSE 2 * z

(* the size of the k-th array of the loop that doubles until the block     *)
(* fits.  After the first resize() the blocks are at the beginning, so that *)
(* the loop ends with the first array that has room behind them.            *)
Doubled ==
    LET array[k \in 1 .. MaxSize] == Twice(IF k = 1 THEN size ELSE array[k - 1])
    IN  array

PushGrown(s) ==
    /\ ~Fits(s)
    /\ \E k, n \in 1 .. MaxSize :
          /\ n = Doubled[k] /\ n >= Used + Whole(s)
          /\ \A j \in 1 .. k - 1 : Doubled[j] < Used + Whole(s)
          /\ size' = n
          /\ Write(s, Used, Resized(n))
    /\ tail' = 0 /\ rewinder' = NULL

Push(s) ==
    PushIntoEmpty(s) \/ PushAfter(s) \/ PushBefore(s) \/ PushBetween(s) \/ PushGrown(s)

----------------------------------------------------------------------------
(* pop(), clear() *)

(* the size in the header at the place of the oldest block *)
FrontSize == mem[First].block.size

(* slip: the flag is set before the tail moves *)
Slip_Pop ==
    LET end == First + Whole(FrontSize) IN
    /\ ~empty
    /\ mem' = [p \in DOMAIN mem |-> IF p \in First .. end - 1 THEN Junk ELSE mem[p]]
    /\ tail' = end
    /\ rewinder' = IF tail = rewinder THEN NULL ELSE rewinder
    /\ empty' = (tail = head)
    /\ stored' = Tail(stored)
    /\ UNCHANGED <<size, head, nextId>>

Pop ==
    LET end == First + Whole(FrontSize) IN
    /\ ~empty
    /\ mem' = [p \in DOMAIN mem |-> IF p \in First .. end - 1 THEN Junk ELSE mem[p]]
    /\ tail' = end
    /\ rewinder' = IF tail = rewinder THEN NULL ELSE rewinder
    /\ empty' = (end = head)
    /\ stored' = Tail(stored)
    /\ UNCHANGED <<size, head, nextId>>

Clear ==
    /\ mem' = [p \in DOMAIN mem |-> Junk]
    /\ tail' = 0 /\ head' = 0
    /\ rewinder' = NULL
    /\ empty' = TRUE
    /\ stored' = <<>>
    /\ UNCHANGED <<size, nextId>>

Next ==
    \/ \E s \in Sizes : Push(s)
    \/ Pop \/ Clear
    \/ \E n \in Resizes : Resize(n)

Spec == Init /\ [][Next]_vars

----------------------------------------------------------------------------
(* Properties *)

(* All bytes of a block, header included, are in the array in one piece.    *)
IsAt(block, p) ==
    /\ p >= 0 /\ p + Whole(block.size) <= size
    /\ \A i \in 0 .. Whole(block.size) - 1 : mem[p + i] = [block |-> block, at |-> i]

(* place[i] is where block i of stored is when blocks follow one another up *)
(* to the rewinder and then from the beginning                              *)
Places ==
    LET place[i \in 1 .. Len(stored)] ==
          IF i = 1 THEN First
          ELSE LET end == place[i - 1] + Whole(stored[i - 1].size)
               IN  IF end = rewinder THEN 0 ELSE end
    IN  place

(* Nothing that is in the queue is ever overwritten, lost or put out of     *)
(* order, whatever pushes, pops and resizes came before, and the blocks end *)
(* at the head: front() and pop() (buf_fifo.cpp:179, 365) give them back in *)
(* the order of push() (:79).                                               *)
BlocksIntact ==
    LET n == Len(stored) IN
    n > 0 =>
        /\ \A i \in 1 .. n : IsAt(stored[i], Places[i])
        /\ head = Places[n] + Whole(stored[n].size)

(* head = tail is both "empty" and "full": the flag tells which, also after *)
(* wrap-arounds (buf_fifo.cpp:211).                                         *)
EmptyIsExact == empty <=> stored = <<>>

(* the bytes of the first i blocks, their headers included *)
Total ==
    LET total[i \in 0 .. Len(stored)] ==
          IF i = 0 THEN 0 ELSE total[i - 1] + Whole(stored[i].size)
    IN  total

(* size(), which the size trigger and the statistics use, counts the bytes  *)
(* of the blocks and their headers, in every position of the three pointers *)
(* (buf_fifo.cpp:421).                                                      *)
SizeIsExact == Used = Total[Len(stored)]

(* The three pointers, the flag and the blocks agree. *)
PointersAreExact == TypeOK /\ EmptyIsExact /\ SizeIsExact

(* "the size will be automatically increase by 2" (buf_fifo.h:48), in      *)
(* proportion to what is stored.  A block must be in one piece, so that     *)
(* push() grows the array with bytes still free; but these, at the end, at  *)
(* the beginning, between head and tail and behind the rewinder taken       *)
(* together, are then fewer than the new block and one that is stored, and  *)
(* the new array is less than twice the blocks and those two: the room that *)
(* a rewind gave up at the end (buf_fifo.cpp:663-672), and that no push     *)
(* looks at until the tail has passed it, cannot make the array double      *)
(* again and again for a queue that stays short.                            *)
GrowsInProportion ==
    [][size' > size /\ stored' # stored =>
          \E i \in 1 .. Len(stored') :
             LET new == Whole(stored'[Len(stored')].size)
                 other == Whole(stored'[i].size)
             IN  /\ size - Used < new + other
                 /\ size' = DefaultSize \/ size' < 2 * (Used + new + other)]_vars
=============================================================================
