-------------------------- MODULE UndoSlice_proofs --------------------------
(***************************************************************************)
(* Proofs about UndoSlice, for any number and size of slices, any log and  *)
(* any requests: types, one slice for an offset, the seeks that are made,  *)
(* and every byte read back until an access of the file fails.             *)
(***************************************************************************)
EXTENDS UndoSlice, FiniteSetTheorems, TLAPS

K == SliceSize

(* What has been appended, the append under way included.                  *)
Extent == IF op = "append" THEN pos ELSE eof

(* A request lies in the log, or at its end, and each pass of slice_rdwr   *)
(* but the last goes on to the end of a slice.                             *)
RequestInv ==
    /\ pos + left = start + len /\ start <= pos /\ start + len <= MaxEof
    /\ op = "append" => start = eof
    /\ op \in {"read", "reread", "rewrite"} =>
          start >= Header /\ len > 0 /\ start + len <= eof
    /\ left > 0 /\ pos # start => SliceOff(pos) = pos

(* No two slots hold one slice.                                            *)
Unique ==
    \A s, t \in Slot : active[s] /\ active[t] /\ off[s] = off[t] => s = t

(* Until an access fails, the tracked offset is the position of the stream *)
(* and a stream that has just read is known to need a seek before a write. *)
StreamInv == fails = 0 => fpos = uOffset /\ (dir = "read" => needSeek)

(* A slice that has left the cache is on disk in full.                     *)
DiskInv ==
    fails = 0 /\ Extent > Header =>
        \A a \in Addr : SliceOff(a) < Extent /\ ~Cached(a) => disk[a] # Absent

(* What has been appended and not lost is what a read would find.          *)
FlatInv ==
    fails = 0 => \A a \in Header..(Extent - 1) : a \notin lost => Current(a) = flat[a]
-----------------------------------------------------------------------------
(* Arithmetic of slices.                                                   *)

(* Different multiples of k are k apart.                                   *)
LEMMA MultiplesApart ==
    \A q, r \in Nat, k \in Nat \ {0} : q < r => q * k + k <= r * k
  <1> TAKE q, r \in Nat, k \in Nat \ {0}
  <1> HAVE q < r
  <1> PICK d \in Nat : r = q + 1 + d
    <2>1. r - q - 1 \in Nat /\ r = q + 1 + (r - q - 1)
      OBVIOUS
    <2> QED
      BY <2>1
  <1>1. r * k = q * k + k + d * k
    OBVIOUS
  <1>2. d * k \in Nat /\ q * k \in Nat
    OBVIOUS
  <1> QED
    BY <1>1, <1>2

(* Every address is in a slice, by division.                               *)
LEMMA Division ==
    ASSUME NEW a \in Nat
    PROVE  \E q \in Nat : /\ SliceOff(a) = q * K
                          /\ q * K <= a /\ a < q * K + K
  <1>1. a = K * (a \div K) + (a % K) /\ a \div K \in Nat /\ a % K \in 0..(K - 1)
    BY SliceConstants DEF K
  <1>2. SliceOff(a) = (a \div K) * K
    BY <1>1, SliceConstants DEF SliceOff, K
  <1> DEFINE q == a \div K
  <1>3. q \in Nat /\ SliceOff(a) = q * K /\ q * K <= a /\ a < q * K + K
    <2>1. a % K < K /\ a % K \in Nat /\ K \in Nat
      BY <1>1, SliceConstants DEF K
    <2>2. q \in Nat /\ a = q * K + (a % K)
      BY <1>1, <2>1
    <2>3. q * K \in Nat
      BY <2>1, <2>2
    <2> HIDE DEF q
    <2> QED
      BY <2>1, <2>2, <2>3, <1>2 DEF q
  <1> HIDE DEF q
  <1> QED
    BY <1>3

(* The offset of the slice of a is the one multiple of SliceSize at most   *)
(* SliceSize - 1 below it.                                                 *)
LEMMA SliceOffIs ==
    ASSUME NEW a \in Nat, NEW q \in Nat, q * K <= a, a < q * K + K
    PROVE  SliceOff(a) = q * K
  <1> PICK r \in Nat : SliceOff(a) = r * K /\ r * K <= a /\ a < r * K + K
    BY Division
  <1>1. q * K \in Nat /\ r * K \in Nat /\ K \in Nat
    BY SliceConstants DEF K
  <1>2. ~(q < r)
    BY <1>1, MultiplesApart, SliceConstants DEF K
  <1>3. ~(r < q)
    BY <1>1, MultiplesApart, SliceConstants DEF K
  <1> QED
    BY <1>2, <1>3

(* A slice begins at or below its addresses and ends above them.           *)
LEMMA SliceOffBounds ==
    ASSUME NEW a \in Nat
    PROVE  /\ SliceOff(a) \in Nat /\ SliceOff(a) <= a /\ a < SliceOff(a) + K
           /\ SliceOff(SliceOff(a)) = SliceOff(a)
  <1> PICK q \in Nat : SliceOff(a) = q * K /\ q * K <= a /\ a < q * K + K
    BY Division
  <1>1. q * K \in Nat /\ K \in Nat \ {0}
    BY SliceConstants DEF K
  <1>2. SliceOff(q * K) = q * K
    BY <1>1, SliceOffIs
  <1> QED
    BY <1>1, <1>2

(* An address between a slice's bounds is in that slice.                   *)
LEMMA SameSlice ==
    ASSUME NEW a \in Nat, NEW b \in Nat, SliceOff(b) <= a, a < SliceOff(b) + K
    PROVE  SliceOff(a) = SliceOff(b)
  <1> PICK q \in Nat : SliceOff(b) = q * K
    BY Division
  <1> QED
    BY SliceOffIs

(* Slices are apart by SliceSize at least.                                 *)
LEMMA SlicesApart ==
    ASSUME NEW a \in Nat, NEW b \in Nat, SliceOff(a) < SliceOff(b)
    PROVE  SliceOff(a) + K <= SliceOff(b)
  <1> PICK q \in Nat : SliceOff(a) = q * K
    BY Division
  <1> PICK r \in Nat : SliceOff(b) = r * K
    BY Division
  <1>1. q < r
    <2>1. SUFFICES ASSUME r <= q PROVE FALSE
      OBVIOUS
    <2>2. r < q => r * K + K <= q * K
      BY MultiplesApart, SliceConstants DEF K
    <2>3. r * K \in Nat /\ q * K \in Nat /\ K \in Nat
      BY SliceConstants DEF K
    <2> QED
      BY <2>1, <2>2, <2>3
  <1> QED
    BY <1>1, MultiplesApart, SliceConstants DEF K

(* The slice of an address of the log is in the log.                       *)
LEMMA SliceInLog ==
    ASSUME NEW a \in Addr
    PROVE  SliceOff(a) \in Addr /\ SliceOff(a) + K <= MaxEof
  <1>1. a \in Nat /\ MaxEof \in Nat /\ MaxEof > 0 /\ K \in Nat \ {0}
    BY SliceConstants DEF Addr, K
  <1>2. SliceOff(MaxEof) = MaxEof
    BY SliceConstants DEF SliceOff
  <1>3. SliceOff(a) < SliceOff(MaxEof)
    BY <1>1, <1>2, SliceOffBounds DEF Addr
  <1>4. SliceOff(a) + K <= MaxEof
    BY <1>1, <1>2, <1>3, SlicesApart
  <1> QED
    BY <1>1, <1>4, SliceOffBounds DEF Addr

-----------------------------------------------------------------------------
(* Slots and chunks.                                                       *)

(* In a typed state a slot holds an address if it holds its slice.         *)
LEMMA HitIs ==
    ASSUME NEW a \in Addr, NEW s \in Slot, TypeOK
    PROVE  Hit(a, s) <=> active[s] /\ off[s] = SliceOff(a)
  <1> PICK b \in Addr : off[s] = SliceOff(b)
    BY DEF TypeOK
  <1>1. a \in Nat /\ b \in Nat /\ K \in Nat \ {0}
    BY SliceConstants DEF Addr, K
  <1>2. SliceOff(a) \in Nat /\ SliceOff(b) \in Nat
    BY <1>1, SliceOffBounds
  <1>3. a \in off[s]..(off[s] + SliceSize - 1) <=> SliceOff(b) <= a /\ a < SliceOff(b) + K
    BY <1>1, <1>2 DEF K
  <1>4. SliceOff(b) <= a /\ a < SliceOff(b) + K => SliceOff(a) = SliceOff(b)
    BY <1>1, SameSlice
  <1>5. SliceOff(a) = SliceOff(b) => SliceOff(b) <= a /\ a < SliceOff(b) + K
    BY <1>1, SliceOffBounds
  <1> QED
    BY <1>3, <1>4, <1>5 DEF Hit

(* A pass goes to the end of the slice or of the request.                  *)
LEMMA ChunkIs ==
    ASSUME TypeOK, RequestInv, left > 0
    PROVE  /\ pos \in Addr
           /\ \E e \in Nat :
                 /\ pos < e /\ e <= pos + left /\ e <= SliceOff(pos) + K
                 /\ e = pos + left \/ e = SliceOff(pos) + K
                 /\ Chunk = pos..(e - 1)
                 /\ Cardinality(Chunk) = e - pos
  <1>1. pos \in Nat /\ left \in Nat /\ pos + left <= MaxEof /\ MaxEof \in Nat /\ K \in Nat \ {0}
    BY SliceConstants DEF TypeOK, RequestInv, K
  <1>2. pos \in Addr
    BY <1>1 DEF Addr
  <1>3. /\ SliceOff(pos) \in Nat /\ SliceOff(pos) <= pos /\ pos < SliceOff(pos) + K
        /\ SliceOff(pos) + K <= MaxEof
    BY <1>1, <1>2, SliceOffBounds, SliceInLog
  <1> DEFINE e == IF pos + left <= SliceOff(pos) + K THEN pos + left ELSE SliceOff(pos) + K
  <1>4. /\ e \in Nat /\ pos < e /\ e <= pos + left /\ e <= SliceOff(pos) + K /\ e <= MaxEof
        /\ e = pos + left \/ e = SliceOff(pos) + K
    BY <1>1, <1>3
  <1> HIDE DEF e
  <1>5. ASSUME NEW a \in Addr
        PROVE  a \in Chunk <=> pos <= a /\ a < e
    <2>1. a \in Nat
      BY DEF Addr
    <2>2. SliceOff(a) = SliceOff(pos) => a < SliceOff(pos) + K
      BY <2>1, SliceOffBounds
    <2>3. pos <= a /\ a < SliceOff(pos) + K => SliceOff(a) = SliceOff(pos)
      <3> HAVE pos <= a /\ a < SliceOff(pos) + K
      <3>1. SliceOff(pos) <= a
        BY <1>1, <1>3, <2>1
      <3> QED
        BY <1>1, <2>1, <3>1, SameSlice
    <2>4. a < e <=> a < pos + left /\ a < SliceOff(pos) + K
      BY <1>1, <1>3, <2>1 DEF e
    <2> QED
      BY <2>2, <2>3, <2>4 DEF Chunk
  <1>6. Chunk = pos..(e - 1)
    <2>1. Chunk \subseteq pos..(e - 1)
      <3> SUFFICES ASSUME NEW a \in Chunk PROVE a \in pos..(e - 1)
        OBVIOUS
      <3>1. a \in Addr /\ a \in Nat
        BY DEF Chunk, Addr
      <3> QED
        BY <3>1, <1>5, <1>4, <1>1
    <2>2. pos..(e - 1) \subseteq Chunk
      <3> SUFFICES ASSUME NEW a \in pos..(e - 1) PROVE a \in Chunk
        OBVIOUS
      <3>1. a \in Addr /\ pos <= a /\ a < e
        BY <1>1, <1>4 DEF Addr
      <3> QED
        BY <3>1, <1>5
    <2> QED
      BY <2>1, <2>2
  <1>7. Cardinality(Chunk) = e - pos
    BY <1>1, <1>4, <1>6, FS_Interval
  <1> QED
    BY <1>2, <1>4, <1>6, <1>7

-----------------------------------------------------------------------------
(* Types.                                                                  *)

CacheType ==
    /\ active \in [Slot -> BOOLEAN]
    /\ off \in [Slot -> {SliceOff(a) : a \in Addr}]
    /\ buf \in [Slot -> [Cell -> Byte]]
    /\ lastSlice \in 0..Slices

StreamType ==
    /\ disk \in [Addr -> Byte \cup {Absent}]
    /\ fpos \in Nat /\ uOffset \in 0..MaxEof
    /\ dir \in {"read", "write"} /\ needSeek \in BOOLEAN

RequestType ==
    /\ eof \in Header..MaxEof
    /\ op \in Op /\ start \in 0..MaxEof /\ len \in 0..MaxLen
    /\ val \in Byte
    /\ pos \in 0..MaxEof /\ left \in 0..MaxLen

HistoryType ==
    /\ flat \in [Addr -> Byte]
    /\ lost \in SUBSET Addr
    /\ fails \in 0..MaxFails

(* TypeOK in parts, each of which some steps leave alone.                  *)
LEMMA TypeParts ==
    /\ TypeOK <=> CacheType /\ StreamType /\ RequestType /\ HistoryType
    /\ TypeOK' <=> CacheType' /\ StreamType' /\ RequestType' /\ HistoryType'
  BY DEF TypeOK, CacheType, StreamType, RequestType, HistoryType

(* The slot after one, before it wraps.                                    *)
LEMMA VictimIs ==
    ASSUME NEW s \in Slot
    PROVE  s + 1 \in 0..Slices /\ s \in 0..Slices
  BY SliceConstants DEF Slot

(* What a slot holds is a slice of the log.                                *)
LEMMA OffsetInLog ==
    ASSUME TypeOK, NEW s \in Slot
    PROVE  off[s] \in Nat /\ off[s] + K <= MaxEof /\ off[s] \in Addr
  <1> PICK b \in Addr : off[s] = SliceOff(b)
    BY DEF TypeOK
  <1> QED
    BY SliceInLog DEF Addr

(* Where a slot is written, in the file.                                   *)
LEMMA WriteAtType ==
    ASSUME TypeOK, NEW s \in Slot
    PROVE  WriteAt(s) \in Nat
  BY OffsetInLog DEF WriteAt, Seeks, TypeOK

(* The file after a slot is written.                                       *)
LEMMA WrittenType ==
    ASSUME TypeOK, NEW s \in Slot
    PROVE  Written(s, WriteAt(s)) \in [Addr -> Byte \cup {Absent}]
  <1>1. WriteAt(s) \in Nat /\ SliceSize \in Nat
    BY WriteAtType, SliceConstants
  <1>2. ASSUME NEW a \in Addr, a >= WriteAt(s), a < WriteAt(s) + SliceSize
        PROVE  buf[s][a - WriteAt(s)] \in Byte
    <2>1. a - WriteAt(s) \in Cell
      BY <1>1, <1>2 DEF Cell, Addr
    <2> QED
      BY <2>1 DEF TypeOK
  <1>3. Zero \in Byte /\ disk \in [Addr -> Byte \cup {Absent}]
    BY DEF Byte, TypeOK
  <1> QED
    BY <1>2, <1>3 DEF Written

(* The file and its stream after slice_flush.                              *)
LEMMA FlushedType ==
    ASSUME TypeOK, NEW s \in Slot
    PROVE  /\ Flushed(s).disk \in [Addr -> Byte \cup {Absent}]
           /\ Flushed(s).fpos \in Nat /\ Flushed(s).uOffset \in 0..MaxEof
           /\ Flushed(s).dir \in {"read", "write"} /\ Flushed(s).needSeek \in BOOLEAN
  <1>1. CASE active[s]
    <2>1. WriteAt(s) + SliceSize \in Nat
      BY WriteAtType, SliceConstants
    <2>2. off[s] + SliceSize \in 0..MaxEof
      BY OffsetInLog, SliceConstants DEF K
    <2> QED
      BY <1>1, <2>1, <2>2, WrittenType DEF Flushed
  <1>2. CASE ~active[s]
    BY <1>2 DEF Flushed, TypeOK
  <1> QED
    BY <1>1, <1>2

(* A set of cells can be counted.                                          *)
LEMMA CellsCounted ==
    ASSUME NEW S \in SUBSET Cell
    PROVE  Cardinality(S) \in Nat
  <1>1. IsFiniteSet(Cell)
    BY FS_Interval, SliceConstants DEF Cell
  <1> QED
    BY <1>1, FS_Subset, FS_CardinalityType

(* The cache begins typed.                                                 *)
LEMMA InitType == Init => TypeOK
  <1> SUFFICES ASSUME Init PROVE TypeOK
    OBVIOUS
  <1>0. /\ MaxEof \in Nat \ {0} /\ MaxLen \in Nat /\ SliceSize \in Nat \ {0} /\ Header \in Nat \ {0}
        /\ Slices \in Nat \ {0} /\ MaxFails \in Nat /\ Header < SliceSize
    BY SliceConstants
  <1>5. 0 \in Addr /\ SliceOff(0) = 0 /\ SliceSize <= MaxEof
    <2>1. 0 \in Addr
      BY <1>0 DEF Addr
    <2>2. SliceOff(0) \in Nat /\ SliceOff(0) <= 0
      BY SliceOffBounds
    <2>3. SliceOff(0) + K <= MaxEof
      BY <2>1, SliceInLog
    <2> QED
      BY <1>0, <2>1, <2>2, <2>3 DEF K
  <1>1. CacheType
    BY <1>0, <1>5 DEF Init, CacheType, Byte
  <1>2. StreamType
    BY <1>0, <1>5 DEF Init, StreamType, Byte
  <1>3. RequestType
    BY <1>0, <1>5 DEF Init, RequestType, Op, Byte
  <1>4. HistoryType
    BY <1>0 DEF Init, HistoryType, Byte
  <1> QED
    BY <1>1, <1>2, <1>3, <1>4, TypeParts

(* The slice after a slice begins where that one ends.                     *)
LEMMA NextSlice ==
    ASSUME NEW a \in Nat
    PROVE  SliceOff(SliceOff(a) + K) = SliceOff(a) + K
  <1> PICK q \in Nat : SliceOff(a) = q * K
    BY Division
  <1>1. (q + 1) * K = q * K + K /\ q * K + K \in Nat /\ K \in Nat \ {0} /\ q * K \in Nat
    BY SliceConstants DEF K
  <1>2. SliceOff(q * K + K) = (q + 1) * K
    BY <1>1, SliceOffIs
  <1> QED
    BY <1>1, <1>2

(* A pass of slice_rdwr leaves a request of the same log.                  *)
LEMMA AdvanceRequest ==
    ASSUME TypeOK, RequestInv, left > 0, Advance
    PROVE  RequestType' /\ RequestInv'
  <1> PICK e \in Nat :
        /\ pos < e /\ e <= pos + left /\ e <= SliceOff(pos) + K
        /\ e = pos + left \/ e = SliceOff(pos) + K
        /\ Cardinality(Chunk) = e - pos
    BY ChunkIs
  <1>1. /\ pos \in Nat /\ left \in Nat /\ MaxEof \in Nat /\ MaxLen \in Nat /\ left <= MaxLen
        /\ start \in Nat /\ len \in Nat /\ pos + left <= MaxEof
    BY SliceConstants DEF TypeOK, RequestInv
  <1>2. pos' = e /\ left' = pos + left - e /\ UNCHANGED <<op, start, len, val, eof>>
    BY <1>1 DEF Advance
  <1>3. RequestType'
    BY <1>1, <1>2 DEF RequestType, TypeOK
  <1>4. left' > 0 => SliceOff(pos') = pos'
    <2> HAVE left' > 0
    <2>1. e = SliceOff(pos) + K
      BY <1>1, <1>2
    <2> QED
      BY <1>1, <1>2, <2>1, NextSlice
  <1> QED
    BY <1>1, <1>2, <1>3, <1>4 DEF RequestInv

(* A request that begins is one of the log.                                *)
LEMMA BeginTypes ==
    ASSUME TypeOK, RequestInv, NEW o \in Op, NEW a \in 0..MaxEof, NEW n \in 1..MaxLen,
           NEW v \in Byte, Begin(o, a, n, v), a + n <= MaxEof,
           o = "append" => a = eof,
           o # "append" => a >= Header /\ a + n <= eof
    PROVE  TypeOK' /\ RequestInv'
  <1>1. MaxLen \in Nat /\ MaxEof \in Nat
    BY SliceConstants
  <1>2. CacheType' /\ StreamType' /\ HistoryType'
    BY TypeParts DEF Begin, cache, stream, CacheType, StreamType, HistoryType
  <1>3. RequestType'
    BY <1>1 DEF Begin, RequestType, TypeOK
  <1>4. RequestInv'
    BY <1>1 DEF Begin, RequestInv
  <1> QED
    BY <1>2, <1>3, <1>4, TypeParts

(* Every request of the undo engine begins so.                             *)
LEMMA RequestTypes ==
    ASSUME TypeOK, RequestInv,
           \/ \E n \in 1..MaxLen, v \in Data : Append(n, v)
           \/ \E a \in Addr, n \in 1..MaxLen : Read(a, n)
           \/ \E a \in Addr, n \in 1..MaxLen, v \in Data : Collapse(a, n, v)
    PROVE  TypeOK' /\ RequestInv'
  <1>0. /\ MaxLen \in Nat /\ MaxEof \in Nat /\ Header \in Nat /\ eof \in Nat /\ eof <= MaxEof
        /\ Zero \in Byte /\ Data \subseteq Byte
    BY SliceConstants DEF TypeOK, Byte
  <1>1. ASSUME NEW n \in 1..MaxLen, NEW v \in Data, Append(n, v)
        PROVE  TypeOK' /\ RequestInv'
    <2>1. "append" \in Op /\ eof \in 0..MaxEof /\ v \in Byte
      BY <1>0 DEF Op
    <2> QED
      BY <1>0, <1>1, <2>1, BeginTypes DEF Append
  <1>2. ASSUME NEW a \in Addr, NEW n \in 1..MaxLen, Read(a, n)
        PROVE  TypeOK' /\ RequestInv'
    <2>1. "read" \in Op /\ a \in 0..MaxEof /\ a + n <= MaxEof
      BY <1>0, <1>2 DEF Op, Addr, Read
    <2> QED
      BY <1>0, <1>2, <2>1, BeginTypes DEF Read
  <1>3. ASSUME NEW a \in Addr, NEW n \in 1..MaxLen, NEW v \in Data, Collapse(a, n, v)
        PROVE  TypeOK' /\ RequestInv'
    <2>1. "reread" \in Op /\ a \in 0..MaxEof /\ a + n <= MaxEof /\ v \in Byte
      BY <1>0, <1>3 DEF Op, Addr, Collapse
    <2> QED
      BY <1>0, <1>3, <2>1, BeginTypes DEF Collapse
  <1> QED
    BY <1>1, <1>2, <1>3

(* A request that ends leaves the end of the log where the log can be.     *)
LEMMA RetireTypes ==
    ASSUME TypeOK, RequestInv, Retire, eof' \in Header..MaxEof
    PROVE  RequestType' /\ RequestInv'
  <1>1. MaxEof \in Nat /\ MaxLen \in Nat
    BY SliceConstants
  <1> QED
    BY <1>1 DEF Retire, RequestType, RequestInv, Op, Byte

(* So does one that ends an append, or writes what it has read.            *)
LEMMA EndTypes ==
    ASSUME TypeOK, RequestInv, End
    PROVE  TypeOK' /\ RequestInv'
  <1>0. /\ MaxLen \in Nat /\ MaxEof \in Nat /\ Header \in Nat /\ eof \in Header..MaxEof
        /\ start \in 0..MaxEof /\ len \in 0..MaxLen /\ start + len <= MaxEof
    BY SliceConstants DEF TypeOK, RequestInv
  <1>1. CacheType' /\ StreamType' /\ HistoryType'
    BY TypeParts DEF End, cache, stream, CacheType, StreamType, HistoryType
  <1>2. CASE op = "reread"
    <2>1. /\ op' = "rewrite" /\ pos' = start /\ left' = len
          /\ start' = start /\ len' = len /\ val' = val /\ eof' = eof
      BY <1>2 DEF End
    <2>2. RequestType'
      BY <1>0, <2>1 DEF RequestType, TypeOK, Op
    <2>3. RequestInv'
      BY <1>0, <1>2, <2>1 DEF RequestInv
    <2> QED
      BY <1>1, <2>2, <2>3, TypeParts
  <1>3. CASE op # "reread"
    <2>1. Retire /\ eof' = IF op = "append" THEN eof + len ELSE eof
      BY <1>3 DEF End
    <2>2. eof' \in Header..MaxEof
      BY <1>0, <2>1 DEF RequestInv
    <2> QED
      BY <1>1, <2>1, <2>2, RetireTypes, TypeParts
  <1> QED
    BY <1>2, <1>3

(* A failing write leaves the types.                                       *)
LEMMA FailTypes ==
    ASSUME TypeOK, RequestInv, NEW s \in Slot, NEW n \in 0..(SliceSize - 1), FlushFails(s, n)
    PROVE  TypeOK' /\ RequestInv'
  <1>0. /\ MaxLen \in Nat /\ MaxEof \in Nat /\ Header \in Nat /\ eof \in Header..MaxEof
        /\ start \in Nat /\ len \in Nat /\ start + len <= MaxEof /\ MaxFails \in Nat
        /\ SliceSize \in Nat \ {0} /\ n \in Nat
        /\ pos \in Nat /\ left \in Nat /\ pos + left <= MaxEof
    BY SliceConstants DEF TypeOK, RequestInv
  <1>1. CacheType'
    BY VictimIs, TypeParts DEF FlushFails, CacheType
  <1>2. StreamType'
    <2>1. Written(s, WriteAt(s)) \in [Addr -> Byte \cup {Absent}] /\ WriteAt(s) \in Nat
      BY WrittenType, WriteAtType
    <2>2. disk' \in [Addr -> Byte \cup {Absent}]
      BY <2>1 DEF FlushFails, TypeOK
    <2>3. fpos' \in Nat /\ dir' = "write" /\ UNCHANGED <<uOffset, needSeek>>
      BY <1>0, <2>1 DEF FlushFails
    <2> QED
      BY <2>2, <2>3 DEF StreamType, TypeOK
  <1>3. HistoryType'
    <2>1. pos..(pos + left - 1) \subseteq Addr
      BY <1>0 DEF Addr
    <2>2. lost' \in SUBSET Addr
      BY <2>1 DEF FlushFails, TypeOK
    <2>3. flat' = flat /\ fails' \in 0..MaxFails
      BY <1>0 DEF FlushFails, TypeOK
    <2> QED
      BY <2>2, <2>3 DEF HistoryType, TypeOK
  <1>4. Retire /\ eof' = IF op = "append" THEN eof + len ELSE eof
    BY DEF FlushFails
  <1>5. eof' \in Header..MaxEof
    BY <1>0, <1>4 DEF RequestInv
  <1> QED
    BY <1>1, <1>2, <1>3, <1>4, <1>5, RetireTypes, TypeParts

(* A pass that writes leaves bytes in the buffer and the history.          *)
LEMMA CopyInType ==
    ASSUME TypeOK, NEW s \in Slot, NEW b \in [Cell -> Byte], CopyIn(s, b)
    PROVE  buf' \in [Slot -> [Cell -> Byte]] /\ flat' \in [Addr -> Byte]
  <1>1. val \in Byte /\ buf \in [Slot -> [Cell -> Byte]] /\ flat \in [Addr -> Byte]
    BY DEF TypeOK
  <1>2. [c \in Cell |-> IF SliceOff(pos) + c \in Chunk THEN val ELSE b[c]] \in [Cell -> Byte]
    BY <1>1
  <1> QED
    BY <1>1, <1>2 DEF CopyIn

(* A slot is given a slice of the log.                                     *)
LEMMA AssignType ==
    ASSUME TypeOK, NEW s \in Slot, Assign(s), pos \in Addr
    PROVE  /\ active' \in [Slot -> BOOLEAN] /\ lastSlice' \in 0..Slices
           /\ off' \in [Slot -> {SliceOff(a) : a \in Addr}]
  <1>1. lastSlice' = s + 1
    BY DEF Assign, Victim
  <1> QED
    BY <1>1, VictimIs DEF Assign, TypeOK

(* What is read into a slot is bytes.                                      *)
LEMMA FetchedType ==
    ASSUME TypeOK, NEW f, f.disk \in [Addr -> Byte \cup {Absent}], NEW r \in Nat,
           NEW b \in [Cell -> Byte]
    PROVE  Fetched(f, r, b) \in [Cell -> Byte]
  BY DEF Fetched

(* The stream stays at a position.                                         *)
LEMMA ReadToType ==
    ASSUME NEW f, NEW r \in Nat
    PROVE  ReadTo(f, r) \in Nat
  <1> DEFINE S == {c \in Cell : \A d \in 0..c : r + d \in Addr /\ f.disk[r + d] # Absent}
  <1>1. Cardinality(S) \in Nat
    <2>1. S \in SUBSET Cell
      OBVIOUS
    <2> HIDE DEF S
    <2> QED
      BY <2>1, CellsCounted
  <1>2. ReadTo(f, r) = r + Cardinality(S)
    BY DEF ReadTo
  <1> HIDE DEF S
  <1> QED
    BY <1>1, <1>2

(* A pass of slice_rdwr leaves the types.                                  *)
LEMMA FindTypes ==
    ASSUME TypeOK, RequestInv, NEW s \in Slot,
           ReadHit(s) \/ WriteHit(s) \/ ReadMiss(s) \/ WriteMiss(s)
    PROVE  TypeOK' /\ RequestInv'
  <1>0. left > 0 /\ Advance
    BY DEF ReadHit, WriteHit, ReadMiss, WriteMiss
  <1>1. RequestType' /\ RequestInv'
    BY <1>0, AdvanceRequest
  <1>2. pos \in Addr /\ Chunk \subseteq Addr /\ SliceOff(pos) \in 0..MaxEof
    <2>1. pos \in Addr
      BY <1>0, ChunkIs
    <2> QED
      BY <2>1, SliceInLog, SliceConstants DEF Chunk, Addr, K
  <1>3. fails' = fails /\ fails \in 0..MaxFails
    BY DEF ReadHit, WriteHit, ReadMiss, WriteMiss, TypeOK
  <1>4. buf[s] \in [Cell -> Byte]
    BY DEF TypeOK
  <1>5. CASE ReadHit(s)
    <2>1. UNCHANGED <<active, off, lastSlice, disk, fpos, dir, uOffset, needSeek, lost, flat>>
      BY <1>5 DEF ReadHit, stream, CopyOut
    <2>2. buf' \in [Slot -> [Cell -> Byte]]
      BY <1>4, <1>5 DEF ReadHit, CopyOut, TypeOK
    <2> QED
      BY <1>1, <1>3, <2>1, <2>2 DEF TypeOK, RequestType
  <1>6. CASE WriteHit(s)
    <2>1. UNCHANGED <<active, off, lastSlice, disk, fpos, dir, uOffset, needSeek>>
          /\ lost' \in SUBSET Addr
      BY <1>6 DEF WriteHit, stream, TypeOK
    <2>2. buf' \in [Slot -> [Cell -> Byte]] /\ flat' \in [Addr -> Byte]
      BY <1>4, <1>6, CopyInType DEF WriteHit
    <2> QED
      BY <1>1, <1>3, <2>1, <2>2 DEF TypeOK, RequestType
  <1>7. CASE ReadMiss(s)
    <2> DEFINE f == Flushed(s)
               r == ReadAt(f, SliceOff(pos))
    <2>1. /\ f.disk \in [Addr -> Byte \cup {Absent}] /\ f.fpos \in Nat
          /\ f.uOffset \in 0..MaxEof
      BY FlushedType
    <2>2. r \in Nat
      BY <1>2, <2>1 DEF ReadAt
    <2>3. OffsetAfterRead(SliceOff(pos)) \in 0..MaxEof
      BY <1>2, SliceInLog, SliceConstants DEF OffsetAfterRead, K, Addr
    <2>4. /\ Assign(s) /\ CopyOut(s, Fetched(f, r, buf[s]))
          /\ disk' = f.disk /\ fpos' = ReadTo(f, r) /\ dir' = "read"
          /\ uOffset' = OffsetAfterRead(SliceOff(pos)) /\ needSeek' = TRUE /\ lost' = lost
      BY <1>7 DEF ReadMiss
    <2> HIDE DEF f, r
    <2>5. CacheType'
      <3>1. Fetched(f, r, buf[s]) \in [Cell -> Byte]
        BY <1>4, <2>1, <2>2, FetchedType
      <3>2. buf' \in [Slot -> [Cell -> Byte]]
        BY <2>4, <3>1 DEF CopyOut, TypeOK
      <3> QED
        BY <1>2, <2>4, <3>2, AssignType DEF CacheType
    <2>6. StreamType'
      BY <2>1, <2>2, <2>3, <2>4, ReadToType DEF StreamType
    <2>7. HistoryType'
      BY <1>3, <2>4 DEF HistoryType, CopyOut, TypeOK
    <2> QED
      BY <1>1, <2>5, <2>6, <2>7, TypeParts
  <1>8. CASE WriteMiss(s)
    <2>1. CacheType'
      BY <1>2, <1>4, <1>8, AssignType, CopyInType DEF CacheType, WriteMiss
    <2>2. StreamType'
      BY <1>8, FlushedType DEF StreamType, WriteMiss
    <2>3. HistoryType'
      <3>1. flat' \in [Addr -> Byte]
        BY <1>4, <1>8, CopyInType DEF WriteMiss
      <3>2. Header..(eof - 1) \subseteq Addr
        BY SliceConstants DEF Addr, TypeOK
      <3>3. lost' \in SUBSET Addr
        BY <1>8, <3>2 DEF WriteMiss, TypeOK
      <3> QED
        BY <1>3, <3>1, <3>3 DEF HistoryType
    <2> QED
      BY <1>1, <2>1, <2>2, <2>3, TypeParts
  <1> QED
    BY <1>5, <1>6, <1>7, <1>8

(* A read that fails leaves in the buffer what it read and what it held.   *)
LEMMA ReadFailTypes ==
    ASSUME TypeOK, RequestInv, NEW s \in Slot, NEW n \in 0..(SliceSize - 1), ReadFails(s, n)
    PROVE  TypeOK' /\ RequestInv'
  <1> DEFINE f == Flushed(s)
             r == ReadAt(f, SliceOff(pos))
             b == [c \in Cell |-> IF c < n THEN Fetched(f, r, buf[s])[c] ELSE buf[s][c]]
  <1>1. /\ f.disk \in [Addr -> Byte \cup {Absent}] /\ f.fpos \in Nat
        /\ left > 0 /\ Advance /\ pos \in Addr
    BY FlushedType, ChunkIs DEF ReadFails
  <1>2. RequestType' /\ RequestInv'
    BY <1>1, AdvanceRequest
  <1>3. SliceOff(pos) \in 0..MaxEof /\ r \in Nat /\ n \in Nat
        /\ OffsetAfterRead(SliceOff(pos)) \in 0..MaxEof
    BY <1>1, SliceInLog, SliceConstants DEF ReadAt, OffsetAfterRead, K, Addr
  <1>4. /\ Assign(s) /\ CopyOut(s, b)
        /\ disk' = f.disk /\ fpos' = r + n /\ dir' \in {"read", "write"}
        /\ uOffset' = OffsetAfterRead(SliceOff(pos)) /\ needSeek' = TRUE /\ lost' = lost
        /\ fails < MaxFails /\ fails' = fails + 1
    BY DEF ReadFails
  <1>5. b \in [Cell -> Byte]
    BY <1>1, <1>3, FetchedType DEF TypeOK
  <1> HIDE DEF f, r, b
  <1>6. CacheType'
    BY <1>1, <1>4, <1>5, AssignType DEF CacheType, CopyOut, TypeOK
  <1>7. StreamType'
    BY <1>1, <1>3, <1>4 DEF StreamType
  <1>8. HistoryType'
    BY <1>4, SliceConstants DEF HistoryType, CopyOut, TypeOK
  <1> QED
    BY <1>2, <1>6, <1>7, <1>8, TypeParts

(* There is no request at first.                                           *)
LEMMA InitRequest == Init => RequestInv
  BY SliceConstants DEF Init, RequestInv

(* Nothing changes.                                                        *)
LEMMA StutterTypes == TypeOK /\ RequestInv /\ UNCHANGED vars => TypeOK' /\ RequestInv'
  BY DEF TypeOK, RequestInv, vars, cache, stream, request

(* Every step leaves the types, and requests in the log.                   *)
LEMMA StepTypes == TypeOK /\ RequestInv /\ [Next]_vars => TypeOK' /\ RequestInv'
  <1> SUFFICES ASSUME TypeOK, RequestInv, [Next]_vars PROVE TypeOK' /\ RequestInv'
    OBVIOUS
  <1>1. CASE UNCHANGED vars
    BY <1>1, StutterTypes
  <1>2. CASE \/ \E n \in 1..MaxLen, v \in Data : Append(n, v)
             \/ \E a \in Addr, n \in 1..MaxLen : Read(a, n)
             \/ \E a \in Addr, n \in 1..MaxLen, v \in Data : Collapse(a, n, v)
    BY <1>2, RequestTypes
  <1>3. CASE \E s \in Slot, n \in 0..(SliceSize - 1) :
              FlushFails(s, n) \/ ReadFails(s, n)
    BY <1>3, FailTypes, ReadFailTypes
  <1>4. CASE Find
    BY <1>4, FindTypes DEF Find
  <1>5. CASE End
    BY <1>5, EndTypes
  <1> QED
    BY <1>1, <1>2, <1>3, <1>4, <1>5 DEF Next

(* The types of the cache, its stream and its requests; that a request     *)
(* stays in the log is proved along with them.                             *)
THEOREM TypeCorrect == Spec => []TypeOK
  <1>1. Init => TypeOK /\ RequestInv
    BY InitType, InitRequest
  <1>2. (TypeOK /\ RequestInv) /\ [Next]_vars => (TypeOK /\ RequestInv)'
    BY StepTypes
  <1> QED
    BY <1>1, <1>2, PTL DEF Spec

-----------------------------------------------------------------------------
(* One slice for an offset.                                                *)

(* OneSlice, said of slots instead of sets of slots.                       *)
LEMMA UniqueSlice == TypeOK => (Unique <=> OneSlice)
  <1> SUFFICES ASSUME TypeOK PROVE Unique <=> OneSlice
    OBVIOUS
  <1>1. ASSUME Unique PROVE OneSlice
    BY <1>1, HitIs DEF Unique, OneSlice
  <1>2. ASSUME OneSlice PROVE Unique
    <2> SUFFICES ASSUME NEW s \in Slot, NEW t \in Slot, active[s], active[t], off[s] = off[t]
                 PROVE  s = t
      BY DEF Unique
    <2>1. off[s] \in Addr
      BY OffsetInLog
    <2>2. SliceOff(off[s]) = off[s]
      <3> PICK b \in Addr : off[s] = SliceOff(b)
        BY DEF TypeOK
      <3> QED
        BY SliceOffBounds DEF Addr
    <2> QED
      BY <1>2, <2>1, <2>2, HitIs DEF OneSlice
  <1> QED
    BY <1>1, <1>2

(* A slot is given a slice that no slot holds.                             *)
LEMMA AssignUnique ==
    ASSUME TypeOK, Unique, NEW s \in Slot, pos \in Addr, ~Cached(pos), Assign(s)
    PROVE  Unique'
  <1>1. \A t \in Slot : ~(active[t] /\ off[t] = SliceOff(pos))
    BY HitIs DEF Cached
  <1>2. active' = [active EXCEPT ![s] = TRUE] /\ off' = [off EXCEPT ![s] = SliceOff(pos)]
    BY DEF Assign
  <1> SUFFICES ASSUME NEW t \in Slot, NEW u \in Slot, active'[t], active'[u], off'[t] = off'[u]
               PROVE  t = u
    BY DEF Unique
  <1> QED
    BY <1>1, <1>2 DEF TypeOK, Unique

(* Only a miss assigns a slot, and no slot held that slice.                *)
LEMMA StepUnique ==
    ASSUME TypeOK, RequestInv, Unique, [Next]_vars
    PROVE  Unique'
  <1>1. CASE UNCHANGED <<active, off>>
    BY <1>1 DEF Unique
  <1>2. ASSUME NEW s \in Slot, NEW n, ReadMiss(s) \/ WriteMiss(s) \/ ReadFails(s, n)
        PROVE  Unique'
    BY <1>2, ChunkIs, AssignUnique DEF ReadMiss, WriteMiss, ReadFails
  <1>3. \/ UNCHANGED <<active, off>>
        \/ \E s \in Slot : \E n : ReadMiss(s) \/ WriteMiss(s) \/ ReadFails(s, n)
    BY DEF Next, vars, cache, Append, Read, Collapse, Begin, End, FlushFails,
           Find, ReadHit, WriteHit
  <1> QED
    BY <1>1, <1>2, <1>3

(* slice_find never gives a slice to a second slot.                        *)
THEOREM OneSliceHolds == Spec => []OneSlice
  <1>1. Init => TypeOK /\ RequestInv /\ Unique
    BY InitType, InitRequest DEF Init, Unique
  <1>2. (TypeOK /\ RequestInv /\ Unique) /\ [Next]_vars => (TypeOK /\ RequestInv /\ Unique)'
    BY StepTypes, StepUnique
  <1>3. TypeOK /\ RequestInv /\ Unique => OneSlice
    BY UniqueSlice
  <1> QED
    BY <1>1, <1>2, <1>3, PTL DEF Spec

-----------------------------------------------------------------------------
(* Where the bytes are.                                                    *)

(* What Hit and Current come to, stated so that it can be primed.          *)
Located ==
    TypeOK /\ Unique =>
        \A a \in Addr, s \in Slot :
            /\ Hit(a, s) <=> active[s] /\ off[s] = SliceOff(a)
            /\ Hit(a, s) => Current(a) = buf[s][a - SliceOff(a)]

(* Where a byte of the log is, in the cache.                               *)
LEMMA IsLocated == Located
  <1> SUFFICES ASSUME TypeOK, Unique, NEW a \in Addr, NEW s \in Slot
               PROVE  /\ Hit(a, s) <=> active[s] /\ off[s] = SliceOff(a)
                      /\ Hit(a, s) => Current(a) = buf[s][a - SliceOff(a)]
    BY DEF Located
  <1>1. \A t \in Slot : Hit(a, t) <=> active[t] /\ off[t] = SliceOff(a)
    BY HitIs
  <1>2. ASSUME Hit(a, s) PROVE Current(a) = buf[s][a - SliceOff(a)]
    <2>1. (CHOOSE t \in Slot : Hit(a, t)) = s
      <3>1. \A t \in Slot : Hit(a, t) => t = s
        BY <1>1, <1>2 DEF Unique
      <3> QED
        BY <1>2, <3>1
    <2>2. Cached(a)
      BY <1>2 DEF Cached
    <2> QED
      BY <1>1, <1>2, <2>1, <2>2 DEF Current
  <1> QED
    BY <1>1, <1>2

(* The same, a step later.                                                 *)
LEMMA IsLocatedNext == Located'
  BY IsLocated, PTL

StateInv == TypeOK /\ RequestInv /\ Unique

DataInv == StreamInv /\ DiskInv /\ FlatInv

(* An offset in a slice other than that of pos was in the log before.      *)
LEMMA ExtentBefore ==
    ASSUME TypeOK, RequestInv, left > 0, Advance, op # "idle",
           NEW a \in Addr, SliceOff(a) < Extent', SliceOff(a) # SliceOff(pos)
    PROVE  SliceOff(a) < Extent /\ Extent > Header
  <1>0. /\ Header \in Nat \ {0} /\ Header < K /\ K \in Nat /\ eof \in Nat /\ Header <= eof
        /\ pos \in Nat /\ a \in Nat /\ start \in Nat /\ len \in Nat /\ left \in Nat
    BY SliceConstants DEF TypeOK, Addr, K
  <1>1. SliceOff(a) \in Nat /\ SliceOff(pos) \in Nat /\ SliceOff(pos) <= pos
    BY <1>0, SliceOffBounds
  <1>2. CASE op = "append"
    <2>1. Extent' <= SliceOff(pos) + K /\ Extent' \in Nat /\ Extent = pos
      BY <1>0, <1>2, ChunkIs DEF Advance, Extent
    <2>2. SliceOff(a) < SliceOff(pos)
      BY <1>0, <1>1, <2>1, SlicesApart
    <2>3. pos # Header
      <3>1. 0 * K = 0 /\ 0 * K + K = K
        BY <1>0
      <3>2. SliceOff(Header) = 0
        BY <1>0, <3>1, SliceOffIs
      <3> QED
        BY <1>1, <2>2, <3>2
    <2> QED
      BY <1>0, <1>1, <1>2, <2>1, <2>2, <2>3 DEF RequestInv
  <1>3. CASE op # "append"
    <2>1. Extent' = eof /\ Extent = eof
      BY <1>3 DEF Advance, Extent
    <2>2. start >= Header /\ len > 0 /\ start + len <= eof
      BY <1>3 DEF RequestInv, TypeOK, Op
    <2> QED
      BY <1>0, <2>1, <2>2
  <1> QED
    BY <1>2, <1>3

(* The log grows by the bytes of the chunk.                                *)
LEMMA ExtentGrows ==
    ASSUME TypeOK, RequestInv, left > 0, Advance, NEW a \in Header..(Extent' - 1)
    PROVE  a \in Addr /\ (a \in Chunk \/ a \in Header..(Extent - 1))
  <1> PICK e \in Nat :
        pos < e /\ e <= pos + left /\ Chunk = pos..(e - 1) /\ Cardinality(Chunk) = e - pos
    BY ChunkIs
  <1>0. /\ Header \in Nat /\ eof \in Nat /\ eof <= MaxEof /\ pos \in Nat /\ left \in Nat
        /\ pos + left <= MaxEof /\ MaxEof \in Nat
    BY SliceConstants DEF TypeOK, RequestInv
  <1>1. pos' = e /\ op' = op /\ eof' = eof
    BY <1>0 DEF Advance
  <1>2. CASE op = "append"
    BY <1>0, <1>1, <1>2 DEF Extent, Addr
  <1>3. CASE op # "append"
    BY <1>0, <1>1, <1>3 DEF Extent, Addr
  <1> QED
    BY <1>2, <1>3

(* A step that leaves the cache, the stream and the history alone.         *)
LEMMA SameData ==
    ASSUME DataInv, UNCHANGED <<cache, stream, flat, lost, fails>>, Extent' = Extent
    PROVE  DataInv'
  <1>1. UNCHANGED <<active, off, buf, disk, fpos, dir, uOffset, needSeek>>
    BY DEF cache, stream
  <1>2. \A a : Cached(a)' <=> Cached(a)
    BY <1>1 DEF Cached, Hit
  <1>3. \A a : Current(a)' = Current(a)
    BY <1>1 DEF Current, Cached, Hit
  <1> QED
    BY <1>1, <1>2, <1>3 DEF DataInv, StreamInv, DiskInv, FlatInv

(* The begin of a request.                                                 *)
LEMMA RequestData ==
    ASSUME StateInv, DataInv, NEW o \in Op, NEW a, NEW n, NEW v, Begin(o, a, n, v),
           o = "append" => a = eof
    PROVE  DataInv'
  <1>1. Extent' = Extent
    BY DEF Begin, Extent
  <1> QED
    BY <1>1, SameData DEF Begin

(* The end of a request.                                                   *)
LEMMA EndData ==
    ASSUME StateInv, DataInv, End
    PROVE  DataInv'
  <1>1. /\ pos + left = start + len /\ (op = "append" => start = eof)
        /\ pos \in Nat /\ start \in Nat /\ len \in Nat /\ left = 0 /\ eof \in Nat
    BY SliceConstants DEF StateInv, RequestInv, TypeOK, End
  <1>2. Extent' = Extent
    BY <1>1 DEF End, Retire, Extent
  <1> QED
    BY <1>2, SameData DEF End

(* A read that finds its slice.                                            *)
LEMMA ReadHitData ==
    ASSUME StateInv, DataInv, NEW s \in Slot, ReadHit(s)
    PROVE  DataInv'
  <1>1. buf' = buf
    BY DEF ReadHit, CopyOut, StateInv, TypeOK
  <1>2. Extent' = Extent
    BY DEF ReadHit, Reading, Advance, Extent
  <1> QED
    BY <1>1, <1>2, SameData DEF ReadHit, CopyOut, Advance, cache

(* After a failing access nothing is claimed.                              *)
LEMMA FailData ==
    ASSUME StateInv, NEW s \in Slot, NEW n, FlushFails(s, n) \/ ReadFails(s, n)
    PROVE  DataInv'
  <1>1. fails \in Nat /\ fails' = fails + 1
    BY SliceConstants DEF StateInv, TypeOK, FlushFails, ReadFails
  <1> QED
    BY <1>1 DEF DataInv, StreamInv, DiskInv, FlatInv

(* The bytes copied into a slot that holds the slice of pos.               *)
LEMMA CopyInBytes ==
    ASSUME TypeOK, NEW s \in Slot, NEW b \in [Cell -> Byte], CopyIn(s, b),
           NEW a \in Addr, SliceOff(a) = SliceOff(pos), pos \in Addr
    PROVE  /\ a - SliceOff(a) \in Cell
           /\ buf'[s][a - SliceOff(a)] = IF a \in Chunk THEN val ELSE b[a - SliceOff(a)]
  <1>1. a \in Nat /\ SliceOff(a) \in Nat /\ SliceOff(a) <= a /\ a < SliceOff(a) + K
    BY SliceOffBounds DEF Addr
  <1>2. a - SliceOff(a) \in Cell /\ SliceOff(pos) + (a - SliceOff(a)) = a
    BY <1>1, SliceConstants DEF Cell, K
  <1>3. buf'[s] = [c \in Cell |-> IF SliceOff(pos) + c \in Chunk THEN val ELSE b[c]]
    BY DEF CopyIn, TypeOK
  <1> QED
    BY <1>2, <1>3

(* A chunk is in the slice of its first byte.                              *)
LEMMA ChunkSlice ==
    ASSUME NEW a \in Chunk
    PROVE  a \in Addr /\ SliceOff(a) = SliceOff(pos)
  BY DEF Chunk

(* A write that finds its slice.                                           *)
LEMMA WriteHitData ==
    ASSUME StateInv, DataInv, NEW s \in Slot, WriteHit(s), StateInv'
    PROVE  DataInv'
  <1>0. /\ TypeOK /\ RequestInv /\ Unique /\ left > 0 /\ Advance /\ op # "idle"
        /\ CopyIn(s, buf[s]) /\ lost' = lost \ Chunk /\ Hit(pos, s)
        /\ UNCHANGED <<active, off, disk, fpos, dir, uOffset, needSeek, fails>>
        /\ buf[s] \in [Cell -> Byte]
    BY DEF WriteHit, StateInv, stream, Advance, Writing, TypeOK
  <1>1. pos \in Addr
    BY <1>0, ChunkIs
  <1>2. active[s] /\ off[s] = SliceOff(pos)
    BY <1>0, <1>1, HitIs
  <1>3. \A a : Cached(a)' <=> Cached(a)
    BY <1>0 DEF Cached, Hit
  <1>4. StreamInv'
    BY <1>0 DEF DataInv, StreamInv
  <1>5. DiskInv'
    <2> SUFFICES ASSUME fails' = 0, Extent' > Header, NEW a \in Addr, SliceOff(a) < Extent', ~Cached(a)'
                 PROVE  disk'[a] # Absent
      BY DEF DiskInv
    <2>1. SliceOff(a) # SliceOff(pos)
      BY <1>0, <1>2, <1>3, HitIs DEF Cached
    <2>2. SliceOff(a) < Extent /\ Extent > Header
      BY <1>0, <2>1, ExtentBefore
    <2> QED
      BY <1>0, <1>3, <2>2 DEF DataInv, DiskInv
  <1>6. FlatInv'
    <2> SUFFICES ASSUME fails' = 0, NEW a \in Header..(Extent' - 1), a \notin lost'
                 PROVE  Current(a)' = flat'[a]
      BY DEF FlatInv
    <2>1. a \in Addr /\ (a \in Chunk \/ a \in Header..(Extent - 1))
      BY <1>0, ExtentGrows
    <2>2. flat'[a] = IF a \in Chunk THEN val ELSE flat[a]
      BY <1>0, <2>1 DEF CopyIn
    <2>3. \A t \in Slot : Hit(a, t)' <=> Hit(a, t)
      BY <1>0 DEF Hit
    <2>4. \A t \in Slot : Hit(a, t) => /\ Current(a) = buf[t][a - SliceOff(a)]
                                       /\ Current(a)' = buf'[t][a - SliceOff(a)]
      BY <1>0, <2>1, <2>3, IsLocated, IsLocatedNext DEF Located, StateInv
    <2>5. CASE SliceOff(a) = SliceOff(pos)
      <3>1. Hit(a, s)
        BY <1>0, <1>2, <2>1, <2>5, HitIs
      <3>2. buf'[s][a - SliceOff(a)] = IF a \in Chunk THEN val ELSE buf[s][a - SliceOff(a)]
        BY <1>0, <1>1, <2>1, <2>5, CopyInBytes
      <3>3. a \notin Chunk => Current(a) = flat[a]
        BY <1>0, <2>1 DEF DataInv, FlatInv
      <3> QED
        BY <2>2, <2>4, <3>1, <3>2, <3>3
    <2>6. CASE SliceOff(a) # SliceOff(pos)
      <3>1. a \notin Chunk
        BY <2>6, ChunkSlice
      <3>2. Current(a) = flat[a] /\ flat'[a] = flat[a]
        BY <1>0, <2>1, <2>2, <3>1 DEF DataInv, FlatInv
      <3>3. ~Hit(a, s)
        BY <1>0, <1>2, <2>1, <2>6, HitIs
      <3>4. \A t \in Slot : t # s => buf'[t] = buf[t]
        BY <1>0 DEF CopyIn, TypeOK
      <3>5. CASE Cached(a)
        BY <2>4, <3>2, <3>3, <3>4, <3>5 DEF Cached
      <3>6. CASE ~Cached(a)
        <4>1. Current(a) = disk[a] /\ Current(a)' = disk'[a]
          BY <1>3, <3>6 DEF Current
        <4> QED
          BY <1>0, <3>2, <4>1
      <3> QED
        BY <3>5, <3>6
    <2> QED
      BY <2>5, <2>6
  <1> QED
    BY <1>4, <1>5, <1>6 DEF DataInv

-----------------------------------------------------------------------------
(* A slot given to another slice.                                          *)

(* slice_find gives slot s to the slice of pos, writing out what it held.  *)
Evicts(s) ==
    /\ StateInv /\ StateInv' /\ DataInv /\ fails = 0
    /\ left > 0 /\ Advance /\ op # "idle" /\ pos \in Addr
    /\ ~Cached(pos) /\ Assign(s) /\ disk' = Flushed(s).disk
    /\ \A t \in Slot : t # s => buf'[t] = buf[t]

(* After an eviction the slot holds the slice of pos, the others theirs.   *)
LEMMA EvictedHits ==
    ASSUME NEW s \in Slot, Evicts(s), NEW a \in Addr
    PROVE  /\ Hit(a, s)' <=> SliceOff(a) = SliceOff(pos)
           /\ \A t \in Slot : t # s => (Hit(a, t)' <=> Hit(a, t))
           /\ SliceOff(a) = SliceOff(pos) => ~Cached(a)
  <1>1. TypeOK /\ TypeOK' /\ Unique'
    BY DEF Evicts, StateInv
  <1>2. \A t \in Slot : Hit(a, t)' <=> active'[t] /\ off'[t] = SliceOff(a)
    BY <1>1, IsLocatedNext DEF Located
  <1>3. \A t \in Slot : Hit(a, t) <=> active[t] /\ off[t] = SliceOff(a)
    BY <1>1, HitIs
  <1>4. active' = [active EXCEPT ![s] = TRUE] /\ off' = [off EXCEPT ![s] = SliceOff(pos)]
    BY DEF Evicts, Assign
  <1>5. \A t \in Slot : ~(active[t] /\ off[t] = SliceOff(pos))
    BY <1>1, HitIs DEF Evicts, Cached
  <1> QED
    BY <1>1, <1>2, <1>3, <1>4, <1>5 DEF TypeOK, Cached

(* The file then: the evicted slice, and every other byte as before.       *)
LEMMA EvictedDisk ==
    ASSUME NEW s \in Slot, Evicts(s), NEW a \in Addr
    PROVE  /\ Hit(a, s) => disk'[a] = buf[s][a - SliceOff(a)] /\ disk'[a] # Absent
           /\ ~Hit(a, s) /\ disk[a] # Absent => disk'[a] = disk[a]
  <1>0. /\ TypeOK /\ fails = 0 /\ fpos = uOffset /\ disk' = Flushed(s).disk
        /\ Absent \notin Byte
    BY SliceConstants DEF Evicts, StateInv, DataInv, StreamInv, Byte
  <1>1. Hit(a, s) <=> active[s] /\ off[s] = SliceOff(a)
    BY <1>0, HitIs
  <1>2. WriteAt(s) = off[s]
    BY <1>0 DEF WriteAt, Seeks
  <1>3. /\ a \in Nat /\ SliceOff(a) \in Nat /\ SliceOff(a) <= a /\ a < SliceOff(a) + K
        /\ off[s] \in Nat /\ K \in Nat
    BY <1>0, SliceOffBounds, OffsetInLog, SliceConstants DEF Addr, K
  <1>4. CASE active[s]
    <2>1. disk'[a] = IF a >= off[s] /\ a < off[s] + K THEN buf[s][a - off[s]]
                     ELSE IF a < off[s] /\ disk[a] = Absent THEN Zero ELSE disk[a]
      BY <1>0, <1>2, <1>4 DEF Flushed, Written, K
    <2>2. Hit(a, s) <=> a >= off[s] /\ a < off[s] + K
      BY <1>3, <1>4 DEF Hit, K
    <2>3. Hit(a, s) => buf[s][a - off[s]] \in Byte
      <3> HAVE Hit(a, s)
      <3>1. a - off[s] \in Cell
        BY <1>3, <2>2 DEF Cell, K
      <3> QED
        BY <1>0, <3>1 DEF TypeOK
    <2> QED
      BY <1>0, <1>1, <2>1, <2>2, <2>3
  <1>5. CASE ~active[s]
    BY <1>0, <1>1, <1>5 DEF Flushed
  <1> QED
    BY <1>4, <1>5

(* What the other slices hold is not touched.                              *)
LEMMA EvictedKeeps ==
    ASSUME NEW s \in Slot, Evicts(s), NEW a \in Addr, SliceOff(a) # SliceOff(pos),
           SliceOff(a) < Extent, Extent > Header
    PROVE  /\ Current(a)' = Current(a)
           /\ ~Cached(a)' => disk'[a] # Absent
  <1>0. /\ ~Cached(a) => disk[a] # Absent
        /\ \A t \in Slot : Hit(a, t) => Current(a) = buf[t][a - SliceOff(a)]
        /\ \A t \in Slot : Hit(a, t)' => Current(a)' = buf'[t][a - SliceOff(a)]
        /\ \A t \in Slot : t # s => buf'[t] = buf[t]
    BY IsLocated, IsLocatedNext DEF Located, Evicts, StateInv, DataInv, DiskInv
  <1>1. /\ ~Hit(a, s)'
        /\ \A t \in Slot : t # s => (Hit(a, t)' <=> Hit(a, t))
    BY EvictedHits
  <1>2. CASE Hit(a, s)
    <2>1. \A t \in Slot : Hit(a, t) => t = s
      <3>1. TypeOK /\ Unique
        BY DEF Evicts, StateInv
      <3> QED
        BY <1>2, <3>1, HitIs DEF Unique
    <2>2. ~Cached(a)'
      BY <1>1, <2>1 DEF Cached
    <2>3. Current(a)' = disk'[a]
      BY <2>2 DEF Current
    <2> QED
      BY <1>0, <1>2, <2>3, EvictedDisk
  <1>3. CASE ~Hit(a, s) /\ Cached(a)
    <2> PICK t \in Slot : Hit(a, t) /\ t # s
      BY <1>3 DEF Cached
    <2>1. Hit(a, t)' /\ Cached(a)'
      BY <1>1 DEF Cached
    <2> QED
      BY <1>0, <2>1
  <1>4. CASE ~Cached(a)
    <2>1. ~Cached(a)' /\ ~Hit(a, s)
      BY <1>1, <1>4 DEF Cached
    <2>2. Current(a) = disk[a] /\ Current(a)' = disk'[a]
      BY <1>4, <2>1 DEF Current
    <2> QED
      BY <1>0, <1>4, <2>1, <2>2, EvictedDisk
  <1> QED
    BY <1>2, <1>3, <1>4

(* The slice that leaves is on disk, and so are those that left before.    *)
LEMMA EvictedDiskInv ==
    ASSUME NEW s \in Slot, Evicts(s)
    PROVE  DiskInv'
  <1> SUFFICES ASSUME NEW a \in Addr, SliceOff(a) < Extent', ~Cached(a)'
               PROVE  disk'[a] # Absent
    BY DEF DiskInv
  <1>1. SliceOff(a) # SliceOff(pos)
    BY EvictedHits DEF Cached
  <1>2. SliceOff(a) < Extent /\ Extent > Header
    BY <1>1, ExtentBefore DEF Evicts, StateInv
  <1> QED
    BY <1>1, <1>2, EvictedKeeps

(* A slice_flush that succeeds tracks the stream's position.               *)
LEMMA FlushedStream ==
    ASSUME NEW s \in Slot, Evicts(s)
    PROVE  /\ Flushed(s).fpos = Flushed(s).uOffset
           /\ Flushed(s).dir = "read" => Flushed(s).needSeek
  <1>1. TypeOK /\ fpos = uOffset /\ (dir = "read" => needSeek)
    BY DEF Evicts, StateInv, DataInv, StreamInv
  <1> QED
    BY <1>1 DEF Flushed, WriteAt, Seeks

(* A miss is an eviction.                                                  *)
LEMMA MissFacts ==
    ASSUME StateInv, StateInv', DataInv, fails = 0, NEW s \in Slot,
           ReadMiss(s) \/ WriteMiss(s)
    PROVE  Evicts(s) /\ fails' = 0
  <1>1. left > 0 /\ Advance /\ op # "idle" /\ ~Cached(pos) /\ Assign(s)
        /\ disk' = Flushed(s).disk
    BY DEF ReadMiss, WriteMiss, Reading, Writing
  <1>2. pos \in Addr
    BY <1>1, ChunkIs DEF StateInv
  <1>3. \A t \in Slot : t # s => buf'[t] = buf[t]
    BY DEF ReadMiss, WriteMiss, CopyOut, CopyIn, StateInv, TypeOK
  <1> QED
    BY <1>1, <1>2, <1>3 DEF Evicts, ReadMiss, WriteMiss

(* upread finds the whole slice on disk.                                   *)
LEMMA ReadMissFetches ==
    ASSUME StateInv, StateInv', DataInv, fails = 0, NEW s \in Slot, ReadMiss(s)
    PROVE  /\ fpos' = uOffset'
           /\ \A c \in Cell : /\ SliceOff(pos) + c \in Addr
                              /\ SliceOff(SliceOff(pos) + c) = SliceOff(pos)
                              /\ buf'[s][c] = disk[SliceOff(pos) + c]
  <1> DEFINE f == Flushed(s)
             r == ReadAt(f, SliceOff(pos))
  <1>0. Evicts(s)
    BY MissFacts
  <1>1. r = SliceOff(pos)
    BY <1>0, FlushedStream DEF ReadAt
  <1>2. pos \in Addr /\ pos \in Nat /\ SliceOff(pos) \in Nat /\ SliceOff(pos) + K <= MaxEof
    BY <1>0, SliceInLog, SliceOffBounds DEF Evicts, Addr
  <1>3. SliceOff(pos) < Extent /\ Extent > Header
    <2>1. /\ op \in {"read", "reread"} /\ start >= Header /\ len > 0 /\ start + len <= eof
          /\ pos + left = start + len /\ left > 0 /\ start \in Nat /\ len \in Nat
          /\ left \in Nat /\ eof \in Nat /\ Header \in Nat
      BY SliceConstants DEF ReadMiss, Reading, StateInv, RequestInv, TypeOK
    <2> QED
      BY <1>2, <2>1, SliceOffBounds DEF Extent
  <1>4. ASSUME NEW c \in Cell
        PROVE  /\ SliceOff(pos) + c \in Addr
               /\ SliceOff(SliceOff(pos) + c) = SliceOff(pos)
               /\ f.disk[SliceOff(pos) + c] = disk[SliceOff(pos) + c]
               /\ f.disk[SliceOff(pos) + c] # Absent
    <2> DEFINE a == SliceOff(pos) + c
    <2>1. c \in Nat /\ c < K
      BY SliceConstants DEF Cell, K
    <2>2. a \in Nat /\ SliceOff(pos) <= a /\ a < SliceOff(pos) + K /\ a \in Addr
      BY <1>2, <2>1, SliceConstants DEF Addr, K
    <2>3. SliceOff(a) = SliceOff(pos)
      BY <1>2, <2>2, SameSlice
    <2> HIDE DEF a
    <2>4. ~Cached(a) /\ ~Hit(a, s)
      BY <1>0, <2>2, <2>3, EvictedHits DEF Cached
    <2>5. disk[a] # Absent
      BY <1>0, <1>3, <2>2, <2>3, <2>4 DEF Evicts, DataInv, DiskInv
    <2>6. disk' = f.disk
      BY DEF ReadMiss
    <2>7. f.disk[a] = disk[a]
      BY <1>0, <2>2, <2>4, <2>5, <2>6, EvictedDisk
    <2> QED
      BY <2>2, <2>3, <2>5, <2>7 DEF a
  <1>5. fpos' = ReadTo(f, r) /\ uOffset' = SliceOff(pos) + K
        /\ CopyOut(s, Fetched(f, r, buf[s]))
    BY DEF ReadMiss, OffsetAfterRead, K
  <1> HIDE DEF f, r
  <1>6. ReadTo(f, r) = r + K
    <2>1. \A c \in Cell : \A d \in 0..c : d \in Cell
      BY SliceConstants DEF Cell
    <2>2. {c \in Cell : \A d \in 0..c : r + d \in Addr /\ f.disk[r + d] # Absent} = Cell
      BY <1>1, <1>4, <2>1
    <2>3. Cardinality(Cell) = K
      BY FS_Interval, SliceConstants DEF Cell, K
    <2> QED
      BY <2>2, <2>3 DEF ReadTo
  <1>7. buf'[s] = Fetched(f, r, buf[s])
    BY <1>5 DEF CopyOut, StateInv, TypeOK
  <1> QED
    BY <1>1, <1>4, <1>5, <1>6, <1>7 DEF Fetched

(* A read that has to fetch its slice.                                     *)
LEMMA ReadMissData ==
    ASSUME StateInv, StateInv', DataInv, fails = 0, NEW s \in Slot, ReadMiss(s)
    PROVE  DataInv'
  <1>0. Evicts(s) /\ fails' = 0
    BY MissFacts
  <1>1. StreamInv' /\ DiskInv'
    BY <1>0, ReadMissFetches, EvictedDiskInv DEF StreamInv, ReadMiss
  <1>2. FlatInv'
    <2>0. Extent' = Extent /\ flat' = flat /\ lost' = lost
      BY DEF ReadMiss, Reading, Advance, Extent, CopyOut
    <2> SUFFICES ASSUME NEW a \in Header..(Extent - 1), a \notin lost
                 PROVE  Current(a)' = Current(a)
      BY <1>0, <2>0 DEF DataInv, FlatInv, Evicts
    <2>1. /\ a \in Addr /\ a \in Nat /\ SliceOff(a) \in Nat /\ SliceOff(a) <= a /\ a < SliceOff(a) + K
          /\ SliceOff(a) < Extent /\ Extent > Header
      <3>1. a \in Addr
        BY <1>0, <2>0, ExtentGrows DEF Evicts, StateInv
      <3>2. Extent \in Nat /\ Header \in Nat
        BY SliceConstants DEF Extent, StateInv, TypeOK
      <3>3. a \in Nat
        BY <3>1 DEF Addr
      <3> QED
        BY <3>1, <3>2, <3>3, SliceOffBounds
    <2>2. CASE SliceOff(a) = SliceOff(pos)
      <3>1. Hit(a, s)' /\ ~Cached(a)
        BY <1>0, <2>1, <2>2, EvictedHits
      <3>2. a - SliceOff(a) \in Cell /\ SliceOff(pos) + (a - SliceOff(a)) = a
        BY <2>1, <2>2, SliceConstants DEF Cell, K
      <3>3. buf'[s][a - SliceOff(a)] = disk[a]
        BY <3>2, ReadMissFetches
      <3>4. Current(a)' = buf'[s][a - SliceOff(a)]
        BY <2>1, <3>1, IsLocatedNext DEF Located, StateInv
      <3>5. Current(a) = disk[a]
        BY <3>1 DEF Current
      <3> QED
        BY <3>3, <3>4, <3>5
    <2>3. CASE SliceOff(a) # SliceOff(pos)
      BY <1>0, <2>1, <2>3, EvictedKeeps
    <2> QED
      BY <2>2, <2>3
  <1> QED
    BY <1>1, <1>2 DEF DataInv

(* A write that finds no slice, and keeps what the slot held.              *)
LEMMA WriteMissData ==
    ASSUME StateInv, StateInv', DataInv, fails = 0, NEW s \in Slot, WriteMiss(s)
    PROVE  DataInv'
  <1>0. Evicts(s) /\ fails' = 0
    BY MissFacts
  <1>1. StreamInv' /\ DiskInv'
    BY <1>0, FlushedStream, EvictedDiskInv DEF StreamInv, WriteMiss
  <1>2. FlatInv'
    <2> SUFFICES ASSUME NEW a \in Header..(Extent' - 1), a \notin lost'
                 PROVE  Current(a)' = flat'[a]
      BY DEF FlatInv
    <2>1. a \in Addr /\ (a \in Chunk \/ a \in Header..(Extent - 1))
      BY <1>0, ExtentGrows DEF Evicts, StateInv
    <2>2. /\ a \in Nat /\ SliceOff(a) \in Nat /\ SliceOff(a) <= a /\ Header \in Nat
          /\ Extent \in Nat /\ eof \in Nat /\ pos \in Nat /\ pos \in Addr
      <3>1. Header \in Nat /\ eof \in Nat /\ pos \in Nat
        BY SliceConstants DEF StateInv, TypeOK
      <3>2. a \in Nat /\ pos \in Addr /\ Extent \in Nat
        BY <1>0, <2>1, <3>1 DEF Addr, Extent, Evicts
      <3> QED
        BY <3>1, <3>2, SliceOffBounds
    <2>3. CopyIn(s, buf[s]) /\ buf[s] \in [Cell -> Byte] /\ TypeOK
      BY DEF WriteMiss, StateInv, TypeOK
    <2>4. flat'[a] = IF a \in Chunk THEN val ELSE flat[a]
      BY <2>1, <2>3 DEF CopyIn
    <2>5. CASE a \in Chunk
      <3>1. SliceOff(a) = SliceOff(pos)
        BY <2>5, ChunkSlice
      <3>2. Hit(a, s)'
        BY <1>0, <2>1, <3>1, EvictedHits
      <3>3. Current(a)' = buf'[s][a - SliceOff(a)]
        BY <2>1, <3>2, IsLocatedNext DEF Located, StateInv
      <3>4. buf'[s][a - SliceOff(a)] = val
        BY <2>1, <2>2, <2>3, <2>5, <3>1, CopyInBytes
      <3> QED
        BY <2>4, <2>5, <3>3, <3>4
    <2>6. CASE a \notin Chunk /\ SliceOff(a) # SliceOff(pos)
      <3>1. Current(a)' = Current(a)
        BY <1>0, <2>1, <2>2, <2>6, EvictedKeeps
      <3>2. a \notin lost
        BY <2>6 DEF WriteMiss
      <3> QED
        BY <1>0, <2>1, <2>4, <2>6, <3>1, <3>2 DEF Evicts, DataInv, FlatInv
    <2>7. CASE a \notin Chunk /\ SliceOff(a) = SliceOff(pos)
      <3>1. a >= eof
        BY <2>1, <2>2, <2>7 DEF WriteMiss
      <3>2. op = "append" /\ a < pos
        BY <2>1, <2>2, <2>7, <3>1 DEF Extent
      <3>3. start = eof /\ left > 0 /\ (pos # start => SliceOff(pos) = pos)
        BY <1>0, <3>2 DEF Evicts, StateInv, RequestInv
      <3> QED
        BY <2>2, <2>7, <3>1, <3>2, <3>3
    <2> QED
      BY <2>5, <2>6, <2>7
  <1> QED
    BY <1>1, <1>2 DEF DataInv

(* A failure is not forgotten.                                             *)
LEMMA FailsStay ==
    ASSUME StateInv, [Next]_vars, fails' = 0
    PROVE  fails = 0
  <1>1. fails \in Nat
    BY SliceConstants DEF StateInv, TypeOK
  <1>2. fails' = fails \/ fails' = fails + 1
    BY DEF Next, vars, Append, Read, Collapse, Begin, End, FlushFails,
           Find, ReadHit, WriteHit, ReadMiss, WriteMiss, ReadFails
  <1> QED
    BY <1>1, <1>2

(* Every step leaves the log readable, until an access fails.              *)
LEMMA StepData ==
    ASSUME StateInv, DataInv, [Next]_vars
    PROVE  DataInv'
  <1>0. StateInv'
    BY StepTypes, StepUnique DEF StateInv
  <1>1. CASE fails' # 0
    BY <1>1 DEF DataInv, StreamInv, DiskInv, FlatInv
  <1>2. CASE fails' = 0
    <2>0. fails = 0
      BY <1>2, FailsStay
    <2>1. CASE UNCHANGED vars
      BY <2>1, SameData DEF vars, request, Extent
    <2>2. CASE \/ \E n \in 1..MaxLen, v \in Data : Append(n, v)
               \/ \E a \in Addr, n \in 1..MaxLen : Read(a, n)
               \/ \E a \in Addr, n \in 1..MaxLen, v \in Data : Collapse(a, n, v)
      <3>1. ASSUME NEW n \in 1..MaxLen, NEW v \in Data, Append(n, v) PROVE DataInv'
        BY <3>1, RequestData DEF Append, Op
      <3>2. ASSUME NEW a \in Addr, NEW n \in 1..MaxLen, Read(a, n) PROVE DataInv'
        <4>1. Begin("read", a, n, Zero) /\ "read" \in Op /\ "read" # "append"
          BY <3>2 DEF Read, Op
        <4> QED
          BY <4>1, RequestData
      <3>3. ASSUME NEW a \in Addr, NEW n \in 1..MaxLen, NEW v \in Data, Collapse(a, n, v)
            PROVE  DataInv'
        <4>1. Begin("reread", a, n, v) /\ "reread" \in Op /\ "reread" # "append"
          BY <3>3 DEF Collapse, Op
        <4> QED
          BY <4>1, RequestData
      <3> QED
        BY <2>2, <3>1, <3>2, <3>3
    <2>3. CASE \E s \in Slot, n \in 0..(SliceSize - 1) :
                  FlushFails(s, n) \/ ReadFails(s, n)
      BY <2>3, FailData
    <2>4. CASE Find
      BY <1>0, <2>0, <2>4, ReadHitData, WriteHitData, ReadMissData, WriteMissData DEF Find
    <2>5. CASE End
      BY <2>5, EndData
    <2> QED
      BY <2>1, <2>2, <2>3, <2>4, <2>5 DEF Next
  <1> QED
    BY <1>1, <1>2

(* An empty log is readable.                                               *)
LEMMA InitData == Init => StateInv /\ DataInv
  <1> SUFFICES ASSUME Init PROVE StateInv /\ DataInv
    OBVIOUS
  <1>1. StateInv
    BY InitType, InitRequest DEF StateInv, Init, Unique
  <1>2. Extent = Header /\ Header \in Nat
    BY SliceConstants DEF Init, Extent
  <1> QED
    BY <1>1, <1>2 DEF DataInv, StreamInv, DiskInv, FlatInv, Init

(* The two parts of the inductive invariant.                               *)
LEMMA Invariant == Spec => [](StateInv /\ DataInv)
  <1>1. (StateInv /\ DataInv) /\ [Next]_vars => (StateInv /\ DataInv)'
    BY StepTypes, StepUnique, StepData DEF StateInv
  <1> QED
    BY <1>1, InitData, PTL DEF Spec

(* Until an access of the file fails, no byte of the log is lost but by a  *)
(* write to a slice that left the cache: what a read finds is what was     *)
(* written last.                                                           *)
THEOREM ReadBackHolds == Spec => []ReadBack
  <1>1. StateInv /\ DataInv => ReadBack
    <2> SUFFICES ASSUME StateInv, DataInv, fails = 0, NEW a \in Header..(eof - 1), a \notin lost
                 PROVE  Current(a) = flat[a]
      BY DEF ReadBack
    <2>1. /\ op = "append" => start = eof
          /\ start <= pos /\ eof \in Nat /\ pos \in Nat /\ Header \in Nat
      BY SliceConstants DEF StateInv, RequestInv, TypeOK
    <2>2. a \in Header..(Extent - 1)
      BY <2>1 DEF Extent
    <2> QED
      BY <2>2 DEF DataInv, FlatInv
  <1> QED
    BY <1>1, Invariant, PTL

(* Until an access of the file fails, slice_find's writes and reads reach  *)
(* the offset they are given, and no write follows a read without a seek.  *)
(* Of a read behind a write this says nothing: see ReadFails.              *)
THEOREM SeeksHold == Spec => []SeeksWhereNeeded
  <1>1. StateInv /\ DataInv => SeeksWhereNeeded
    BY DEF DataInv, StreamInv, SeeksWhereNeeded, WriteAt, Seeks, ReadAt
  <1> QED
    BY <1>1, Invariant, PTL
=============================================================================
