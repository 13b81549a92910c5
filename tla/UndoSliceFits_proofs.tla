------------------------ MODULE UndoSliceFits_proofs ------------------------
(***************************************************************************)
(* While the log fits the cache no slice leaves it, and the cache is the   *)
(* flat file of UndoFile, for any number and size of slices.               *)
(***************************************************************************)
EXTENDS UndoSlice_proofs

(* Slots are filled in the order of the slices ...                         *)
InOrder ==
    /\ \A s \in Slot : active[s] <=> s < lastSlice
    /\ \A s \in Slot : active[s] => off[s] = s * K

(* ... each when the log reaches it, and hold all of the log.              *)
Covered ==
    Extent > Header =>
        \A a \in Addr : SliceOff(a) < Extent => Cached(a)

(* What a request writes, and what it has written so far.                  *)
ValueInv ==
    /\ op \in {"append", "reread", "rewrite"} => val \in Data /\ len > 0
    /\ op = "append" => \A a \in start..(pos - 1) : flat[a] = val

FitsInv == InOrder /\ Covered /\ ValueInv /\ fails = 0 /\ lost = {}

Fits == MaxEof <= Slices * K

-----------------------------------------------------------------------------
(* Slices of a log that fits are numbered by the slots.                    *)
LEMMA SliceIndex ==
    ASSUME Fits, NEW a \in Addr
    PROVE  \E q \in Slot : SliceOff(a) = q * K
  <1>0. a \in Nat /\ MaxEof \in Nat /\ a < MaxEof /\ K \in Nat \ {0} /\ Slices \in Nat \ {0}
    BY SliceConstants DEF Addr, K
  <1> PICK q \in Nat : SliceOff(a) = q * K /\ q * K <= a
    BY <1>0, Division
  <1>1. q < Slices
    <2> SUFFICES ASSUME Slices <= q PROVE FALSE
      BY <1>0
    <2>1. Slices * K <= q * K
      <3>1. Slices < q => Slices * K + K <= q * K
        BY <1>0, MultiplesApart
      <3>2. Slices * K \in Nat /\ q * K \in Nat
        BY <1>0
      <3> QED
        BY <1>0, <3>1, <3>2
    <2>2. Slices * K \in Nat /\ q * K \in Nat
      BY <1>0
    <2> QED
      BY <1>0, <2>1, <2>2 DEF Fits
  <1> QED
    BY <1>0, <1>1 DEF Slot

(* A pass that finds no slice is one of an append that has reached the     *)
(* first slice not yet in the cache.                                       *)
LEMMA MissIsNext ==
    ASSUME Fits, StateInv, FitsInv, left > 0, op # "idle", ~Cached(pos)
    PROVE  /\ op = "append" /\ pos \in Addr
           /\ lastSlice \in Slot /\ SliceOff(pos) = lastSlice * K
  <1>0. /\ Header \in Nat \ {0} /\ Header < K /\ K \in Nat \ {0} /\ eof \in Nat /\ Header <= eof
        /\ pos \in Nat /\ start \in Nat /\ len \in Nat /\ left \in Nat
        /\ lastSlice \in Nat /\ Slices \in Nat /\ lastSlice <= Slices
        /\ TypeOK /\ RequestInv
    BY SliceConstants DEF StateInv, TypeOK, K
  <1>1. pos \in Addr
    BY <1>0, ChunkIs
  <1>2. SliceOff(pos) \in Nat /\ SliceOff(pos) <= pos
    BY <1>0, SliceOffBounds
  <1>3. ~(Extent > Header /\ SliceOff(pos) < Extent)
    BY <1>1 DEF FitsInv, Covered
  <1>4. op = "append"
    <2> SUFFICES ASSUME op # "append" PROVE FALSE
      OBVIOUS
    <2>1. op \in {"read", "reread", "rewrite"}
      BY <1>0 DEF TypeOK, Op
    <2>2. start >= Header /\ len > 0 /\ start + len <= eof /\ pos + left = start + len
      BY <1>0, <2>1 DEF RequestInv
    <2>3. Extent = eof
      BY DEF Extent
    <2> QED
      BY <1>0, <1>2, <1>3, <2>2, <2>3
  <1>5. Extent = pos /\ start = eof /\ eof <= pos
    BY <1>0, <1>4 DEF Extent, RequestInv
  <1> PICK q \in Slot : SliceOff(pos) = q * K
    BY <1>1, SliceIndex
  <1>6. q \in Nat /\ q < Slices
    BY <1>0 DEF Slot
  <1>7. lastSlice <= q
    <2> SUFFICES ASSUME q < lastSlice PROVE FALSE
      BY <1>0, <1>6
    <2>1. active[q] /\ off[q] = SliceOff(pos)
      BY DEF FitsInv, InOrder
    <2> QED
      BY <1>0, <1>1, <2>1, HitIs DEF Cached
  <1>8. q <= lastSlice
    <2> SUFFICES ASSUME lastSlice < q PROVE FALSE
      BY <1>0, <1>6
    <2> DEFINE a == lastSlice * K
    <2>1. a + K <= q * K /\ a \in Nat
      BY <1>0, <1>6, MultiplesApart
    <2>2. a \in Addr
      <3>1. pos < MaxEof /\ MaxEof \in Nat /\ q * K <= pos
        BY <1>0, <1>1, <1>2, SliceConstants DEF Addr
      <3>2. q * K \in Nat
        BY <1>0, <1>6
      <3>3. a < MaxEof
        BY <1>0, <2>1, <3>1, <3>2
      <3> QED
        BY <2>1, <3>1, <3>3 DEF Addr
    <2>3. SliceOff(a) = a
      BY <1>0, <2>1, SliceOffIs
    <2>4. Extent > Header /\ SliceOff(a) < Extent
      BY <1>0, <1>2, <1>5, <2>1, <2>3
    <2>5. Cached(a)
      BY <2>2, <2>4 DEF FitsInv, Covered
    <2> PICK s \in Slot : Hit(a, s)
      BY <2>5 DEF Cached
    <2>6. active[s] /\ off[s] = a
      BY <1>0, <2>2, <2>3, HitIs
    <2>7. s < lastSlice /\ off[s] = s * K /\ s \in Nat
      BY <2>6 DEF FitsInv, InOrder, Slot
    <2>8. s * K + K <= lastSlice * K /\ s * K \in Nat
      BY <1>0, <2>7, MultiplesApart
    <2> QED
      BY <1>0, <2>6, <2>7, <2>8
  <1>9. q = lastSlice
    BY <1>0, <1>6, <1>7, <1>8
  <1> QED
    BY <1>1, <1>4, <1>9

(* So no slice is ever read back, written out or overwritten.              *)
LEMMA NoEviction ==
    ASSUME Fits, StateInv, FitsInv, NEW s \in Slot
    PROVE  /\ ~ReadMiss(s)
           /\ \A n \in 0..(SliceSize - 1) : ~FlushFails(s, n) /\ ~ReadFails(s, n)
           /\ WriteMiss(s) =>
                 op = "append" /\ s = lastSlice /\ SliceOff(pos) = s * K /\ lastSlice' = s + 1
  <1>0. lastSlice \in Nat /\ Slices \in Nat
    BY SliceConstants DEF StateInv, TypeOK
  <1>1. ~ReadMiss(s)
    BY MissIsNext DEF ReadMiss, Reading
  <1>2. ASSUME NEW n \in 0..(SliceSize - 1), FlushFails(s, n) PROVE FALSE
    <2>1. lastSlice \in Slot
      BY <1>2, MissIsNext DEF FlushFails
    <2>2. s = lastSlice /\ active[s]
      BY <1>0, <1>2, <2>1 DEF FlushFails, Slot
    <2> QED
      BY <1>0, <2>2 DEF FitsInv, InOrder
  <1>3. ASSUME WriteMiss(s)
        PROVE  op = "append" /\ s = lastSlice /\ SliceOff(pos) = s * K /\ lastSlice' = s + 1
    <2>1. op = "append" /\ lastSlice \in Slot /\ SliceOff(pos) = lastSlice * K
      BY <1>3, MissIsNext DEF WriteMiss, Writing
    <2>2. s = lastSlice /\ lastSlice' = s + 1
      BY <1>0, <1>3, <2>1 DEF WriteMiss, Assign, Victim, Slot
    <2> QED
      BY <2>1, <2>2
  <1>4. ASSUME NEW n \in 0..(SliceSize - 1), ReadFails(s, n) PROVE FALSE
    BY <1>4, MissIsNext DEF ReadFails, Reading
  <1> QED
    BY <1>1, <1>2, <1>3, <1>4

(* No slot is filled at first.                                             *)
LEMMA InitFits == Init => FitsInv
  BY SliceConstants DEF Init, FitsInv, InOrder, Covered, ValueInv, Extent, Slot

-----------------------------------------------------------------------------
(* The steps.                                                              *)

(* The begin of a request.                                                 *)
LEMMA RequestFits ==
    ASSUME StateInv, FitsInv, NEW o \in {"append", "read", "reread"}, NEW a, NEW n \in 1..MaxLen, NEW v,
           Begin(o, a, n, v), o = "append" => a = eof, o # "read" => v \in Data,
           a \in Nat
    PROVE  FitsInv'
  <1>1. Extent' = Extent
    BY DEF Begin, Extent
  <1>2. UNCHANGED <<active, off, lastSlice, flat, lost, fails>>
    BY DEF Begin, cache
  <1>3. Covered'
    BY <1>1, <1>2 DEF FitsInv, Covered, Cached, Hit
  <1>4. ValueInv'
    <2>1. n > 0 /\ a..(a - 1) = {}
      BY SliceConstants
    <2>2. op' = o /\ start' = a /\ len' = n /\ val' = v /\ pos' = a
      BY DEF Begin
    <2> QED
      BY <2>1, <2>2 DEF ValueInv
  <1> QED
    BY <1>2, <1>3, <1>4 DEF FitsInv, InOrder

(* The end of a request.                                                   *)
LEMMA EndFits ==
    ASSUME StateInv, FitsInv, End
    PROVE  FitsInv'
  <1>1. /\ pos + left = start + len /\ (op = "append" => start = eof)
        /\ pos \in Nat /\ start \in Nat /\ len \in Nat /\ left = 0 /\ eof \in Nat
    BY SliceConstants DEF StateInv, RequestInv, TypeOK, End
  <1>2. Extent' = Extent
    BY <1>1 DEF End, Retire, Extent
  <1>3. UNCHANGED <<active, off, lastSlice, flat, lost, fails>>
    BY DEF End, cache
  <1>4. Covered'
    BY <1>2, <1>3 DEF FitsInv, Covered, Cached, Hit
  <1>5. ValueInv'
    BY DEF End, Retire, FitsInv, ValueInv
  <1> QED
    BY <1>3, <1>4, <1>5 DEF FitsInv, InOrder

(* A read that finds its slice, as every read does.                        *)
LEMMA ReadFits ==
    ASSUME StateInv, FitsInv, NEW s \in Slot, ReadHit(s)
    PROVE  FitsInv'
  <1>1. Extent' = Extent /\ op' = op /\ op \in {"read", "reread"} /\ val' = val /\ len' = len
    BY DEF ReadHit, Reading, Advance, Extent
  <1>2. UNCHANGED <<active, off, lastSlice, flat, lost, fails>>
    BY DEF ReadHit, CopyOut, Advance
  <1>3. Covered'
    BY <1>1, <1>2 DEF FitsInv, Covered, Cached, Hit
  <1> QED
    BY <1>1, <1>2, <1>3 DEF FitsInv, InOrder, ValueInv

(* The values an append has written, a chunk later.                        *)
LEMMA WriteValues ==
    ASSUME StateInv, FitsInv, left > 0, Advance, NEW s, NEW b, CopyIn(s, b)
    PROVE  ValueInv'
  <1> PICK e \in Nat :
        pos < e /\ e <= pos + left /\ Chunk = pos..(e - 1) /\ Cardinality(Chunk) = e - pos
    BY ChunkIs DEF StateInv
  <1>0. /\ pos \in Nat /\ left \in Nat /\ start \in Nat /\ pos + left <= MaxEof /\ MaxEof \in Nat
        /\ TypeOK
    BY SliceConstants DEF StateInv, RequestInv, TypeOK
  <1>1. pos' = e /\ UNCHANGED <<op, start, len, val>>
    BY <1>0 DEF Advance
  <1>2. ASSUME op = "append", NEW a \in start..(e - 1)
        PROVE  flat'[a] = val
    <2>1. a \in Addr
      BY <1>0 DEF Addr
    <2>2. flat'[a] = IF a \in Chunk THEN val ELSE flat[a]
      BY <2>1 DEF CopyIn
    <2>3. a \notin Chunk => a \in start..(pos - 1)
      BY <1>0
    <2> QED
      BY <1>2, <2>2, <2>3 DEF FitsInv, ValueInv
  <1> QED
    BY <1>1, <1>2 DEF FitsInv, ValueInv

(* A write that finds its slice.                                           *)
LEMMA WriteHitFits ==
    ASSUME StateInv, FitsInv, NEW s \in Slot, WriteHit(s)
    PROVE  FitsInv'
  <1>0. /\ TypeOK /\ RequestInv /\ left > 0 /\ Advance /\ op # "idle" /\ CopyIn(s, buf[s])
        /\ UNCHANGED <<active, off, lastSlice, fails>> /\ lost' = lost \ Chunk /\ Hit(pos, s)
    BY DEF WriteHit, Writing, StateInv, Advance
  <1>1. pos \in Addr
    BY <1>0, ChunkIs
  <1>2. Covered'
    <2> SUFFICES ASSUME Extent' > Header, NEW a \in Addr, SliceOff(a) < Extent'
                 PROVE  Cached(a)
      BY <1>0 DEF Covered, Cached, Hit
    <2>1. CASE SliceOff(a) = SliceOff(pos)
      BY <1>0, <1>1, <2>1, HitIs DEF Cached
    <2>2. CASE SliceOff(a) # SliceOff(pos)
      BY <1>0, <2>2, ExtentBefore DEF FitsInv, Covered
    <2> QED
      BY <2>1, <2>2
  <1>3. ValueInv'
    BY <1>0, WriteValues
  <1> QED
    BY <1>0, <1>2, <1>3 DEF FitsInv, InOrder

(* An append that takes the next slot for the next slice.                  *)
LEMMA WriteMissFits ==
    ASSUME Fits, StateInv, StateInv', FitsInv, NEW s \in Slot, WriteMiss(s)
    PROVE  FitsInv'
  <1>0. /\ TypeOK /\ RequestInv /\ TypeOK' /\ left > 0 /\ Advance /\ op # "idle"
        /\ CopyIn(s, buf[s]) /\ ~Cached(pos)
        /\ active' = [active EXCEPT ![s] = TRUE] /\ off' = [off EXCEPT ![s] = SliceOff(pos)]
        /\ fails' = fails
    BY DEF WriteMiss, Writing, StateInv, Advance, Assign
  <1>1. op = "append" /\ s = lastSlice /\ SliceOff(pos) = s * K /\ lastSlice' = s + 1
    BY NoEviction
  <1>2. pos \in Addr
    BY <1>0, ChunkIs
  <1>3. InOrder'
    <2>1. \A t \in Slot : t \in Nat /\ s \in Nat
      BY DEF Slot
    <2>2. \A t \in Slot : t # s => (active'[t] <=> active[t]) /\ off'[t] = off[t]
      BY <1>0
    <2>3. active'[s] /\ off'[s] = s * K
      BY <1>0, <1>1 DEF TypeOK
    <2> QED
      BY <1>1, <2>1, <2>2, <2>3 DEF FitsInv, InOrder
  <1>4. \A a \in Addr, t \in Slot : Hit(a, t)' <=> active'[t] /\ off'[t] = SliceOff(a)
    BY IsLocatedNext DEF Located, StateInv
  <1>5. Covered'
    <2> SUFFICES ASSUME Extent' > Header, NEW a \in Addr, SliceOff(a) < Extent'
                 PROVE  Cached(a)'
      BY DEF Covered
    <2>1. CASE SliceOff(a) = SliceOff(pos)
      <3>1. active'[s] /\ off'[s] = SliceOff(a)
        BY <1>0, <2>1 DEF TypeOK
      <3> QED
        BY <1>4, <3>1 DEF Cached
    <2>2. CASE SliceOff(a) # SliceOff(pos)
      <3>1. Cached(a)
        BY <1>0, <2>2, ExtentBefore DEF FitsInv, Covered
      <3> PICK t \in Slot : Hit(a, t)
        BY <3>1 DEF Cached
      <3>2. active[t] /\ off[t] = SliceOff(a)
        BY <1>0, HitIs
      <3>3. t # s
        BY <1>1, <3>2 DEF FitsInv, InOrder, Slot
      <3>4. active'[t] /\ off'[t] = SliceOff(a)
        BY <1>0, <3>2, <3>3
      <3> QED
        BY <1>4, <3>4 DEF Cached
    <2> QED
      BY <2>1, <2>2
  <1>6. lost' = {}
    <2> SUFFICES ASSUME NEW a \in Header..(eof - 1), SliceOff(a) = SliceOff(pos)
                 PROVE  FALSE
      BY DEF WriteMiss, FitsInv
    <2>1. /\ Header \in Nat /\ eof \in Nat /\ pos \in Nat /\ eof <= pos /\ Extent = pos
          /\ a \in Nat /\ a \in Addr
      <3>1. /\ Header \in Nat /\ eof \in Nat /\ pos \in Nat /\ start \in Nat
            /\ eof <= MaxEof /\ MaxEof \in Nat
        BY <1>0, SliceConstants DEF TypeOK
      <3>2. start = eof /\ start <= pos /\ Extent = pos
        BY <1>0, <1>1 DEF RequestInv, Extent
      <3> QED
        BY <3>1, <3>2 DEF Addr
    <2>2. SliceOff(a) \in Nat /\ SliceOff(a) <= a
      BY <2>1, SliceOffBounds
    <2>3. Cached(a)
      BY <2>1, <2>2 DEF FitsInv, Covered
    <2> QED
      BY <1>0, <1>2, <2>1, <2>3, HitIs DEF Cached
  <1>7. ValueInv'
    BY <1>0, WriteValues
  <1> QED
    BY <1>0, <1>3, <1>5, <1>6, <1>7 DEF FitsInv

(* Every step leaves the slots in order.                                   *)
LEMMA StepFits ==
    ASSUME Fits, StateInv, FitsInv, [Next]_vars
    PROVE  FitsInv'
  <1>0. StateInv'
    BY StepTypes, StepUnique DEF StateInv
  <1>1. CASE UNCHANGED vars
    BY <1>1 DEF vars, cache, request, FitsInv, InOrder, Covered, ValueInv, Extent, Cached, Hit
  <1>2. ASSUME NEW n \in 1..MaxLen, NEW v \in Data, Append(n, v) PROVE FitsInv'
    <2>1. eof \in Nat
      BY SliceConstants DEF StateInv, TypeOK
    <2> QED
      BY <1>2, <2>1, RequestFits DEF Append
  <1>3. ASSUME NEW a \in Addr, NEW n \in 1..MaxLen, Read(a, n) PROVE FitsInv'
    <2>1. Begin("read", a, n, Zero) /\ a \in Nat
      BY <1>3 DEF Read, Addr
    <2> QED
      BY <2>1, RequestFits
  <1>4. ASSUME NEW a \in Addr, NEW n \in 1..MaxLen, NEW v \in Data, Collapse(a, n, v)
        PROVE  FitsInv'
    <2>1. Begin("reread", a, n, v) /\ a \in Nat
      BY <1>4 DEF Collapse, Addr
    <2> QED
      BY <2>1, RequestFits
  <1>5. ~\E s \in Slot, n \in 0..(SliceSize - 1) : FlushFails(s, n) \/ ReadFails(s, n)
    BY NoEviction
  <1>6. CASE Find
    BY <1>0, <1>6, NoEviction, ReadFits, WriteHitFits, WriteMissFits DEF Find
  <1>7. CASE End
    BY <1>7, EndFits
  <1> QED
    BY <1>1, <1>2, <1>3, <1>4, <1>5, <1>6, <1>7 DEF Next

-----------------------------------------------------------------------------
(* The refinement.                                                         *)

WholeInv == StateInv /\ DataInv /\ FitsInv

(* The contents of the abstract file, and what they come to.               *)
Content == [a \in Header..(eof - 1) |-> Current(a)]

ContentIsFlat == WholeInv => Content = [a \in Header..(eof - 1) |-> flat[a]]

(* What a reader finds in the log is the bytes written last.               *)
LEMMA ContentFlat == ContentIsFlat
  <1> SUFFICES ASSUME WholeInv, NEW a \in Header..(eof - 1)
               PROVE  Current(a) = flat[a]
    BY DEF ContentIsFlat, Content
  <1>1. /\ op = "append" => start = eof
        /\ start <= pos /\ eof \in Nat /\ pos \in Nat /\ Header \in Nat
    BY SliceConstants DEF WholeInv, StateInv, RequestInv, TypeOK
  <1>2. a \in Header..(Extent - 1)
    BY <1>1 DEF Extent
  <1> QED
    BY <1>2 DEF WholeInv, DataInv, FlatInv, FitsInv

(* The same, a step later.                                                 *)
LEMMA ContentFlatNext == ContentIsFlat'
  BY ContentFlat, PTL

(* An empty log is an empty file.                                          *)
LEMMA InitFlat == Init => Flat!Init
  <1> SUFFICES ASSUME Init PROVE Flat!Init
    OBVIOUS
  <1>1. eof = Header /\ Header..(eof - 1) = {}
    BY SliceConstants DEF Init
  <1>2. [a \in Header..(eof - 1) |-> Current(a)] = [a \in {} |-> 0]
    BY <1>1
  <1> QED
    BY <1>1, <1>2 DEF Flat!Init

(* A step that leaves the end of the log and the bytes below it alone.     *)
LEMMA ContentSame ==
    ASSUME WholeInv, WholeInv', eof' = eof,
           \A a \in Header..(eof - 1) : flat'[a] = flat[a]
    PROVE  UNCHANGED <<Content, eof>>
  BY ContentFlat, ContentFlatNext DEF ContentIsFlat

(* The end of an append.                                                   *)
LEMMA EndFlat ==
    ASSUME WholeInv, WholeInv', End, op = "append"
    PROVE  /\ eof' > eof /\ val \in Data
           /\ Content' = [a \in Flat!Record(Header, eof' - Header) |->
                             IF a < eof THEN Content[a] ELSE val]
  <1>1. /\ eof \in Nat /\ start \in Nat /\ len \in Nat /\ pos \in Nat /\ left = 0
        /\ pos + left = start + len /\ start = eof /\ Header \in Nat /\ Header <= eof
    BY SliceConstants DEF WholeInv, StateInv, TypeOK, RequestInv, End
  <1>2. val \in Data /\ len > 0 /\ \A a \in start..(pos - 1) : flat[a] = val
    BY DEF WholeInv, FitsInv, ValueInv
  <1>3. eof' = eof + len /\ flat' = flat /\ pos = eof + len
    BY <1>1 DEF End
  <1>4. Flat!Record(Header, eof' - Header) = Header..(eof' - 1)
    BY <1>1, <1>3 DEF Flat!Record
  <1>5. Content = [a \in Header..(eof - 1) |-> flat[a]]
    BY ContentFlat DEF ContentIsFlat
  <1>6. Content' = [a \in Header..(eof' - 1) |-> flat[a]]
    BY <1>3, ContentFlatNext DEF ContentIsFlat
  <1>7. ASSUME NEW a \in Header..(eof' - 1)
        PROVE  flat[a] = IF a < eof THEN Content[a] ELSE val
    <2>1. CASE a < eof
      <3>1. a \in Header..(eof - 1)
        BY <1>1, <1>3, <2>1
      <3> QED
        BY <1>5, <2>1, <3>1
    <2>2. CASE ~(a < eof)
      <3>1. a \in start..(pos - 1)
        BY <1>1, <1>3, <2>2
      <3> QED
        BY <1>2, <2>2, <3>1
    <2> QED
      BY <2>1, <2>2
  <1> QED
    BY <1>1, <1>2, <1>3, <1>4, <1>6, <1>7

(* A pass that writes: a record written over in place, or the bytes of one *)
(* that is not yet part of the log.                                        *)
LEMMA WriteFlat ==
    ASSUME WholeInv, WholeInv', NEW s \in Slot, WriteHit(s) \/ WriteMiss(s)
    PROVE  \/ UNCHANGED <<Content, eof>>
           \/ /\ eof' = eof /\ val \in Data
              /\ \E a, b \in Header..(eof - 1) :
                    Content' = [c \in Header..(eof - 1) |-> IF c \in a..b THEN val ELSE Content[c]]
  <1>0. /\ left > 0 /\ Advance /\ (\E b : CopyIn(s, b)) /\ TypeOK /\ RequestInv
        /\ op \in {"append", "rewrite"}
    BY DEF WriteHit, WriteMiss, Writing, WholeInv, StateInv
  <1> PICK e \in Nat :
        pos < e /\ e <= pos + left /\ Chunk = pos..(e - 1) /\ Cardinality(Chunk) = e - pos
    BY <1>0, ChunkIs
  <1>1. /\ eof \in Nat /\ start \in Nat /\ len \in Nat /\ pos \in Nat /\ left \in Nat
        /\ pos + left = start + len /\ start <= pos /\ Header \in Nat /\ Header <= eof
        /\ eof <= MaxEof /\ MaxEof \in Nat
    BY <1>0, SliceConstants DEF TypeOK, RequestInv
  <1>2. eof' = eof /\ \A a \in Addr : flat'[a] = IF a \in Chunk THEN val ELSE flat[a]
    BY <1>0 DEF Advance, CopyIn
  <1>3. \A a \in Header..(eof - 1) : a \in Addr
    BY <1>1 DEF Addr
  <1>4. CASE op = "append"
    <2>1. start = eof
      BY <1>0, <1>4 DEF RequestInv
    <2>2. \A a \in Header..(eof - 1) : a \notin Chunk
      BY <1>1, <2>1
    <2> QED
      BY <1>2, <1>3, <2>2, ContentSame
  <1>5. CASE op = "rewrite"
    <2>1. start >= Header /\ start + len <= eof
      BY <1>0, <1>5 DEF RequestInv
    <2>2. pos \in Header..(eof - 1) /\ e - 1 \in Header..(eof - 1)
      BY <1>1, <2>1
    <2>3. val \in Data
      BY <1>5 DEF WholeInv, FitsInv, ValueInv
    <2>4. Content = [a \in Header..(eof - 1) |-> flat[a]]
      BY ContentFlat DEF ContentIsFlat
    <2>5. Content' = [a \in Header..(eof - 1) |-> flat'[a]]
      BY <1>2, ContentFlatNext DEF ContentIsFlat
    <2>6. Content' = [c \in Header..(eof - 1) |->
                         IF c \in pos..(e - 1) THEN val ELSE Content[c]]
      BY <1>2, <1>3, <2>4, <2>5
    <2> QED
      BY <1>2, <2>2, <2>3, <2>6
  <1> QED
    BY <1>0, <1>4, <1>5

(* Every step is one of the flat file, or none.                            *)
LEMMA StepFlat ==
    ASSUME Fits, WholeInv, WholeInv', [Next]_vars
    PROVE  [Flat!Next]_<<Content, eof>>
  <1>1. CASE UNCHANGED vars
    BY <1>1, ContentSame DEF vars
  <1>2. CASE \/ \E n \in 1..MaxLen, v \in Data : Append(n, v)
             \/ \E a \in Addr, n \in 1..MaxLen : Read(a, n)
             \/ \E a \in Addr, n \in 1..MaxLen, v \in Data : Collapse(a, n, v)
    BY <1>2, ContentSame DEF Append, Read, Collapse, Begin
  <1>3. ~\E s \in Slot, n \in 0..(SliceSize - 1) : FlushFails(s, n) \/ ReadFails(s, n)
    BY NoEviction DEF WholeInv
  <1>4. ASSUME NEW s \in Slot, ReadHit(s) PROVE UNCHANGED <<Content, eof>>
    BY <1>4, ContentSame DEF ReadHit, CopyOut, Advance
  <1>5. ASSUME NEW s \in Slot PROVE ~ReadMiss(s)
    BY NoEviction DEF WholeInv
  <1>6. ASSUME NEW s \in Slot, WriteHit(s) \/ WriteMiss(s)
        PROVE  [Flat!Next]_<<Content, eof>>
    <2>1. CASE UNCHANGED <<Content, eof>>
      BY <2>1
    <2>2. CASE /\ eof' = eof /\ val \in Data
               /\ \E a, b \in Header..(eof - 1) :
                     Content' = [c \in Header..(eof - 1) |->
                                    IF c \in a..b THEN val ELSE Content[c]]
      <3>1. DOMAIN Content = Header..(eof - 1)
        BY DEF Content
      <3> PICK a \in Header..(eof - 1), b \in Header..(eof - 1) :
                 Content' = [c \in Header..(eof - 1) |->
                                IF c \in a..b THEN val ELSE Content[c]]
        BY <2>2
      <3>2. Flat!Overwrite(a..b, val)
        BY <2>2, <3>1 DEF Flat!Overwrite, Content
      <3>3. Flat!Next
        BY <2>2, <3>1, <3>2 DEF Flat!Next, Content
      <3> QED
        BY <3>3
    <2> QED
      BY <1>6, <2>1, <2>2, WriteFlat
  <1>7. CASE End
    <2>1. CASE op = "append"
      <3>1. /\ eof' > eof /\ val \in Data
            /\ Content' = [a \in Flat!Record(Header, eof' - Header) |->
                              IF a < eof THEN Content[a] ELSE val]
        BY <1>7, <2>1, EndFlat
      <3>2. eof \in Nat /\ eof' \in Nat
        BY SliceConstants DEF WholeInv, StateInv, TypeOK
      <3>3. \A x, y \in Nat : y = x + (y - x)
        OBVIOUS
      <3>4. eof' = eof + (eof' - eof)
        BY <3>2, <3>3
      <3>5. Flat!Append(eof' - eof, val)
        BY <3>1, <3>4 DEF Flat!Append, Content
      <3> QED
        BY <3>1, <3>5 DEF Flat!Next
    <2>2. CASE op # "append"
      <3>1. eof' = eof /\ flat' = flat
        BY <1>7, <2>2 DEF End
      <3> QED
        BY <3>1, ContentSame
    <2> QED
      BY <2>1, <2>2
  <1> QED
    BY <1>1, <1>2, <1>3, <1>4, <1>5, <1>6, <1>7 DEF Next, Find

(* While the log fits the cache, uwrite_data and slice_read are the append *)
(* to a flat file and the reading of it, and no byte is lost.              *)
THEOREM FitsFlat == ASSUME Fits PROVE Spec => FlatFile
  <1>1. Init => WholeInv
    BY InitData, InitFits DEF WholeInv
  <1>2. WholeInv /\ [Next]_vars => WholeInv'
    BY StepTypes, StepUnique, StepData, StepFits DEF WholeInv, StateInv
  <1>3. WholeInv /\ WholeInv' /\ [Next]_vars => [Flat!Next]_<<Content, eof>>
    BY StepFlat
  <1>4. Content = [a \in Header..(eof - 1) |-> Current(a)]
    BY DEF Content
  <1> QED
    BY <1>1, <1>2, <1>3, InitFlat, PTL DEF Spec, FlatFile, Flat!Spec, Content
=============================================================================
