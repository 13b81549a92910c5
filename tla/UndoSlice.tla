------------------------------ MODULE UndoSlice ------------------------------
(***************************************************************************)
(* The slice cache between the undo engine and its file (gr/undo.c):       *)
(* SLICE_NUMBER buffers of SLICE_SZE bytes, found by offset, filled in     *)
(* round-robin order, and written out when reused, over a stdio stream     *)
(* whose position undo.c tracks to save seeks.  C wants a seek wherever    *)
(* such a stream turns between reading and writing; libraries differ on    *)
(* what they do without one (ReadMiss, ReadFails).                         *)
(*                                                                         *)
(* A call of uwrite_data or slice_read is a request; each pass of the loop *)
(* of slice_rdwr is a step.  A request's bytes all have the same value.    *)
(***************************************************************************)
EXTENDS Naturals, FiniteSets

CONSTANTS Slices,    \* SLICE_NUMBER
          SliceSize, \* SLICE_SZE
          Header,    \* bytes written by undo_init: the file's "Undo" tag
          Data,      \* the values of bytes
          Zero,      \* a byte of a buffer never used, or of a hole
          Absent,    \* what lies beyond the end of the file
          MaxEof,    \* bound: size of the log
          MaxLen,    \* bound: size of a request
          MaxFails   \* bound: accesses of the file that fail

ASSUME SliceConstants ==
    /\ Slices \in Nat \ {0} /\ SliceSize \in Nat \ {0}
    /\ Header \in Nat \ {0} /\ Header < SliceSize
    /\ MaxEof \in Nat \ {0} /\ MaxEof % SliceSize = 0 /\ MaxLen \in Nat
    /\ Zero \notin Data /\ Absent \notin Data \cup {Zero}
    /\ MaxFails \in Nat

VARIABLES
    active, off, buf,        \* the slices: sl_active, sl_offset, sl_buf
    lastSlice,               \* last_slice, the next slice to fill
    disk, fpos, dir,         \* the stream: its bytes, position, last operation
    uOffset, needSeek,       \* u_offset, u_need_seek
    eof,                     \* u_end_of_file
    op, start, len, val,     \* the request, "idle" if there is none
    pos, left,               \* offset and len of slice_rdwr
    flat,                    \* history: the byte last written at an offset
    lost,                    \* history: see WriteMiss
    fails                    \* history: the accesses of the file that failed

cache   == <<active, off, buf, lastSlice>>
stream  == <<disk, fpos, dir, uOffset, needSeek>>
request == <<op, start, len, val, pos, left>>
vars == <<cache, stream, eof, request, flat, lost, fails>>

Slot == 0..(Slices - 1)
Cell == 0..(SliceSize - 1)
Addr == 0..(MaxEof - 1)
Byte == Data \cup {Zero}

MutSliceOffUnrounded(a) == a

SliceOff(a) == a - (a % SliceSize)
Hit(a, s) == active[s] /\ a \in off[s]..(off[s] + SliceSize - 1)
Cached(a) == \E s \in Slot : Hit(a, s)

(* The bytes the present pass of slice_rdwr copies, within one slice.      *)
Chunk == {a \in Addr : pos <= a /\ a < pos + left /\ SliceOff(a) = SliceOff(pos)}

Op == {"idle", "append", "read", "reread", "rewrite"}

TypeOK ==
    /\ active \in [Slot -> BOOLEAN]
    /\ off \in [Slot -> {SliceOff(a) : a \in Addr}]
    /\ buf \in [Slot -> [Cell -> Byte]]
    /\ lastSlice \in 0..Slices
    /\ disk \in [Addr -> Byte \cup {Absent}]
    /\ fpos \in Nat /\ dir \in {"read", "write"} /\ uOffset \in 0..MaxEof
    /\ needSeek \in BOOLEAN
    /\ eof \in Header..MaxEof
    /\ op \in Op /\ start \in 0..MaxEof /\ len \in 0..MaxLen
    /\ val \in Byte
    /\ pos \in 0..MaxEof /\ left \in 0..MaxLen
    /\ flat \in [Addr -> Byte]
    /\ lost \in SUBSET Addr
    /\ fails \in 0..MaxFails

Init ==
    /\ active = [s \in Slot |-> FALSE]
    /\ off = [s \in Slot |-> 0]
    /\ buf = [s \in Slot |-> [c \in Cell |-> Zero]]
    /\ lastSlice = 0
    /\ disk = [a \in Addr |-> IF a < Header THEN Zero ELSE Absent]
    /\ fpos = Header /\ dir = "write" /\ uOffset = Header /\ needSeek = TRUE
    /\ eof = Header
    /\ op = "idle" /\ start = 0 /\ len = 0 /\ val = Zero /\ pos = 0 /\ left = 0
    /\ flat = [a \in Addr |-> Zero]
    /\ lost = {} /\ fails = 0

-----------------------------------------------------------------------------
(* Requests.                                                               *)

Begin(o, a, n, v) ==
    /\ op = "idle"
    /\ op' = o /\ start' = a /\ len' = n /\ val' = v
    /\ pos' = a /\ left' = n
    /\ UNCHANGED <<cache, stream, eof, flat, lost, fails>>

(* uwrite_data(0, ...): a new record, or the data of one.                  *)
Append(n, v) ==
    /\ eof + n <= MaxEof
    /\ Begin("append", eof, n, v)

(* slice_read: any part of the log.                                        *)
Read(a, n) ==
    /\ a >= Header /\ a + n <= eof
    /\ Begin("read", a, n, Zero)

(* u_delete joining two self_inserts: slice_read_last, then uwrite_ctrl of *)
(* the same record.                                                        *)
Collapse(a, n, v) ==
    /\ a >= Header /\ a + n <= eof
    /\ Begin("reread", a, n, v)

Retire ==
    op' = "idle" /\ start' = 0 /\ len' = 0 /\ val' = Zero /\ pos' = 0 /\ left' = 0

MutEndKeepsEof ==
    /\ op # "idle" /\ left = 0
    /\ IF op = "reread"
       THEN /\ op' = "rewrite" /\ pos' = start /\ left' = len
            /\ UNCHANGED <<start, len, val, eof>>
       ELSE /\ eof' = IF op \in {"append", "rewrite"} THEN eof + len ELSE eof
            /\ Retire
    /\ UNCHANGED <<cache, stream, flat, lost, fails>>

(* The end of slice_rdwr; uwrite_data moves the end of an appended file.   *)
End ==
    /\ op # "idle" /\ left = 0
    /\ IF op = "reread"
       THEN /\ op' = "rewrite" /\ pos' = start /\ left' = len
            /\ UNCHANGED <<start, len, val, eof>>
       ELSE /\ eof' = IF op = "append" THEN eof + len ELSE eof
            /\ Retire
    /\ UNCHANGED <<cache, stream, flat, lost, fails>>

-----------------------------------------------------------------------------
(* slice_find and slice_rdwr.                                              *)

Advance ==
    /\ pos' = pos + Cardinality(Chunk)
    /\ left' = left - Cardinality(Chunk)
    /\ UNCHANGED <<op, start, len, val, eof>>

(* memcpy from b, the contents of slice s: into the caller's buffer ...    *)
CopyOut(s, b) ==
    /\ buf' = [buf EXCEPT ![s] = b]
    /\ UNCHANGED flat

(* ... or from it, b being what slice s held.                              *)
CopyIn(s, b) ==
    /\ buf' = [buf EXCEPT ![s] =
                  [c \in Cell |-> IF SliceOff(pos) + c \in Chunk THEN val ELSE b[c]]]
    /\ flat' = [a \in Addr |-> IF a \in Chunk THEN val ELSE flat[a]]

Reading == op \in {"read", "reread"}
Writing == op \in {"append", "rewrite"}

ReadHit(s) ==
    /\ Reading /\ left > 0 /\ Hit(pos, s)
    /\ CopyOut(s, buf[s])
    /\ Advance
    /\ UNCHANGED <<active, off, lastSlice, stream, lost, fails>>

WriteHit(s) ==
    /\ Writing /\ left > 0 /\ Hit(pos, s)
    /\ CopyIn(s, buf[s])
    /\ lost' = lost \ Chunk
    /\ Advance
    /\ UNCHANGED <<active, off, lastSlice, stream, fails>>

(* The slice slice_find reuses, by turns.                                  *)
MutVictimNoWrap(s) ==
    /\ s = lastSlice % Slices
    /\ lastSlice' = lastSlice + 1

Victim(s) ==
    /\ s = IF lastSlice = Slices THEN 0 ELSE lastSlice
    /\ lastSlice' = s + 1

MutSeeksIfMoved(o) == uOffset # o

(* upwrite seeks to o only if it believes it must. *)
Seeks(o) == uOffset # o \/ needSeek

WriteAt(s) == IF Seeks(off[s]) THEN off[s] ELSE fpos

(* The file once upwrite has put slice s at w; a gap reads as zeroes.      *)
Written(s, w) ==
    [a \in Addr |->
        IF a >= w /\ a < w + SliceSize THEN buf[s][a - w]
        ELSE IF a < w /\ disk[a] = Absent THEN Zero
        ELSE disk[a]]

(* The stream after slice_find has written out its victim, if it held one. *)
Flushed(s) ==
    IF active[s]
    THEN [disk |-> Written(s, WriteAt(s)), fpos |-> WriteAt(s) + SliceSize,
          dir |-> "write", uOffset |-> off[s] + SliceSize, needSeek |-> FALSE]
    ELSE [disk |-> disk, fpos |-> fpos, dir |-> dir,
          uOffset |-> uOffset, needSeek |-> needSeek]

(* upread: where it reads, and what it leaves in a buffer that held b.  It *)
(* seeks only for its place, never to turn a stream that has just written. *)
MutReadAtNoSeek(f, a) == f.fpos

ReadAt(f, a) == IF a # f.uOffset THEN a ELSE f.fpos
Fetched(f, r, b) ==
    [c \in Cell |-> IF r + c \in Addr /\ f.disk[r + c] # Absent
                    THEN f.disk[r + c] ELSE b[c]]
ReadTo(f, r) ==
    r + Cardinality({c \in Cell : \A d \in 0..c :
                        r + d \in Addr /\ f.disk[r + d] # Absent})

Turns(f, a) == a = f.uOffset /\ f.dir = "write"

(* u_offset once upread has read a slice at a. *)
OffsetAfterRead(a) == a + SliceSize

Assign(s) ==
    /\ Victim(s)
    /\ active' = [active EXCEPT ![s] = TRUE]
    /\ off' = [off EXCEPT ![s] = SliceOff(pos)]

(* The read succeeds; where it Turns the stream, as glibc's and BSD's let. *)
ReadMiss(s) ==
    LET f == Flushed(s)
        r == ReadAt(f, SliceOff(pos))
    IN
    /\ Reading /\ left > 0 /\ ~Cached(pos)
    /\ Assign(s)
    /\ CopyOut(s, Fetched(f, r, buf[s]))
    /\ disk' = f.disk
    /\ fpos' = ReadTo(f, r) /\ dir' = "read"
    /\ uOffset' = OffsetAfterRead(SliceOff(pos)) /\ needSeek' = TRUE
    /\ Advance
    /\ UNCHANGED <<lost, fails>>

(* The read fails after n bytes, as on an error of the device, or at once  *)
(* where a library refuses to turn the stream (Windows').  slice_find does *)
(* not look at what upread returns: the slice is in use with the bytes of  *)
(* the one it replaces, and the request goes on.                           *)
ReadFails(s, n) ==
    LET a == SliceOff(pos)
        f == Flushed(s)
        r == ReadAt(f, a)
    IN
    /\ fails < MaxFails
    /\ fails' = fails + 1
    /\ Reading /\ left > 0 /\ ~Cached(pos)
    /\ r + n <= ReadTo(f, r)
    /\ Assign(s)
    /\ CopyOut(s, [c \in Cell |-> IF c < n THEN Fetched(f, r, buf[s])[c] ELSE buf[s][c]])
    /\ disk' = f.disk
    /\ fpos' = r + n
    /\ dir' \in IF n = 0 /\ Turns(f, a) THEN {"read", "write"} ELSE {"read"}
    /\ uOffset' = OffsetAfterRead(a) /\ needSeek' = TRUE
    /\ Advance
    /\ UNCHANGED lost

(* slice_find populates the buffer "if (rdwr)" only, that is for a read.   *)
(* A write keeps what the buffer held before, so the bytes of this slice   *)
(* already in the log are lost to those of another, but for those written. *)
WriteMiss(s) ==
    LET f == Flushed(s) IN
    /\ Writing /\ left > 0 /\ ~Cached(pos)
    /\ Assign(s)
    /\ CopyIn(s, buf[s])
    /\ disk' = f.disk /\ fpos' = f.fpos /\ dir' = f.dir
    /\ uOffset' = f.uOffset /\ needSeek' = f.needSeek
    /\ lost' = (lost \cup {a \in Header..(eof - 1) : SliceOff(a) = SliceOff(pos)}) \ Chunk
    /\ Advance
    /\ UNCHANGED fails

(* upwrite fails, after a seek and n bytes of the slice: slice_find gives   *)
(* up, uwrite_data takes no notice, and neither u_offset nor u_need_seek    *)
(* tells of it, so that the next write or read may miss its place.          *)
FlushFails(s, n) ==
    /\ fails < MaxFails
    /\ fails' = fails + 1
    /\ op # "idle" /\ left > 0 /\ ~Cached(pos)
    /\ s = IF lastSlice = Slices THEN 0 ELSE lastSlice
    /\ active[s]
    /\ lastSlice' = s
    /\ fpos' = WriteAt(s) + n /\ dir' = "write"
    /\ disk' = [a \in Addr |-> IF n > 0 /\ a < WriteAt(s) + n
                               THEN Written(s, WriteAt(s))[a] ELSE disk[a]]
    /\ eof' = IF op = "append" THEN eof + len ELSE eof
    /\ lost' = IF Writing THEN lost \cup pos..(pos + left - 1) ELSE lost
    /\ Retire
    /\ UNCHANGED <<active, off, buf, uOffset, needSeek, flat>>

Find == \E s \in Slot : ReadHit(s) \/ WriteHit(s) \/ ReadMiss(s) \/ WriteMiss(s)

Next ==
    \/ \E n \in 1..MaxLen, v \in Data : Append(n, v)
    \/ \E a \in Addr, n \in 1..MaxLen : Read(a, n)
    \/ \E a \in Addr, n \in 1..MaxLen, v \in Data : Collapse(a, n, v)
    \/ \E s \in Slot, n \in 0..(SliceSize - 1) : FlushFails(s, n) \/ ReadFails(s, n)
    \/ Find \/ End

Spec == Init /\ [][Next]_vars

-----------------------------------------------------------------------------
(* What a read at offset a would find.                                     *)
Current(a) ==
    IF Cached(a)
    THEN LET s == CHOOSE s \in Slot : Hit(a, s) IN buf[s][a - off[s]]
    ELSE disk[a]

(* slice_find never has an offset in two slices, whatever the eviction     *)
(* order and wherever a record straddles two slices: were there two, reads *)
(* and writes would part.                                                  *)
OneSlice ==
    \A a \in Addr, s \in Slot, t \in Slot : Hit(a, s) /\ Hit(a, t) => s = t

(* Reads, evictions and writes to other slices keep every byte of the log, *)
(* in the cache or on disk; only a slice written to again after it has left*)
(* the cache loses the rest of its bytes (WriteMiss).  A write or a read of*)
(* the file that failed ends the promise (FlushFails, ReadFails): one of a *)
(* library that refuses to turn the stream among them.                     *)
ReadBack ==
    fails = 0 => \A a \in Header..(eof - 1) : a \notin lost => Current(a) = flat[a]

(* However reads and writes alternate, until one fails: upwrite and upread *)
(* reach the offset they are given, and upwrite never turns a stream that  *)
(* has just read without a seek.  It is not so of upread, which may turn   *)
(* one that has just written (undo.c:939, where u_need_seek is not asked). *)
SeeksWhereNeeded ==
    fails = 0 =>
        /\ \A s \in Slot : active[s] =>
              /\ WriteAt(s) = off[s]
              /\ dir = "read" => Seeks(off[s])
        /\ \A a \in Addr :
              ReadAt([uOffset |-> uOffset, fpos |-> fpos], SliceOff(a)) = SliceOff(a)

(* While the log fits the cache, the cache is the flat file.               *)
Flat == INSTANCE UndoFile WITH
    content <- [a \in Header..(eof - 1) |-> Current(a)],
    Value <- Data

FlatFile == Flat!Spec
=============================================================================
