------------------------ MODULE SessionUpdates_proofs ------------------------
(* The proof that no update is lost: between the check of the time on disk *)
(* and the truncation nobody else writes, and a buffer whose file has no   *)
(* time to check has seen everything that the file contains.               *)
EXTENDS SessionFiles_proofs

(* The names that a buffer is only renamed to are not saved under.         *)
NamesApart == \A p \in Proc : Uses[p] \cap Names[p] = {}

(***************************************************************************)
(* The times: a file is not older than what a buffer remembers of it.      *)
(***************************************************************************)
NotLater(b, f) == disk[f] # None => b <= mtime[f]

TimesInv(p) ==
    base[p] # None =>
        /\ base[p] <= clock /\ name[p] \in File
        /\ NotLater(base[p], name[p])
        /\ at[p] = "lock" => NotLater(base[p], goal[p])

ClockInv == \A f \in File : mtime[f] <= clock

(* What is known of a buffer where it asks for its lock and while it saves.*)
AskedInv(p) ==
    /\ Has(p, "lock") => base[p] # None
    /\ at[p] = "read" => base[p] # None
    /\ at[p] = "lock" /\ why[p] \in {"edit", "save"} => Has(p, "lock")
    /\ at[p] = "lock" /\ why[p] = "rename" => goal[p] \in Names[p]
    /\ at[p] = "lock" /\ why[p] = "save" => name[p] \in Uses[p]
    /\ at[p] \in InSave \cup {"ask", "write", "finish", "leave"} => name[p] \in Uses[p]

Seen(p) ==
    \/ disk[name[p]] = None
    \/ disk[name[p]] \subseteq text[p]

(* After the check, under the lock and unasked.                            *)
PassedInv(p) ==
    at[p] \in InSave /\ ~Has(p, "agreed") /\ Mine(p) => Seen(p) \/ mtime[name[p]] = base[p]

(* A buffer without a time, once its file has been opened.                 *)
NewInv(p) ==
    /\ name[p] \in Uses[p] /\ base[p] = None /\ Mine(p)
    /\ at[p] # "open" /\ ~(at[p] = "lock" /\ why[p] = "load")
    => Seen(p)

UpdateInv(p) == TimesInv(p) /\ AskedInv(p) /\ PassedInv(p) /\ NewInv(p)

-----------------------------------------------------------------------------
LEMMA NoTime == None \notin Time
  BY SessionConstants DEF Time

LEMMA NoFile == None \notin File
  BY NoneIsNoFile

(* What a step does to the time of a file.                                 *)
LEMMA FileTimes ==
    ASSUME OwnInv, NEW q \in Proc, Step(q), NEW f \in File
    PROVE  \/ disk'[f] = disk[f] /\ mtime'[f] = mtime[f]
           \/ disk'[f] = None /\ mtime'[f] = 0
           \/ mtime'[f] = clock
  <1> USE DEF OwnInv, SessionTypeOK
  <1>1. CASE UNCHANGED files
    BY <1>1 DEF files
  <1>2. CASE Probe(q) \/ Unprobe(q) \/ Truncate(q) \/ Write(q)
    BY <1>2 DEF Probe, Unprobe, Truncate, Write, Here
  <1>3. CASE StartBackup(q) \/ Copy(q) \/ CopyFails(q)
    BY <1>3 DEF StartBackup, Copy, CopyFails
  <1> QED
    BY <1>1, <1>2, <1>3, OffFiles DEF OnFiles

LEMMA ClockStays ==
    ASSUME NEW q \in Proc, Step(q)
    PROVE  clock' = clock
  BY DEF Step, LockStep, Reading, LoadLocked, OpenOld, Read, OpenNew, Probe, Unprobe, Saving,
     SaveLocked, SaveRefused, ReplyChanged, StartBackup, Copy, CopyShort, CopyFails, ReplyBackup,
     Truncate, OpenFails, Write, WriteFails, CloseFails, Finish, Request, Load, Rename,
     Reread, Kill, Edit, EditLocked, Refused, RenameLocked, Save, SaveAll, StartSave,
     Ending, Leave, Terminate, CloseStep, Crash

LEMMA StepClock ==
    ASSUME OwnInv, ClockInv, [Next]_vars
    PROVE  ClockInv'
  <1> USE SessionConstants DEF OwnInv, SessionTypeOK, Time
  <1>1. CASE UNCHANGED vars
    BY <1>1 DEF vars, files, ClockInv
  <1>2. CASE Tick
    BY <1>2 DEF Tick, files, ClockInv
  <1>3. ASSUME NEW q \in Proc, Step(q), NEW f \in File PROVE mtime'[f] <= clock'
    BY <1>3, FileTimes, ClockStays DEF ClockInv
  <1> QED
    BY <1>1, <1>2, <1>3 DEF Next, Step, ClockInv

LEMMA NotLaterKept ==
    ASSUME OwnInv, NEW q \in Proc, Step(q), NEW f \in File, NEW b \in Time,
           b <= clock, NotLater(b, f)
    PROVE  NotLater(b, f)'
  <1>1. mtime[f] \in Nat /\ clock \in Nat /\ b \in Nat
    BY SessionConstants DEF OwnInv, SessionTypeOK, Time
  <1> QED
    BY <1>1, FileTimes DEF NotLater

(* A step that leaves the time and the name of a buffer alone.             *)
LEMMA TimesKept ==
    ASSUME OwnInv, NEW q \in Proc, Step(q), NEW p \in Proc, TimesInv(p),
           base'[p] = base[p], name'[p] = name[p],
           at'[p] = "lock" =>
              \/ at[p] = "lock" /\ goal'[p] = goal[p]
              \/ goal'[p] = name[p]
              \/ goal'[p] \in File /\ disk'[goal'[p]] = None
    PROVE  TimesInv(p)'
  <1> SUFFICES ASSUME base[p] # None
               PROVE  /\ base[p] <= clock' /\ name[p] \in File
                      /\ NotLater(base[p], name[p])'
                      /\ at'[p] = "lock" => NotLater(base[p], goal[p])'
    BY DEF TimesInv, NotLater
  <1>1. base[p] \in Time /\ base[p] <= clock /\ name[p] \in File /\ clock' = clock
    BY ClockStays DEF OwnInv, SessionTypeOK, TimesInv
  <1>2. NotLater(base[p], name[p])'
    BY <1>1, NotLaterKept DEF TimesInv, NotLater
  <1>3. ASSUME at'[p] = "lock" PROVE NotLater(base[p], goal[p])'
    <2>1. CASE at[p] = "lock" /\ goal'[p] = goal[p]
      <3>1. goal[p] \in File /\ NotLater(base[p], goal[p])
        BY <2>1 DEF OwnInv, SessionTypeOK, TimesInv
      <3> QED
        BY <1>1, <2>1, <3>1, NotLaterKept DEF NotLater
    <2>2. CASE goal'[p] = name[p]
      BY <1>2, <2>2 DEF NotLater
    <2>3. CASE goal'[p] \in File /\ disk'[goal'[p]] = None
      BY <2>3 DEF NotLater
    <2> QED
      BY <1>3, <2>1, <2>2, <2>3
  <1> QED
    BY <1>1, <1>2, <1>3

LEMMA GoneBuffer ==
    ASSUME OwnInv, NEW p \in Proc, Gone(p)
    PROVE  name'[p] = None /\ base'[p] = None /\ flags'[p] = {} /\ at'[p] = "ready"
  BY DEF OwnInv, SessionTypeOK, Gone, Goto

LEMMA GoneUpdate ==
    ASSUME OwnInv, NEW p \in Proc, Gone(p)
    PROVE  UpdateInv(p)'
  <1>1. name'[p] = None /\ base'[p] = None /\ flags'[p] = {} /\ at'[p] = "ready"
    BY GoneBuffer
  <1>2. Uses[p] \subseteq File
    BY SessionConstants
  <1> QED
    BY <1>1, <1>2, NoFile
       DEF UpdateInv, TimesInv, AskedInv, PassedInv, NewInv, Has, InSave

(* A step of file_write after the lock does not ask for one.               *)
LEMMA CheckStays ==
    ASSUME OwnInv, NEW p \in Proc, NEW on, Check(p, on)
    PROVE  at'[p] # "lock"
  BY DEF OwnInv, SessionTypeOK, Check, GoAhead, EndSave, Goto, Mark

LEMMA OwnTimes ==
    ASSUME OwnInv, ClockInv, NEW p \in Proc, TimesInv(p), Step(p)
    PROVE  TimesInv(p)'
  <1> USE DEF OwnInv, SessionTypeOK, Goto
  <1>0. \A f \in File : mtime[f] \in Time
    OBVIOUS
  <1>a. CASE Gone(p)
    BY <1>a, GoneUpdate DEF UpdateInv
  <1>1. CASE LockStep(p)
    BY <1>a, <1>1, TimesKept DEF LockStep, session
  <1>2. CASE OpenOld(p) \/ Finish(p)
    <2>1. name'[p] = name[p] /\ at'[p] # "lock" /\ name[p] \in File /\ UNCHANGED <<disk, mtime, clock>>
      BY <1>2 DEF OpenOld, Finish, EndSave, Here, files
    <2>2. base'[p] = base[p] \/ base'[p] = mtime[name[p]]
      BY <1>2 DEF OpenOld, Finish
    <2>3. CASE base'[p] = base[p]
      BY <2>1, <2>3, TimesKept
    <2>4. CASE base'[p] = mtime[name[p]]
      <3>1. mtime[name[p]] <= clock /\ mtime[name[p]] \in Nat
        BY <2>1, SessionConstants DEF ClockInv, Time
      <3> QED
        BY <2>1, <2>4, <3>1 DEF TimesInv, NotLater
    <2> QED
      BY <2>2, <2>3, <2>4
  <1>3. CASE Reading(p) /\ ~OpenOld(p)
    BY <1>3, TimesKept DEF Reading, LoadLocked, Read, OpenNew, Probe, Unprobe
  <1>4. CASE SaveLocked(p) \/ SaveRefused(p)
    BY <1>4, CheckStays, TimesKept DEF SaveLocked, SaveRefused, EndSave
  <1>5. CASE ReplyChanged(p) \/ ReplyBackup(p) \/ OpenFails(p) \/ WriteFails(p) \/ CloseFails(p)
    BY <1>5, TimesKept DEF ReplyChanged, ReplyBackup, OpenFails, WriteFails, CloseFails,
       GoAhead, EndSave
  <1>6. CASE StartBackup(p) \/ Copy(p) \/ CopyShort(p) \/ CopyFails(p) \/ Truncate(p) \/ Write(p)
    BY <1>6, TimesKept DEF StartBackup, Copy, CopyShort, CopyFails, Truncate, Write, files
  <1>7. CASE Request(p)
    <2>1. ASSUME NEW f \in File, Load(p, f) PROVE TimesInv(p)'
      BY <2>1, NoFile DEF Load, TimesInv
    <2>2. ASSUME NEW f \in File, Rename(p, f) PROVE TimesInv(p)'
      <3>1. CASE Has(p, "lstat")
        BY <2>2, <3>1, TimesKept DEF Rename, AskLock, files
      <3>2. CASE ~Has(p, "lstat")
        <4>1. /\ name'[p] = f /\ base'[p] = base[p] /\ at'[p] = "ready" /\ disk'[f] = None
              /\ clock' = clock
          BY <2>2, <3>2 DEF Rename, Renamed, files
        <4> QED
          BY <4>1 DEF TimesInv, NotLater
      <3> QED
        BY <3>1, <3>2
    <2>3. CASE Reread(p)
      BY <2>3, TimesKept DEF Reread, StartRead, AskLock
    <2>4. CASE Kill(p)
      BY <1>a, <2>4 DEF Kill
    <2>5. CASE Edit(p)
      BY <2>5, TimesKept DEF Edit, AskLock, Modify
    <2>6. CASE EditLocked(p) \/ Refused(p)
      BY <2>6, TimesKept DEF EditLocked, Refused, Modify
    <2>7. CASE RenameLocked(p)
      <3>1. /\ name'[p] = goal[p] /\ base'[p] = base[p] /\ at'[p] = "ready" /\ at[p] = "lock"
            /\ UNCHANGED <<disk, mtime, clock>> /\ goal[p] \in File
        BY <2>7 DEF RenameLocked, Renamed, Returned, Here, files
      <3> QED
        BY <3>1 DEF TimesInv, NotLater
    <2>8. CASE Save(p) \/ SaveAll(p)
      <3>1. PICK on : StartSave(p, on)
        BY <2>8 DEF Save, SaveAll
      <3>2. CASE NeedsLock(p)
        BY <3>1, <3>2, TimesKept DEF StartSave, AskLock
      <3>3. CASE ~NeedsLock(p)
        BY <3>1, <3>3, CheckStays, TimesKept DEF StartSave
      <3> QED
        BY <3>2, <3>3
    <2>9. Uses[p] \subseteq File /\ Names[p] \subseteq File
      BY SessionConstants
    <2> QED
      BY <1>7, <2>1, <2>2, <2>3, <2>4, <2>5, <2>6, <2>7, <2>8, <2>9 DEF Request
  <1>8. CASE Ending(p)
    BY <1>a, <1>8, TimesKept DEF Ending, Leave, Terminate, CloseStep, Crash, session
  <1> QED
    BY <1>1, <1>2, <1>3, <1>4, <1>5, <1>6, <1>7, <1>8 DEF Step, Reading, Saving

-----------------------------------------------------------------------------
(* The flags and the reasons for which a lock is asked.                    *)

LEMMA CheckAsked ==
    ASSUME OwnInv, NEW p \in Proc, NEW on \in {{}, {"lstat"}, {"leaving"}}, Check(p, on),
           name[p] \in Uses[p], name'[p] = name[p], base'[p] = base[p],
           Has(p, "lock") => base[p] # None
    PROVE  AskedInv(p)'
  <1>1. at'[p] \in InSave \cup {"ready", "ask", "leave"}
    BY DEF OwnInv, SessionTypeOK, Check, GoAhead, EndSave, Goto, Mark, InSave
  <1>2. "lock" \in flags'[p] => "lock" \in flags[p]
    BY CheckEffect
  <1> QED
    BY <1>1, <1>2 DEF AskedInv, Has, InSave

LEMMA OwnAsked ==
    ASSUME OwnInv, NEW p \in Proc, AskedInv(p), Step(p)
    PROVE  AskedInv(p)'
  <1> USE DEF OwnInv, SessionTypeOK
  <1>a. CASE Gone(p)
    BY <1>a, GoneUpdate DEF UpdateInv
  <1>b. ASSUME at'[p] \in {"ready", "open", "create", "unprobe"},
               base'[p] = base[p] \/ base'[p] # None,
               "lock" \in flags'[p] => "lock" \in flags[p]
        PROVE  AskedInv(p)'
    BY <1>b DEF AskedInv, Has, InSave
  <1>c. CASE UNCHANGED session
    BY <1>c DEF session, AskedInv, Has
  <1>1. CASE LockStep(p)
    BY <1>a, <1>c, <1>1 DEF LockStep
  <1>2. CASE Reading(p)
    <2>1. CASE LoadLocked(p) \/ OpenNew(p) \/ Probe(p) \/ Unprobe(p)
      BY <1>b, <2>1 DEF LoadLocked, OpenNew, Probe, Unprobe, Goto, Mark
    <2>2. CASE OpenOld(p)
      <3>1. at'[p] = "read" /\ base'[p] # None
        BY <2>2, NoTime DEF OpenOld, Goto, Here
      <3> QED
        BY <3>1 DEF AskedInv, InSave
    <2>3. CASE Read(p)
      <3>1. at[p] = "read" /\ at'[p] = "ready" /\ base' = base
        BY <2>3 DEF Read, Goto, Here
      <3> QED
        BY <3>1 DEF AskedInv, InSave
    <2> QED
      BY <1>2, <2>1, <2>2, <2>3 DEF Reading
  <1>3. CASE SaveLocked(p)
    BY <1>3, CheckAsked DEF SaveLocked, Returned, Here, AskedInv
  <1>4. ASSUME name[p] \in Uses[p], name'[p] = name[p],
               at'[p] \in InSave \cup {"ready", "ask", "write", "finish", "leave"},
               base'[p] = base[p] \/ base'[p] # None,
               "lock" \in flags'[p] => "lock" \in flags[p]
        PROVE  AskedInv(p)'
    BY <1>4 DEF AskedInv, Has, InSave
  <1>5. CASE SaveRefused(p)
    <2>1. name[p] \in Uses[p]
      BY <1>5 DEF SaveRefused, Returned, Here, AskedInv
    <2> QED
      BY <1>4, <1>5, <2>1 DEF SaveRefused, EndSave, Goto, Mark
  <1>6. CASE Committed(p)
    <2>1. name[p] \in Uses[p]
      BY <1>6 DEF Committed, ReplyChanged, StartBackup, Copy, CopyShort, CopyFails,
         ReplyBackup, Truncate, OpenFails, Write, WriteFails, CloseFails, Finish, Here, AskedInv, InSave
    <2> USE DEF Goto, Mark, EndSave, InSave
    <2>2. CASE ReplyChanged(p)
      BY <1>4, <2>1, <2>2 DEF ReplyChanged, GoAhead
    <2>3. CASE StartBackup(p) \/ Copy(p) \/ CopyShort(p) \/ CopyFails(p) \/ ReplyBackup(p)
      BY <1>4, <2>1, <2>3 DEF StartBackup, Copy, CopyShort, CopyFails, ReplyBackup
    <2>4. CASE Truncate(p) \/ OpenFails(p) \/ Write(p) \/ WriteFails(p) \/ CloseFails(p)
      BY <1>4, <2>1, <2>4 DEF Truncate, OpenFails, Write, WriteFails, CloseFails
    <2>5. CASE Finish(p)
      <3>1. base'[p] = base[p] \/ base'[p] # None
        BY <2>5, NoTime DEF Finish, Here
      <3>2. /\ at'[p] \in {"ready", "leave"} /\ name'[p] = name[p]
            /\ "lock" \in flags'[p] => "lock" \in flags[p]
        BY <2>5 DEF Finish
      <3> QED
        BY <1>4, <2>1, <3>1, <3>2
    <2> QED
      BY <1>6, <2>2, <2>3, <2>4, <2>5 DEF Committed
  <1>7. CASE Request(p)
    <2> USE DEF Goto, Mark, AskLock
    <2>1. ASSUME at'[p] = "lock", flags'[p] = flags[p], base' = base, name[p] = name'[p],
                 why'[p] = "load" \/ (why'[p] = "rename" /\ goal'[p] \in Names[p])
                    \/ (why'[p] = "edit" /\ Has(p, "lock"))
          PROVE  AskedInv(p)'
      BY <2>1 DEF AskedInv, Has, InSave
    <2>2. ASSUME NEW f, Load(p, f) PROVE AskedInv(p)'
      <3>1. at'[p] = "open" \/ (at'[p] = "lock" /\ why'[p] = "load")
        BY <2>2 DEF Load, StartRead
      <3>2. flags' = flags /\ base' = base
        BY <2>2 DEF Load
      <3> QED
        BY <3>1, <3>2 DEF AskedInv, Has, InSave
    <2>3. ASSUME NEW f \in Names[p], Rename(p, f) PROVE AskedInv(p)'
      <3>1. CASE Has(p, "lstat")
        BY <2>1, <2>3, <3>1 DEF Rename
      <3>2. CASE ~Has(p, "lstat")
        BY <1>b, <2>3, <3>2 DEF Rename, Renamed
      <3> QED
        BY <3>1, <3>2
    <2>4. CASE Reread(p)
      BY <1>b, <2>1, <2>4 DEF Reread, StartRead
    <2>5. CASE Kill(p)
      BY <1>a, <2>5 DEF Kill
    <2>6. CASE Edit(p)
      <3>1. CASE NeedsLock(p)
        BY <2>1, <2>6, <3>1 DEF Edit, NeedsLock
      <3>2. CASE ~NeedsLock(p)
        BY <1>b, <2>6, <3>2 DEF Edit, Modify
      <3> QED
        BY <3>1, <3>2
    <2>7. CASE EditLocked(p)
      BY <1>b, <2>7 DEF EditLocked, Modify
    <2>8. CASE Refused(p) \/ RenameLocked(p)
      BY <1>b, <2>8 DEF Refused, RenameLocked, Renamed
    <2>9. ASSUME NEW on \in {{}, {"leaving"}}, name[p] \in Uses[p], at[p] = "ready",
                 StartSave(p, on)
          PROVE  AskedInv(p)'
      <3>1. CASE NeedsLock(p)
        <4>1. /\ at'[p] = "lock" /\ why'[p] = "save" /\ name'[p] = name[p] /\ base'[p] = base[p]
              /\ "lock" \in flags'[p] <=> "lock" \in flags[p]
          BY <2>9, <3>1 DEF StartSave
        <4> QED
          BY <2>9, <3>1, <4>1 DEF AskedInv, NeedsLock, Has, InSave
      <3>2. CASE ~NeedsLock(p)
        BY <2>9, <3>2, CheckAsked DEF StartSave, AskedInv
      <3> QED
        BY <3>1, <3>2
    <2>10. CASE Save(p) \/ SaveAll(p)
      BY <2>9, <2>10 DEF Save, SaveAll, Here
    <2> QED
      BY <1>7, <2>2, <2>3, <2>4, <2>5, <2>6, <2>7, <2>8, <2>10 DEF Request
  <1>8. CASE Ending(p)
    BY <1>a, <1>c, <1>8 DEF Ending, Leave, Terminate, CloseStep, Crash
  <1> QED
    BY <1>1, <1>2, <1>3, <1>5, <1>6, <1>7, <1>8 DEF Step, Saving, Committed

-----------------------------------------------------------------------------
(* The steps of the others.                                                *)

LEMMA OthersUpdate ==
    ASSUME Context, NEW q \in Proc, ClaimInv(q), Step(q), NEW p \in Proc, p # q, UpdateInv(p)
    PROVE  UpdateInv(p)'
  <1>0. OwnInv
    BY DEF Context, BInv
  <1>1. BufferSame(p) /\ (flags'[p] = flags[p] \/ Unprobe(q))
    BY OthersBuffer
  <1>2. \A g \in {"lock", "agreed"} : g \in flags'[p] <=> g \in flags[p]
    BY <1>0, <1>1 DEF Unprobe, OwnInv, SessionTypeOK
  <1>3. TimesInv(p)'
    BY <1>0, <1>1, TimesKept DEF BufferSame, UpdateInv
  <1>4. AskedInv(p)'
    BY <1>1, <1>2 DEF BufferSame, UpdateInv, AskedInv, Has
  <1>5. ASSUME Mine(p)' PROVE Mine(p) /\ Kept(p)
    <2>1. name[p] \in File
      BY <1>1, <1>5 DEF Mine, BufferSame
    <2> QED
      BY <1>5, <2>1, OthersKeep
  <1>6. ASSUME Mine(p)', Seen(p) PROVE Seen(p)'
    BY <1>1, <1>5, <1>6 DEF Seen, Kept, BufferSame
  <1>7. PassedInv(p)'
    <2> SUFFICES ASSUME at[p] \in InSave, ~Has(p, "agreed"), Mine(p)'
                 PROVE  Seen(p)' \/ mtime'[name[p]] = base[p]
      BY <1>1, <1>2 DEF PassedInv, BufferSame, Has
    <2>1. Seen(p) \/ mtime[name[p]] = base[p]
      BY <1>5 DEF UpdateInv, PassedInv
    <2>2. disk'[name[p]] \in {None, {}} => Seen(p)'
      BY <1>1 DEF Seen, BufferSame
    <2> QED
      BY <1>5, <1>6, <2>1, <2>2 DEF Kept
  <1>8. NewInv(p)'
    BY <1>1, <1>5, <1>6 DEF UpdateInv, NewInv, BufferSame
  <1> QED
    BY <1>3, <1>4, <1>7, <1>8 DEF UpdateInv

-----------------------------------------------------------------------------
(* A step of the process itself.                                           *)

(* A step that takes no new lock for the buffer's file.                    *)
LEMMA MineBack ==
    ASSUME Context, NEW p \in Proc, Step(p), name'[p] = name[p], Mine(p)',
           \A f \in File : L!Holds(p, f)' => L!Holds(p, f)
    PROVE  Mine(p)
  <1>0. OwnInv /\ L!TypeOK /\ LockMove(p)
    BY StepLockMove DEF Context, BInv, Step
  <1>1. name[p] \in File /\ L!Holds(p, name[p])
    BY DEF Mine, L!Holds
  <1> QED
    BY <1>0, <1>1, BoldKept, MarredKept DEF Mine

LEMMA SameHolds ==
    ASSUME NEW p \in Proc, UNCHANGED locks
    PROVE  \A f \in File : L!Holds(p, f)' => L!Holds(p, f)
  BY DEF locks, L!Holds

LEMMA NewKept ==
    ASSUME NEW p \in Proc, NewInv(p), at[p] # "open", ~(at[p] = "lock" /\ why[p] = "load"),
           name'[p] = name[p], base'[p] = base[p], text[p] \subseteq text'[p],
           name[p] \in File => disk'[name[p]] = disk[name[p]], Mine(p)' => Mine(p)
    PROVE  NewInv(p)'
  BY DEF NewInv, Seen, Mine

LEMMA PassedKept ==
    ASSUME NEW p \in Proc, PassedInv(p),
           at'[p] \in InSave => at[p] \in InSave /\ (Has(p, "agreed") => Has(p, "agreed")'),
           name'[p] = name[p], base'[p] = base[p], text'[p] = text[p],
           UNCHANGED <<disk, mtime>>, Mine(p)' => Mine(p)
    PROVE  PassedInv(p)'
  BY DEF PassedInv, Seen

(* buf_diskchanged: a buffer that passes has the time of its file, or has  *)
(* no time and has seen what is there.                                     *)
LEMMA CheckPassed ==
    ASSUME OwnInv, NEW p \in Proc, NEW on \in {{}, {"lstat"}, {"leaving"}}, Check(p, on),
           TimesInv(p), NewInv(p), name[p] \in Uses[p],
           at[p] = "ready" \/ (at[p] = "lock" /\ why[p] = "save"),
           UNCHANGED <<disk, mtime, name, base, text>>, Mine(p)' => Mine(p)
    PROVE  PassedInv(p)'
  <1> USE DEF OwnInv, SessionTypeOK
  <1> SUFFICES ASSUME at'[p] \in InSave, Mine(p)'
               PROVE  Seen(p) \/ mtime[name[p]] = base[p]
    BY DEF PassedInv, Seen
  <1>1. ~DiskChanged(p)
    BY DEF Check, EndSave, GoAhead, Goto, InSave
  <1>2. CASE base[p] = None
    BY <1>2 DEF NewInv
  <1>3. CASE base[p] # None
    <2>1. base[p] <= mtime[name[p]] /\ ~(mtime[name[p]] > base[p])
      BY <1>1, <1>3 DEF DiskChanged, TimesInv, NotLater
    <2>2. mtime[name[p]] \in Nat /\ base[p] \in Nat
      BY <1>3, SessionConstants DEF TimesInv, Time
    <2> QED
      BY <2>1, <2>2
  <1> QED
    BY <1>2, <1>3

LEMMA OwnPassed ==
    ASSUME Context, NEW p \in Proc, UpdateInv(p), Step(p)
    PROVE  PassedInv(p)'
  <1>0. OwnInv
    BY DEF Context, BInv
  <1> USE <1>0 DEF OwnInv, SessionTypeOK, Goto, Mark, Here, Returned
  <1>a. CASE at'[p] \notin InSave
    BY <1>a DEF PassedInv
  <1>b. CASE Gone(p)
    BY <1>b, GoneUpdate DEF UpdateInv
  <1>1. CASE LockStep(p)
    <2>1. CASE UNCHANGED session
      BY <1>1, <1>a, <2>1 DEF LockStep, session, InSave
    <2> QED
      BY <1>1, <1>b, <2>1 DEF LockStep
  <1>2. CASE Reading(p)
    BY <1>2, <1>a DEF Reading, LoadLocked, OpenOld, Read, OpenNew, Probe, Unprobe, InSave
  <1>3. CASE SaveLocked(p)
    <2>1. name[p] \in Uses[p] /\ UNCHANGED locks
      BY <1>3 DEF SaveLocked, UpdateInv, AskedInv
    <2>2. Mine(p)' => Mine(p)
      BY <1>3, <2>1, SameHolds, MineBack DEF SaveLocked
    <2> QED
      BY <1>3, <2>1, <2>2, CheckPassed DEF SaveLocked, UpdateInv, files
  <1>4. ASSUME StartBackup(p) \/ Copy(p) \/ CopyShort(p) \/ CopyFails(p) \/ ReplyBackup(p)
        PROVE PassedInv(p)'
    <2>1. /\ UNCHANGED <<locks, disk, mtime, name, text, base>>
          /\ at[p] \in InSave
      BY <1>4 DEF StartBackup, Copy, CopyShort, CopyFails, ReplyBackup, files, InSave
    <2>2. Mine(p)' => Mine(p)
      BY <2>1, SameHolds, MineBack
    <2>3. at'[p] \in InSave => (Has(p, "agreed") => Has(p, "agreed")')
      BY <1>4 DEF StartBackup, Copy, CopyShort, CopyFails, ReplyBackup, EndSave, Has, InSave
    <2> QED
      BY <2>1, <2>2, <2>3, PassedKept DEF UpdateInv
  <1>5. CASE ReplyChanged(p)
    <2>1. at'[p] \in InSave => Has(p, "agreed")'
      BY <1>5 DEF ReplyChanged, GoAhead, EndSave, Has, InSave
    <2> QED
      BY <2>1 DEF PassedInv
  <1>6. CASE Saving(p) /\ ~SaveLocked(p) /\ ~ReplyChanged(p)
    <2>1. CASE SaveRefused(p) \/ OpenFails(p) \/ WriteFails(p) \/ Finish(p)
      BY <1>a, <2>1 DEF SaveRefused, OpenFails, WriteFails, Finish, EndSave, InSave
    <2>2. CASE Truncate(p) \/ Write(p) \/ CloseFails(p)
      BY <1>a, <2>2 DEF Truncate, Write, CloseFails, InSave
    <2> QED
      BY <1>4, <1>6, <2>1, <2>2 DEF Saving
  <1>7. CASE Request(p)
    <2>1. CASE Save(p) \/ SaveAll(p)
      <3>1. PICK on \in {{}, {"leaving"}} : StartSave(p, on)
        BY <2>1 DEF Save, SaveAll
      <3>2. CASE NeedsLock(p)
        BY <1>a, <3>1, <3>2 DEF StartSave, AskLock, InSave
      <3>3. CASE ~NeedsLock(p)
        <4>1. /\ Check(p, on) /\ UNCHANGED <<locks, files, name, text, base>>
          BY <3>1, <3>3 DEF StartSave
        <4>2. Mine(p)' => Mine(p)
          BY <4>1, SameHolds, MineBack
        <4>3. name[p] \in Uses[p] /\ at[p] = "ready"
          BY <2>1 DEF Save, SaveAll
        <4> QED
          BY <4>1, <4>2, <4>3, CheckPassed DEF UpdateInv, files
      <3> QED
        BY <3>2, <3>3
    <2>2. ASSUME NEW f, Load(p, f) \/ Rename(p, f) PROVE PassedInv(p)'
      BY <1>a, <2>2 DEF Load, StartRead, AskLock, Rename, Renamed, InSave
    <2>3. CASE Reread(p) \/ Edit(p) \/ EditLocked(p) \/ Refused(p) \/ RenameLocked(p)
      BY <1>a, <2>3 DEF Reread, StartRead, AskLock, Edit, Modify, EditLocked, Refused,
         RenameLocked, Renamed, InSave
    <2>4. CASE Kill(p)
      BY <1>b, <2>4 DEF Kill
    <2> QED
      BY <1>7, <2>1, <2>2, <2>3, <2>4 DEF Request
  <1>8. CASE Ending(p)
    <2>1. CASE CloseStep(p)
      <3>1. at'[p] = "ready"
        BY <2>1 DEF Context, BInv, CloseStep, session, BufferInv, CallInv, L!CloseStep,
           L!CloseEnd, L!At
      <3> QED
        BY <1>a, <3>1 DEF InSave
    <2> QED
      BY <1>8, <1>b, <2>1 DEF Ending, Leave, Terminate, Crash
  <1> QED
    BY <1>1, <1>2, <1>3, <1>5, <1>6, <1>7, <1>8 DEF Step

LEMMA OwnNew ==
    ASSUME NamesApart, Context, NEW p \in Proc, UpdateInv(p), Step(p)
    PROVE  NewInv(p)'
  <1>0. OwnInv /\ L!TypeOK /\ BufferInv(p) /\ AskedInv(p) /\ NewInv(p)
    BY DEF Context, BInv, UpdateInv
  <1> USE <1>0 DEF OwnInv, SessionTypeOK, Goto, Mark, Here, Returned
  <1>a. CASE Gone(p)
    BY <1>a, GoneUpdate DEF UpdateInv
  <1>b. CASE at'[p] = "open" \/ (at'[p] = "lock" /\ why'[p] = "load")
    BY <1>b DEF NewInv
  <1>c. CASE name'[p] \in Names[p]
    BY <1>c DEF NewInv, NamesApart
  <1>d. CASE base'[p] # None
    BY <1>d DEF NewInv
  <1>e. ASSUME UNCHANGED locks, at[p] # "open", ~(at[p] = "lock" /\ why[p] = "load"),
               name'[p] = name[p], base'[p] = base[p], text[p] \subseteq text'[p], disk' = disk
        PROVE  NewInv(p)'
    <2>1. Mine(p)' => Mine(p)
      BY <1>e, SameHolds, MineBack
    <2> QED
      BY <1>e, <2>1, NewKept
  <1>f. ASSUME name[p] \in File => disk'[name[p]] \in {None, {}}, name'[p] = name[p]
        PROVE  NewInv(p)'
    BY <1>f DEF NewInv, Seen, Mine
  <1>1. CASE LockStep(p)
    <2>1. CASE UNCHANGED session
      <3>1. at[p] = "lock" /\ (L!Step(p) \/ L!Answer(p)) /\ disk' = disk
        BY <1>1 DEF LockStep, files
      <3>2. pc[p] \notin {"idle", "closing"} /\ file[p] = goal[p]
        BY <3>1, CallEffect DEF BufferInv, CallInv
      <3>3. \A f \in File : f # goal[p] => (L!Holds(p, f)' => L!Holds(p, f))
        BY <3>1, <3>2, CallEffect DEF Stays, Returns, Exits, Dies, L!Holds
      <3>4. CASE why[p] = "load"
        BY <1>b, <2>1, <3>1, <3>4 DEF session
      <3>5. CASE why[p] \in {"edit", "save"}
        BY <1>d, <2>1, <3>1, <3>5 DEF AskedInv, session
      <3>6. CASE why[p] = "rename"
        <4>1. goal[p] \in Names[p]
          BY <3>1, <3>6 DEF AskedInv
        <4>2. ASSUME name[p] \in Uses[p], Mine(p)' PROVE Mine(p)
          <5>1. name[p] # goal[p] /\ name[p] \in File
            BY <4>1, <4>2, SessionConstants DEF NamesApart
          <5>2. L!Holds(p, name[p])
            BY <2>1, <3>3, <4>2, <5>1 DEF Mine, session, L!Holds
          <5> QED
            BY <2>1, <4>2, <5>1, <5>2, BoldKept, MarredKept, StepLockMove
               DEF Mine, session, Step
        <4> QED
          BY <2>1, <3>1, <3>6, <4>2 DEF NewInv, session, Seen
      <3> QED
        BY <3>4, <3>5, <3>6
    <2> QED
      BY <1>1, <1>a, <2>1 DEF LockStep
  <1>2. CASE Reading(p)
    <2>1. CASE LoadLocked(p)
      BY <1>b, <2>1 DEF LoadLocked
    <2>2. CASE OpenOld(p)
      BY <1>d, <2>2, NoTime DEF OpenOld
    <2>3. CASE Read(p)
      BY <1>d, <2>3 DEF Read, AskedInv
    <2>4. CASE OpenNew(p) \/ Probe(p) \/ Unprobe(p)
      BY <1>f, <2>4 DEF OpenNew, Probe, Unprobe, files
    <2> QED
      BY <1>2, <2>1, <2>2, <2>3, <2>4 DEF Reading
  <1>3. CASE Saving(p)
    <2>1. CASE SaveLocked(p) \/ SaveRefused(p) \/ ReplyChanged(p) \/ ReplyBackup(p)
      BY <1>e, <2>1 DEF SaveLocked, SaveRefused, ReplyChanged, ReplyBackup, files
    <2>2. CASE StartBackup(p) \/ Copy(p) \/ CopyShort(p) \/ CopyFails(p)
      BY <1>e, <2>2 DEF StartBackup, Copy, CopyShort, CopyFails, files
    <2>3. CASE OpenFails(p) \/ WriteFails(p) \/ CloseFails(p)
      BY <1>e, <2>3 DEF OpenFails, WriteFails, CloseFails, files
    <2>4. CASE Truncate(p)
      BY <1>f, <2>4 DEF Truncate
    <2>5. CASE Write(p)
      <3>1. CASE Has(p, "adrift")
        BY <1>e, <2>5, <3>1 DEF Write
      <3>2. CASE ~Has(p, "adrift")
        BY <2>5, <3>2 DEF Write, NewInv, Seen
      <3> QED
        BY <3>1, <3>2
    <2>6. CASE Finish(p)
      <3>1. CASE disk[name[p]] = None
        BY <1>e, <2>6, <3>1 DEF Finish, files
      <3>2. CASE disk[name[p]] # None
        BY <1>d, <2>6, <3>2, NoTime DEF Finish
      <3> QED
        BY <3>1, <3>2
    <2> QED
      BY <1>3, <2>1, <2>2, <2>3, <2>4, <2>5, <2>6 DEF Saving
  <1>4. CASE Request(p)
    <2>1. ASSUME NEW f, Load(p, f) PROVE NewInv(p)'
      BY <1>b, <2>1 DEF Load, StartRead, AskLock
    (* A lock asked for: nothing changes but where p is.                   *)
    <2>a. ASSUME NEW f \in File, NEW w, AskLock(p, f, w), at[p] = "ready", name'[p] = name[p],
                 base'[p] = base[p], text'[p] = text[p], disk' = disk
          PROVE  NewInv(p)'
      <3>1. status' = status
        BY <2>a DEF AskLock, L!SetNew, L!SetAgain, L!node
      <3>2. Mine(p)' => Mine(p)
        BY <2>a, <3>1, MineBack DEF L!Holds
      <3> QED
        BY <2>a, <3>2, NewKept
    <2>2. ASSUME NEW f \in Names[p], Rename(p, f) PROVE NewInv(p)'
      <3>1. CASE Has(p, "lstat")
        BY <2>2, <2>a, <3>1, SessionConstants DEF Rename, files
      <3>2. CASE ~Has(p, "lstat")
        BY <1>c, <2>2, <3>2 DEF Rename, Renamed
      <3> QED
        BY <3>1, <3>2
    <2>3. CASE Reread(p)
      BY <1>b, <2>3 DEF Reread, StartRead, AskLock
    <2>4. CASE Kill(p)
      BY <1>a, <2>4 DEF Kill
    <2>5. CASE Edit(p)
      <3>1. name[p] \in File
        BY <2>5, SessionConstants DEF Edit
      <3>2. CASE NeedsLock(p)
        BY <2>5, <2>a, <3>1, <3>2 DEF Edit, files
      <3>3. CASE ~NeedsLock(p)
        BY <1>e, <2>5, <3>3 DEF Edit, Modify, files
      <3> QED
        BY <3>2, <3>3
    <2>6. CASE EditLocked(p) \/ Refused(p)
      BY <1>e, <2>6 DEF EditLocked, Modify, Refused, files
    <2>7. CASE RenameLocked(p)
      BY <1>c, <2>7 DEF RenameLocked, Renamed, AskedInv
    <2>8. CASE Save(p) \/ SaveAll(p)
      <3>1. PICK on : StartSave(p, on)
        BY <2>8 DEF Save, SaveAll
      <3>2. name[p] \in File /\ at[p] = "ready"
        BY <2>8, SessionConstants DEF Save, SaveAll
      <3>3. CASE NeedsLock(p)
        BY <2>a, <3>1, <3>2, <3>3 DEF StartSave, files
      <3>4. CASE ~NeedsLock(p)
        BY <1>e, <3>1, <3>2, <3>4 DEF StartSave, files
      <3> QED
        BY <3>3, <3>4
    <2> QED
      BY <1>4, <2>1, <2>2, <2>3, <2>4, <2>5, <2>6, <2>7, <2>8 DEF Request
  <1>5. CASE Ending(p)
    <2>1. CASE CloseStep(p)
      <3>1. \A f \in File : L!Holds(p, f)' => L!Holds(p, f)
        BY <2>1 DEF CloseStep, L!CloseStep, L!CloseEnd, L!Release, L!node, L!Holds, L!TypeOK
      <3>2. at[p] = "ready" /\ UNCHANGED <<session, disk>>
        BY <2>1 DEF CloseStep, files, BufferInv, CallInv, L!CloseStep, L!CloseEnd, L!At
      <3>3. Mine(p)' => Mine(p)
        BY <3>1, <3>2, MineBack DEF session
      <3> QED
        BY <3>2, <3>3, NewKept DEF session
    <2> QED
      BY <1>5, <1>a, <2>1 DEF Ending, Leave, Terminate, Crash
  <1> QED
    BY <1>1, <1>2, <1>3, <1>4, <1>5 DEF Step

-----------------------------------------------------------------------------
LEMMA StepUpdates ==
    ASSUME NamesApart, Context, ClockInv, \A p \in Proc : ClaimInv(p) /\ UpdateInv(p), [Next]_vars
    PROVE  ClockInv' /\ \A p \in Proc : UpdateInv(p)'
  <1>0. OwnInv
    BY DEF Context, BInv
  <1>1. ClockInv'
    BY <1>0, StepClock
  <1> SUFFICES ASSUME NEW p \in Proc PROVE UpdateInv(p)'
    BY <1>1
  <1>2. CASE UNCHANGED vars \/ Tick
    <2>1. UNCHANGED <<locks, files, session>> /\ (clock' = clock \/ clock' = clock + 1)
      BY <1>2 DEF vars, Tick
    <2>2. TimesInv(p)'
      <3>1. clock \in Nat /\ (base[p] # None => base[p] \in Nat)
        BY <1>0, SessionConstants DEF OwnInv, SessionTypeOK, Time
      <3>2. base[p] # None => base[p] <= clock'
        BY <2>1, <3>1 DEF UpdateInv, TimesInv
      <3> QED
        BY <2>1, <3>2 DEF session, files, UpdateInv, TimesInv, NotLater
    <2>3. AskedInv(p)'
      BY <2>1 DEF session, UpdateInv, AskedInv, Has
    <2>4. PassedInv(p)' /\ NewInv(p)'
      BY <2>1 DEF locks, files, session, UpdateInv, PassedInv, NewInv, Seen, Mine, Has, L!Holds
    <2> QED
      BY <2>2, <2>3, <2>4 DEF UpdateInv
  <1>3. ASSUME NEW q \in Proc, Step(q) PROVE UpdateInv(p)'
    <2>1. CASE q = p
      BY <1>0, <1>3, <2>1, OwnTimes, OwnAsked, OwnPassed, OwnNew DEF UpdateInv
    <2>2. CASE q # p
      BY <1>3, <2>2, OthersUpdate
    <2> QED
      BY <2>1, <2>2
  <1> QED
    BY <1>2, <1>3 DEF Next, Step

LEMMA InitUpdates == Init => ClockInv /\ \A p \in Proc : UpdateInv(p)
  <1> SUFFICES ASSUME Init PROVE ClockInv /\ \A p \in Proc : UpdateInv(p)
    OBVIOUS
  <1>1. ClockInv
    BY DEF Init, ClockInv
  <1>2. ASSUME NEW p \in Proc PROVE UpdateInv(p)
    <2>1. name[p] = None /\ base[p] = None /\ at[p] = "ready" /\ flags[p] = {}
      BY DEF Init
    <2>2. name[p] \notin Uses[p]
      BY <2>1, NoFile, SessionConstants
    <2> QED
      BY <2>1, <2>2 DEF UpdateInv, TimesInv, AskedInv, PassedInv, NewInv, Has, InSave
  <1> QED
    BY <1>1, <1>2

LEMMA Updates == ASSUME NamesApart PROVE Spec => [](ClockInv /\ \A p \in Proc : UpdateInv(p))
  <1>1. /\ ClockInv /\ \A p \in Proc : UpdateInv(p)
        /\ Context /\ (\A p \in Proc : SaveInv(p)) /\ [Next]_vars
        => (ClockInv /\ \A p \in Proc : UpdateInv(p))'
    BY StepUpdates DEF SaveInv
  <1> QED
    BY <1>1, InitUpdates, InContext, Saves, PTL DEF Spec

(* Only open() with O_TRUNC takes a save to the write.                     *)
LEMMA WriteStarts ==
    ASSUME OwnInv, NEW p \in Proc, [Next]_vars, at[p] = "truncate", at'[p] = "write"
    PROVE  Truncate(p)
  <1> USE DEF OwnInv, SessionTypeOK, Goto, Mark, Here, Returned
  <1>1. CASE UNCHANGED vars \/ Tick
    BY <1>1 DEF vars, Tick, session
  <1>2. ASSUME NEW q \in Proc, Step(q), q # p PROVE FALSE
    BY <1>2, OthersSessionSame DEF Step, SessionSame
  <1>3. CASE Step(p)
    <2>1. ~LockStep(p) /\ ~Reading(p)
      BY DEF LockStep, Reading, LoadLocked, OpenOld, Read, OpenNew, Probe, Unprobe
    <2>2. CASE Saving(p)
      BY <2>2 DEF Saving, SaveLocked, SaveRefused, ReplyChanged, StartBackup, Copy, CopyShort,
         CopyFails,
         ReplyBackup, OpenFails, EndSave, Write, WriteFails, CloseFails, Finish
    <2>3. ~Request(p)
      BY DEF Request, Load, Rename, Reread, Kill, Edit, EditLocked, Refused, RenameLocked, Save,
         SaveAll, Gone
    <2>4. ~Ending(p)
      BY DEF Ending, Leave, Terminate, Crash, CloseStep, Gone, session
    <2> QED
      BY <1>3, <2>1, <2>2, <2>3, <2>4 DEF Step
  <1> QED
    BY <1>1, <1>2, <1>3 DEF Next, Step

(* No save under its lock overwrites, unasked, a modification its buffer   *)
(* lacks: buf_diskchanged finds the file as the buffer knows it, or the    *)
(* buffer has seen what is there, and from the lock until the truncation   *)
(* nobody else writes.                                                     *)
THEOREM NoUpdateLost == ASSUME NamesApart PROVE Spec => NoLostUpdate
  <1> DEFINE Sound(p) ==
        LET f == name[p] IN
        /\ at[p] = "truncate" /\ at'[p] = "write"
        /\ disk[f] # None /\ ~Has(p, "agreed")
        /\ ~bold'[f] /\ ~marred[f]
        => disk[f] \subseteq text[p] \/ mtime[f] = base[p]
  <1>1. Context /\ (\A p \in Proc : UpdateInv(p)) /\ [Next]_vars
        => [\A p \in Proc : Sound(p)]_vars
    <2> SUFFICES ASSUME Context, \A p \in Proc : UpdateInv(p), [Next]_vars, NEW p \in Proc,
                        at[p] = "truncate", at'[p] = "write", disk[name[p]] # None,
                        ~Has(p, "agreed"), ~bold'[name[p]], ~marred[name[p]]
                 PROVE  disk[name[p]] \subseteq text[p] \/ mtime[name[p]] = base[p]
      OBVIOUS
    <2>1. OwnInv /\ name[p] \in File
      BY DEF Context, BInv, OwnInv, SessionTypeOK
    <2>2. Truncate(p)
      BY <2>1, WriteStarts
    <2>3. L!Holds(p, name[p]) /\ ~bold[name[p]]
      BY <2>1, <2>2 DEF Truncate, OwnInv, SessionTypeOK
    <2>4. Mine(p)
      BY <2>1, <2>3 DEF Mine
    <2> QED
      BY <2>4 DEF UpdateInv, PassedInv, Seen, InSave
  <1> QED
    BY <1>1, InContext, Updates, PTL DEF Spec, NoLostUpdate
=============================================================================
