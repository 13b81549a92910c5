--------------------------- MODULE Session_proofs ---------------------------
(* Proofs about Session, for any processes, files, hosts and bounds.       *)
EXTENDS Session, TLAPS

(* The theorems about the lock, for the lock that the sessions share.      *)
P == INSTANCE FileLock_proofs WITH MaxBoot <- 0

(* A file that p has open and that was not removed is there to be read.    *)
OpenInv ==
    \A p \in Proc :
        at[p] = "read" /\ "adrift" \notin flags[p] => disk[name[p]] # None

OwnInv == SessionTypeOK /\ OpenInv

-----------------------------------------------------------------------------
LEMMA InitOwn == Init => OwnInv
  <1> SUFFICES ASSUME Init PROVE OwnInv
    OBVIOUS
  <1>1. {0} \in Text /\ {} \in Text /\ 0 \in Time
    BY SessionConstants DEF Text, Time
  <1>2. disk \in [File -> {None} \cup Text]
    BY <1>1 DEF Init
  <1>3. None \notin Text /\ edits \in 0..MaxEdits /\ clock \in Time
    BY SessionConstants DEF Init, Text, Time
  <1>4. SessionTypeOK
    BY <1>1, <1>2, <1>3 DEF Init, SessionTypeOK, Label
  <1>5. OpenInv
    BY DEF Init, OpenInv
  <1> QED
    BY <1>4, <1>5 DEF OwnInv

(* A step of file_write up to the truncation only moves p on and changes   *)
(* its flags.                                                              *)
Moves(p) ==
    \E l \in Label \ {"read", "lock"}, on \in SUBSET Flag, off \in SUBSET Flag :
        Goto(p, l) /\ Mark(p, on, off)

LEMMA EndSaveMoves ==
    ASSUME NEW p \in Proc, NEW ok, NEW on \in SUBSET Flag, NEW off \in SUBSET Flag,
           EndSave(p, ok, on, off)
    PROVE  Moves(p)
  <1> DEFINE exits == ok /\ Has(p, "leaving")
             l == IF exits THEN "leave" ELSE "ready"
             more == off \cup IF exits THEN {} ELSE {"agreed", "copied", "shaky", "leaving"}
  <1>1. Goto(p, l) /\ Mark(p, on, more)
    BY DEF EndSave
  <1>2. l \in Label \ {"read", "lock"} /\ more \in SUBSET Flag
    BY DEF Label, Flag
  <1> QED
    BY <1>1, <1>2 DEF Moves

LEMMA GoAheadMoves ==
    ASSUME NEW p \in Proc, NEW on \in SUBSET Flag, GoAhead(p, on)
    PROVE  Moves(p)
  <1> DEFINE l == IF Has(p, "backup") THEN "backup" ELSE "truncate"
  <1>1. Goto(p, l) /\ Mark(p, on, {"new"})
    BY DEF GoAhead
  <1>2. l \in Label \ {"read", "lock"} /\ {"new"} \in SUBSET Flag
    BY DEF Label, Flag
  <1> QED
    BY <1>1, <1>2 DEF Moves

LEMMA CheckMoves ==
    ASSUME NEW p \in Proc, NEW on \in SUBSET Flag, Check(p, on)
    PROVE  Moves(p)
  <1>1. ASSUME Goto(p, "ask"), Mark(p, on, {}) PROVE Moves(p)
    <2>1. "ask" \in Label \ {"read", "lock"} /\ {} \in SUBSET Flag
      BY DEF Label
    <2> QED
      BY <1>1, <2>1 DEF Moves
  <1>2. {} \in SUBSET Flag
    OBVIOUS
  <1> QED
    BY <1>1, <1>2, EndSaveMoves, GoAheadMoves DEF Check

LEMMA MovesOwn ==
    ASSUME OwnInv, NEW p \in Proc, name[p] \in File, Moves(p),
           UNCHANGED <<files, name, text, base, clock, edits>>,
           why' = why \/ why' = [why EXCEPT ![p] = "load"],
           goal' = goal \/ goal' = [goal EXCEPT ![p] = None]
    PROVE  OwnInv'
  <1> PICK l \in Label \ {"read", "lock"}, on \in SUBSET Flag, off \in SUBSET Flag :
           Goto(p, l) /\ Mark(p, on, off)
    BY DEF Moves
  <1>1. SessionTypeOK'
    BY DEF OwnInv, SessionTypeOK, Goto, Mark, files
  <1>2. OpenInv'
    BY DEF OwnInv, SessionTypeOK, OpenInv, Goto, Mark, files
  <1> QED
    BY <1>1, <1>2 DEF OwnInv

LEMMA AskLockOwn ==
    ASSUME OwnInv, NEW p \in Proc, name[p] \in File, NEW f \in File,
           NEW w \in {"load", "edit", "save", "rename"}, AskLock(p, f, w),
           NEW on \in SUBSET Flag, Mark(p, on, {}),
           UNCHANGED <<files, name, text, base, clock, edits>>
    PROVE  OwnInv'
  <1>1. SessionTypeOK'
    BY DEF OwnInv, SessionTypeOK, AskLock, Goto, Mark, Label, files
  <1>2. OpenInv'
    BY DEF OwnInv, SessionTypeOK, OpenInv, AskLock, Goto, Mark, files
  <1> QED
    BY <1>1, <1>2 DEF OwnInv

LEMMA StartSaveOwn ==
    ASSUME OwnInv, NEW p \in Proc, name[p] \in File, NEW on \in SUBSET Flag,
           StartSave(p, on)
    PROVE  OwnInv'
  <1>1. CASE NeedsLock(p)
    BY <1>1, AskLockOwn DEF StartSave
  <1>2. CASE ~NeedsLock(p)
    BY <1>2, CheckMoves, MovesOwn DEF StartSave
  <1> QED
    BY <1>1, <1>2

LEMMA ModifyOwn ==
    ASSUME OwnInv, NEW p \in Proc, NEW on \in SUBSET Flag, Modify(p, on),
           UNCHANGED <<files, name, base, clock>>,
           why' = why \/ why' = [why EXCEPT ![p] = "load"],
           goal' = goal \/ goal' = [goal EXCEPT ![p] = None]
    PROVE  OwnInv'
  <1>1. edits' \in 0..MaxEdits /\ text' \in [Proc -> Text]
    BY SessionConstants DEF OwnInv, SessionTypeOK, Modify, Text
  <1>2. /\ at' \in [Proc -> Label] /\ at'[p] = "ready"
        /\ \A q \in Proc : q # p => at'[q] = at[q]
        /\ flags' \in [Proc -> SUBSET Flag]
        /\ \A q \in Proc : q # p => flags'[q] = flags[q]
    BY DEF OwnInv, SessionTypeOK, Modify, Goto, Mark, Label, Flag
  <1>3. SessionTypeOK'
    BY <1>1, <1>2 DEF OwnInv, SessionTypeOK, files
  <1>4. OpenInv'
    BY <1>2 DEF OwnInv, SessionTypeOK, OpenInv, files
  <1> QED
    BY <1>3, <1>4 DEF OwnInv

LEMMA GoneOwn ==
    ASSUME OwnInv, NEW p \in Proc, Gone(p), UNCHANGED <<files, clock, edits>>
    PROVE  OwnInv'
  <1>1. {} \in Text
    BY SessionConstants DEF Text
  <1>2. SessionTypeOK'
    BY <1>1 DEF OwnInv, SessionTypeOK, Gone, Goto, Label, files
  <1>3. OpenInv'
    BY DEF OwnInv, SessionTypeOK, OpenInv, Gone, Goto, files
  <1> QED
    BY <1>2, <1>3 DEF OwnInv

LEMMA LockStepOwn ==
    ASSUME OwnInv, NEW p \in Proc, LockStep(p)
    PROVE  OwnInv'
  <1>1. CASE UNCHANGED session
    BY <1>1 DEF LockStep, OwnInv, SessionTypeOK, OpenInv, session, files
  <1>2. CASE Gone(p)
    BY <1>2, GoneOwn DEF LockStep
  <1> QED
    BY <1>1, <1>2 DEF LockStep

LEMMA ReadingOwn ==
    ASSUME OwnInv, NEW p \in Proc, Reading(p)
    PROVE  OwnInv'
  <1> USE SessionConstants
      DEF OwnInv, SessionTypeOK, OpenInv, Text, Label, Flag, Goto, Here, Has, Mark
  <1>1. CASE LoadLocked(p)
    BY <1>1 DEF LoadLocked, Returned, Resume, files
  <1>2. CASE OpenOld(p)
    BY <1>2 DEF OpenOld, files
  <1>3. CASE Read(p)
    BY <1>3 DEF Read, Handle, files
  <1>4. CASE Probe(p)
    BY <1>4 DEF Probe, Time
  <1>5. CASE Unprobe(p)
    BY <1>5 DEF Unprobe, Time
  <1>6. CASE OpenNew(p)
    BY <1>6 DEF OpenNew, files
  <1> QED
    BY <1>1, <1>2, <1>3, <1>4, <1>5, <1>6 DEF Reading

LEMMA LoadOwn ==
    ASSUME OwnInv, NEW p \in Proc, NEW f \in File, Load(p, f)
    PROVE  OwnInv'
  <1>1. name' \in [Proc -> File \cup {None}] /\ name'[p] = f
    BY DEF OwnInv, SessionTypeOK, Load
  <1>2. \A q \in Proc : q # p => name'[q] = name[q] /\ at'[q] = at[q] /\ goal'[q] = goal[q]
    BY DEF OwnInv, SessionTypeOK, Load, StartRead, AskLock, Goto
  <1>3. /\ at' \in [Proc -> Label] /\ at'[p] \in {"lock", "open"}
        /\ why' \in [Proc -> {"load", "edit", "save", "rename"}]
        /\ goal' \in [Proc -> File \cup {None}] /\ (at'[p] = "lock" => goal'[p] = f)
    <2>1. CASE p \in Strict
      BY <2>1 DEF OwnInv, SessionTypeOK, Load, StartRead, AskLock, Goto, Label
    <2>2. CASE p \notin Strict
      BY <2>2 DEF OwnInv, SessionTypeOK, Load, StartRead, Goto, Label
    <2> QED
      BY <2>1, <2>2
  <1>4. SessionTypeOK'
    BY <1>1, <1>2, <1>3 DEF OwnInv, SessionTypeOK, Load, files
  <1>5. OpenInv'
    BY <1>2, <1>3 DEF OwnInv, OpenInv, Load, files
  <1> QED
    BY <1>4, <1>5 DEF OwnInv

(* A lock is asked for, and the flags stay.                                *)
LEMMA AskOnlyOwn ==
    ASSUME OwnInv, NEW p \in Proc, name[p] \in File, NEW f \in File,
           NEW w \in {"load", "edit", "save", "rename"}, AskLock(p, f, w),
           UNCHANGED <<files, name, text, base, flags, clock, edits>>
    PROVE  OwnInv'
  <1>1. Mark(p, {}, {}) /\ {} \in SUBSET Flag
    BY DEF OwnInv, SessionTypeOK, Mark
  <1> QED
    BY <1>1, AskLockOwn

LEMMA RenameOwn ==
    ASSUME OwnInv, NEW p \in Proc, NEW f \in File, Rename(p, f)
    PROVE  OwnInv'
  <1>0. name[p] \in File
    BY DEF OwnInv, SessionTypeOK, Rename
  <1>1. CASE Has(p, "lstat")
    BY <1>0, <1>1, AskOnlyOwn DEF Rename
  <1>2. CASE ~Has(p, "lstat")
    <2>1. /\ name' = [name EXCEPT ![p] = f] /\ Goto(p, "ready") /\ Mark(p, {"new"}, {"backup"})
          /\ UNCHANGED <<files, why, goal, text, base, clock, edits>>
      BY <1>2 DEF Rename, Renamed
    <2>2. SessionTypeOK'
      BY <2>1 DEF OwnInv, SessionTypeOK, Goto, Mark, Label, Flag, files
    <2>3. OpenInv'
      BY <2>1 DEF OwnInv, SessionTypeOK, OpenInv, Goto, Mark, files
    <2> QED
      BY <2>2, <2>3 DEF OwnInv
  <1> QED
    BY <1>1, <1>2

LEMMA RereadOwn ==
    ASSUME OwnInv, NEW p \in Proc, name[p] \in File, Reread(p)
    PROVE  OwnInv'
  <1>1. CASE p \in Strict
    BY <1>1, AskOnlyOwn DEF Reread, StartRead
  <1>2. CASE p \notin Strict
    <2>1. Goto(p, "open") /\ UNCHANGED <<files, why, goal, name, text, base, flags, clock, edits>>
      BY <1>2 DEF Reread, StartRead
    <2>2. SessionTypeOK'
      BY <2>1 DEF OwnInv, SessionTypeOK, Goto, Label, files
    <2>3. OpenInv'
      BY <2>1 DEF OwnInv, SessionTypeOK, OpenInv, Goto, files
    <2> QED
      BY <2>2, <2>3 DEF OwnInv
  <1> QED
    BY <1>1, <1>2

LEMMA RequestOwn ==
    ASSUME OwnInv, NEW p \in Proc, Request(p)
    PROVE  OwnInv'
  <1> USE SessionConstants
      DEF OwnInv, SessionTypeOK, OpenInv, Text, Label, Flag, Goto, Here, Has, Mark, files
  <1>1. ASSUME NEW f \in Uses[p] \cup Names[p], Load(p, f) PROVE OwnInv'
    <2>1. f \in File
      OBVIOUS
    <2> HIDE DEF OwnInv, SessionTypeOK, OpenInv
    <2> QED
      BY <1>1, <2>1, LoadOwn
  <1>2. ASSUME NEW f \in Names[p], Rename(p, f) PROVE OwnInv'
    <2>1. f \in File
      OBVIOUS
    <2> HIDE DEF OwnInv, SessionTypeOK, OpenInv
    <2> QED
      BY <1>2, <2>1, RenameOwn
  <1>3. CASE Reread(p)
    <2>1. name[p] \in File
      BY <1>3 DEF Reread
    <2> HIDE DEF OwnInv, SessionTypeOK, OpenInv
    <2> QED
      BY <1>3, <2>1, RereadOwn
  <1>4. CASE Kill(p)
    BY <1>4 DEF Kill, Gone
  <1>5. CASE Edit(p)
    <2>0. name[p] \in File /\ {} \in SUBSET Flag
      BY <1>5 DEF Edit
    <2>1. CASE NeedsLock(p)
      <3>1. Mark(p, {}, {})
        BY <1>5, <2>1 DEF Edit
      <3> HIDE DEF OwnInv, Mark
      <3> QED
        BY <1>5, <2>0, <2>1, <3>1, AskLockOwn DEF Edit
    <2>2. CASE ~NeedsLock(p)
      <3> HIDE DEF OwnInv
      <3> QED
        BY <1>5, <2>0, <2>2, ModifyOwn DEF Edit
    <2> QED
      BY <2>1, <2>2
  <1>6. CASE EditLocked(p)
    <2>1. {"lstat"} \in SUBSET Flag
      BY DEF Flag
    <2> HIDE DEF OwnInv
    <2> QED
      BY <1>6, <2>1, ModifyOwn DEF EditLocked, Resume
  <1>7. CASE Refused(p)
    BY <1>7 DEF Refused, Returned, Resume
  <1>8. CASE RenameLocked(p)
    BY <1>8 DEF RenameLocked, Renamed, Returned, Resume
  <1>9. CASE Save(p)
    <2>1. name[p] \in File /\ {} \in SUBSET Flag
      BY <1>9 DEF Save
    <2> HIDE DEF OwnInv
    <2> QED
      BY <1>9, <2>1, StartSaveOwn DEF Save
  <1>10. CASE SaveAll(p)
    <2>1. name[p] \in File /\ {"leaving"} \in SUBSET Flag
      BY <1>10 DEF SaveAll
    <2> HIDE DEF OwnInv
    <2> QED
      BY <1>10, <2>1, StartSaveOwn DEF SaveAll
  <1> QED
    BY <1>1, <1>2, <1>3, <1>4, <1>5, <1>6, <1>7, <1>8, <1>9, <1>10 DEF Request

LEMMA SavingOwn ==
    ASSUME OwnInv, NEW p \in Proc, Saving(p)
    PROVE  OwnInv'
  <1> USE SessionConstants
      DEF OwnInv, SessionTypeOK, OpenInv, Text, Time, Label, Flag, Goto, Here, Has, Mark,
          EndSave, files
  <1>1. CASE SaveLocked(p)
    <2>1. name[p] \in File /\ {"lstat"} \in SUBSET Flag
      BY <1>1 DEF SaveLocked, Returned
    <2>2. Moves(p)
      BY <1>1, <2>1, CheckMoves DEF SaveLocked
    <2> HIDE DEF OwnInv, files
    <2> QED
      BY <1>1, <2>1, <2>2, MovesOwn DEF SaveLocked, Resume
  <1>2. CASE SaveRefused(p)
    BY <1>2 DEF SaveRefused, Returned, Resume
  <1>3. CASE ReplyChanged(p)
    <2>1. name[p] \in File /\ {"agreed"} \in SUBSET Flag /\ {} \in SUBSET Flag
      BY <1>3 DEF ReplyChanged
    <2>2. Moves(p)
      <3> HIDE DEF EndSave
      <3> QED
        BY <1>3, <2>1, EndSaveMoves, GoAheadMoves DEF ReplyChanged
    <2> HIDE DEF OwnInv, files
    <2> QED
      BY <1>3, <2>1, <2>2, MovesOwn DEF ReplyChanged
  <1>4. CASE StartBackup(p)
    BY <1>4 DEF StartBackup
  <1>5. CASE Copy(p)
    BY <1>5 DEF Copy, Handle
  <1>6. CASE CopyFails(p)
    <2>1. PICK l \in {"backup", "excuse"} : Goto(p, l)
      BY <1>6 DEF CopyFails
    <2> QED
      BY <1>6, <2>1 DEF CopyFails
  <1>14. CASE CopyShort(p)
    BY <1>14 DEF CopyShort
  <1>7. CASE ReplyBackup(p)
    BY <1>7 DEF ReplyBackup
  <1>8. CASE Truncate(p)
    BY <1>8 DEF Truncate
  <1>9. CASE OpenFails(p)
    BY <1>9 DEF OpenFails
  <1>10. CASE Write(p)
    <2>1. SessionTypeOK'
      <3>1. disk' \in [File -> {None} \cup Text] /\ mtime' \in [File -> Time]
        <4>1. name[p] \in File /\ text[p] \in Text /\ clock \in Time
          BY <1>10 DEF Write
        <4> HIDE DEF Text, Time
        <4> QED
          BY <1>10, <4>1 DEF Write
      <3>2. sure' \in [File -> {None} \cup Text]
        BY <1>10 DEF Write
      <3>3. at' \in [Proc -> Label] /\ flags' \in [Proc -> SUBSET Flag]
        BY <1>10 DEF Write
      <3> QED
        BY <1>10, <3>1, <3>2, <3>3 DEF Write
    <2>2. OpenInv'
      BY <1>10 DEF Write
    <2> QED
      BY <2>1, <2>2
  <1>11. CASE WriteFails(p)
    BY <1>11 DEF WriteFails
  <1>12. CASE CloseFails(p)
    BY <1>12 DEF CloseFails
  <1>13. CASE Finish(p)
    BY <1>13 DEF Finish
  <1> QED
    BY <1>1, <1>2, <1>3, <1>4, <1>5, <1>6, <1>7, <1>8, <1>9, <1>10, <1>11, <1>12, <1>13, <1>14
       DEF Saving

LEMMA EndingOwn ==
    ASSUME OwnInv, NEW p \in Proc, Ending(p)
    PROVE  OwnInv'
  <1>1. CASE Gone(p) /\ UNCHANGED <<files, clock, edits>>
    BY <1>1, GoneOwn
  <1>2. CASE CloseStep(p)
    BY <1>2 DEF CloseStep, OwnInv, SessionTypeOK, OpenInv, files, session
  <1> QED
    BY <1>1, <1>2 DEF Ending, Leave, Terminate, Crash

LEMMA StepOwn == OwnInv /\ [Next]_vars => OwnInv'
  <1> SUFFICES ASSUME OwnInv, [Next]_vars PROVE OwnInv'
    OBVIOUS
  <1>1. CASE UNCHANGED vars
    BY <1>1 DEF vars, session, files, OwnInv, SessionTypeOK, OpenInv
  <1>2. CASE Tick
    BY <1>2, SessionConstants DEF Tick, session, files, OwnInv, SessionTypeOK, OpenInv, Time
  <1> QED
    BY <1>1, <1>2, LockStepOwn, ReadingOwn, SavingOwn, RequestOwn, EndingOwn DEF Next

LEMMA OwnTypes == Spec => []OwnInv
  BY InitOwn, StepOwn, PTL DEF Spec

-----------------------------------------------------------------------------
(* The refinement.  Only the calls of the lock touch its variables, and    *)
(* each is the call that FileLock describes, for a file.                   *)

LEMMA ClearLockRefines ==
    ASSUME NEW p \in Proc, name[p] \in File, ClearLock(p)
    PROVE  L!Clear(p, name[p]) \/ UNCHANGED locks
  BY DEF ClearLock

LEMMA AskLockRefines ==
    ASSUME NEW p \in Proc, NEW f \in File, NEW w, AskLock(p, f, w)
    PROVE  L!SetNew(p, f) \/ L!SetAgain(p, f)
  BY DEF AskLock

(* What a step of p may do to the lock.                                    *)
LockMove(p) ==
    L!Step(p) \/ L!Environment(p) \/ UNCHANGED locks

LEMMA StepLockMove ==
    ASSUME OwnInv, NEW p \in Proc,
           LockStep(p) \/ Reading(p) \/ Saving(p) \/ Request(p) \/ Ending(p)
    PROVE  LockMove(p)
  <1>0. Uses[p] \subseteq File /\ Names[p] \subseteq File
    BY SessionConstants
  <1>1. CASE LockStep(p)
    BY <1>1 DEF LockStep, LockMove, L!Environment
  <1>2. CASE Reading(p)
    BY <1>2 DEF Reading, LoadLocked, OpenOld, Read, OpenNew, Probe, Unprobe, LockMove
  <1>3. CASE Saving(p)
    BY <1>3 DEF Saving, SaveLocked, SaveRefused, ReplyChanged, StartBackup, Copy, CopyShort, CopyFails,
       ReplyBackup, Truncate, OpenFails, Write, WriteFails, CloseFails, Finish, LockMove
  <1>4. CASE Request(p)
    <2>1. ASSUME NEW f \in File, AskLock(p, f, "load") \/ AskLock(p, f, "edit")
                    \/ AskLock(p, f, "save") \/ AskLock(p, f, "rename")
          PROVE  LockMove(p)
      BY <2>1, AskLockRefines DEF LockMove, L!Environment
    <2>2. ASSUME name[p] \in File, ClearLock(p) PROVE LockMove(p)
      BY <2>2, ClearLockRefines DEF LockMove, L!Environment
    <2>3. name[p] # None \/ at[p] # "ready" => name[p] \in File
      BY DEF OwnInv, SessionTypeOK
    <2>4. ASSUME NEW f \in Uses[p] \cup Names[p], Load(p, f) PROVE LockMove(p)
      BY <1>0, <2>1, <2>4 DEF Load, StartRead, LockMove
    <2>5. ASSUME NEW f \in Names[p], Rename(p, f) PROVE LockMove(p)
      BY <1>0, <2>1, <2>5 DEF Rename, LockMove
    <2>6. CASE Reread(p)
      BY <1>0, <2>1, <2>6 DEF Reread, StartRead, LockMove
    <2>7. CASE Kill(p)
      BY <2>2, <2>3, <2>7 DEF Kill, Returned, Here
    <2>8. CASE Edit(p)
      BY <1>0, <2>1, <2>8 DEF Edit, LockMove
    <2>9. CASE EditLocked(p) \/ Refused(p)
      BY <2>9 DEF EditLocked, Refused, LockMove
    <2>10. CASE RenameLocked(p)
      BY <2>2, <2>3, <2>10 DEF RenameLocked, Returned, Here
    <2>11. CASE Save(p) \/ SaveAll(p)
      BY <1>0, <2>1, <2>11 DEF Save, SaveAll, StartSave, LockMove
    <2> QED
      BY <1>4, <2>4, <2>5, <2>6, <2>7, <2>8, <2>9, <2>10, <2>11 DEF Request
  <1>5. CASE Ending(p)
    BY <1>5 DEF Ending, Leave, Terminate, CloseStep, Crash, LockMove, L!Environment
  <1> QED
    BY <1>1, <1>2, <1>3, <1>4, <1>5

LEMMA LocksUnchanged ==
    ASSUME UNCHANGED locks
    PROVE  UNCHANGED L!vars
  BY DEF locks, L!vars, L!node, L!locals

LEMMA StepRefines == OwnInv /\ [Next]_vars => [L!Next]_(L!vars)
  <1> SUFFICES ASSUME OwnInv, [Next]_vars PROVE [L!Next]_(L!vars)
    OBVIOUS
  <1>1. CASE UNCHANGED vars
    BY <1>1, LocksUnchanged DEF vars
  <1>2. CASE Tick
    BY <1>2, LocksUnchanged DEF Tick
  <1>3. ASSUME NEW p \in Proc, LockMove(p) PROVE [L!Next]_(L!vars)
    BY <1>3, LocksUnchanged DEF LockMove, L!Next
  <1> QED
    BY <1>1, <1>2, <1>3, StepLockMove DEF Next

(* file.c uses lock.c as FileLock describes it (Locks): whatever a session *)
(* does, its calls of flock_set, flock_clear and flock_close, and nothing  *)
(* else, change the lock.                                                  *)
THEOREM SessionLocks == Spec => Locks
  <1>1. Init => L!Init
    BY DEF Init
  <1> QED
    BY <1>1, OwnTypes, StepRefines, PTL DEF Spec, Locks, L!Spec

-----------------------------------------------------------------------------
(* What is proved of FileLock holds of the lock that the sessions share.   *)

LEMMA LockConstantsHold == P!LockConstants
  BY LockAssumption DEF L!LockConstants, P!LockConstants

LEMMA SameSpec == L!Spec <=> P!Spec
  BY PTL DEF
     L!Next, P!Next, L!Step, P!Step, L!Environment, P!Environment,
     L!Create, P!Create, L!CreateNew, P!CreateNew, L!CreateExists,
     P!CreateExists, L!CreateRefused, P!CreateRefused, L!Unlink,
     P!Unlink, L!Recreate, P!Recreate, L!Lstat, P!Lstat, L!Readlink,
     P!Readlink, L!ReadFailure, P!ReadFailure, L!Compare, P!Compare,
     L!CompareSame, P!CompareSame, L!CompareDead, P!CompareDead,
     L!CompareOther, P!CompareOther, L!SameHost, P!SameHost,
     L!TryForce, P!TryForce, L!Answer, P!Answer, L!Crash, P!Crash,
     L!Restart, P!Restart, L!Die, P!Die, L!Abandon, P!Abandon, L!SetNew, P!SetNew,
     L!SetAgain, P!SetAgain, L!Clear, P!Clear, L!CloseBegin,
     P!CloseBegin, L!CloseStep, P!CloseStep, L!CloseEnd, P!CloseEnd,
     L!Release, P!Release, L!Return, P!Return, L!Forget, P!Forget,
     L!Goto, P!Goto, L!At, P!At, L!Id, P!Id, L!Live, P!Live, L!Holds,
     P!Holds, L!node, P!node, L!locals, P!locals, L!Init, P!Init,
     L!vars, P!vars, L!Spec, P!Spec

LEMMA SameTypeOK == L!TypeOK <=> P!TypeOK
  BY DEF L!TypeOK, P!TypeOK, L!Ident, P!Ident, L!NodeStatus, P!NodeStatus, L!Pc, P!Pc

LEMMA SameExclusion == L!Exclusion <=> P!Exclusion
  BY DEF L!Exclusion, P!Exclusion, L!Holds, P!Holds, L!Id, P!Id

LEMMA LockTypes == Spec => []L!TypeOK
  BY SessionLocks, SameSpec, SameTypeOK, LockConstantsHold, P!TypeCorrect, PTL DEF Locks

(* Every variable has its type in every reachable state, those of the lock *)
(* included; among others, a call under way always has a buffer's file     *)
(* name and a call of flock_set the file it was asked for.                 *)
THEOREM TypeCorrect == Spec => []TypeOK
  BY LockTypes, OwnTypes, PTL DEF OwnInv, TypeOK

(* Whatever the sessions do, at most one live editor believes it holds the *)
(* lock of a file, and the lock file names it, until a lock is taken from  *)
(* a live process or a failed read is taken for success.                   *)
THEOREM SessionExclusion == Spec => []L!Exclusion
  BY SessionLocks, SameSpec, SameExclusion, LockConstantsHold, P!ExclusionHolds, PTL DEF Locks
=============================================================================
