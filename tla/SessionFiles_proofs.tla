------------------------- MODULE SessionFiles_proofs -------------------------
(* Proofs about the files that sessions share: the backup during a save,   *)
(* and what an exit leaves on disk.                                        *)
EXTENDS SessionBuffers_proofs

(***************************************************************************)
(* Both rest on one fact, as does NoUpdateLost: while a process holds the  *)
(* lock of its file, and nobody has gone without it or taken it away, no   *)
(* other process changes what the file contains, nor its backup            *)
(* (OthersKeep).                                                           *)
(***************************************************************************)
Mine(p) == name[p] \in File /\ L!Holds(p, name[p]) /\ ~bold[name[p]] /\ ~marred[name[p]]

(* What a reader finds: a file that does not exist has no text either.     *)
Content(f) == IF disk[f] = None THEN {} ELSE disk[f]

InSave == {"backup", "copy", "excuse", "truncate"}

(* The marks that last for one call.                                       *)
CallMarks(p) ==
    /\ Has(p, "adrift") => at[p] \in {"read", "copy", "write"}
    /\ Has(p, "copied") => at[p] \in {"truncate", "write", "finish", "leave"}
    /\ Has(p, "leaving") =>
          \/ at[p] \in InSave \cup {"ask", "write", "finish", "leave"}
          \/ at[p] = "lock" /\ why[p] = "save" /\ Has(p, "mods")

(* From its backup on, a save has the lock or has marked its file.         *)
ClaimInv(p) ==
    at[p] \in {"copy", "write"} \/ (at[p] = "truncate" /\ Has(p, "copied"))
        => bold[name[p]] \/ L!Holds(p, name[p])

CopyInv(p) ==
    at[p] = "copy" /\ Mine(p) =>
        IF Has(p, "adrift") THEN Content(name[p]) = {} ELSE disk[name[p]] # None

FreshInv(p) ==
    at[p] = "truncate" /\ Has(p, "copied") /\ Mine(p) => bak[name[p]] = Content(name[p])

WroteInv(p) ==
    at[p] \in {"finish", "leave"} /\ ~Has(p, "shaky") /\ ~bold[name[p]] =>
        /\ L!Holds(p, name[p])
        /\ marred[name[p]] \/ Content(name[p]) = text[p]

SaveInv(p) == CallMarks(p) /\ ClaimInv(p) /\ CopyInv(p) /\ FreshInv(p) /\ WroteInv(p)

SureInv ==
    \A f \in File : sure[f] # None =>
        bak[f] = sure[f] /\ \A p \in Proc : ~(at[p] = "copy" /\ name[p] = f)

Context == BInv /\ L!Exclusion

-----------------------------------------------------------------------------
(* The lock.                                                               *)

LEMMA Alone ==
    ASSUME L!Exclusion, NEW p \in Proc, NEW q \in Proc, NEW f \in File,
           L!Holds(p, f), L!Holds(q, f), ~marred[f]
    PROVE  p = q
  <1>1. link[f] = L!Id(p) /\ link[f] = L!Id(q)
    BY DEF L!Exclusion
  <1>2. L!Id(p).pid = p /\ L!Id(q).pid = q
    BY DEF L!Id
  <1> QED
    BY <1>1, <1>2

LEMMA MarredKept ==
    ASSUME L!TypeOK, NEW p \in Proc, LockMove(p), NEW f \in File, marred[f]
    PROVE  marred'[f]
  <1>1. CASE UNCHANGED locks
    BY <1>1 DEF locks
  <1>2. CASE L!Step(p) \/ L!Environment(p)
    <2>1. P!Step(p) \/ P!Environment(p)
      BY <1>2 DEF
         L!Step, P!Step, L!Environment, P!Environment, L!Create, P!Create,
         L!CreateNew, P!CreateNew, L!CreateExists, P!CreateExists,
         L!CreateRefused, P!CreateRefused, L!Unlink, P!Unlink, L!Recreate,
         P!Recreate, L!Lstat, P!Lstat, L!Readlink, P!Readlink,
         L!ReadFailure, P!ReadFailure, L!Compare, P!Compare, L!CompareSame,
         P!CompareSame, L!CompareDead, P!CompareDead, L!CompareOther,
         P!CompareOther, L!SameHost, P!SameHost, L!TryForce, P!TryForce,
         L!Answer, P!Answer, L!Crash, P!Crash, L!Restart, P!Restart, L!Die,
         P!Die, L!Abandon, P!Abandon, L!SetNew, P!SetNew, L!SetAgain, P!SetAgain, L!Clear,
         P!Clear, L!CloseBegin, P!CloseBegin, L!CloseStep, P!CloseStep,
         L!CloseEnd, P!CloseEnd, L!Release, P!Release, L!Return, P!Return,
         L!Forget, P!Forget, L!Goto, P!Goto, L!At, P!At, L!Id, P!Id,
         L!Live, P!Live, L!Holds, P!Holds, L!node, P!node, L!locals,
         P!locals
    <2>2. P!TypeOK
      BY SameTypeOK
    <2> QED
      BY <2>1, <2>2, LockConstantsHold, P!MarredEffect
  <1> QED
    BY <1>1, <1>2 DEF LockMove

-----------------------------------------------------------------------------
(* What the others do to a process' file.                                  *)

Step(p) == LockStep(p) \/ Reading(p) \/ Saving(p) \/ Request(p) \/ Ending(p)

(* The steps that touch files or backups.                                  *)
OnFiles(p) ==
    \/ Probe(p) \/ Unprobe(p) \/ StartBackup(p) \/ Copy(p) \/ CopyFails(p)
    \/ Truncate(p) \/ Write(p)

LEMMA OffFiles ==
    ASSUME NEW p \in Proc, Step(p)
    PROVE  OnFiles(p) \/ UNCHANGED files
  <1>1. CASE LockStep(p)
    BY <1>1 DEF LockStep
  <1>2. CASE Reading(p)
    BY <1>2 DEF Reading, LoadLocked, OpenOld, Read, OpenNew, OnFiles
  <1>3. CASE Saving(p)
    BY <1>3 DEF Saving, SaveLocked, SaveRefused, ReplyChanged, CopyShort, ReplyBackup, OpenFails,
       WriteFails, CloseFails, Finish, OnFiles
  <1>4. CASE Request(p)
    BY <1>4 DEF Request, Load, Rename, Reread, Kill, Edit, EditLocked, Refused, RenameLocked,
       Save, SaveAll, StartSave
  <1>5. CASE Ending(p)
    BY <1>5 DEF Ending, Leave, Terminate, CloseStep, Crash
  <1> QED
    BY <1>1, <1>2, <1>3, <1>4, <1>5 DEF Step

LEMMA BoldKept ==
    ASSUME OwnInv, NEW p \in Proc, Step(p), NEW f \in File, bold[f]
    PROVE  bold'[f]
  <1> USE DEF OwnInv, SessionTypeOK
  <1>1. CASE UNCHANGED files
    BY <1>1 DEF files
  <1>2. CASE OnFiles(p)
    BY <1>2 DEF OnFiles, Probe, Unprobe, StartBackup, Copy, CopyFails, Truncate, Write, Here
  <1> QED
    BY <1>1, <1>2, OffFiles

(* The buffer of a process that does not move, but for the mark that its   *)
(* file has been removed.                                                  *)
BufferSame(p) ==
    /\ at'[p] = at[p] /\ why'[p] = why[p] /\ name'[p] = name[p] /\ goal'[p] = goal[p]
    /\ text'[p] = text[p] /\ base'[p] = base[p]
    /\ \A f \in File : L!Holds(p, f)' <=> L!Holds(p, f)

LEMMA OthersBuffer ==
    ASSUME Context, NEW q \in Proc, Step(q), NEW p \in Proc, p # q
    PROVE  BufferSame(p) /\ (flags'[p] = flags[p] \/ Unprobe(q))
  <1> USE DEF OwnInv, SessionTypeOK, Goto, Mark, session
  <1>0. OwnInv /\ L!TypeOK
    BY DEF Context, BInv
  <1>1. LockSame(p) /\ SessionSame(p)
    BY <1>0, StepLockMove, OthersLockSame, OthersSessionSame DEF Step
  <1>a. ASSUME Gone(q) PROVE text'[p] = text[p] /\ base'[p] = base[p] /\ flags'[p] = flags[p]
    BY <1>0, <1>a DEF Gone
  <1>2. text'[p] = text[p] /\ base'[p] = base[p] /\ (flags'[p] = flags[p] \/ Unprobe(q))
    <2>1. CASE LockStep(q)
      BY <1>0, <1>a, <2>1 DEF LockStep
    <2>2. CASE Reading(q)
      BY <1>0, <2>2 DEF Reading, LoadLocked, OpenOld, Read, OpenNew, Probe, Unprobe
    <2>3. CASE Saving(q)
      BY <1>0, <2>3 DEF Saving, SaveLocked, SaveRefused, ReplyChanged, StartBackup, Copy,
         CopyShort, CopyFails, ReplyBackup, Truncate, OpenFails, Write, WriteFails, CloseFails,
         Finish, Check, GoAhead, EndSave
    <2>4. CASE Request(q)
      <3>1. ASSUME NEW f, Load(q, f) \/ Rename(q, f)
            PROVE text'[p] = text[p] /\ base'[p] = base[p] /\ flags'[p] = flags[p]
        BY <1>0, <3>1 DEF Load, Rename, Renamed
      <3>2. CASE Reread(q) \/ Kill(q) \/ Refused(q)
        BY <1>0, <1>a, <3>2 DEF Reread, Kill, Refused
      <3>3. CASE Edit(q) \/ EditLocked(q) \/ RenameLocked(q)
        BY <1>0, <3>3 DEF Edit, EditLocked, RenameLocked, Modify, Renamed
      <3>4. CASE Save(q) \/ SaveAll(q)
        BY <1>0, <3>4 DEF Save, SaveAll, StartSave, Check, GoAhead, EndSave
      <3> QED
        BY <2>4, <3>1, <3>2, <3>3, <3>4 DEF Request
    <2>5. CASE Ending(q)
      BY <1>0, <1>a, <2>5 DEF Ending, Leave, Terminate, CloseStep, Crash
    <2> QED
      BY <2>1, <2>2, <2>3, <2>4, <2>5 DEF Step
  <1> QED
    BY <1>1, <1>2 DEF LockSame, SessionSame, BufferSame, L!Holds

(* A file under its lock: another process may find that it does not exist, *)
(* make it and remove it again, and that is all.                           *)
Kept(p) ==
    /\ bak'[name[p]] = bak[name[p]]
    /\ \/ /\ disk'[name[p]] = disk[name[p]] /\ mtime'[name[p]] = mtime[name[p]]
          /\ flags'[p] = flags[p]
       \/ disk[name[p]] = None /\ disk'[name[p]] = {} /\ flags'[p] = flags[p]
       \/ /\ disk[name[p]] \in {None, {}} /\ disk'[name[p]] = None
          /\ flags'[p] = IF at[p] \in {"read", "copy", "write"}
                         THEN flags[p] \cup {"adrift"} ELSE flags[p]

LEMMA OthersKeep ==
    ASSUME Context, NEW q \in Proc, ClaimInv(q), Step(q), NEW p \in Proc, p # q,
           name[p] \in File, Mine(p)'
    PROVE  Mine(p) /\ Kept(p)
  <1> DEFINE f == name[p]
  <1> USE DEF OwnInv, SessionTypeOK
  <1>0. OwnInv /\ L!TypeOK /\ L!Exclusion
    BY DEF Context, BInv
  <1>1. BufferSame(p) /\ (flags'[p] = flags[p] \/ Unprobe(q))
    BY OthersBuffer
  <1>2. L!Holds(p, f) /\ ~bold[f] /\ ~bold'[f] /\ ~marred[f]
    BY <1>0, <1>1, BoldKept, MarredKept, StepLockMove DEF Mine, BufferSame, Step
  <1>3. Mine(p)
    BY <1>2 DEF Mine
  <1> SUFFICES Kept(p)
    BY <1>3
  <1>4. ~L!Holds(q, f)
    BY <1>0, <1>2, Alone
  <1>5. ASSUME UNCHANGED files, ~Unprobe(q) PROVE Kept(p)
    BY <1>1, <1>5 DEF files, Kept
  <1>6. CASE Probe(q)
    BY <1>0, <1>1, <1>6 DEF Probe, Kept, Here
  <1>7. CASE Unprobe(q)
    BY <1>0, <1>2, <1>7 DEF Unprobe, Kept, Here
  <1>8. ASSUME name[q] # f, OnFiles(q), ~Unprobe(q) PROVE Kept(p)
    BY <1>0, <1>1, <1>8
       DEF OnFiles, Probe, StartBackup, Copy, CopyFails, Truncate, Write, Here, Kept
  <1>9. CASE StartBackup(q) \/ Truncate(q)
    <2>1. name[q] # f
      BY <1>0, <1>2, <1>4, <1>9 DEF StartBackup, Truncate
    <2> QED
      BY <1>8, <1>9, <2>1 DEF OnFiles, StartBackup, Truncate, Unprobe, Here
  <1>10. CASE Copy(q) \/ CopyFails(q) \/ Write(q)
    <2>1. at[q] \in {"copy", "write"}
      BY <1>10 DEF Copy, CopyFails, Write, Here
    <2>2. name[q] # f
      BY <1>2, <1>4, <2>1 DEF ClaimInv
    <2> QED
      BY <1>8, <1>10, <2>1, <2>2 DEF OnFiles, Unprobe, Here
  <1> QED
    BY <1>5, <1>6, <1>7, <1>9, <1>10, OffFiles DEF OnFiles

-----------------------------------------------------------------------------
(* SaveInv is inductive: first the steps of the others, then its own.      *)

LEMMA OthersSave ==
    ASSUME Context, NEW q \in Proc, ClaimInv(q), Step(q), NEW p \in Proc, p # q, SaveInv(p)
    PROVE  SaveInv(p)'
  <1>0. OwnInv /\ L!TypeOK
    BY DEF Context, BInv
  <1>1. BufferSame(p) /\ (flags'[p] = flags[p] \/ Unprobe(q))
    BY OthersBuffer
  <1>a. Unprobe(q) => flags'[p] = IF name[p] = name[q] /\ at[p] \in {"read", "copy", "write"}
                                  THEN flags[p] \cup {"adrift"} ELSE flags[p]
    BY DEF Unprobe
  <1>2. flags'[p] = IF flags'[p] # flags[p] THEN flags[p] \cup {"adrift"} ELSE flags[p]
    BY <1>1, <1>a
  <1>3. flags'[p] # flags[p] => at[p] \in {"read", "copy", "write"}
    BY <1>1, <1>a
  <1>4. CallMarks(p)'
    BY <1>1, <1>2, <1>3 DEF SaveInv, CallMarks, BufferSame, Has
  <1>5. CASE at[p] = "ready"
    BY <1>1, <1>4, <1>5 DEF SaveInv, BufferSame, ClaimInv, CopyInv, FreshInv, WroteInv
  <1>6. CASE at[p] # "ready"
    <2>1. name[p] \in File
      BY <1>0, <1>6 DEF OwnInv, SessionTypeOK
    <2>2. bold[name[p]] => bold'[name[p]]
      BY <1>0, <2>1, BoldKept
    <2>3. Mine(p)' => Mine(p) /\ Kept(p)
      BY <2>1, OthersKeep
    <2>4. Mine(p)' => Content(name[p])' = Content(name[p])
      BY <1>1, <2>3 DEF Kept, Content, BufferSame
    <2>5. ClaimInv(p)'
      BY <1>1, <1>2, <2>1, <2>2 DEF SaveInv, ClaimInv, BufferSame, Has
    <2>6. CopyInv(p)'
      <3> SUFFICES ASSUME at[p] = "copy", Mine(p)'
                   PROVE  IF Has(p, "adrift")' THEN Content(name[p])' = {} ELSE disk'[name[p]] # None
        BY <1>1 DEF CopyInv, BufferSame
      <3>1. IF Has(p, "adrift") THEN Content(name[p]) = {} ELSE disk[name[p]] # None
        BY <2>3 DEF SaveInv, CopyInv
      <3>2. CASE flags'[p] = flags[p] /\ disk'[name[p]] = disk[name[p]]
        BY <1>1, <3>1, <3>2 DEF Has, Content, BufferSame
      <3>3. CASE disk[name[p]] = None /\ disk'[name[p]] = {} /\ flags'[p] = flags[p]
        BY <1>1, <2>4, <3>1, <3>3 DEF Has
      <3>4. CASE disk'[name[p]] = None /\ flags'[p] = flags[p] \cup {"adrift"}
        BY <1>1, <3>4 DEF Has, Content, BufferSame
      <3> QED
        BY <2>3, <3>2, <3>3, <3>4 DEF Kept
    <2>7. FreshInv(p)'
      BY <1>1, <1>2, <2>3, <2>4 DEF SaveInv, FreshInv, BufferSame, Kept, Has
    <2>8. WroteInv(p)'
      <3> SUFFICES ASSUME at[p] \in {"finish", "leave"}, ~Has(p, "shaky")', ~bold'[name[p]]
                   PROVE  /\ L!Holds(p, name[p])'
                          /\ marred'[name[p]] \/ Content(name[p])' = text[p]
        BY <1>1 DEF WroteInv, BufferSame
      <3>1. L!Holds(p, name[p]) /\ (marred[name[p]] \/ Content(name[p]) = text[p])
        BY <1>2, <2>2 DEF SaveInv, WroteInv, Has
      <3>2. L!Holds(p, name[p])'
        BY <1>1, <2>1, <3>1 DEF BufferSame, L!Holds
      <3>3. marred[name[p]] => marred'[name[p]]
        BY <1>0, <2>1, MarredKept, StepLockMove DEF Step
      <3>4. ~marred'[name[p]] => Mine(p)'
        BY <1>1, <2>1, <3>2 DEF Mine, BufferSame, L!Holds
      <3> QED
        BY <2>4, <3>1, <3>2, <3>3, <3>4
    <2> QED
      BY <1>4, <2>5, <2>6, <2>7, <2>8 DEF SaveInv
  <1> QED
    BY <1>5, <1>6

(* Outside a save, and in it before the backup, there is little to say.    *)
LEMMA ElsewhereSave ==
    ASSUME NEW p \in Proc, CallMarks(p)',
           at'[p] \notin {"copy", "write", "finish", "leave"},
           at'[p] = "truncate" => "copied" \notin flags'[p]
    PROVE  SaveInv(p)'
  BY DEF SaveInv, ClaimInv, CopyInv, FreshInv, WroteInv, Has

LEMMA QuietSave ==
    ASSUME NEW p \in Proc, SaveInv(p),
           at'[p] \in {"ready", "lock", "open", "read", "create", "unprobe"},
           "adrift" \notin flags'[p] /\ "leaving" \notin flags'[p],
           "copied" \in flags'[p] => "copied" \in flags[p],
           at[p] \notin {"truncate", "write", "finish", "leave"}
    PROVE  SaveInv(p)'
  BY ElsewhereSave DEF SaveInv, CallMarks, Has

LEMMA GoneSave ==
    ASSUME OwnInv, NEW p \in Proc, Gone(p)
    PROVE  SaveInv(p)'
  BY GoneSession, ElsewhereSave DEF CallMarks, Has

(* file_write from the lock on.                                            *)
LEMMA CheckSave ==
    ASSUME OwnInv, NEW p \in Proc, SaveInv(p), NEW on \in {{}, {"lstat"}, {"leaving"}},
           at[p] = "ready" \/ (at[p] = "lock" /\ on # {"leaving"}),
           on = {"leaving"} => Has(p, "mods"), Check(p, on)
    PROVE  SaveInv(p)'
  <1> USE DEF OwnInv, SessionTypeOK
  <1>0. /\ "adrift" \notin flags[p] /\ "copied" \notin flags[p]
        /\ "leaving" \in flags[p] => Has(p, "mods")
    BY DEF SaveInv, CallMarks, Has, InSave
  <1>1. CASE ~Has(p, "mods") /\ ~Has(p, "new")
    <2>1. on # {"leaving"} /\ ~Has(p, "leaving") /\ EndSave(p, TRUE, on, {})
      BY <1>0, <1>1 DEF Check, Has
    <2>2. /\ at'[p] = "ready" /\ "adrift" \notin flags'[p] /\ "copied" \notin flags'[p]
          /\ "leaving" \notin flags'[p]
      BY <1>0, <2>1 DEF EndSave, Goto, Mark
    <2> QED
      BY <2>2, ElsewhereSave DEF CallMarks, Has
  <1>2. CASE ~(~Has(p, "mods") /\ ~Has(p, "new"))
    <2>1. /\ at'[p] \in {"ask", "backup", "truncate"}
          /\ "adrift" \notin flags'[p] /\ "copied" \notin flags'[p]
      <3>1. CASE DiskChanged(p)
        <4>1. Goto(p, "ask") /\ Mark(p, on, {})
          BY <1>2, <3>1 DEF Check
        <4> QED
          BY <1>0, <4>1 DEF Goto, Mark
      <3>2. CASE ~DiskChanged(p)
        <4>1. GoAhead(p, on)
          BY <1>2, <3>2 DEF Check
        <4> QED
          BY <1>0, <4>1 DEF GoAhead, Goto, Mark
      <3> QED
        BY <3>1, <3>2
    <2> QED
      BY <2>1, ElsewhereSave DEF CallMarks, Has, InSave
  <1> QED
    BY <1>1, <1>2

LEMMA StartSaveSave ==
    ASSUME OwnInv, NEW p \in Proc, SaveInv(p), NEW on \in {{}, {"leaving"}},
           at[p] = "ready", on = {"leaving"} => Has(p, "mods"), StartSave(p, on)
    PROVE  SaveInv(p)'
  <1> USE DEF OwnInv, SessionTypeOK
  <1>1. CASE NeedsLock(p)
    <2>1. /\ at'[p] = "lock" /\ why'[p] = "save" /\ flags'[p] = flags[p] \cup on
      BY <1>1 DEF StartSave, AskLock, Goto, Mark
    <2>2. "adrift" \notin flags[p] /\ "copied" \notin flags[p] /\ "leaving" \notin flags[p]
      BY DEF SaveInv, CallMarks, Has, InSave
    <2>3. "adrift" \notin flags'[p] /\ "copied" \notin flags'[p]
      BY <2>1, <2>2
    <2>4. "leaving" \in flags'[p] => "mods" \in flags'[p]
      BY <2>1, <2>2 DEF Has
    <2>5. CallMarks(p)'
      BY <2>1, <2>3, <2>4 DEF CallMarks, Has
    <2> QED
      BY <2>1, <2>5, ElsewhereSave
  <1>2. CASE ~NeedsLock(p)
    BY <1>2, CheckSave DEF StartSave
  <1> QED
    BY <1>1, <1>2

LEMMA LockStepSave ==
    ASSUME BInv, NEW p \in Proc, SaveInv(p), LockStep(p)
    PROVE  SaveInv(p)'
  <1>0. OwnInv /\ at[p] = "lock"
    BY DEF BInv, LockStep
  <1>1. CASE UNCHANGED session
    <2>1. CallMarks(p)' /\ at'[p] = "lock"
      BY <1>0, <1>1 DEF SaveInv, CallMarks, session, Has
    <2> QED
      BY <2>1, ElsewhereSave
  <1>2. CASE Gone(p)
    BY <1>0, <1>2, GoneSave
  <1> QED
    BY <1>1, <1>2 DEF LockStep

LEMMA ReadingSave ==
    ASSUME OwnInv, NEW p \in Proc, SaveInv(p), Reading(p)
    PROVE  SaveInv(p)'
  <1> USE DEF OwnInv, SessionTypeOK, Here, Returned, Goto, Mark
  <1>1. at[p] \notin {"truncate", "write", "finish", "leave"}
    BY DEF Reading, LoadLocked, OpenOld, Read, OpenNew, Probe, Unprobe
  <1>2. "leaving" \notin flags[p]
    BY DEF Reading, LoadLocked, OpenOld, Read, OpenNew, Probe, Unprobe, SaveInv, CallMarks, Has,
       InSave
  <1>3. CASE OpenOld(p)
    <2>1. at'[p] = "read" /\ flags'[p] = flags[p]
      BY <1>3 DEF OpenOld
    <2>2. CallMarks(p)'
      BY <1>1, <1>2, <2>1 DEF SaveInv, CallMarks, Has
    <2> QED
      BY <2>1, <2>2, ElsewhereSave
  <1>4. CASE LoadLocked(p) \/ Read(p) \/ OpenNew(p) \/ Probe(p) \/ Unprobe(p)
    <2>1. at'[p] \in {"ready", "open", "create", "unprobe"}
      BY <1>4 DEF LoadLocked, Read, OpenNew, Probe, Unprobe
    <2>2. "leaving" \notin flags'[p] /\ ("copied" \in flags'[p] => "copied" \in flags[p])
      BY <1>2, <1>4 DEF LoadLocked, Read, OpenNew, Probe, Unprobe
    <2>3. "adrift" \notin flags'[p]
      BY <1>4 DEF LoadLocked, Read, OpenNew, Probe, Unprobe, SaveInv, CallMarks, Has
    <2> QED
      BY <1>1, <2>1, <2>2, <2>3, QuietSave
  <1> QED
    BY <1>3, <1>4 DEF Reading

LEMMA RequestSave ==
    ASSUME OwnInv, NEW p \in Proc, SaveInv(p), Request(p)
    PROVE  SaveInv(p)'
  <1> USE DEF OwnInv, SessionTypeOK
  <1>1. CASE Kill(p)
    BY <1>1, GoneSave DEF Kill
  <1>2. CASE Save(p)
    BY <1>2, StartSaveSave DEF Save, Here
  <1>3. CASE SaveAll(p)
    BY <1>3, StartSaveSave DEF SaveAll, Here
  <1>4. ASSUME at[p] = "ready" \/ (at[p] = "lock" /\ why[p] # "save"),
               at'[p] \in {"ready", "lock", "open"},
               \A g \in {"adrift", "copied", "leaving"} : g \in flags'[p] <=> g \in flags[p]
        PROVE  SaveInv(p)'
    <2>1. "adrift" \notin flags[p] /\ "copied" \notin flags[p] /\ "leaving" \notin flags[p]
      BY <1>4 DEF SaveInv, CallMarks, Has, InSave
    <2> QED
      BY <1>4, <2>1, QuietSave
  <1> USE DEF Here, Returned, Goto, Mark, AskLock
  <1>5. ASSUME NEW f, Load(p, f) PROVE SaveInv(p)'
    BY <1>4, <1>5 DEF Load, StartRead
  <1>6. ASSUME NEW f, Rename(p, f) PROVE SaveInv(p)'
    BY <1>4, <1>6 DEF Rename, Renamed
  <1>7. CASE Reread(p)
    BY <1>4, <1>7 DEF Reread, StartRead
  <1>8. CASE Edit(p) \/ EditLocked(p)
    BY <1>4, <1>8 DEF Edit, EditLocked, Modify
  <1>9. CASE Refused(p) \/ RenameLocked(p)
    BY <1>4, <1>9 DEF Refused, RenameLocked, Renamed
  <1> QED
    BY <1>1, <1>2, <1>3, <1>5, <1>6, <1>7, <1>8, <1>9 DEF Request

LEMMA EndingSave ==
    ASSUME BInv, NEW p \in Proc, SaveInv(p), Ending(p)
    PROVE  SaveInv(p)'
  <1>0. OwnInv /\ BufferInv(p)
    BY DEF BInv
  <1>1. CASE Gone(p)
    BY <1>0, <1>1, GoneSave
  <1>2. CASE CloseStep(p)
    <2>1. at'[p] = "ready" /\ flags'[p] = {}
      BY <1>0, <1>2 DEF CloseStep, session, BufferInv, CallInv, L!CloseStep, L!CloseEnd, L!At
    <2> QED
      BY <2>1, ElsewhereSave DEF CallMarks, Has
  <1> QED
    BY <1>1, <1>2 DEF Ending, Leave, Terminate, Crash

(* A save that ends with an error.                                         *)
LEMMA FailedSave ==
    ASSUME OwnInv, NEW p \in Proc, NEW off \in SUBSET Flag, EndSave(p, FALSE, {}, off),
           "adrift" \in flags[p] => "adrift" \in off
    PROVE  SaveInv(p)'
  <1>1. /\ at'[p] = "ready" /\ "adrift" \notin flags'[p] /\ "copied" \notin flags'[p]
        /\ "leaving" \notin flags'[p]
    BY DEF EndSave, Goto, Mark, OwnInv, SessionTypeOK
  <1> QED
    BY <1>1, ElsewhereSave DEF CallMarks, Has

LEMMA SavingSave ==
    ASSUME OwnInv, NEW p \in Proc, SaveInv(p), Saving(p)
    PROVE  SaveInv(p)'
  <1> DEFINE f == name[p]
  <1> USE DEF OwnInv, SessionTypeOK, Here
  <1>0. {} \in SUBSET Flag /\ {"adrift"} \in SUBSET Flag
    BY DEF Flag
  <1>a. "adrift" \in flags[p] => at[p] \in {"read", "copy", "write"}
    BY DEF SaveInv, CallMarks, Has
  <1>c. "copied" \in flags[p] => at[p] \in {"truncate", "write", "finish", "leave"}
    BY DEF SaveInv, CallMarks, Has
  <1>1. CASE SaveLocked(p)
    BY <1>1, CheckSave DEF SaveLocked, Returned
  <1>2. CASE SaveRefused(p)
    <2>1. /\ "adrift" \notin flags'[p] /\ "copied" \notin flags'[p]
          /\ IF Has(p, "leaving") THEN at'[p] = "leave" /\ "shaky" \in flags'[p]
             ELSE at'[p] = "ready" /\ "leaving" \notin flags'[p]
      <3>1. CASE Has(p, "leaving")
        BY <1>2, <1>a, <1>c, <3>1 DEF SaveRefused, Returned, EndSave, Goto, Mark
      <3>2. CASE ~Has(p, "leaving")
        BY <1>2, <1>a, <1>c, <3>2 DEF SaveRefused, Returned, EndSave, Goto, Mark, Has
      <3> QED
        BY <3>1, <3>2
    <2>2. CallMarks(p)'
      BY <2>1 DEF CallMarks, Has
    <2> QED
      BY <2>1, <2>2 DEF SaveInv, ClaimInv, CopyInv, FreshInv, WroteInv, Has
  <1>3. CASE ReplyChanged(p)
    <2>1. CASE GoAhead(p, {"agreed"})
      <3>1. /\ at'[p] \in {"backup", "truncate"}
            /\ "adrift" \notin flags'[p] /\ "copied" \notin flags'[p]
        BY <1>3, <1>a, <1>c, <2>1 DEF ReplyChanged, GoAhead, Goto, Mark
      <3> QED
        BY <3>1, ElsewhereSave DEF CallMarks, Has, InSave
    <2>2. CASE EndSave(p, FALSE, {}, {})
      BY <1>0, <1>3, <1>a, <2>2, FailedSave DEF ReplyChanged
    <2> QED
      BY <1>3, <2>1, <2>2 DEF ReplyChanged
  <1>4. CASE StartBackup(p)
    <2>1. /\ at'[p] = IF disk[f] = None THEN "truncate" ELSE "copy"
          /\ flags' = flags /\ name' = name /\ disk' = disk /\ UNCHANGED locks
          /\ "adrift" \notin flags[p] /\ "copied" \notin flags[p]
      BY <1>4, <1>a, <1>c DEF StartBackup, Goto
    <2>2. CallMarks(p)'
      BY <2>1 DEF CallMarks, Has, InSave
    <2>3. CASE disk[f] = None
      BY <2>1, <2>2, <2>3, ElsewhereSave
    <2>4. CASE disk[f] # None
      <3>1. bold'[f] \/ L!Holds(p, f)'
        BY <1>4, <2>1 DEF StartBackup, locks, L!Holds
      <3> QED
        BY <2>1, <2>2, <2>4, <3>1 DEF SaveInv, ClaimInv, CopyInv, FreshInv, WroteInv, Has
    <2> QED
      BY <2>3, <2>4
  <1>5. CASE Copy(p)
    <2>1. /\ at[p] = "copy" /\ at'[p] = "truncate" /\ f \in File
          /\ name' = name /\ disk' = disk /\ bold' = bold /\ UNCHANGED locks
      BY <1>5 DEF Copy, Goto
    <2>2. flags'[p] = (flags[p] \ {"adrift"}) \cup {"copied"} /\ bak'[f] = Handle(p)
      BY <1>5, <2>1 DEF Copy, Mark
    <2>3. CallMarks(p)'
      BY <2>1, <2>2 DEF CallMarks, Has, InSave
    <2>4. bold'[f] \/ L!Holds(p, f)'
      BY <2>1 DEF SaveInv, ClaimInv, locks, L!Holds
    <2>5. Mine(p)' => Mine(p)
      BY <2>1 DEF Mine, locks, L!Holds
    <2>6. Mine(p) => bak'[f] = Content(f)
      BY <2>1, <2>2 DEF SaveInv, CopyInv, Content, Handle
    <2>7. FreshInv(p)'
      BY <2>1, <2>5, <2>6 DEF FreshInv, Content
    <2> QED
      BY <2>1, <2>3, <2>4, <2>7 DEF SaveInv, ClaimInv, CopyInv, WroteInv
  <1>6. CASE CopyFails(p)
    <2>0. PICK l \in {"backup", "excuse"} : Goto(p, l)
      BY <1>6 DEF CopyFails
    <2>1. at[p] = "copy" /\ at'[p] = l /\ flags'[p] = flags[p] \ {"adrift"}
      BY <1>6, <2>0 DEF CopyFails, Goto, Mark
    <2>2. CallMarks(p)'
      BY <1>c, <2>1 DEF CallMarks, Has, InSave
    <2> QED
      BY <2>1, <2>2, ElsewhereSave
  <1>14. CASE CopyShort(p)
    <2>1. at[p] = "copy" /\ at'[p] = "truncate" /\ flags'[p] = flags[p] \ {"adrift"}
      BY <1>14 DEF CopyShort, Goto, Mark
    <2>2. CallMarks(p)' /\ "copied" \notin flags'[p]
      BY <1>c, <2>1 DEF CallMarks, Has, InSave
    <2> QED
      BY <2>1, <2>2, ElsewhereSave
  <1>7. CASE ReplyBackup(p)
    <2>1. CASE Goto(p, "truncate") /\ flags' = flags
      <3>1. /\ at'[p] = "truncate" /\ "adrift" \notin flags'[p] /\ "copied" \notin flags'[p]
        BY <1>7, <1>a, <1>c, <2>1 DEF ReplyBackup, Goto
      <3> QED
        BY <3>1, ElsewhereSave DEF CallMarks, Has, InSave
    <2>2. CASE EndSave(p, FALSE, {}, {})
      BY <1>0, <1>7, <1>a, <2>2, FailedSave DEF ReplyBackup
    <2> QED
      BY <1>7, <2>1, <2>2 DEF ReplyBackup
  <1>8. CASE Truncate(p)
    <2>1. /\ at[p] = "truncate" /\ at'[p] = "write" /\ f \in File
          /\ name' = name /\ flags' = flags /\ UNCHANGED locks
      BY <1>8 DEF Truncate, Goto
    <2>2. bold'[f] \/ L!Holds(p, f)'
      BY <1>8, <2>1 DEF Truncate, locks, L!Holds
    <2>3. CallMarks(p)'
      BY <2>1 DEF CallMarks, Has, InSave
    <2> QED
      BY <2>1, <2>2, <2>3 DEF SaveInv, ClaimInv, CopyInv, FreshInv, WroteInv
  <1>9. CASE OpenFails(p)
    BY <1>0, <1>9, <1>a, FailedSave DEF OpenFails
  <1>10. CASE Write(p)
    <2>1. /\ at[p] = "write" /\ at'[p] = "finish" /\ f \in File
          /\ name' = name /\ text' = text /\ bold' = bold /\ UNCHANGED locks
      BY <1>10 DEF Write, Goto
    <2>2. flags'[p] = (flags[p] \ {"adrift"}) \cup IF Has(p, "adrift") THEN {"shaky"} ELSE {}
      BY <1>10 DEF Write, Mark
    <2>3. ~Has(p, "adrift") => disk'[f] = text[p]
      BY <1>10, <2>1 DEF Write
    <2>4. CallMarks(p)'
      BY <2>1, <2>2 DEF CallMarks, Has, InSave
    <2>5. text[p] # None
      BY SessionConstants DEF Text
    <2>6. WroteInv(p)'
      <3> SUFFICES ASSUME "shaky" \notin flags'[p], ~bold[f]
                   PROVE  L!Holds(p, f)' /\ Content(f)' = text[p]
        BY <2>1 DEF WroteInv, Has
      <3>1. L!Holds(p, f)'
        BY <2>1 DEF SaveInv, ClaimInv, locks, L!Holds
      <3>2. disk'[f] = text[p]
        BY <2>2, <2>3
      <3> QED
        BY <2>1, <2>5, <3>1, <3>2 DEF Content
    <2> QED
      BY <2>1, <2>4, <2>6 DEF SaveInv, ClaimInv, CopyInv, FreshInv
  <1>11. CASE WriteFails(p)
    BY <1>0, <1>11, <1>a, FailedSave DEF WriteFails
  <1>12. CASE CloseFails(p)
    <2>1. at[p] = "write" /\ at'[p] = "finish" /\ flags'[p] = (flags[p] \ {"adrift"}) \cup {"shaky"}
      BY <1>12 DEF CloseFails, Goto, Mark
    <2>2. CallMarks(p)'
      BY <2>1 DEF CallMarks, Has, InSave
    <2> QED
      BY <2>1, <2>2 DEF SaveInv, ClaimInv, CopyInv, FreshInv, WroteInv, Has
  <1>13. CASE Finish(p)
    <2>0. /\ at[p] = "finish" /\ "adrift" \notin flags[p] /\ "adrift" \notin flags'[p]
          /\ name' = name /\ text' = text /\ disk' = disk /\ bold' = bold /\ UNCHANGED locks
      BY <1>13, <1>a DEF Finish, EndSave, Mark, files
    <2>1. CASE Has(p, "leaving")
      <3>1. /\ at'[p] = "leave"
            /\ \A g \in {"shaky", "copied", "leaving"} : g \in flags'[p] <=> g \in flags[p]
        BY <1>13, <2>1 DEF Finish, EndSave, Goto, Mark
      <3>2. CallMarks(p)'
        BY <2>0, <3>1 DEF CallMarks, Has, InSave
      <3>3. WroteInv(p)'
        BY <2>0, <3>1 DEF SaveInv, WroteInv, Has, locks, L!Holds, Content
      <3> QED
        BY <3>1, <3>2, <3>3 DEF SaveInv, ClaimInv, CopyInv, FreshInv
    <2>2. CASE ~Has(p, "leaving")
      <3>1. at'[p] = "ready" /\ "copied" \notin flags'[p] /\ "leaving" \notin flags'[p]
        BY <1>13, <2>2 DEF Finish, EndSave, Goto, Mark
      <3> QED
        BY <2>0, <3>1, ElsewhereSave DEF CallMarks, Has
    <2> QED
      BY <2>1, <2>2
  <1> QED
    BY <1>1, <1>2, <1>3, <1>4, <1>5, <1>6, <1>7, <1>8, <1>9, <1>10, <1>11, <1>12, <1>13, <1>14
       DEF Saving

LEMMA OwnSave ==
    ASSUME Context, NEW p \in Proc, SaveInv(p), Step(p)
    PROVE  SaveInv(p)'
  BY LockStepSave, ReadingSave, SavingSave, RequestSave, EndingSave DEF Context, BInv, Step

LEMMA StepSave ==
    ASSUME Context, \A p \in Proc : SaveInv(p), [Next]_vars
    PROVE  \A p \in Proc : SaveInv(p)'
  <1> SUFFICES ASSUME NEW p \in Proc PROVE SaveInv(p)'
    OBVIOUS
  <1>1. CASE UNCHANGED vars \/ Tick
    <2>1. UNCHANGED <<locks, files, session>>
      BY <1>1 DEF vars, Tick
    <2> QED
      BY <2>1 DEF locks, files, session, SaveInv, CallMarks, ClaimInv, CopyInv, FreshInv,
         WroteInv, Mine, Content, Has, L!Holds
  <1>2. ASSUME NEW q \in Proc, Step(q) PROVE SaveInv(p)'
    <2>1. CASE q = p
      BY <1>2, <2>1, OwnSave
    <2>2. CASE q # p
      BY <1>2, <2>2, OthersSave DEF SaveInv
    <2> QED
      BY <2>1, <2>2
  <1> QED
    BY <1>1, <1>2 DEF Next, Step

-----------------------------------------------------------------------------
(* The backup while a save is under way.                                   *)

LEMMA CopyStarts ==
    ASSUME BInv, NEW p \in Proc, Step(p), at'[p] = "copy"
    PROVE  StartBackup(p) \/ (at[p] = "copy" /\ name'[p] = name[p])
  <1> USE DEF Goto
  <1>0. at \in [Proc -> Label]
    BY DEF BInv, OwnInv, SessionTypeOK
  <1>a. ~Gone(p)
    BY <1>0 DEF Gone
  <1>1. CASE LockStep(p)
    BY <1>a, <1>1 DEF LockStep, session
  <1>2. CASE Reading(p)
    BY <1>0, <1>2 DEF Reading, LoadLocked, OpenOld, Read, OpenNew, Probe, Unprobe
  <1>3. CASE Saving(p)
    BY <1>0, <1>3 DEF Saving, SaveLocked, SaveRefused, ReplyChanged, Copy, CopyShort, CopyFails,
       ReplyBackup, Truncate, OpenFails, Write, WriteFails, CloseFails, Finish, Check, GoAhead,
       EndSave
  <1>4. CASE Request(p)
    BY <1>0, <1>a, <1>4 DEF Request, Load, Rename, Renamed, Reread, Kill, Edit, EditLocked,
       Refused, RenameLocked, Save, SaveAll, StartSave, StartRead, AskLock, Modify, Check,
       GoAhead, EndSave
  <1>5. CASE Ending(p)
    BY <1>a, <1>5 DEF Ending, Leave, Terminate, CloseStep, Crash, session
  <1> QED
    BY <1>1, <1>2, <1>3, <1>4, <1>5 DEF Step

LEMMA StepSure ==
    ASSUME Context, \A p \in Proc : SaveInv(p), SureInv, [Next]_vars
    PROVE  SureInv'
  <1> USE DEF OwnInv, SessionTypeOK
  <1>0. BInv /\ OwnInv /\ L!Exclusion
    BY DEF Context, BInv
  <1>1. CASE UNCHANGED vars \/ Tick
    BY <1>1 DEF vars, Tick, files, session, SureInv
  <1>2. ASSUME NEW p \in Proc, Step(p) PROVE SureInv'
    <2> SUFFICES ASSUME NEW f \in File, sure'[f] # None
                 PROVE  /\ bak'[f] = sure'[f]
                        /\ \A r \in Proc : ~(at'[r] = "copy" /\ name'[r] = f)
      BY DEF SureInv
    <2>1. \A r \in Proc : r # p => at'[r] = at[r] /\ name'[r] = name[r]
      BY <1>2, OthersBuffer DEF BufferSame
    <2>2. at'[p] = "copy" => StartBackup(p) \/ (at[p] = "copy" /\ name'[p] = name[p])
      BY <1>0, <1>2, CopyStarts
    <2>3. CASE UNCHANGED <<bak, sure>> /\ ~StartBackup(p)
      BY <2>1, <2>2, <2>3 DEF SureInv
    <2>4. CASE StartBackup(p)
      <3>1. name' = name /\ f # name[p] /\ sure[f] # None /\ bak'[f] = bak[f] /\ sure'[f] = sure[f]
        BY <1>0, <2>4 DEF StartBackup, Here
      <3> QED
        BY <2>1, <3>1 DEF SureInv
    <2>5. CASE Copy(p) \/ CopyFails(p)
      <3>1. sure' = sure /\ at[p] = "copy"
        BY <2>5 DEF Copy, CopyFails, Here
      <3>2. f # name[p]
        BY <3>1 DEF SureInv
      <3>3. bak'[f] = bak[f] /\ at'[p] # "copy"
        BY <1>0, <2>5, <3>2 DEF Copy, CopyFails, Goto
      <3> QED
        BY <2>1, <3>1, <3>3 DEF SureInv
    <2>6. CASE Truncate(p)
      <3>0. bak' = bak /\ at[p] = "truncate" /\ at'[p] = "write" /\ name[p] \in File
        BY <1>0, <2>6 DEF Truncate, Goto, Here
      <3>1. CASE f # name[p]
        BY <1>0, <2>1, <2>6, <3>0, <3>1 DEF Truncate, SureInv
      <3>2. CASE f = name[p]
        <4>1. Has(p, "copied") /\ ~bold'[f] /\ ~marred[f] /\ sure'[f] = disk[f]
          BY <1>0, <2>6, <3>2 DEF Truncate
        <4>2. L!Holds(p, f) /\ ~bold[f]
          BY <1>0, <2>6, <3>2, <4>1 DEF Truncate
        <4>3. bak[f] = Content(f)
          BY <3>0, <3>2, <4>1, <4>2 DEF SaveInv, FreshInv, Mine
        <4>4. ASSUME NEW r \in Proc, at'[r] = "copy", name'[r] = f PROVE FALSE
          <5>1. r # p /\ at[r] = "copy" /\ name[r] = f
            BY <2>1, <3>0, <4>4
          <5>2. L!Holds(r, f)
            BY <4>2, <5>1 DEF SaveInv, ClaimInv
          <5> QED
            BY <1>0, <4>1, <4>2, <5>1, <5>2, Alone
        <4> QED
          BY <3>0, <4>1, <4>3, <4>4 DEF Content
      <3> QED
        BY <3>1, <3>2
    <2>7. CASE Write(p)
      <3>1. bak' = bak /\ sure[f] # None /\ sure'[f] = sure[f] /\ at'[p] # "copy"
        <4>1. sure' = sure \/ sure' = [sure EXCEPT ![name[p]] = None]
          BY <2>7 DEF Write
        <4> QED
          BY <1>0, <2>7, <4>1 DEF Write, Goto
      <3> QED
        BY <2>1, <3>1 DEF SureInv
    <2>8. UNCHANGED files \/ Probe(p) \/ Unprobe(p) => UNCHANGED <<bak, sure>>
      BY DEF files, Probe, Unprobe
    <2> QED
      BY <1>2, <2>3, <2>4, <2>5, <2>6, <2>7, <2>8, OffFiles DEF OnFiles
  <1> QED
    BY <1>1, <1>2 DEF Next, Step

LEMMA InitSave == Init => SureInv /\ \A p \in Proc : SaveInv(p)
  BY DEF Init, SureInv, SaveInv, CallMarks, ClaimInv, CopyInv, FreshInv, WroteInv, Has

LEMMA InContext == Spec => []Context
  BY LockTypes, OwnTypes, Buffers, SessionExclusion, PTL DEF Context, BInv

LEMMA Saves == Spec => [](SureInv /\ \A p \in Proc : SaveInv(p))
  <1>1. /\ SureInv /\ \A p \in Proc : SaveInv(p)
        /\ Context /\ [Next]_vars
        => (SureInv /\ \A p \in Proc : SaveInv(p))'
    BY StepSave, StepSure
  <1> QED
    BY <1>1, InitSave, InContext, PTL DEF Spec

(* Once a save under the lock has copied the whole file, the backup has    *)
(* the text that is being replaced from the truncation until the new text  *)
(* is out, whatever fails or dies then: buf_backup copies what             *)
(* buf_writeout truncates, and no process that respects the lock comes in  *)
(* between.  A short copy that file_copy takes for a good one (CopyShort)  *)
(* promises nothing.                                                       *)
THEOREM BackupHolds == Spec => []BackedUp
  <1>1. SureInv => BackedUp
    BY DEF SureInv, BackedUp
  <1> QED
    BY <1>1, Saves, PTL

(* An exit that saves goes on only when its file has the buffer's text:    *)
(* file_write returns success to buf_anycb for nothing less, a failed      *)
(* close and a refused lock excepted.                                      *)
THEOREM ExitKeeps == Spec => []ExitKeepsWork
  <1>1. (\A p \in Proc : SaveInv(p)) => ExitKeepsWork
    BY DEF SaveInv, WroteInv, Content, ExitKeepsWork, Here
  <1> QED
    BY <1>1, Saves, PTL
=============================================================================
