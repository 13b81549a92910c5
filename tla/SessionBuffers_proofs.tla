------------------------ MODULE SessionBuffers_proofs ------------------------
(* Proofs about the lock of a buffer in Session: b_lstat, the flags that   *)
(* decide whether a lock is asked for, and the list of lock.c agree.       *)
EXTENDS Session_proofs

(***************************************************************************)
(* The inductive invariant, one process at a time.  LockFollowsBuffer and  *)
(* ModifiedIsLocked speak of a process between requests; what they lack is *)
(* the call of flock_set under way, what it was made for, and that a       *)
(* process that is closing or dead has no buffer left.                     *)
(***************************************************************************)

CallInv(p) ==
    /\ pc[p] \notin {"idle", "closing"} =>
          at[p] = "lock" /\ file[p] = goal[p] /\ status[p][goal[p]] = "none"
    /\ ~alive[p] \/ pc[p] = "closing" => at[p] = "ready" /\ flags[p] = {}

(* Why a lock is asked for, and what is known then.                        *)
AskInv(p) ==
    at[p] = "lock" =>
        /\ why[p] = "rename" => goal[p] # name[p] /\ Has(p, "lstat")
        /\ why[p] # "rename" => goal[p] = name[p]
        /\ why[p] = "load" => p \in Strict
        /\ why[p] \in {"edit", "save"} => ~Has(p, "lstat")

LstatInv(p) ==
    /\ Has(p, "lstat") => name[p] \in File /\ status[p][name[p]] # "none"
    /\ Has(p, "changed") /\ Has(p, "lock") => Has(p, "lstat")

(* A node is the buffer's, or has just been made by flock_set.             *)
Accounted(p, f) ==
    status[p][f] # "none" =>
        /\ refs[p][f] = 1
        /\ \/ f = name[p] /\ Has(p, "lstat")
           \/ f = goal[p] /\ at[p] = "lock" /\ pc[p] = "idle"

NodesInv(p) ==
    p \notin Strict /\ pc[p] # "closing" => \A f \in File : Accounted(p, f)

BufferInv(p) == CallInv(p) /\ AskInv(p) /\ LstatInv(p) /\ NodesInv(p)

BInv == L!TypeOK /\ OwnInv /\ \A p \in Proc : BufferInv(p)

LEMMA NoneIsNoFile == None \notin File
  BY LockAssumption DEF L!LockConstants

LEMMA InitBuffers == Init => \A p \in Proc : BufferInv(p)
  <1> SUFFICES ASSUME Init, NEW p \in Proc PROVE BufferInv(p)
    OBVIOUS
  <1>1. at[p] = "ready" /\ flags[p] = {}
    BY DEF Init
  <1>2. alive[p] /\ pc[p] = "idle" /\ \A f \in File : status[p][f] = "none"
    BY DEF Init, L!Init
  <1> QED
    BY <1>1, <1>2 DEF BufferInv, CallInv, AskInv, LstatInv, NodesInv, Accounted, Has

-----------------------------------------------------------------------------
(* A step of one process leaves the others' part of the invariant alone.   *)

LockSame(q) ==
    /\ alive'[q] = alive[q] /\ pc'[q] = pc[q] /\ file'[q] = file[q]
    /\ status'[q] = status[q] /\ refs'[q] = refs[q]

SessionSame(q) ==
    /\ at'[q] = at[q] /\ why'[q] = why[q] /\ name'[q] = name[q] /\ goal'[q] = goal[q]
    /\ \A g \in {"lstat", "changed", "lock"} : g \in flags'[q] <=> g \in flags[q]
    /\ flags[q] = {} /\ at[q] = "ready" => flags'[q] = {}

LEMMA SameBufferInv ==
    ASSUME NEW q \in Proc, BufferInv(q), LockSame(q), SessionSame(q)
    PROVE  BufferInv(q)'
  <1> USE DEF LockSame, SessionSame, BufferInv
  <1>1. CallInv(q)'
    BY DEF CallInv
  <1>2. AskInv(q)'
    BY DEF AskInv, Has
  <1>3. LstatInv(q)'
    BY DEF LstatInv, Has
  <1>4. NodesInv(q)'
    BY DEF NodesInv, Accounted, Has
  <1> QED
    BY <1>1, <1>2, <1>3, <1>4

LEMMA LocksSame ==
    ASSUME UNCHANGED locks, NEW q \in Proc
    PROVE  LockSame(q)
  BY DEF locks, LockSame

LEMMA OthersLockSame ==
    ASSUME L!TypeOK, NEW p \in Proc, LockMove(p), NEW q \in Proc, q # p
    PROVE  LockSame(q)
  <1>1. CASE UNCHANGED locks
    BY <1>1, LocksSame
  <1>2. CASE L!Step(p) \/ L!Environment(p)
    <2>1. P!Step(p) \/ P!Environment(p)
      BY <1>2 DEF
         L!Step, P!Step, L!Environment, P!Environment, L!Create, P!Create,
         L!CreateNew, P!CreateNew, L!CreateExists, P!CreateExists,
         L!CreateRefused, P!CreateRefused, L!Unlink, P!Unlink, L!Recreate,
         P!Recreate, L!Lstat, P!Lstat, L!Readlink, P!Readlink,
         L!ReadFailure, P!ReadFailure, L!Compare, P!Compare, L!CompareSame,
         P!CompareSame, L!CompareDead, P!CompareDead, L!CompareOther,
         P!CompareOther, L!SameHost, P!SameHost, L!TryForce, P!TryForce,
         L!Answer, P!Answer, L!Crash, P!Crash, L!Restart, P!Restart, L!Die,
         P!Die, L!Abandon, P!Abandon, L!SetNew, P!SetNew, L!SetAgain, P!SetAgain, L!Clear,
         P!Clear, L!CloseBegin, P!CloseBegin, L!CloseStep, P!CloseStep,
         L!CloseEnd, P!CloseEnd, L!Release, P!Release, L!Return, P!Return,
         L!Forget, P!Forget, L!Goto, P!Goto, L!At, P!At, L!Id, P!Id,
         L!Live, P!Live, L!Holds, P!Holds, L!node, P!node, L!locals,
         P!locals
    <2>2. P!TypeOK
      BY SameTypeOK
    <2> QED
      BY <2>1, <2>2, LockConstantsHold, P!OthersUntouched DEF P!Untouched, LockSame
  <1> QED
    BY <1>1, <1>2 DEF LockMove

LEMMA OthersSessionSame ==
    ASSUME OwnInv, NEW p \in Proc,
           LockStep(p) \/ Reading(p) \/ Saving(p) \/ Request(p) \/ Ending(p),
           NEW q \in Proc, q # p
    PROVE  SessionSame(q)
  <1> USE DEF OwnInv, SessionTypeOK, SessionSame, Goto, Mark, session
  <1>0. ASSUME Gone(p) PROVE SessionSame(q)
    BY <1>0 DEF Gone
  <1>1. CASE LockStep(p)
    BY <1>0, <1>1 DEF LockStep
  <1>2. CASE Reading(p)
    BY <1>2 DEF Reading, LoadLocked, OpenOld, Read, OpenNew, Probe, Unprobe, Resume
  <1>3. ASSUME Moves(p), UNCHANGED name, why' = why \/ why' = [why EXCEPT ![p] = "load"],
               goal' = goal \/ goal' = [goal EXCEPT ![p] = None]
        PROVE  SessionSame(q)
    BY <1>3 DEF Moves
  <1>4. ASSUME NEW f, NEW w, AskLock(p, f, w), NEW on, Mark(p, on, {}) \/ flags' = flags,
               name' = name \/ name' = [name EXCEPT ![p] = f]
        PROVE  SessionSame(q)
    BY <1>4 DEF AskLock
  <1>5. CASE Saving(p)
    BY <1>5 DEF Saving, SaveLocked, SaveRefused, ReplyChanged, StartBackup, Copy, CopyShort,
       CopyFails, ReplyBackup, Truncate, OpenFails, Write, WriteFails, CloseFails, Finish, Resume,
       Check, GoAhead, EndSave
  <1>6. CASE Request(p)
    <2>1. ASSUME NEW f, Load(p, f) PROVE SessionSame(q)
      BY <2>1 DEF Load, StartRead, AskLock
    <2>2. ASSUME NEW f, Rename(p, f) PROVE SessionSame(q)
      BY <2>2 DEF Rename, AskLock, Renamed
    <2>3. CASE Reread(p) \/ Edit(p)
      BY <2>3 DEF Reread, StartRead, Edit, Modify, AskLock
    <2>4. CASE Kill(p)
      BY <1>0, <2>4 DEF Kill
    <2>5. CASE EditLocked(p) \/ Refused(p) \/ RenameLocked(p)
      BY <2>5 DEF EditLocked, Refused, RenameLocked, Modify, Renamed, Resume
    <2>6. CASE Save(p) \/ SaveAll(p)
      BY <2>6 DEF Save, SaveAll, StartSave, AskLock, Check, GoAhead, EndSave
    <2> QED
      BY <1>6, <2>1, <2>2, <2>3, <2>4, <2>5, <2>6 DEF Request
  <1>7. CASE Ending(p)
    BY <1>0, <1>7 DEF Ending, Leave, Terminate, CloseStep, Crash
  <1> QED
    BY <1>1, <1>2, <1>5, <1>6, <1>7

(* What a step of p and the step's frame give to every other process.      *)
LEMMA OthersBufferInv ==
    ASSUME BInv, NEW p \in Proc,
           LockStep(p) \/ Reading(p) \/ Saving(p) \/ Request(p) \/ Ending(p),
           NEW q \in Proc, q # p
    PROVE  BufferInv(q)'
  BY StepLockMove, OthersLockSame, OthersSessionSame, SameBufferInv DEF BInv

-----------------------------------------------------------------------------
(* The calls of the lock, as their process sees them.                      *)

Stays(p) ==
    /\ pc'[p] \notin {"idle", "closing"} /\ alive'[p] = alive[p] /\ file'[p] = file[p]
    /\ status'[p] = status[p] /\ refs'[p] = refs[p]

Returns(p) ==
    /\ pc'[p] = "idle" /\ alive'[p] = alive[p]
    /\ \A f \in File : f # file[p] =>
          status'[p][f] = status[p][f] /\ refs'[p][f] = refs[p][f]
    /\ status'[p][file[p]] # "none" => refs'[p][file[p]] = 1

Exits(p) ==
    /\ pc'[p] = "closing" /\ alive'[p] = alive[p]
    /\ status'[p] = status[p] /\ refs'[p] = refs[p]

Dies(p) ==
    /\ pc'[p] = "idle" /\ ~alive'[p]
    /\ \A f \in File : status'[p][f] = "none"

LEMMA GotoStays ==
    ASSUME L!TypeOK, NEW p \in Proc, NEW l \in L!Pc \ {"idle", "closing"}, L!Goto(p, l),
           UNCHANGED <<alive, file, status, refs>>
    PROVE  Stays(p)
  BY DEF L!TypeOK, L!Goto, Stays

LEMMA DieDies ==
    ASSUME L!TypeOK, NEW p \in Proc, L!Die(p)
    PROVE  Dies(p)
  BY DEF L!TypeOK, L!Die, L!Goto, Dies

LEMMA AbandonExits ==
    ASSUME L!TypeOK, NEW p \in Proc, L!Abandon(p)
    PROVE  Exits(p)
  BY DEF L!TypeOK, L!Abandon, L!Goto, L!node, Exits

LEMMA ReturnReturns ==
    ASSUME L!TypeOK, NEW p \in Proc, file[p] \in File, NEW s, L!Return(p, s),
           alive' = alive
    PROVE  Returns(p)
  BY DEF L!TypeOK, L!Return, L!Goto, Returns

LEMMA CallEffect ==
    ASSUME L!TypeOK, NEW p \in Proc, L!Step(p) \/ L!Answer(p)
    PROVE  /\ pc[p] \notin {"idle", "closing"} /\ file[p] \in File
           /\ Stays(p) \/ Returns(p) \/ Exits(p) \/ Dies(p)
  <1>1. pc[p] \notin {"idle", "closing"} /\ file[p] \in File
    <2>1. pc[p] \notin {"idle", "closing"}
      BY DEF L!Step, L!Create, L!CreateRefused, L!Unlink, L!Recreate, L!Lstat, L!Readlink,
         L!Compare, L!Answer, L!At
    <2> QED
      BY <2>1 DEF L!TypeOK
  <1>0. ASSUME NEW l \in {"create", "unlink", "recreate", "lstat", "readlink", "compare", "ask"},
               L!Goto(p, l), UNCHANGED <<alive, file, status, refs>>
        PROVE  Stays(p)
    BY <1>0, GotoStays DEF L!Pc
  <1>2. CASE L!Create(p)
    BY <1>1, <1>2, <1>0 DEF L!Create, L!CreateNew, L!CreateExists, L!node, L!locals
  <1>3. CASE L!CreateRefused(p)
    BY <1>1, <1>3, ReturnReturns DEF L!CreateRefused
  <1>4. CASE L!Unlink(p)
    BY <1>1, <1>4, <1>0, ReturnReturns DEF L!Unlink, L!node, L!locals
  <1>5. CASE L!Recreate(p)
    BY <1>1, <1>5, <1>0, ReturnReturns DEF L!Recreate, L!node, L!locals
  <1>6. CASE L!Lstat(p)
    BY <1>1, <1>6, <1>0, DieDies, AbandonExits DEF L!Lstat, L!node, L!locals
  <1>7. CASE L!Readlink(p)
    BY <1>1, <1>7, <1>0, ReturnReturns
       DEF L!Readlink, L!ReadFailure, L!node
  <1>8. ASSUME L!TryForce(p), alive' = alive PROVE Stays(p)
    BY <1>8, <1>0 DEF L!TryForce, L!node
  <1>9. CASE L!Compare(p)
    <2>1. CASE L!CompareSame(p)
      BY <1>1, <1>9, <2>1, ReturnReturns DEF L!Compare, L!CompareSame
    <2>2. CASE L!CompareDead(p)
      BY <1>1, <1>8, <1>9, <2>2 DEF L!Compare, L!CompareDead
    <2>3. CASE L!CompareOther(p)
      BY <1>1, <1>9, <1>0, <2>3, ReturnReturns
         DEF L!Compare, L!CompareOther, L!node, L!locals
    <2> QED
      BY <1>9, <2>1, <2>2, <2>3 DEF L!Compare
  <1>10. CASE L!Answer(p)
    BY <1>1, <1>8, <1>10, ReturnReturns DEF L!Answer
  <1> QED
    BY <1>1, <1>2, <1>3, <1>4, <1>5, <1>6, <1>7, <1>9, <1>10 DEF L!Step

LEMMA ClearEffect ==
    ASSUME L!TypeOK, NEW p \in Proc, NEW f \in File, L!Clear(p, f)
    PROVE  /\ alive' = alive /\ pc' = pc /\ file' = file
           /\ \A g \in File : g # f =>
                 status'[p][g] = status[p][g] /\ refs'[p][g] = refs[p][g]
           /\ refs[p][f] = 1 => status'[p][f] = "none"
  <1>1. CASE refs[p][f] = 1
    BY <1>1 DEF L!TypeOK, L!Clear, L!Release, L!locals
  <1>2. CASE refs[p][f] # 1
    BY <1>2 DEF L!TypeOK, L!Clear, L!locals
  <1> QED
    BY <1>1, <1>2

LEMMA ClearLockEffect ==
    ASSUME L!TypeOK, NEW p \in Proc, name[p] \in File, ClearLock(p)
    PROVE  /\ alive' = alive /\ pc' = pc /\ file' = file
           /\ \A g \in File : g # name[p] =>
                 status'[p][g] = status[p][g] /\ refs'[p][g] = refs[p][g]
           /\ Has(p, "lstat") /\ refs[p][name[p]] = 1 => status'[p][name[p]] = "none"
           /\ status[p][name[p]] = "none" => status'[p][name[p]] = "none"
  <1>1. CASE Has(p, "lstat") /\ status[p][name[p]] # "none"
    BY <1>1, ClearEffect DEF ClearLock
  <1>2. CASE ~(Has(p, "lstat") /\ status[p][name[p]] # "none")
    BY <1>2 DEF ClearLock, locks
  <1> QED
    BY <1>1, <1>2

-----------------------------------------------------------------------------
(* A step keeps its own process' part of the invariant.                    *)

(* A process without a buffer and without a node.                          *)
LEMMA BareBufferInv ==
    ASSUME NEW p \in Proc, at'[p] = "ready", flags'[p] = {},
           pc'[p] \in {"idle", "closing"},
           p \notin Strict /\ pc'[p] # "closing" => \A f \in File : status'[p][f] = "none"
    PROVE  BufferInv(p)'
  BY DEF BufferInv, CallInv, AskInv, LstatInv, NodesInv, Accounted, Has

LEMMA GoneSession ==
    ASSUME OwnInv, NEW p \in Proc, Gone(p)
    PROVE  at'[p] = "ready" /\ flags'[p] = {}
  BY DEF OwnInv, SessionTypeOK, Gone, Goto

LEMMA LockStepBuffer ==
    ASSUME BInv, NEW p \in Proc, LockStep(p)
    PROVE  BufferInv(p)'
  <1>0. /\ L!TypeOK /\ OwnInv /\ BufferInv(p) /\ at[p] = "lock"
        /\ L!Step(p) \/ L!Answer(p)
    BY DEF BInv, LockStep
  <1>1. /\ pc[p] \notin {"idle", "closing"} /\ file[p] \in File
        /\ Stays(p) \/ Returns(p) \/ Exits(p) \/ Dies(p)
    BY <1>0, CallEffect
  <1>2. alive[p] /\ file[p] = goal[p] /\ status[p][goal[p]] = "none"
    BY <1>0, <1>1 DEF BufferInv, CallInv
  <1>3. CASE Exits(p) \/ Dies(p)
    <2>1. Gone(p)
      BY <1>3 DEF Exits, Dies, LockStep
    <2> QED
      BY <1>0, <1>3, <2>1, GoneSession, BareBufferInv DEF Exits, Dies
  <1>4. CASE Stays(p)
    <2>1. UNCHANGED session
      BY <1>2, <1>4 DEF Stays, LockStep
    <2> QED
      BY <1>0, <1>1, <1>2, <1>4, <2>1
         DEF Stays, session, BufferInv, CallInv, AskInv, LstatInv, NodesInv, Accounted, Has
  <1>5. CASE Returns(p)
    <2>1. UNCHANGED session
      BY <1>2, <1>5 DEF Returns, LockStep
    <2>2. CallInv(p)' /\ AskInv(p)'
      BY <1>0, <1>2, <1>5, <2>1 DEF Returns, session, BufferInv, CallInv, AskInv, Has
    <2>3. LstatInv(p)'
      BY <1>0, <1>2, <1>5, <2>1 DEF Returns, session, BufferInv, LstatInv, Has
    <2>4. NodesInv(p)'
      BY <1>0, <1>1, <1>2, <1>5, <2>1
         DEF Returns, session, BufferInv, NodesInv, Accounted, Has
    <2> QED
      BY <2>2, <2>3, <2>4 DEF BufferInv
  <1> QED
    BY <1>1, <1>3, <1>4, <1>5

(* A step that asks for no lock and uses none.                             *)
LEMMA QuietBuffer ==
    ASSUME NEW p \in Proc, BufferInv(p), alive[p], pc[p] = "idle", LockSame(p),
           at[p] # "lock", at'[p] # "lock", name'[p] = name[p],
           "lstat" \in flags'[p] <=> "lstat" \in flags[p],
           "changed" \in flags'[p] /\ "lock" \in flags'[p] => "lstat" \in flags'[p]
    PROVE  BufferInv(p)'
  BY DEF LockSame, BufferInv, CallInv, AskInv, LstatInv, NodesInv, Accounted, Has

(* flock_set has returned the lock that was asked for the buffer's file.   *)
LEMMA GotBuffer ==
    ASSUME NEW p \in Proc, BufferInv(p), alive[p], pc[p] = "idle", LockSame(p),
           name[p] \in File, at[p] = "lock", why[p] # "rename", Got(p),
           at'[p] # "lock", name'[p] = name[p], "lstat" \in flags'[p]
    PROVE  BufferInv(p)'
  BY DEF LockSame, BufferInv, CallInv, AskInv, LstatInv, NodesInv, Accounted, Has, Got

(* It has returned without.                                                *)
LEMMA RefusedBuffer ==
    ASSUME NEW p \in Proc, BufferInv(p), alive[p], pc[p] = "idle", LockSame(p),
           at[p] = "lock", ~Got(p), at'[p] # "lock", name'[p] = name[p],
           \A g \in {"lstat", "changed", "lock"} : g \in flags'[p] <=> g \in flags[p]
    PROVE  BufferInv(p)'
  BY DEF LockSame, BufferInv, CallInv, AskInv, LstatInv, NodesInv, Accounted, Has, Got

LEMMA AskLockBuffer ==
    ASSUME BInv, NEW p \in Proc, Here(p, "ready"),
           NEW f \in File, NEW w \in {"load", "edit", "save", "rename"}, AskLock(p, f, w),
           w = "rename" => f # name[p] /\ Has(p, "lstat"),
           w # "rename" => f = name'[p],
           w = "load" => p \in Strict,
           w \in {"edit", "save"} => ~Has(p, "lstat"),
           name'[p] = name[p] \/ name[p] = None,
           \A g \in {"lstat", "changed", "lock"} : g \in flags'[p] <=> g \in flags[p]
    PROVE  BufferInv(p)'
  <1>0. L!TypeOK /\ OwnInv /\ BufferInv(p) /\ alive[p] /\ pc[p] = "idle" /\ at[p] = "ready"
    BY DEF BInv, Here
  <1>1. at'[p] = "lock" /\ goal'[p] = f /\ why'[p] = w
    BY <1>0 DEF AskLock, Goto, OwnInv, SessionTypeOK
  <1>2. Has(p, "lstat") => name'[p] = name[p] /\ name[p] \in File
    BY <1>0, NoneIsNoFile DEF BufferInv, LstatInv
  <1>3. AskInv(p)'
    BY <1>1, <1>2 DEF AskInv, Has
  <1>4. CASE L!SetNew(p, f)
    <2>1. /\ alive'[p] = alive[p] /\ status'[p] = status[p] /\ refs'[p] = refs[p]
          /\ pc'[p] = "create" /\ file'[p] = f /\ status[p][f] = "none"
      BY <1>0, <1>4 DEF L!SetNew, L!Goto, L!TypeOK, L!node
    <2>2. CallInv(p)'
      BY <1>0, <1>1, <2>1 DEF CallInv
    <2>3. LstatInv(p)'
      BY <1>0, <1>2, <2>1 DEF BufferInv, LstatInv, Has
    <2>4. NodesInv(p)'
      BY <1>0, <1>1, <1>2, <2>1 DEF BufferInv, NodesInv, Accounted, Has
    <2> QED
      BY <1>3, <2>2, <2>3, <2>4 DEF BufferInv
  <1>5. CASE L!SetAgain(p, f)
    <2>1. /\ alive'[p] = alive[p] /\ status'[p] = status[p] /\ pc'[p] = pc[p]
          /\ status[p][f] # "none"
      BY <1>5 DEF L!SetAgain
    <2>2. p \in Strict
      BY <1>0, <1>2, <2>1 DEF BufferInv, NodesInv, Accounted
    <2>3. CallInv(p)'
      BY <1>0, <1>1, <2>1 DEF CallInv
    <2>4. LstatInv(p)'
      BY <1>0, <1>2, <2>1 DEF BufferInv, LstatInv, Has
    <2> QED
      BY <1>3, <2>2, <2>3, <2>4 DEF BufferInv, NodesInv
  <1> QED
    BY <1>4, <1>5 DEF AskLock

LEMMA CheckEffect ==
    ASSUME OwnInv, NEW p \in Proc, NEW on \in {{}, {"lstat"}, {"leaving"}}, Check(p, on)
    PROVE  /\ at'[p] # "lock"
           /\ \A g \in {"lstat", "changed", "lock"} :
                 g \in flags'[p] <=> g \in flags[p] \cup on
  BY DEF OwnInv, SessionTypeOK, Check, GoAhead, EndSave, Goto, Mark

LEMMA ReadingBuffer ==
    ASSUME BInv, NEW p \in Proc, Reading(p)
    PROVE  BufferInv(p)'
  <1>0. OwnInv /\ BufferInv(p)
    BY DEF BInv
  <1>1. CASE LoadLocked(p)
    <2>1. /\ alive[p] /\ pc[p] = "idle" /\ at[p] = "lock" /\ why[p] # "rename" /\ Got(p)
          /\ name[p] \in File /\ name'[p] = name[p] /\ at'[p] # "lock"
          /\ "lstat" \in flags'[p]
      BY <1>0, <1>1 DEF LoadLocked, Returned, Here, Goto, Mark, OwnInv, SessionTypeOK
    <2> QED
      BY <1>0, <1>1, <2>1, LocksSame, GotBuffer DEF LoadLocked
  <1>2. CASE OpenOld(p) \/ Read(p) \/ OpenNew(p) \/ Probe(p) \/ Unprobe(p)
    <2>1. UNCHANGED locks /\ alive[p] /\ pc[p] = "idle" /\ at[p] # "lock"
      BY <1>2 DEF OpenOld, Read, OpenNew, Probe, Unprobe, Here
    <2>2. /\ at'[p] # "lock" /\ name'[p] = name[p]
          /\ "lstat" \in flags'[p] <=> "lstat" \in flags[p]
          /\ "changed" \in flags'[p] /\ "lock" \in flags'[p] =>
                "changed" \in flags[p] /\ "lock" \in flags[p]
      BY <1>0, <1>2 DEF OpenOld, Read, OpenNew, Probe, Unprobe, Goto, Mark, OwnInv, SessionTypeOK
    <2>3. "changed" \in flags'[p] /\ "lock" \in flags'[p] => "lstat" \in flags'[p]
      BY <1>0, <2>2 DEF BufferInv, LstatInv, Has
    <2> QED
      BY <1>0, <2>1, <2>2, <2>3, LocksSame, QuietBuffer
  <1> QED
    BY <1>1, <1>2 DEF Reading

(* The steps of a save once the lock is decided.                           *)
Committed(p) ==
    \/ ReplyChanged(p) \/ StartBackup(p) \/ Copy(p) \/ CopyShort(p) \/ CopyFails(p)
    \/ ReplyBackup(p) \/ Truncate(p) \/ OpenFails(p) \/ Write(p) \/ WriteFails(p) \/ CloseFails(p)
    \/ Finish(p)

LEMMA SavingBuffer ==
    ASSUME BInv, NEW p \in Proc, Saving(p)
    PROVE  BufferInv(p)'
  <1>0. OwnInv /\ BufferInv(p)
    BY DEF BInv
  <1>1. CASE SaveLocked(p)
    <2>1. /\ alive[p] /\ pc[p] = "idle" /\ at[p] = "lock" /\ why[p] # "rename" /\ Got(p)
          /\ name[p] \in File /\ name'[p] = name[p] /\ Check(p, {"lstat"})
      BY <1>0, <1>1 DEF SaveLocked, Returned, Here, OwnInv, SessionTypeOK
    <2>2. at'[p] # "lock" /\ "lstat" \in flags'[p]
      BY <1>0, <2>1, CheckEffect
    <2> QED
      BY <1>0, <1>1, <2>1, <2>2, LocksSame, GotBuffer DEF SaveLocked
  <1>2. CASE SaveRefused(p)
    <2>1. /\ alive[p] /\ pc[p] = "idle" /\ at[p] = "lock" /\ ~Got(p)
          /\ name'[p] = name[p] /\ at'[p] # "lock"
          /\ \A g \in {"lstat", "changed", "lock"} : g \in flags'[p] <=> g \in flags[p]
      BY <1>0, <1>2
         DEF SaveRefused, Returned, Here, EndSave, Goto, Mark, OwnInv, SessionTypeOK
    <2> QED
      BY <1>0, <1>2, <2>1, LocksSame, RefusedBuffer DEF SaveRefused
  <1>3. CASE Committed(p)
    <2>1. UNCHANGED locks /\ alive[p] /\ pc[p] = "idle" /\ at[p] # "lock"
      BY <1>3 DEF Committed, ReplyChanged, StartBackup, Copy, CopyShort, CopyFails,
         ReplyBackup, Truncate, OpenFails, Write, WriteFails, CloseFails, Finish, Here
    <2>2. /\ at'[p] # "lock" /\ name'[p] = name[p]
          /\ \A g \in {"lstat", "lock"} : g \in flags'[p] <=> g \in flags[p]
          /\ "changed" \in flags'[p] => "changed" \in flags[p]
      <3> USE <1>0 DEF Goto, Mark, EndSave, OwnInv, SessionTypeOK
      <3>1. CASE ReplyChanged(p)
        BY <3>1 DEF ReplyChanged, GoAhead
      <3>2. CASE StartBackup(p) \/ Copy(p) \/ CopyShort(p) \/ CopyFails(p) \/ ReplyBackup(p)
        BY <3>2 DEF StartBackup, Copy, CopyShort, CopyFails, ReplyBackup
      <3>3. CASE Truncate(p) \/ OpenFails(p) \/ Write(p) \/ WriteFails(p)
        BY <3>3 DEF Truncate, OpenFails, Write, WriteFails
      <3>4. CASE CloseFails(p) \/ Finish(p)
        BY <3>4 DEF CloseFails, Finish
      <3> QED
        BY <1>3, <3>1, <3>2, <3>3, <3>4 DEF Committed
    <2>3. "changed" \in flags'[p] /\ "lock" \in flags'[p] => "lstat" \in flags'[p]
      BY <1>0, <2>2 DEF BufferInv, LstatInv, Has
    <2> QED
      BY <1>0, <2>1, <2>2, <2>3, LocksSame, QuietBuffer
  <1> QED
    BY <1>1, <1>2, <1>3 DEF Saving, Committed

LEMMA KillBuffer ==
    ASSUME BInv, NEW p \in Proc, Kill(p)
    PROVE  BufferInv(p)'
  <1>0. /\ L!TypeOK /\ OwnInv /\ BufferInv(p) /\ alive[p] /\ pc[p] = "idle"
        /\ name[p] \in File /\ ClearLock(p) /\ Gone(p)
    BY DEF BInv, Kill, Returned, Here, OwnInv, SessionTypeOK
  <1>1. p \notin Strict => at[p] # "lock"
    BY <1>0 DEF Kill, Returned, Here, BufferInv, AskInv
  <1>2. ASSUME p \notin Strict, NEW f \in File PROVE status'[p][f] = "none"
    <2>1. status[p][f] # "none" => f = name[p] /\ Has(p, "lstat") /\ refs[p][f] = 1
      BY <1>0, <1>1, <1>2 DEF BufferInv, NodesInv, Accounted
    <2> QED
      BY <1>0, <2>1, ClearLockEffect
  <1>3. pc'[p] = "idle"
    BY <1>0, ClearLockEffect
  <1> QED
    BY <1>0, <1>2, <1>3, GoneSession, BareBufferInv

LEMMA RenameLockedBuffer ==
    ASSUME BInv, NEW p \in Proc, RenameLocked(p)
    PROVE  BufferInv(p)'
  <1>0. /\ L!TypeOK /\ OwnInv /\ BufferInv(p) /\ alive[p] /\ pc[p] = "idle"
        /\ name[p] \in File /\ goal[p] \in File /\ ClearLock(p) /\ Got(p)
    BY DEF BInv, RenameLocked, Returned, Here, OwnInv, SessionTypeOK
  <1>1. goal[p] # name[p] /\ Has(p, "lstat") /\ at[p] = "lock"
    BY <1>0 DEF RenameLocked, Returned, Here, BufferInv, AskInv
  <1>2. /\ name'[p] = goal[p] /\ at'[p] = "ready" /\ "lstat" \in flags'[p]
    BY <1>0, <1>1 DEF RenameLocked, Renamed, Goto, Mark, Has, OwnInv, SessionTypeOK
  <1>3. /\ alive' = alive /\ pc' = pc
        /\ \A g \in File : g # name[p] =>
              status'[p][g] = status[p][g] /\ refs'[p][g] = refs[p][g]
        /\ refs[p][name[p]] = 1 => status'[p][name[p]] = "none"
        /\ status[p][name[p]] = "none" => status'[p][name[p]] = "none"
    BY <1>0, <1>1, ClearLockEffect
  <1>4. CallInv(p)' /\ AskInv(p)'
    BY <1>0, <1>2, <1>3 DEF CallInv, AskInv
  <1>5. LstatInv(p)'
    BY <1>0, <1>1, <1>2, <1>3 DEF LstatInv, Has, Got
  <1>6. NodesInv(p)'
    <2> SUFFICES ASSUME p \notin Strict, NEW f \in File, status'[p][f] # "none"
                 PROVE  Accounted(p, f)'
      BY DEF NodesInv, Accounted
    <2>1. f # name[p]
      BY <1>0, <1>3 DEF BufferInv, NodesInv, Accounted
    <2>2. refs[p][f] = 1 /\ f = goal[p]
      BY <1>0, <1>3, <2>1 DEF BufferInv, NodesInv, Accounted
    <2> QED
      BY <1>2, <1>3, <2>1, <2>2 DEF Accounted, Has
  <1> QED
    BY <1>4, <1>5, <1>6 DEF BufferInv

LEMMA StartSaveBuffer ==
    ASSUME BInv, NEW p \in Proc, Here(p, "ready"), name[p] \in File,
           NEW on \in {{}, {"leaving"}}, StartSave(p, on)
    PROVE  BufferInv(p)'
  <1>0. /\ OwnInv /\ BufferInv(p) /\ alive[p] /\ pc[p] = "idle" /\ at[p] = "ready"
        /\ name'[p] = name[p]
    BY DEF BInv, Here, StartSave
  <1>1. CASE NeedsLock(p)
    <2>1. AskLock(p, name[p], "save") /\ Mark(p, on, {})
      BY <1>1 DEF StartSave
    <2>2. \A g \in {"lstat", "changed", "lock"} : g \in flags'[p] <=> g \in flags[p]
      BY <1>0, <2>1 DEF Mark, OwnInv, SessionTypeOK
    <2> QED
      BY <1>0, <1>1, <2>1, <2>2, AskLockBuffer DEF NeedsLock
  <1>2. CASE ~NeedsLock(p)
    <2>1. UNCHANGED locks /\ Check(p, on)
      BY <1>2 DEF StartSave
    <2>2. /\ at'[p] # "lock"
          /\ \A g \in {"lstat", "changed", "lock"} : g \in flags'[p] <=> g \in flags[p]
      BY <1>0, <2>1, CheckEffect
    <2> QED
      BY <1>0, <2>1, <2>2, LocksSame, QuietBuffer DEF BufferInv, LstatInv, Has
  <1> QED
    BY <1>1, <1>2

LEMMA RequestBuffer ==
    ASSUME BInv, NEW p \in Proc, Request(p)
    PROVE  BufferInv(p)'
  <1>0. OwnInv /\ BufferInv(p) /\ Uses[p] \subseteq File /\ Names[p] \subseteq File
    BY SessionConstants DEF BInv
  <1>1. ASSUME NEW f \in File, Load(p, f) PROVE BufferInv(p)'
    <2>1. /\ Here(p, "ready") /\ name[p] = None /\ name'[p] = f /\ flags' = flags
          /\ StartRead(p, f)
      BY <1>0, <1>1 DEF Load, OwnInv, SessionTypeOK
    <2>2. CASE p \in Strict
      BY <2>1, <2>2, AskLockBuffer DEF StartRead
    <2>3. CASE p \notin Strict
      <3>1. UNCHANGED locks /\ at'[p] = "open" /\ LockSame(p)
        BY <1>0, <2>1, <2>3, LocksSame DEF StartRead, Goto, OwnInv, SessionTypeOK
      <3>2. alive[p] /\ pc[p] = "idle" /\ at[p] = "ready" /\ ~Has(p, "lstat")
        BY <1>0, <2>1, NoneIsNoFile DEF Here, BufferInv, LstatInv
      <3> QED
        BY <1>0, <2>1, <3>1, <3>2
           DEF LockSame, BufferInv, CallInv, AskInv, LstatInv, NodesInv, Accounted, Has
    <2> QED
      BY <2>2, <2>3
  <1>2. ASSUME NEW f \in File, Rename(p, f) PROVE BufferInv(p)'
    <2>1. Here(p, "ready") /\ f # name[p]
      BY <1>2 DEF Rename
    <2>2. CASE Has(p, "lstat")
      BY <1>2, <2>1, <2>2, AskLockBuffer DEF Rename
    <2>3. CASE ~Has(p, "lstat")
      <3>1. /\ LockSame(p) /\ at'[p] = "ready"
            /\ \A g \in {"lstat", "changed", "lock"} : g \in flags'[p] <=> g \in flags[p]
        BY <1>0, <1>2, <2>3, LocksSame
           DEF Rename, Renamed, Goto, Mark, OwnInv, SessionTypeOK
      <3>2. alive[p] /\ pc[p] = "idle" /\ at[p] = "ready"
        BY <2>1 DEF Here
      <3> QED
        BY <1>0, <2>3, <3>1, <3>2
           DEF LockSame, BufferInv, CallInv, AskInv, LstatInv, NodesInv, Accounted, Has
    <2> QED
      BY <2>2, <2>3
  <1>3. CASE Reread(p)
    <2>1. /\ Here(p, "ready") /\ name[p] \in File /\ name' = name /\ flags' = flags
          /\ StartRead(p, name[p])
      BY <1>0, <1>3 DEF Reread
    <2>2. CASE p \in Strict
      BY <2>1, <2>2, AskLockBuffer DEF StartRead
    <2>3. CASE p \notin Strict
      <3>1. UNCHANGED locks /\ at'[p] = "open"
        BY <1>0, <2>1, <2>3 DEF StartRead, Goto, OwnInv, SessionTypeOK
      <3> QED
        BY <1>0, <2>1, <3>1, LocksSame, QuietBuffer DEF Here, BufferInv, LstatInv, Has
    <2> QED
      BY <2>2, <2>3
  <1>4. CASE Kill(p)
    BY <1>4, KillBuffer
  <1>5. CASE Edit(p)
    <2>1. Here(p, "ready") /\ name[p] \in File /\ name' = name
      BY <1>0, <1>5 DEF Edit
    <2>2. CASE NeedsLock(p)
      BY <1>5, <2>1, <2>2, AskLockBuffer DEF Edit, NeedsLock
    <2>3. CASE ~NeedsLock(p)
      <3>1. /\ UNCHANGED locks /\ at'[p] = "ready"
            /\ \A g \in {"lstat", "lock"} : g \in flags'[p] <=> g \in flags[p]
        BY <1>0, <1>5, <2>3 DEF Edit, Modify, Goto, Mark, OwnInv, SessionTypeOK
      <3> QED
        BY <1>0, <2>1, <2>3, <3>1, LocksSame, QuietBuffer
           DEF Here, NeedsLock, BufferInv, LstatInv, Has
    <2> QED
      BY <2>2, <2>3
  <1>6. CASE EditLocked(p)
    <2>1. /\ alive[p] /\ pc[p] = "idle" /\ at[p] = "lock" /\ why[p] # "rename" /\ Got(p)
          /\ name[p] \in File /\ name' = name /\ at'[p] # "lock" /\ UNCHANGED locks
          /\ "lstat" \in flags'[p]
      BY <1>0, <1>6
         DEF EditLocked, Returned, Here, Modify, Goto, Mark, OwnInv, SessionTypeOK
    <2> QED
      BY <1>0, <2>1, LocksSame, GotBuffer
  <1>7. CASE Refused(p)
    <2>1. /\ alive[p] /\ pc[p] = "idle" /\ at[p] = "lock" /\ ~Got(p)
          /\ name' = name /\ flags' = flags /\ at'[p] # "lock" /\ UNCHANGED locks
      BY <1>0, <1>7 DEF Refused, Returned, Here, Goto, OwnInv, SessionTypeOK
    <2> QED
      BY <1>0, <2>1, LocksSame, RefusedBuffer
  <1>8. CASE RenameLocked(p)
    BY <1>8, RenameLockedBuffer
  <1>9. CASE Save(p) \/ SaveAll(p)
    BY <1>0, <1>9, StartSaveBuffer DEF Save, SaveAll
  <1> QED
    BY <1>0, <1>1, <1>2, <1>3, <1>4, <1>5, <1>6, <1>7, <1>8, <1>9 DEF Request

LEMMA EndingBuffer ==
    ASSUME BInv, NEW p \in Proc, Ending(p)
    PROVE  BufferInv(p)'
  <1>0. L!TypeOK /\ OwnInv /\ BufferInv(p)
    BY DEF BInv
  <1>1. CASE Leave(p) \/ Terminate(p)
    <2>1. Gone(p) /\ pc'[p] = "closing"
      BY <1>0, <1>1 DEF Leave, Terminate, L!CloseBegin, L!Goto, L!TypeOK
    <2> QED
      BY <1>0, <2>1, GoneSession, BareBufferInv
  <1>2. CASE Crash(p)
    <2>1. Gone(p) /\ Dies(p)
      BY <1>0, <1>2, DieDies DEF Crash, L!Crash
    <2> QED
      BY <1>0, <2>1, GoneSession, BareBufferInv DEF Dies
  <1>3. CASE CloseStep(p)
    <2>1. at'[p] = "ready" /\ flags'[p] = {}
      BY <1>0, <1>3 DEF CloseStep, session, BufferInv, CallInv, L!CloseStep, L!CloseEnd, L!At
    <2>2. CASE L!CloseEnd(p)
      <3>1. pc'[p] = "idle" /\ \A f \in File : status'[p][f] = "none"
        BY <1>0, <2>2 DEF L!CloseEnd, L!Goto, L!TypeOK, L!node
      <3> QED
        BY <2>1, <3>1, BareBufferInv
    <2>3. ASSUME NEW f \in File, L!CloseStep(p, f) PROVE BufferInv(p)'
      <3>1. pc'[p] = "closing"
        BY <2>3 DEF L!CloseStep, L!At
      <3> QED
        BY <2>1, <3>1, BareBufferInv
    <2> QED
      BY <1>3, <2>2, <2>3 DEF CloseStep
  <1> QED
    BY <1>1, <1>2, <1>3 DEF Ending

-----------------------------------------------------------------------------
LEMMA StepBuffers ==
    ASSUME BInv, [Next]_vars
    PROVE  \A q \in Proc : BufferInv(q)'
  <1> SUFFICES ASSUME NEW q \in Proc PROVE BufferInv(q)'
    OBVIOUS
  <1>0. BufferInv(q)
    BY DEF BInv
  <1>1. CASE UNCHANGED vars \/ Tick
    BY <1>0, <1>1, LocksSame, SameBufferInv DEF vars, Tick, session, SessionSame
  <1>2. ASSUME NEW p \in Proc,
               LockStep(p) \/ Reading(p) \/ Saving(p) \/ Request(p) \/ Ending(p)
        PROVE  BufferInv(q)'
    <2>1. CASE q = p
      BY <1>2, <2>1, LockStepBuffer, ReadingBuffer, SavingBuffer, RequestBuffer, EndingBuffer
    <2>2. CASE q # p
      BY <1>2, <2>2, OthersBufferInv
    <2> QED
      BY <2>1, <2>2
  <1> QED
    BY <1>1, <1>2 DEF Next

LEMMA Buffers == Spec => [](\A p \in Proc : BufferInv(p))
  <1>1. /\ \A p \in Proc : BufferInv(p)
        /\ L!TypeOK /\ OwnInv /\ [Next]_vars
        => (\A p \in Proc : BufferInv(p))'
    BY StepBuffers DEF BInv
  <1> QED
    BY <1>1, InitBuffers, OwnTypes, LockTypes, PTL DEF Spec

(* A buffer that believes it is locked has a node for its present name,    *)
(* and without strict locking its process has no other node and no second  *)
(* reference: file_rdonly, do_output_file, file_load and file_cleanup      *)
(* keep b_lstat and the list of lock.c together.                           *)
THEOREM LockFollows == Spec => []LockFollowsBuffer
  <1>1. (\A p \in Proc : BufferInv(p)) => LockFollowsBuffer
    BY DEF BufferInv, LstatInv, NodesInv, Accounted, LockFollowsBuffer, Here
  <1> QED
    BY <1>1, Buffers, PTL

(* A modified buffer that is subject to locking has a node for its name:   *)
(* the lazy lock of file_rdonly is not missed across saves, files read     *)
(* again and renames.                                                      *)
THEOREM ModifiedLocked == Spec => []ModifiedIsLocked
  <1>1. (\A p \in Proc : BufferInv(p)) => ModifiedIsLocked
    BY DEF BufferInv, LstatInv, ModifiedIsLocked
  <1> QED
    BY <1>1, Buffers, PTL
=============================================================================
