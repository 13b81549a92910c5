------------------------------ MODULE FileLock ------------------------------
(***************************************************************************)
(* The edit lock of gr/lock.c: several editor processes, possibly on       *)
(* several hosts, agree on who edits a file through one symbolic link      *)
(* ".#FILE" beside it, whose text names the owner (user@host.pid:boot).    *)
(*                                                                         *)
(* One step is one system call (symlink, lstat, readlink, unlink, kill) or *)
(* one reply of the user, with the code that runs up to the next one; the  *)
(* steps of different processes interleave.                                *)
(***************************************************************************)
EXTENDS Naturals

CONSTANTS Proc,       \* process identifiers
          File,       \* files, by their resolved name
          Host,       \* Host[p]: the host a process runs on
          NoLinks,    \* files whose directory refuses a symbolic link
          Answers,    \* replies a user may give to "locked by ..., edit?"
          AskModes,   \* values of flock_set's ask argument in use
          MaxBoot,    \* bound: times a process identifier is used again
          MaxRefs,    \* bound: references the buffers hold on one lock
          MaxRetries, \* failed reads tolerated by lock_try (5 in the code)
          MayCrash,   \* processes that may die without flock_close
          None

ASSUME LockConstants ==
    /\ MaxBoot \in Nat /\ MaxRefs \in Nat \ {0} /\ MaxRetries \in Nat
    /\ NoLinks \subseteq File /\ MayCrash \subseteq Proc
    /\ Answers \subseteq {"proceed", "steal", "abort"}
    /\ AskModes \subseteq BOOLEAN
    /\ None \notin Proc /\ None \notin File
    /\ None \notin [pid : Proc, boot : 0..MaxBoot]

VARIABLES
    link,    \* link[f]: the owner the lock file of f names, None if there is none
    alive,   \* alive[p]: kill(p, 0) finds a process
    boot,    \* boot[p]: lockboot of the latest process with identifier p
    status,  \* status[p][f]: l_status of p's Lock_t for f, "none" if it has no node
    refs,    \* refs[p][f]: its l_refs
    pc,      \* pc[p]: where p is in flock_set, and its locals there:
    file,    \*   file[p]: the file asked for
    ask,     \*   ask[p]: whether the user may be asked
    force,   \*   force[p]: lock_try's status is SFORCE
    retries, \*   retries[p]: failed reads in a row
    curr,    \*   curr[p]: i_curr, the owner last read from the link
    marred   \* marred[f]: history, see Exclusion

node   == <<status, refs>>
locals == <<file, ask, force, retries, curr>>
vars   == <<link, alive, boot, node, pc, locals, marred>>

Ident  == [pid : Proc, boot : 0..MaxBoot]
Id(p)  == [pid |-> p, boot |-> boot[p]]
Live(i) == alive[i.pid] /\ boot[i.pid] = i.boot

(* LCK_SSUCCESS, LCK_SFORCED and LCK_SNOTLOCKED.                           *)
NodeStatus == {"none", "success", "forced", "notlocked"}
Holds(p, f) == status[p][f] \in {"success", "forced"}

Pc == {"idle", "create", "unlink", "recreate", "lstat", "readlink",
       "compare", "ask", "closing"}

TypeOK ==
    /\ link \in [File -> Ident \cup {None}]
    /\ alive \in [Proc -> BOOLEAN]
    /\ boot \in [Proc -> 0..MaxBoot]
    /\ status \in [Proc -> [File -> NodeStatus]]
    /\ refs \in [Proc -> [File -> 0..MaxRefs]]
    /\ pc \in [Proc -> Pc]
    /\ file \in [Proc -> File \cup {None}]
    /\ ask \in [Proc -> BOOLEAN]
    /\ force \in [Proc -> BOOLEAN]
    /\ retries \in [Proc -> 0..MaxRetries]
    /\ curr \in [Proc -> Ident \cup {None}]
    /\ marred \in [File -> BOOLEAN]
    /\ \A p \in Proc : pc[p] \notin {"idle", "closing"} => file[p] \in File
    /\ \A p \in Proc : pc[p] \in {"compare", "ask"} => curr[p] \in Ident

Init ==
    /\ link = [f \in File |-> None]
    /\ alive = [p \in Proc |-> TRUE]
    /\ boot = [p \in Proc |-> 0]
    /\ status = [p \in Proc |-> [f \in File |-> "none"]]
    /\ refs = [p \in Proc |-> [f \in File |-> 0]]
    /\ pc = [p \in Proc |-> "idle"]
    /\ file = [p \in Proc |-> None]
    /\ ask = [p \in Proc |-> FALSE]
    /\ force = [p \in Proc |-> FALSE]
    /\ retries = [p \in Proc |-> 0]
    /\ curr = [p \in Proc |-> None]
    /\ marred = [f \in File |-> FALSE]

At(p, l) == alive[p] /\ pc[p] = l
Goto(p, l) == pc' = [pc EXCEPT ![p] = l]

(* Outside flock_set its locals are gone.                                  *)
Forget(p) ==
    /\ file' = [file EXCEPT ![p] = None]
    /\ ask' = [ask EXCEPT ![p] = FALSE]
    /\ force' = [force EXCEPT ![p] = FALSE]
    /\ retries' = [retries EXCEPT ![p] = 0]
    /\ curr' = [curr EXCEPT ![p] = None]

-----------------------------------------------------------------------------
(* flock_set and flock_clear, outside lock_try.                            *)

(* The end of flock_set: the node enters the list with one reference, or   *)
(* is freed after an error.                                                *)
Return(p, s) ==
    /\ status' = [status EXCEPT ![p][file[p]] = s]
    /\ refs' = [refs EXCEPT ![p][file[p]] = IF s = "none" THEN 0 ELSE 1]
    /\ Goto(p, "idle")
    /\ Forget(p)

SetAgain(p, f) ==
    /\ At(p, "idle")
    /\ status[p][f] # "none"
    /\ refs[p][f] < MaxRefs
    /\ refs' = [refs EXCEPT ![p][f] = @ + 1]
    /\ UNCHANGED <<link, alive, boot, status, pc, locals, marred>>

SetNew(p, f) ==
    /\ At(p, "idle")
    /\ status[p][f] = "none"
    /\ \E a \in AskModes : ask' = [ask EXCEPT ![p] = a]
    /\ file' = [file EXCEPT ![p] = f]
    /\ Goto(p, "create")
    /\ UNCHANGED <<link, alive, boot, node, force, retries, curr, marred>>

(* node_release: a lock believed held is unlinked, whoever it names.       *)
MutReleaseKeepsLink(p, f) ==
    /\ link' = link
    /\ status' = [status EXCEPT ![p][f] = "none"]
    /\ refs' = [refs EXCEPT ![p][f] = 0]

Release(p, f) ==
    /\ link' = [link EXCEPT ![f] = IF Holds(p, f) THEN None ELSE @]
    /\ status' = [status EXCEPT ![p][f] = "none"]
    /\ refs' = [refs EXCEPT ![p][f] = 0]

MutClearIgnoresRefs(p, f) ==
    /\ At(p, "idle")
    /\ status[p][f] # "none"
    /\ Release(p, f)
    /\ UNCHANGED <<alive, boot, pc, locals, marred>>

Clear(p, f) ==
    /\ At(p, "idle")
    /\ status[p][f] # "none"
    /\ IF refs[p][f] = 1
       THEN Release(p, f)
       ELSE /\ refs' = [refs EXCEPT ![p][f] = @ - 1]
            /\ UNCHANGED <<link, status>>
    /\ UNCHANGED <<alive, boot, pc, locals, marred>>

(* flock_close: every node is released at exit, whatever its references.   *)
CloseBegin(p) ==
    /\ At(p, "idle")
    /\ Goto(p, "closing")
    /\ UNCHANGED <<link, alive, boot, node, locals, marred>>

CloseStep(p, f) ==
    /\ At(p, "closing")
    /\ status[p][f] # "none"
    /\ Release(p, f)
    /\ UNCHANGED <<alive, boot, pc, locals, marred>>

CloseEnd(p) ==
    /\ At(p, "closing")
    /\ \A f \in File : status[p][f] = "none"
    /\ alive' = [alive EXCEPT ![p] = FALSE]
    /\ Goto(p, "idle")
    /\ UNCHANGED <<link, boot, node, locals, marred>>

-----------------------------------------------------------------------------
(* lock_try: create or read the link, compare its owner, decide.           *)

(* symlink() in lock_create: the only step that takes a free lock.         *)
MutCreateUnchecked(p) ==
    /\ link' = [link EXCEPT ![file[p]] = Id(p)]
    /\ Goto(p, "lstat")

CreateNew(p) ==
    /\ link[file[p]] = None
    /\ link' = [link EXCEPT ![file[p]] = Id(p)]
    /\ Goto(p, "lstat")

CreateExists(p) ==
    /\ link[file[p]] # None
    /\ Goto(p, IF force[p] THEN "unlink" ELSE "lstat")
    /\ link' = link

Create(p) ==
    /\ At(p, "create")
    /\ file[p] \notin NoLinks
    /\ \/ CreateNew(p)
       \/ CreateExists(p)
    /\ UNCHANGED <<alive, boot, node, locals, marred>>

(* EPERM, EACCES, EROFS, ENOSYS: locking is disabled for the file.         *)
CreateRefused(p) ==
    /\ At(p, "create")
    /\ file[p] \in NoLinks
    /\ Return(p, "notlocked")
    /\ UNCHANGED <<link, alive, boot, marred>>

(* lock_create with force, second half: unlink() the present link ...      *)
Unlink(p) ==
    LET f == file[p] IN
    /\ At(p, "unlink")
    /\ IF link[f] # None
       THEN /\ link' = [link EXCEPT ![f] = None]
            /\ marred' = [marred EXCEPT ![f] = @ \/ Live(link[f])]
            /\ Goto(p, "recreate")
            /\ UNCHANGED <<node, locals>>
       ELSE /\ Return(p, "none")
            /\ UNCHANGED <<link, marred>>
    /\ UNCHANGED <<alive, boot>>

(* ... and symlink() again, an error if another process was faster.        *)
Recreate(p) ==
    LET f == file[p] IN
    /\ At(p, "recreate")
    /\ IF link[f] = None
       THEN /\ link' = [link EXCEPT ![f] = Id(p)]
            /\ Goto(p, "lstat")
            /\ UNCHANGED <<node, locals>>
       ELSE /\ Return(p, "none")
            /\ link' = link
    /\ UNCHANGED <<alive, boot, marred>>

(* A process that dies leaves its links; its locks and its call are gone.  *)
Die(p) ==
    /\ alive' = [alive EXCEPT ![p] = FALSE]
    /\ status' = [status EXCEPT ![p] = [f \in File |-> "none"]]
    /\ refs' = [refs EXCEPT ![p] = [f \in File |-> 0]]
    /\ Goto(p, "idle")
    /\ Forget(p)

(* lstat() in info_get.  With no link info_get returns 1, which lock_try   *)
(* does not test: info_cmp hands strcmp the null i_host of i_curr.  The    *)
(* process dies, by way of gr_exit and flock_close where it traps signals. *)
Abandon(p) ==
    /\ Goto(p, "closing")
    /\ Forget(p)
    /\ UNCHANGED <<alive, node>>

Lstat(p) ==
    /\ At(p, "lstat")
    /\ IF link[file[p]] # None
       THEN /\ Goto(p, "readlink")
            /\ UNCHANGED <<alive, node, locals>>
       ELSE Die(p) \/ Abandon(p)
    /\ UNCHANGED <<link, boot, marred>>

(* readlink() in info_get, and what lock_try does when it fails: continue  *)
(* in a do-while tests "status == SFORCE", so only a forced attempt is     *)
(* repeated; any other leaves the loop with LCK_SSUCCESS.                  *)
MutReadFailure(p) ==
    IF force[p] /\ retries[p] < MaxRetries
    THEN /\ Goto(p, "create")
         /\ UNCHANGED <<node, locals, marred>>
    ELSE /\ Return(p, IF force[p] THEN "error" ELSE "success")
         /\ marred' = marred

ReadFailure(p) ==
    IF retries[p] = MaxRetries
    THEN /\ Return(p, "none")
         /\ marred' = marred
    ELSE IF force[p]
         THEN /\ Goto(p, "create")
              /\ retries' = [retries EXCEPT ![p] = @ + 1]
              /\ UNCHANGED <<node, file, ask, force, curr, marred>>
         ELSE /\ Return(p, "success")
              /\ marred' = [marred EXCEPT ![file[p]] = TRUE]

MutReadlinkUnstored(p) ==
    LET f == file[p] IN
    /\ At(p, "readlink")
    /\ IF link[f] # None
       THEN /\ Goto(p, "compare")
            /\ retries' = [retries EXCEPT ![p] = 0]
            /\ UNCHANGED <<node, file, ask, force, curr, marred>>
       ELSE ReadFailure(p)
    /\ UNCHANGED <<link, alive, boot>>

Readlink(p) ==
    LET f == file[p] IN
    /\ At(p, "readlink")
    /\ IF link[f] # None
       THEN /\ Goto(p, "compare")
            /\ retries' = [retries EXCEPT ![p] = 0]
            /\ curr' = [curr EXCEPT ![p] = link[f]]
            /\ UNCHANGED <<node, file, ask, force, marred>>
       ELSE ReadFailure(p)
    /\ UNCHANGED <<link, alive, boot>>

(* SFORCE: the next pass of the loop takes the link by force.              *)
TryForce(p) ==
    /\ Goto(p, "create")
    /\ force' = [force EXCEPT ![p] = TRUE]
    /\ UNCHANGED <<node, file, ask, retries, curr>>

(* info_cmp, with kill(pid, 0) for another owner on this host.  A process  *)
(* identifier in use again makes a dead owner look alive.                  *)
CompareSame(p) ==
    /\ curr[p] = Id(p)
    /\ Return(p, IF force[p] THEN "forced" ELSE "success")

SameHost(p, i) == Host[p] = Host[i.pid]

CompareDead(p) ==
    /\ curr[p] # Id(p)
    /\ SameHost(p, curr[p]) /\ ~alive[curr[p].pid]
    /\ TryForce(p)

CompareOther(p) ==
    /\ curr[p] # Id(p)
    /\ ~SameHost(p, curr[p]) \/ alive[curr[p].pid]
    /\ IF ask[p]
       THEN /\ Goto(p, "ask")
            /\ UNCHANGED <<node, locals>>
       ELSE Return(p, "none")

Compare(p) ==
    /\ At(p, "compare")
    /\ \/ CompareSame(p)
       \/ CompareDead(p)
       \/ CompareOther(p)
    /\ UNCHANGED <<link, alive, boot, marred>>

(* lock_ask: proceed without a lock, steal it, or give up.                 *)
Answer(p) ==
    /\ At(p, "ask")
    /\ \E a \in Answers :
          \/ a = "proceed" /\ Return(p, "notlocked")
          \/ a = "abort" /\ Return(p, "none")
          \/ a = "steal" /\ TryForce(p)
    /\ UNCHANGED <<link, alive, boot, marred>>

-----------------------------------------------------------------------------
Crash(p) ==
    /\ p \in MayCrash /\ alive[p]
    /\ Die(p)
    /\ UNCHANGED <<link, boot, marred>>

Restart(p) ==
    /\ ~alive[p] /\ boot[p] < MaxBoot
    /\ alive' = [alive EXCEPT ![p] = TRUE]
    /\ boot' = [boot EXCEPT ![p] = @ + 1]
    /\ UNCHANGED <<link, node, pc, locals, marred>>

(* The steps flock_set takes without waiting for a person.                 *)
Step(p) ==
    \/ Create(p) \/ CreateRefused(p) \/ Unlink(p) \/ Recreate(p)
    \/ Lstat(p) \/ Readlink(p) \/ Compare(p)

Environment(p) ==
    \/ \E f \in File : SetAgain(p, f) \/ SetNew(p, f) \/ Clear(p, f) \/ CloseStep(p, f)
    \/ CloseBegin(p) \/ CloseEnd(p)
    \/ Answer(p) \/ Crash(p) \/ Restart(p)

Next == \E p \in Proc : Step(p) \/ Environment(p)

Spec == Init /\ [][Next]_vars
FairSpec == Spec /\ \A p \in Proc : WF_vars(Step(p))

-----------------------------------------------------------------------------
(* At most one live process believes it holds the lock of a file, and the  *)
(* link names it, until a forced takeover unlinks the link of a live       *)
(* process or a failed read is taken for success (marred).  Taking over    *)
(* from a dead owner, crashes, restarts, shared references and the other   *)
(* answers do not break the lock of lock_try and node_release.             *)
Exclusion ==
    \A f \in File : ~marred[f] =>
        \A p \in Proc : Holds(p, f) => link[f] = Id(p)

(* A live process outside flock_set never leaves a link of its own behind  *)
(* without the node that flock_clear or flock_close will find to remove it:*)
(* no failed, refused or robbed attempt of lock_try leaks its lock file.   *)
NoOrphan ==
    \A p \in Proc, f \in File :
        /\ alive[p] /\ pc[p] \in {"idle", "closing"}
        /\ link[f] = Id(p)
        => Holds(p, f)

(* A lock shared by several references of a process survives every         *)
(* flock_clear but the last, and every other call: the process goes on     *)
(* holding it, short of flock_close.                                       *)
SharedLockKept ==
    [][\A p \in Proc, f \in File :
          /\ Holds(p, f) /\ refs[p][f] > 1 /\ pc[p] = "idle"
          /\ alive[p] /\ alive'[p]
          => Holds(p, f)']_vars

(* lock_try never spins: a process inside flock_set comes to an answer, to *)
(* a question for the user, or to its end, however the others interfere.   *)
Returns ==
    \A p \in Proc :
        pc[p] \notin {"idle", "closing", "ask"}
            ~> pc[p] \in {"idle", "ask", "closing"}

-----------------------------------------------------------------------------
(* What lock.c says of itself and does not do.                             *)

(* lock_try, after a failed info_get: "retry".                             *)
FailedReadRetried ==
    [][\A p \in Proc :
          /\ pc[p] = "readlink" /\ retries[p] < MaxRetries
          /\ link[file[p]] = None
          => status'[p][file[p]] # "success"]_vars

(* lock_create: the creation must not allow "another process the           *)
(* opportunity to create it in the meantime"; here for takeovers from dead *)
(* owners only (no answer steals).                                         *)
TakeoverExclusive ==
    \A f \in File, p \in Proc, q \in Proc :
        status[p][f] = "forced" /\ status[q][f] = "forced" => p = q
=============================================================================
