------------------------------- MODULE Session -------------------------------
(***************************************************************************)
(* Editor processes that read, modify, rename and save files they share    *)
(* (gr/file.c, with the exit of gr/buffer.c): the lock taken lazily at the *)
(* first modification, the question when the file has changed on disk, the *)
(* backup made before the first save, and the truncating write.            *)
(*                                                                         *)
(* The lock is FileLock: every call of flock_set and flock_clear runs that *)
(* module's actions.  A step here is one system call on the file or its    *)
(* backup, or one reply of the user; the steps of processes interleave, a  *)
(* call may fail, and a process may die or be terminated between any two.  *)
(*                                                                         *)
(* A text is the set of modifications it contains: 0 for the text that was *)
(* there at the start, and the number of each modification made since.     *)
(***************************************************************************)
EXTENDS Naturals

CONSTANTS
    Proc, File, Host, NoLinks, Answers, AskModes, MaxRefs, MaxRetries,
    MayCrash, None,  \* as in FileLock
    Strict,    \* processes that run with strict locking (xf_strictlock)
    Initially, \* the sets of files that may exist at the start
    Uses,      \* bound, Uses[p]: files p reads, modifies and saves
    Names,     \* bound, Names[p]: other names p opens or renames a buffer to,
               \*   and then only renames or deletes it
    Rereads,   \* bound: processes that read a file again
    Failing,   \* processes whose copies, opens, writes and closes may fail
    MaxClock,  \* bound: seconds that pass
    MaxEdits   \* bound: modifications

ASSUME SessionConstants ==
    /\ Strict \subseteq Proc /\ Initially \subseteq SUBSET File
    /\ Failing \subseteq Proc /\ Rereads \subseteq Proc
    /\ Uses \in [Proc -> SUBSET File] /\ Names \in [Proc -> SUBSET File]
    /\ MaxClock \in Nat /\ MaxEdits \in Nat
    /\ None \notin 0..MaxClock /\ \A t \in SUBSET (0..MaxEdits) : t # None

VARIABLES
    link, alive, boot, status, refs, pc, file, ask, force, retries, curr,
    marred,  \* as in FileLock
    disk,    \* disk[f]: the text of f, None if there is no such file
    mtime,   \* mtime[f]: st_mtime, in seconds
    bak,     \* bak[f]: the text of its backup, None if there is none
    clock,   \* time(), in seconds
    edits,   \* modifications made so far
    at,      \* at[p]: where p is in file_load, file_write or do_output_file
    why,     \* why[p]: what p asked its lock for
    name,    \* name[p]: b_fname of p's buffer, None if it has none
    goal,    \* goal[p]: the file whose lock p asked for
    text,    \* text[p]: the text of the buffer
    base,    \* base[p]: b_mtime, None until a file was read or written
    flags,   \* flags[p]: the flags of the buffer, see Flag
    bold,    \* bold[f]: history, a process without its lock saved f, or
             \*   one that probed for f removed the text another had saved
    sure     \* sure[f]: history, the text a save of f in progress replaces

(* The identifier of a dead process is not used again.                     *)
L == INSTANCE FileLock WITH MaxBoot <- 0

ASSUME LockAssumption == L!LockConstants

locks   == <<link, alive, boot, status, refs, pc, file, ask, force, retries, curr, marred>>
files   == <<disk, mtime, bak, bold, sure>>
session == <<at, why, name, goal, text, base, flags>>
vars    == <<locks, files, session, clock, edits>>

Text == SUBSET (0..MaxEdits)
Time == 0..MaxClock

(* BF_CHANGED, b_nummod > 0, BF_NEW_FILE, BF_BACKUP, BF_LOCK and b_lstat;  *)
(* and during a call: the user agreed to replace a changed file, the       *)
(* backup was copied in full (which the program does not know), it exits   *)
(* once the buffer is saved, the file that p has open was removed by       *)
(* another process ("adrift"), what was written may not be there ("shaky").*)
Flag == {"changed", "mods", "new", "backup", "lock", "lstat",
         "agreed", "copied", "leaving", "adrift", "shaky"}

Label == {"ready", "lock", "open", "read", "create", "unprobe", "ask", "backup",
          "copy", "excuse", "truncate", "write", "finish", "leave"}

SessionTypeOK ==
    /\ disk \in [File -> {None} \cup Text]
    /\ mtime \in [File -> Time]
    /\ bak \in [File -> {None} \cup Text]
    /\ clock \in Time
    /\ edits \in 0..MaxEdits
    /\ at \in [Proc -> Label]
    /\ why \in [Proc -> {"load", "edit", "save", "rename"}]
    /\ name \in [Proc -> File \cup {None}]
    /\ goal \in [Proc -> File \cup {None}]
    /\ text \in [Proc -> Text]
    /\ base \in [Proc -> Time \cup {None}]
    /\ flags \in [Proc -> SUBSET Flag]
    /\ bold \in [File -> BOOLEAN]
    /\ sure \in [File -> {None} \cup Text]
    /\ \A p \in Proc : at[p] # "ready" => name[p] \in File
    /\ \A p \in Proc : at[p] = "lock" => goal[p] \in File

TypeOK == L!TypeOK /\ SessionTypeOK

Init ==
    /\ L!Init
    /\ \E E \in Initially : disk = [f \in File |-> IF f \in E THEN {0} ELSE None]
    /\ mtime = [f \in File |-> 0]
    /\ bak = [f \in File |-> None]
    /\ clock = 0
    /\ edits = 0
    /\ at = [p \in Proc |-> "ready"]
    /\ why = [p \in Proc |-> "load"]
    /\ name = [p \in Proc |-> None]
    /\ goal = [p \in Proc |-> None]
    /\ text = [p \in Proc |-> {}]
    /\ base = [p \in Proc |-> None]
    /\ flags = [p \in Proc |-> {}]
    /\ bold = [f \in File |-> FALSE]
    /\ sure = [f \in File |-> None]

Here(p, l) == at[p] = l /\ alive[p] /\ pc[p] = "idle"
Has(p, g) == g \in flags[p]

Goto(p, l) == at' = [at EXCEPT ![p] = l]
Mark(p, on, off) == flags' = [flags EXCEPT ![p] = (@ \ off) \cup on]

(* A buffer that is deleted, or goes with its process.                     *)
MutGone(p) ==
    /\ at' = at
    /\ why' = [why EXCEPT ![p] = "load"]
    /\ name' = [name EXCEPT ![p] = None]
    /\ goal' = [goal EXCEPT ![p] = None]
    /\ text' = [text EXCEPT ![p] = {}]
    /\ base' = [base EXCEPT ![p] = None]
    /\ flags' = [flags EXCEPT ![p] = {}]

Gone(p) ==
    /\ Goto(p, "ready")
    /\ why' = [why EXCEPT ![p] = "load"]
    /\ name' = [name EXCEPT ![p] = None]
    /\ goal' = [goal EXCEPT ![p] = None]
    /\ text' = [text EXCEPT ![p] = {}]
    /\ base' = [base EXCEPT ![p] = None]
    /\ flags' = [flags EXCEPT ![p] = {}]

-----------------------------------------------------------------------------
(* The calls of the lock: flock_set for a file the list has or has not,    *)
(* and flock_clear where the buffer believes it holds the lock.            *)
AskLock(p, f, w) ==
    /\ L!SetNew(p, f) \/ L!SetAgain(p, f)
    /\ goal' = [goal EXCEPT ![p] = f]
    /\ why' = [why EXCEPT ![p] = w]
    /\ Goto(p, "lock")

ClearLock(p) ==
    IF Has(p, "lstat") /\ status[p][name[p]] # "none"
    THEN L!Clear(p, name[p])
    ELSE UNCHANGED locks

(* flock_set has returned to p, with the lock of goal or without.          *)
Returned(p, w) == Here(p, "lock") /\ why[p] = w
Got(p) == status[p][goal[p]] # "none"

Resume(p) ==
    /\ goal' = [goal EXCEPT ![p] = None]
    /\ why' = [why EXCEPT ![p] = "load"]

LockStep(p) ==
    /\ at[p] = "lock"
    /\ L!Step(p) \/ L!Answer(p)
    /\ IF alive'[p] /\ pc'[p] # "closing" THEN UNCHANGED session ELSE Gone(p)
    /\ UNCHANGED <<files, clock, edits>>

-----------------------------------------------------------------------------
(* Reading a file: file_load, file_readin and buf_insert.                  *)

StartRead(p, f) ==
    IF p \in Strict
    THEN AskLock(p, f, "load")
    ELSE /\ Goto(p, "open")
         /\ UNCHANGED <<locks, why, goal>>

Load(p, f) ==
    /\ Here(p, "ready") /\ name[p] = None
    /\ name' = [name EXCEPT ![p] = f]
    /\ StartRead(p, f)
    /\ UNCHANGED <<files, text, base, flags, clock, edits>>

(* edit_file with EDIT_AGAIN, on the buffer's own file.                    *)
Reread(p) ==
    /\ p \in Rereads /\ Here(p, "ready") /\ name[p] \in Uses[p]
    /\ StartRead(p, name[p])
    /\ UNCHANGED <<files, name, text, base, flags, clock, edits>>

LoadLocked(p) ==
    /\ Returned(p, "load") /\ Got(p)
    /\ Goto(p, "open")
    /\ Mark(p, {"lstat"}, {})
    /\ Resume(p)
    /\ UNCHANGED <<locks, files, name, text, base, clock, edits>>

(* file_load deletes the buffer if it has not got the lock, or if the file *)
(* it could not open exists when it tries to create it; and the user may.  *)
Kill(p) ==
    /\ \/ Returned(p, "load") /\ ~Got(p)
       \/ Here(p, "create") /\ disk[name[p]] # None
       \/ Here(p, "ready") /\ name[p] # None
    /\ ClearLock(p)
    /\ Gone(p)
    /\ UNCHANGED <<files, clock, edits>>

(* What p reads from the file it has open.  A file removed under p had no  *)
(* text, or is bold: no property speaks of what p reads from such a one.   *)
Handle(p) == IF Has(p, "adrift") THEN {} ELSE disk[name[p]]

(* open() and fstat() of a file that exists: the time is taken before the  *)
(* text is read.  They are one step, since what others do between them     *)
(* they may as well do before or after both.                               *)
OpenOld(p) ==
    /\ Here(p, "open") /\ disk[name[p]] # None
    /\ base' = [base EXCEPT ![p] = mtime[name[p]]]
    /\ Goto(p, "read")
    /\ UNCHANGED <<locks, files, why, name, goal, text, flags, clock, edits>>

Read(p) ==
    /\ Here(p, "read")
    /\ text' = [text EXCEPT ![p] = Handle(p)]
    /\ Mark(p, {"backup", "lock"}, {"changed", "adrift"})
    /\ Goto(p, "ready")
    /\ UNCHANGED <<locks, files, why, name, goal, base, clock, edits>>

(* A file that does not exist is created to see whether it could be, and   *)
(* removed again, whatever it holds by then.                               *)
OpenNew(p) ==
    /\ Here(p, "open") /\ disk[name[p]] = None
    /\ Goto(p, "create")
    /\ UNCHANGED <<locks, files, why, name, goal, text, base, flags, clock, edits>>

Probe(p) ==
    LET f == name[p] IN
    /\ Here(p, "create") /\ disk[f] = None
    /\ disk' = [disk EXCEPT ![f] = {}]
    /\ mtime' = [mtime EXCEPT ![f] = clock]
    /\ Goto(p, "unprobe")
    /\ UNCHANGED <<locks, bak, bold, sure, why, name, goal, text, base, flags, clock, edits>>

Unprobe(p) ==
    /\ Here(p, "unprobe")
    /\ disk' = [disk EXCEPT ![name[p]] = None]
    /\ mtime' = [mtime EXCEPT ![name[p]] = 0]
    /\ text' = [text EXCEPT ![p] = {}]
    /\ flags' = [q \in Proc |->
                    IF q = p THEN (flags[p] \ {"changed"}) \cup {"new"}
                    ELSE IF name[q] = name[p] /\ at[q] \in {"read", "copy", "write"}
                         THEN flags[q] \cup {"adrift"}
                         ELSE flags[q]]
    /\ bold' = [bold EXCEPT ![name[p]] = @ \/ disk[name[p]] \notin {None, {}}]
    /\ Goto(p, "ready")
    /\ UNCHANGED <<locks, bak, sure, why, name, goal, base, clock, edits>>

-----------------------------------------------------------------------------
(* Modifying the buffer, after file_rdonly has taken the lock.             *)

(* file_rdonly: lock on first modification.                                *)
NeedsLock(p) == Has(p, "lock") /\ ~Has(p, "lstat") /\ ~Has(p, "changed")

Modify(p, on) ==
    /\ edits < MaxEdits
    /\ edits' = edits + 1
    /\ text' = [text EXCEPT ![p] = @ \cup {edits + 1}]
    /\ Mark(p, {"changed", "mods"} \cup on, {})
    /\ Goto(p, "ready")

Edit(p) ==
    /\ Here(p, "ready") /\ name[p] \in Uses[p]
    /\ edits < MaxEdits
    /\ IF NeedsLock(p)
       THEN /\ AskLock(p, name[p], "edit")
            /\ UNCHANGED <<text, flags, edits>>
       ELSE /\ Modify(p, {})
            /\ UNCHANGED <<locks, why, goal>>
    /\ UNCHANGED <<files, name, base, clock>>

MutEditLocked(p) ==
    /\ Returned(p, "edit")
    /\ Modify(p, {"lstat"})
    /\ Resume(p)
    /\ UNCHANGED <<locks, files, name, base, clock>>

EditLocked(p) ==
    /\ Returned(p, "edit") /\ Got(p)
    /\ Modify(p, {"lstat"})
    /\ Resume(p)
    /\ UNCHANGED <<locks, files, name, base, clock>>

(* Refused the lock, nothing is modified and nothing renamed.              *)
Refused(p) ==
    /\ Returned(p, "edit") \/ Returned(p, "rename")
    /\ ~Got(p)
    /\ Goto(p, "ready")
    /\ Resume(p)
    /\ UNCHANGED <<locks, files, name, text, base, flags, clock, edits>>

-----------------------------------------------------------------------------
(* do_output_file: the buffer is given the name of a file that does not    *)
(* exist; a lock it holds moves with it.                                   *)

Renamed(p, f) ==
    /\ name' = [name EXCEPT ![p] = f]
    /\ Mark(p, {"new"}, {"backup"})
    /\ Goto(p, "ready")

Rename(p, f) ==
    /\ Here(p, "ready") /\ name[p] # None
    /\ f # name[p] /\ disk[f] = None
    /\ IF Has(p, "lstat")
       THEN /\ AskLock(p, f, "rename")
            /\ UNCHANGED <<name, flags>>
       ELSE /\ Renamed(p, f)
            /\ UNCHANGED <<locks, why, goal>>
    /\ UNCHANGED <<files, text, base, clock, edits>>

MutRenameLocked(p) ==
    /\ Returned(p, "rename") /\ Got(p)
    /\ Renamed(p, goal[p])
    /\ Resume(p)
    /\ UNCHANGED <<locks, files, text, base, clock, edits>>

RenameLocked(p) ==
    /\ Returned(p, "rename") /\ Got(p)
    /\ ClearLock(p)
    /\ Renamed(p, goal[p])
    /\ Resume(p)
    /\ UNCHANGED <<files, text, base, clock, edits>>

-----------------------------------------------------------------------------
(* Saving: file_write, buf_backup and buf_writeout.  SaveAll is the exit   *)
(* that writes modified buffers (buf_anycb).                               *)

(* The end of file_write: an exit goes on unless an error was returned.    *)
MutEndSave(p, ok, on, off) ==
    LET exits == Has(p, "leaving") IN
    /\ Goto(p, IF exits THEN "leave" ELSE "ready")
    /\ Mark(p, on, off \cup IF exits THEN {} ELSE {"agreed", "copied", "shaky", "leaving"})

EndSave(p, ok, on, off) ==
    LET exits == ok /\ Has(p, "leaving") IN
    /\ Goto(p, IF exits THEN "leave" ELSE "ready")
    /\ Mark(p, on, off \cup IF exits THEN {} ELSE {"agreed", "copied", "shaky", "leaving"})

(* buf_diskchanged.                                                        *)
MutDiskChanged(p) ==
    /\ base[p] # None
    /\ disk[name[p]] = None

DiskChanged(p) ==
    /\ base[p] # None
    /\ disk[name[p]] = None \/ mtime[name[p]] > base[p]

GoAhead(p, on) ==
    /\ Goto(p, IF Has(p, "backup") THEN "backup" ELSE "truncate")
    /\ Mark(p, on, {"new"})

(* file_write once it has the lock, up to the question: nothing to save    *)
(* counts as written.                                                      *)
Check(p, on) ==
    IF ~Has(p, "mods") /\ ~Has(p, "new")
    THEN EndSave(p, TRUE, on, {})
    ELSE IF DiskChanged(p)
         THEN Goto(p, "ask") /\ Mark(p, on, {})
         ELSE GoAhead(p, on)

StartSave(p, on) ==
    /\ IF NeedsLock(p)
       THEN /\ AskLock(p, name[p], "save")
            /\ Mark(p, on, {})
       ELSE /\ Check(p, on)
            /\ UNCHANGED <<locks, why, goal>>
    /\ UNCHANGED <<files, name, text, base, clock, edits>>

Save(p) == Here(p, "ready") /\ name[p] \in Uses[p] /\ StartSave(p, {})
SaveAll(p) ==
    /\ Here(p, "ready") /\ name[p] \in Uses[p]
    /\ Has(p, "mods")
    /\ StartSave(p, {"leaving"})

SaveLocked(p) ==
    /\ Returned(p, "save") /\ Got(p)
    /\ Check(p, {"lstat"})
    /\ Resume(p)
    /\ UNCHANGED <<locks, files, name, text, base, clock, edits>>

(* A buffer that is refused its lock counts as written; nothing is.        *)
SaveRefused(p) ==
    /\ Returned(p, "save") /\ ~Got(p)
    /\ EndSave(p, TRUE, IF Has(p, "leaving") THEN {"shaky"} ELSE {}, {})
    /\ Resume(p)
    /\ UNCHANGED <<locks, files, name, text, base, clock, edits>>

(* "On disk image has changed, save anyway".                               *)
ReplyChanged(p) ==
    /\ Here(p, "ask")
    /\ GoAhead(p, {"agreed"}) \/ EndSave(p, FALSE, {}, {})
    /\ UNCHANGED <<locks, files, why, name, goal, text, base, clock, edits>>

(* The old backup is removed, and both files are opened for a copy; a file *)
(* that does not exist needs none.                                         *)
StartBackup(p) ==
    LET f == name[p] IN
    /\ Here(p, "backup")
    /\ bak' = [bak EXCEPT ![f] = IF disk[f] = None THEN None ELSE {}]
    /\ bold' = [bold EXCEPT ![f] = @ \/ ~L!Holds(p, f)]
    /\ sure' = [sure EXCEPT ![f] = None]
    /\ Goto(p, IF disk[f] = None THEN "truncate" ELSE "copy")
    /\ UNCHANGED <<locks, disk, mtime, why, name, goal, text, base, flags, clock, edits>>

Copy(p) ==
    LET f == name[p] IN
    /\ Here(p, "copy")
    /\ bak' = [bak EXCEPT ![f] = Handle(p)]
    /\ Goto(p, "truncate")
    /\ Mark(p, {"copied"}, {"adrift"})
    /\ UNCHANGED <<locks, disk, mtime, bold, sure, why, name, goal, text, base, clock, edits>>

(* file_copy's own loop looks neither at what sys_write returns nor at an  *)
(* error of sys_read, and a source that cannot be opened counts as copied: *)
(* the save goes on with a backup that has part of the text, or none of it *)
(* (which stands for all of these).                                        *)
CopyShort(p) ==
    /\ p \in Failing /\ Here(p, "copy")
    /\ Goto(p, "truncate")
    /\ Mark(p, {}, {"adrift"})
    /\ UNCHANGED <<locks, files, why, name, goal, text, base, clock, edits>>

(* A copy that fails and says so is removed; buf_backup tries the next     *)
(* directory of GRBACKUP, at last the name with the suffix, or gives up.   *)
CopyFails(p) ==
    /\ p \in Failing /\ Here(p, "copy")
    /\ bak' = [bak EXCEPT ![name[p]] = None]
    /\ \E l \in {"backup", "excuse"} : Goto(p, l)
    /\ Mark(p, {}, {"adrift"})
    /\ UNCHANGED <<locks, disk, mtime, bold, sure, why, name, goal, text, base, clock, edits>>

(* "Backup error, save anyway".                                            *)
ReplyBackup(p) ==
    /\ Here(p, "excuse")
    /\ \/ Goto(p, "truncate") /\ flags' = flags
       \/ EndSave(p, FALSE, {}, {})
    /\ UNCHANGED <<locks, files, why, name, goal, text, base, clock, edits>>

(* open() with O_TRUNC.                                                    *)
Truncate(p) ==
    LET f == name[p] IN
    /\ Here(p, "truncate")
    /\ disk' = [disk EXCEPT ![f] = {}]
    /\ mtime' = [mtime EXCEPT ![f] = clock]
    /\ bold' = [bold EXCEPT ![f] = @ \/ ~L!Holds(p, f)]
    /\ sure' = [sure EXCEPT ![f] = IF Has(p, "copied") /\ ~bold'[f] /\ ~marred[f]
                                   THEN disk[f] ELSE None]
    /\ Goto(p, "write")
    /\ UNCHANGED <<locks, bak, why, name, goal, text, base, flags, clock, edits>>

OpenFails(p) ==
    /\ p \in Failing /\ Here(p, "truncate")
    /\ EndSave(p, FALSE, {}, {})
    /\ UNCHANGED <<locks, files, why, name, goal, text, base, clock, edits>>

Write(p) ==
    LET f == name[p] IN
    /\ Here(p, "write")
    /\ IF Has(p, "adrift")
       THEN UNCHANGED <<disk, mtime, sure>>
       ELSE /\ disk' = [disk EXCEPT ![f] = text[p]]
            /\ mtime' = [mtime EXCEPT ![f] = clock]
            /\ sure' = [sure EXCEPT ![f] = None]
    /\ Goto(p, "finish")
    /\ Mark(p, IF Has(p, "adrift") THEN {"shaky"} ELSE {}, {"adrift"})
    /\ UNCHANGED <<locks, bak, bold, why, name, goal, text, base, clock, edits>>

MutWriteFails(p) ==
    /\ p \in Failing /\ Here(p, "write")
    /\ bak' = [bak EXCEPT ![name[p]] = None]
    /\ EndSave(p, FALSE, {}, {"adrift"})
    /\ UNCHANGED <<locks, disk, mtime, bold, sure, why, name, goal, text, base, clock, edits>>

(* vfs_fdopen or vfs_fwrite fails: the file stays truncated.               *)
WriteFails(p) ==
    /\ p \in Failing /\ Here(p, "write")
    /\ EndSave(p, FALSE, {}, {"adrift"})
    /\ UNCHANGED <<locks, files, why, name, goal, text, base, clock, edits>>

(* A failed close is reported and counts as success, though what was       *)
(* written may not be there.                                               *)
CloseFails(p) ==
    /\ p \in Failing /\ Here(p, "write")
    /\ Goto(p, "finish")
    /\ Mark(p, {"shaky"}, {"adrift"})
    /\ UNCHANGED <<locks, files, why, name, goal, text, base, clock, edits>>

(* file_write once the text is out: stat() and the flags.                  *)
Finish(p) ==
    /\ Here(p, "finish")
    /\ base' = IF disk[name[p]] = None THEN base
               ELSE [base EXCEPT ![p] = mtime[name[p]]]
    /\ EndSave(p, TRUE, {}, {"changed", "mods", "backup"})
    /\ UNCHANGED <<locks, files, why, name, goal, text, clock, edits>>

-----------------------------------------------------------------------------
(* The end of a process: gr_exit once everything is written, at the user's *)
(* or a signal's request whatever is unsaved or under way, or by a crash.  *)
(* flock_close runs in FileLock's steps.                                   *)

Leave(p) ==
    /\ Here(p, "leave")
    /\ L!CloseBegin(p)
    /\ Gone(p)
    /\ UNCHANGED <<files, clock, edits>>

Terminate(p) ==
    /\ L!CloseBegin(p)
    /\ Gone(p)
    /\ UNCHANGED <<files, clock, edits>>

CloseStep(p) ==
    /\ L!CloseEnd(p) \/ \E f \in File : L!CloseStep(p, f)
    /\ UNCHANGED <<files, session, clock, edits>>

Crash(p) ==
    /\ L!Crash(p)
    /\ Gone(p)
    /\ UNCHANGED <<files, clock, edits>>

Tick ==
    /\ clock < MaxClock
    /\ clock' = clock + 1
    /\ UNCHANGED <<locks, files, session, edits>>

Reading(p) ==
    LoadLocked(p) \/ OpenOld(p) \/ Read(p) \/ OpenNew(p) \/ Probe(p) \/ Unprobe(p)

Saving(p) ==
    \/ SaveLocked(p) \/ SaveRefused(p) \/ ReplyChanged(p)
    \/ StartBackup(p) \/ Copy(p) \/ CopyShort(p) \/ CopyFails(p) \/ ReplyBackup(p)
    \/ Truncate(p) \/ OpenFails(p) \/ Write(p) \/ WriteFails(p) \/ CloseFails(p)
    \/ Finish(p)

Request(p) ==
    \/ (\E f \in Uses[p] \cup Names[p] : Load(p, f)) \/ (\E f \in Names[p] : Rename(p, f))
    \/ Reread(p) \/ Kill(p) \/ Edit(p) \/ EditLocked(p) \/ Refused(p) \/ RenameLocked(p)
    \/ Save(p) \/ SaveAll(p)

Ending(p) == Leave(p) \/ Terminate(p) \/ CloseStep(p) \/ Crash(p)

Next ==
    \/ \E p \in Proc : LockStep(p) \/ Reading(p) \/ Saving(p) \/ Request(p) \/ Ending(p)
    \/ Tick

Spec == Init /\ [][Next]_vars

-----------------------------------------------------------------------------
(* An editor that saves a file under its lock never overwrites, unasked,   *)
(* a modification that its buffer does not contain: the check of the time  *)
(* and the lock taken at the first modification close the gap between      *)
(* them.  Not promised: a change in the second in which the buffer was     *)
(* read or written, a file some process saved without a lock or removed    *)
(* (bold), and a lock taken from a live process or by a failed read        *)
(* (marred).                                                               *)
NoLostUpdate ==
    [][\A p \in Proc : LET f == name[p] IN
          /\ at[p] = "truncate" /\ at'[p] = "write"
          /\ disk[f] # None /\ ~Has(p, "agreed")
          /\ ~bold'[f] /\ ~marred[f]
          => disk[f] \subseteq text[p] \/ mtime[f] = base[p]]_vars

(* What a save under the lock overwrites, once it was copied in full,      *)
(* stays in the backup until the new text is written in full or the next   *)
(* backup begins: through failed opens, writes and closes, signals and     *)
(* crashes of any process (buf_backup, buf_writeout).  Not promised: that  *)
(* it was copied in full, which file_copy does not find out (CopyShort).   *)
BackedUp == \A f \in File : sure[f] # None => bak[f] = sure[f]

(* Between requests b_lstat and lock.c's list agree on every name a buffer *)
(* has had: a buffer that believes it is locked has a node for its present *)
(* name, and without strict locking there is no other node and no other    *)
(* reference, so that deleting the buffer frees the file.  (With strict    *)
(* locking a file read again is referenced twice, and stays locked.)       *)
LockFollowsBuffer ==
    \A p \in Proc : Here(p, "ready") =>
        /\ Has(p, "lstat") => status[p][name[p]] # "none"
        /\ p \notin Strict =>
              \A f \in File : status[p][f] # "none" =>
                  f = name[p] /\ Has(p, "lstat") /\ refs[p][f] = 1

(* A buffer subject to locking is never modified without a lock for its    *)
(* name, or the user's consent to go without one, though file_rdonly asks  *)
(* only when BF_CHANGED is clear: across saves, files read again, renames. *)
ModifiedIsLocked ==
    \A p \in Proc :
        Here(p, "ready") /\ Has(p, "changed") /\ Has(p, "lock")
            => status[p][name[p]] # "none"

(* An exit that writes the modified buffer goes on only when the file      *)
(* holds all its modifications; an error on the way keeps the program and  *)
(* the buffer (file_write, buf_anycb).  Not promised: a failed close and a *)
(* refused lock, which count as success, a lock not held or taken away,    *)
(* and a file that another editor probes for (bold).                       *)
ExitKeepsWork ==
    \A p \in Proc : LET f == name[p] IN
        /\ Here(p, "leave") /\ ~Has(p, "shaky") /\ ~bold[f] /\ ~marred[f]
        /\ text[p] # {}
        => disk[f] # None /\ text[p] \subseteq disk[f]

(* buf_insert: the file it has created to see whether it could be is       *)
(* removed as the "new version" it made, with nothing in it yet.           *)
ProbeIsEmpty == \A p \in Proc : Here(p, "unprobe") => disk[name[p]] \in {None, {}}

(* file.c calls lock.c as FileLock allows: every step of Session is a step *)
(* of the lock or leaves it alone.                                         *)
Locks == L!Spec
=============================================================================
