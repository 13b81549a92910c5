# Verification of GRIEF: edit locks, saving and undo

TLA+ models of the parts of the GRIEF editor (a BRIEF-style editor in C) whose
correctness depends on the order in which things happen: the lock by which
several editor processes agree on who edits a file, the reading and saving of
the files they share, and the undo engine, from its records down to the bytes of
its file. TLC checks small instances; TLAPS proves the lock protocol, how buffers
use it, what saving under it guarantees, the cache under the undo log and the
undo engine itself, for instances of any size.

Paths are relative to the repository; `lock.c:494` is line 494 of
`src/gr/lock.c`, and likewise for the other files of `src/gr`.

## Running

    tlc -config FileLock.cfg MCFileLock       # module MCFileLock for FileLock*.cfg
    tlc -config Session.cfg MCSession         # some minutes; and SessionProbe
    tlc -config Undo.cfg MCUndo               # module MCUndo for Undo.cfg, UndoRedo,
                                              #   UndoExit, UndoBottom
    tlc -config UndoSlice.cfg MCUndoSlice
    tlc -config UndoSliceFits.cfg UndoSlice
    tlapm FileLock_proofs.tla                 # likewise Session_proofs.tla,
                                              #   SessionBuffers_proofs.tla,
                                              #   SessionFiles_proofs.tla,
                                              #   SessionUpdates_proofs.tla,
                                              #   UndoSlice_proofs.tla,
                                              #   UndoSliceFits_proofs.tla and
                                              #   Undo_proofs.tla (some minutes)

`PROJECT.json` lists the runs, what each shows, the source lines every
definition stands for, a seeded fault for every property (the `Mut...`
operators), the hazards of the code and the theorems.

## Inventory

The editor (`src/gr`) is one process with one thread of control: a key or a
macro runs a command to its end. Concurrency comes from other editor processes
on the same files, from signals, and from sub-processes; what makes the rest
hard is state that lives long (undo log, caches, reference counts) and is
reached by sequences of commands nobody wrote down.

| Component | State | Operations | Interacts with | Hard behaviour | Correct when |
|---|---|---|---|---|---|
| Edit lock (`lock.c`) | `.#FILE` links on disk; list of `Lock_t` with status and references | `flock_set`, `flock_clear`, `flock_close` | other processes through the link; buffers ask for it at the first change | interleaving of system calls, dead owners, process ids in use again, steals | one holder, nothing leaked, requests end |
| Undo engine (`undo.c`) | undo and redo lists, chain numbers, `x_undo_state`, `b_nummod`, `BF_CHANGED` | `u_*` log calls, `do_undo`, `undo_command` | line editing writes the log and is called back by undo; saving writes a mark and resets the count | long mixtures of edits, collapsing, undo, redo and saves | each record fits the text it meets; counters tell the truth |
| Undo log store (`undo.c`) | slices, stream, end of file | `uwrite_data`, `uwrite_ctrl`, `slice_read` | the undo engine, stdio | eviction, records across slices, saved seeks, failing writes | what was written is read back |
| Line editing (`line.c`, self-insert in `mac1.c`) | list of lines, cursor | `linsert`, `linserts`, `lnewline`, `ldeletedot`, `lwrite` | undo log; windows and anchors are adjusted at each change | an edit moves other cursors and regions | text, log and cursors agree |
| Line storage (`chunk.c`) | reference-counted file images | chunk allocate and release | line editing, file reading | counts | freed with the last line |
| Files (`file.c`, `m_backup.c`) | disk images, backup copies, `b_nummod` | read, write, backup, auto-save, staleness check | lock, undo mark, buffers | a failing write, copy or close half way; another editor between check and write; signals | no update lost unasked, the old text in the backup until the new one is written |
| Buffers (`buffer.c`, `m_buf.c`) | buffer list and flags | create, delete, exit checks | files, lock, windows | lazy locking; exit with unsaved text | a modified buffer has its lock; no text lost without a question |
| Scrap (`kill.c`, `region.c`) | scrap buffer with an undo log of its own | cut, copy, paste | `k_undo` runs inside `do_undo` | two logs taken back in step | scrap and text agree after undo |
| Anchors, positions (`anchor.c`, `position.c`, `bookmark.c`) | marked regions, stack | raise, drop, save, restore | line editing, undo | regions under edits | regions stay on their text |
| Windows and display | cursors, screen image | change, split, redraw | line editing | layout | image agrees with text |
| Playback, dispatch | recorded keys, `b_uchar` | record, play, abort | undo chains | abort inside a command | what was recorded is played |
| Triggers, signals (`register.c`, `signals.c`) | registered macros, pending signals | register, trigger, handle | run macros anywhere | re-entrancy, signals during a save | handlers see consistent state |
| Macro interpreter | stacks, symbols, objects | evaluate | everything | reference counts | - |
| Virtual files (`libvfs`) | mounts, nodes, cache | open, fetch, release | files | reference counts, stale cache | handle and cache agree |
| Utilities (`libmisc`) | ring buffer, objects, threads | push/pop, retain/release | sub-processes, interpreter | wrap-around, counts | FIFO; freed once |
| Others: terminal drivers, dialogs, character sets, macro compiler (`grunch`), macros, manuals, vendored libraries | - | - | - | none of the above, or third-party | - |

`PROJECT.json` repeats this list with the files and the reason for each part
not modelled, and adds the hazards at their lines.

## Modules

### FileLock: the edit lock

A step is one system call or one reply of the user with the code that runs up
to the next call; the steps of processes interleave freely.

* `link[f]` is the symbolic link: the owner it names, or `None`. Its text
  (user, host, process id, start time) is abstracted to a process id and a boot
  number; all processes have the same user.
* `status`, `refs` are a process's list of `Lock_t`; `Holds` is a status that
  makes `node_release` remove the link (`LCK_SSUCCESS`, `LCK_SFORCED`).
* `pc`, `file`, `ask`, `force`, `retries`, `curr` are the locals of `flock_set`
  and `lock_try`. `Create`, `Unlink` and `Recreate` are the calls of
  `lock_create`; `Lstat` and `Readlink` those of `info_get`; `Compare` is
  `info_cmp` with `kill(pid, 0)`; `Answer` is `lock_ask`.
* An `Lstat` that finds no link ends the process: the owner compared next was
  never read. It dies at once or, where it handles the signal, by way of
  `gr_exit` and `flock_close` (`Abandon`).
* `Crash` is the death of a process without `flock_close`; `Restart` gives its
  identifier to a new process. `CloseBegin`, `CloseStep`, `CloseEnd` are the
  removal of each node at exit.
* `marred[f]` is a history variable: it says that a forced takeover removed the
  link of a live process, or that `lock_try` took a failed read for success.
  These are the two ways the code gives the lock away; `Exclusion` says that
  there is no third.

### Session: buffers and files

Several editor processes, each with one buffer, read, modify, rename, re-read,
save and delete files they share, and leave. A step is one system call on a file
or its backup, or one reply of the user. Session holds the variables of FileLock
and runs that module's actions (`L == INSTANCE FileLock`) for every call of
`flock_set`, `flock_clear` and `flock_close`, so a request for a lock takes the
steps it takes there, and other processes move between them.

* A text is the set of modifications it contains. `disk`, `mtime` and `bak` are
  the files, their times in seconds and their backups; `{}` is an empty or
  truncated file, `None` no file.
* `name`, `text`, `base` (`b_mtime`) and `flags` are the buffer. `flags` has
  `BF_CHANGED`, `b_nummod > 0`, `BF_NEW_FILE`, `BF_BACKUP`, `BF_LOCK`, `b_lstat`,
  and marks that last for one call; `Flag` says which.
* `at` is the place in `file_load`, `file_write` or `do_output_file`; `why` and
  `goal` say what a lock was asked for.
* Reading: `Load`, `Reread`, `LoadLocked`, `OpenOld`, `Read`, and for a file that
  does not exist `OpenNew` (the open that fails), `Probe` and `Unprobe`
  (`buf_insert` creates the name to see whether it can, and removes it). If
  another process has made the file since `OpenNew`, there is no probe (`Kill`).
* Modifying: `Edit` and, if `file_rdonly` had to ask for the lock, `EditLocked`
  or `Refused`. Renaming: `Rename`, `RenameLocked`.
* Saving: `Save`, `SaveLocked`, `SaveRefused`, `ReplyChanged` (the file has
  changed), `StartBackup`, `Copy`, `CopyShort`, `CopyFails`, `ReplyBackup`,
  `Truncate`, `OpenFails`, `Write`, `WriteFails`, `CloseFails`, `Finish`. `SaveAll`
  is an exit that writes, `Leave` its end. `CopyShort` is a copy cut short that
  counts as good (`file_copy`'s loop looks at no result); `CopyFails` is one that
  fails and says so, which goes on to the next place for a backup or to the
  question.
* `Terminate` is an exit whatever is unsaved or under way: the user's, or that
  of `sighandler_term`. `Crash` is a death without `flock_close`.
* History: `bold[f]` says that a process without the lock has replaced `f`
  (new files have no `BF_LOCK`, and a user may agree to go without a lock), or
  that a probe for a new file has removed the text another process had saved;
  `sure[f]` is the text a save under the lock is replacing, from its truncation
  until the new text is out. A file that a process has open and another removes
  is marked in the first's `flags` ("adrift"): it then reads nothing and writes
  to a file without a name.

### UndoFile and UndoSlice: the log on disk

`UndoFile` is what the engine relies on: bytes appended at the end or written
over in place. `UndoSlice` is the code: `SLICE_NUMBER` buffers filled in turn,
each pass of the loop of `slice_rdwr` a step (`ReadHit`, `WriteHit`,
`ReadMiss`, `WriteMiss`), over a stream with a position and a direction (`fpos`,
`dir`), of which `undo.c` tracks a part (`u_offset`, `u_need_seek`) to save seeks. Requests are the three the engine
makes: append (`uwrite_data`), read (`slice_read`), and read then write again
(`u_delete` collapsing two characters). The bytes of a request have one value.
`flat` is the array `UndoFile` would have, `lost` the offsets that `WriteMiss`
gave up: `slice_find` fills a buffer from disk for reads only. `FlushFails` is
a write of the file that fails after the seek and some of the bytes, `ReadFails`
a read that does, which nobody notices. C wants a seek wherever a stream turns
between writing and reading. `upread` may turn it without one: `ReadMiss` is then
a library that lets it, `ReadFails` one that refuses.

### Undo: the engine

The lists `b_undo` and `b_redo` are stacks of records, so the offsets that link
records in the file are not modelled; nor are their bytes, which is
`UndoSlice`'s subject. A text is a sequence of characters, the newline of every
line among them, and a position the number of characters before it: `Len(text)`
is the line below the last, which `llinepad` makes when something is inserted
there (`Padded`, with the records `PadRecords`), and where `ldeletedot` treats the
newline of the last line in its own way (`Cut`). `SelfInsert` (with the collapsing of
`u_delete`), `Insert`, `Delete`, `Overwrite` and `MoveTo` are the editing
primitives with the records they write; `ChangeWindow` moves the cursor without
one. `Key` is the start of a command (`u_chain`). `Begin` is the start of
`do_undo`, and each pass of its loop a step (`UndoEdit`, `UndoGoto`,
`UndoStart`, `UndoNothing`). `Save` and `SaveFails` are `file_write` as the log
sees it.

History: each record carries the text before its change (`was`), and `cmd` and
`base` remember what the last commands were and the text an editing command found.

A do_undo always starts from a key of its own here, and no other command runs
between two passes of its loop.

### MC modules

`MCFileLock` places processes on one host or two; `MCSession` gives two
processes the same file, and one of them a second name; `MCUndo` gives the strings a
macro inserts. `MCSession` (`FewerIfBold`) and `MCUndoSlice` (`OneValue`,
`UntilFailed`) also bound their runs by constraints. `UndoSliceFits` runs
`UndoSlice` directly.

## Runs

| Run | Instance | Shows |
|---|---|---|
| `FileLock` | 3 processes on 2 hosts, 1 file, two may crash, all answers, 2 references | `TypeOK`, `Exclusion`, `NoOrphan`, `SharedLockKept` hold |
| `FileLockReuse` | 2 processes, 2 files of which one directory refuses links, process ids used again, 5 retries | `Exclusion` holds; every request returns (`Returns`) |
| `FileLockRetry` | 2 processes, no crash | *violation* of `FailedReadRetried` |
| `FileLockTakeover` | 3 processes, one crashes, nobody steals | *violation* of `TakeoverExclusive` |
| `Session` | 2 processes, one file that exists at the start or not, a second name; one process has strict locking and may crash and fail at each call, the other renames and re-reads; 2 modifications, 1 second | `TypeOK`, `NoLostUpdate`, `BackedUp`, `LockFollowsBuffer`, `ModifiedIsLocked`, `ExitKeepsWork` hold |
| `SessionProbe` | as `Session`, the file new | *violation* of `ProbeIsEmpty` |
| `UndoSlice` | 2 slices of 2 bytes, log of 8 bytes, one failing read or write | `TypeOK`, `OneSlice`, `ReadBack`, `SeeksWhereNeeded` hold |
| `UndoSliceFits` | 3 slices of 2 bytes, log of 6 | the cache implements `UndoFile` (`FlatFile`) |
| `Undo` | typing, collapsing, overstrike, insertions below the last line, moves, saves, both forms of undo since the save | `Replayable`, `MarkStands`, `Unmodified`, `ChangedShown` hold |
| `UndoRedo` | redo, undo past saves, failing saves, two-line insertions, other windows | `TypeOK`, `Replayable`, `UndoRestores` hold |
| `UndoExit` | as `Undo`, with redo | *violation* of `Unmodified` |
| `UndoBottom` | as `UndoRedo`, with deletions of the end of the last line | *violation* of `UndoRestores` |

### Bounds, and why they are enough

* `FileLock`: a race for a dead owner's lock needs its owner and two takers, so
  three processes; a fourth adds takers that behave as the third. One process on
  another host gives both outcomes of `info_cmp`. The code's 5 retries are kept
  where liveness is checked and lowered to 2 in the largest run (2 already
  separates the first, a middle and the last failure). `MaxBoot = 1` lets a
  process identifier be used again once. Nothing of this bounds the theorems.
* `Session`: a lost update needs two writers of one file. The properties that
  compare texts tell apart what was there, one's own change and the other's, so
  two modifications; one tick separates "in the same second" from "later". The
  second name is what a rename and a lock that moves need; a file that does not
  exist at the start is probed for and created by either process. One of the
  processes is strict, fails and crashes, the other is not and does not, so each
  meets the other kind. That every step is one of FileLock's or leaves the lock
  alone is left to the proof (`SessionLocks`), which needs no bounds.
  `Answers = {"abort"}` and `MaxRetries = 0` keep the lock from being given away: then `bold` comes from processes without a lock only
  and `marred` stays `FALSE`, and the ways in which a lock is given away are left
  to the runs of `FileLock`. `FewerIfBold` takes one modification away once a
  process without its lock has saved the file: no property tells its texts apart
  from then on. The theorems have none of these bounds.
* `UndoSlice`: a log one slice longer than the cache forces every combination of
  eviction and reload, and is checked with two values of bytes. One more slice is
  what a read right behind a write takes (two slices cached, the next one
  written out, the one behind it read); those states are checked with one value
  besides zero (`OneValue`). A record of 2 bytes at an odd offset straddles two
  slices. `Header = 1` stands for the bytes `undo_init` writes, so that records
  are not aligned with slices. One failing access reaches every place one can
  fail. The run follows a failure to the end of its request (`UntilFailed`):
  afterwards `ReadBack` and `SeeksWhereNeeded` promise nothing, and `TypeOK` and
  `OneSlice` are left to the proofs.
* `Undo`: a text of 3 characters holds a line with a cursor before, in and behind
  it and a line after it, or a line below the last; 4
  or 5 records hold two commands with their cursor records and a save mark
  between. Larger texts add positions, not orders of operations. A macro's
  string is one character, one newline or a newline and a character, which
  gives each shape of `linserts`' loop.

Deadlock is not checked in the runs of `FileLock` and `Session`: a system in which every
process has exited stops. It is checked in all others.

### Fairness

Only `FairSpec` of `FileLock` has any: weak fairness of `Step(p)`, the steps of
`flock_set` that wait for nobody. They are system calls made by a process that
is running; the operating system does not stop it for ever. The user's answers,
commands, crashes and restarts have none. `Returns` then says that `lock_try`
comes to an answer or a question whatever the other processes do. It rests on
the retry limit only for forced attempts: a failed read that is not forced ends
the loop at once.

### What the violations show

* `FileLockRetry`: `continue` in a do-while goes to its condition, which is
  `status == SFORCE`. After a failed `readlink` the loop ends with
  `LCK_SSUCCESS` and no lock (lock.c:604-609, whose comment says "retry").
* `FileLockTakeover`: two processes that find the owner dead both end with
  `LCK_SFORCED`, since the second one's `unlink` removes the first one's new
  link (lock.c:494; the comment at lock.c:436 asks for atomicity).
* `UndoExit`: a redo decrements `b_nummod` as an undo does. After an edit, an
  undo and a redo the count is 0, `file_write` declines to write and the editor
  may exit (undo.c:562).
* `SessionProbe`: to see whether a new file could be created, `buf_insert`
  creates it and removes it by name. A second editor that saves the file in
  between loses its text (file.c:796-798): the probe was to remove the "new
  version" it made, and removes the other's.
* `UndoBottom`: `ldeletedot` records the newline of the last line as deleted. The
  undo of a whole last line inserts it on a line `llinepad` has just made, and so
  leaves one line too many; from the middle of the last line the newline is
  recorded though it stays, and undo inserts another (line.c:1170).

Further disagreements, visible with the same modules under other constants or
in a definition's comment, and not made runs of their own:

* `lock_try` tests `info_get` for -1 only; when the link is gone it returns 1
  and the owner that was never read is compared (`Lstat`; lock.c:603).
* `node_release` removes the link without reading whose it is, so a robbed
  owner removes the thief's (`Release`; lock.c:706, against the comment at 523).
* A record written over in place, in a slice that has been written out, brings
  its slice back without the other bytes (`lost`; undo.c:888): `ReadBack` without
  its condition on `lost` is violated.
* A redo of an insertion below the last line adds a line, for the same reason as
  `UndoBottom`: `Replayable` with `Redo` and `Bottom = {"insert"}` is violated.
* After a failed `upwrite` or `upread`, `u_offset` and `u_need_seek` say nothing
  of the seek or of the bytes that went by, and a later access may miss its place
  (`FlushFails`, `ReadFails`): `ReadBack` and `SeeksWhereNeeded` without their
  condition `fails = 0` are violated.
* `upread` seeks "if required" (undo.c:923), but not between a write and a read
  at the offset where it ended (undo.c:939), where C requires it. The run reaches
  such a read (`Turns`). glibc and BSD let it pass; the Windows library fails it,
  and `slice_find` does not look at the result (undo.c:889), so the slice keeps
  the bytes of the one it replaces (`ReadFails` with no byte read).
* A redo with nothing to redo clears `BF_CHANGED` (`UndoNothing`; undo.c:524):
  `ChangedShown` with `Redo = TRUE` is violated.
* A file that could not be closed counts as saved (`Save("close")`;
  file.c:1929): `Unmodified` with `Saves = {"close"}` is violated.
* Undo "to the last modification" does not stop at an overstruck character
  (`Continue`; undo.c:1055 against the comment at 976): `UndoRestores` with
  `Moves = {TRUE}` is violated.
* A space typed behind a newline is collapsed into the newline's record, and the
  cursor record that follows is numbered 0, so the next undo takes back the
  cursor record alone (`Collapses`; undo.c:355): `UndoRestores` with `Typing` is
  violated.
* A typed character is collapsed into the last record wherever the cursor has
  gone since (`Collapses`; undo.c:358): `Replayable` with `Typing` and
  `Elsewhere` is violated.
* The same happens when an undo or a redo has moved the cursor and the text
  since the last character was typed: `Replayable` with `Typing` and `Redo` is
  violated (`MaxText = 5`, `MaxLog = 4`).
* An undo past a save takes its mark off the list and counts down from a count
  that the save had reset: `MarkStands`, `Unmodified` and `ChangedShown` with
  `"ask"` or `"yes"` in `Pasts` are violated.

In `file.c`, the conditions in the properties of `Session` name what the code
does not promise:

* A file that did not exist when it was opened gets no `BF_LOCK` (file.c:638)
  and no `b_mtime`: two editors that create one file overwrite each other
  without a lock and without a question (`bold` in `NoLostUpdate`).
* Times are compared with `>` in whole seconds (file.c:841): a change in the
  second of the read or of the last save is not noticed.
* `BF_BACKUP` is cleared by a successful write only (file.c:966, whose comment
  says "only once per edit session"): the retry after a failed write removes
  the good backup and copies the truncated file in its place. `BackedUp` ends
  where the next backup begins.
* `sys_copy` and `file_copy` call it success when there is no file to copy, and
  the old backup is gone by then (`StartBackup`). `file_copy` also does when the
  file cannot be opened (file.c:3442).
* The copying loop of `file_copy` looks neither at what `sys_write` returns nor at
  an error of `sys_read`, and returns `TRUE` ("if successful", file.c:3415); it is
  what copies wherever `sys_copy` is the stub of `sys_unix.c`. A backup cut short
  counts as good, and the save truncates the file (`CopyShort`). `BackedUp` is
  about backups that were copied in full.
* `BF_NEW_FILE` is cleared before the write (file.c:937), so a new file without
  modifications is not written again after a failure.
* `file_write` returns 0 when the lock is refused (file.c:887) and when the close
  fails (file.c:1929): an exit counts the buffer as written (`SaveRefused`,
  `CloseFails`).
* The probe of `buf_insert` removes a name it created, whoever has opened it or
  saved it since (`Unprobe`; `bold`).
* `edit_file` with `EDIT_AGAIN` keeps `b_nummod`, and under strict locking takes
  a reference that nothing gives back; `output_file` keeps the old `b_mtime`.
* A signal inside `flock_set` exits with the link made and not yet in the list.
* `sb.st_mode & S_IFLNK` (file.c:3236) is not zero for a regular file, so a
  backup is always a copy, never a link; `Copy` models the copy.

So the passing runs of `Undo` are about the part of the engine that works: the
count of modifications and the changed flag without redo, the replaying of
typed text without cursors moved by other windows, edits at the end of the last
line (`Bottom`) without deletions of it and without redo. The constants name these
conditions and the runs set them openly.

## Proofs

### The lock

`FileLock_proofs` proves, for any processes, files, hosts and bounds, with only
`LockConstants` assumed:

* `TypeCorrect`: `Spec => []TypeOK`
* `ExclusionHolds`: `Spec => []Exclusion`
* `NoOrphanHolds`: `Spec => []NoOrphan`
* `SharedLockHolds`: `Spec => SharedLockKept`, an action property

`Exclusion` speaks of processes that already have a node; while a process is
inside `flock_set` its claim is in its program counter and in what it read.
The inductive invariant `IInv` adds, to `TypeOK` and `Exclusion`:

* `DeadInv`: a dead process has no node and is in no call;
* `NodeInv`: a process in `lock_try` has no node for that file yet, and nodes
  have references;
* `LinkInv`: no link names a process still to come, so a restarted process does
  not find its own name in an old link;
* `ReadInv`: in an unmarred file, a process that has read its own name in the
  link still owns it when it compares;
* `OwnerInv`: a live process's link belongs to a lock it holds or is about to.

The argument turns on who may change a link. `LinkEffect` says that a step
changes a link only by filling an empty one (`Taken`), by removing one under
force (`Robbed`, which mars the file if the owner lives) or by releasing a lock
held (`Released`, and `Exclusion` says it is the releaser's own).
`HeldLinkStays` concludes that the link of a live holder of an unmarred file
stays while it holds it, and `HeldEffect` that a process comes to hold a lock
only after reading its own name, or after a failure that mars the file.
`StepExclusion` puts these together; `StepOwnerInv` gives `NoOrphan`.
`SharedLockHolds` needs no more than `TypeOK` and `OthersUntouched`: a step of one
process changes no other's nodes, and its own `flock_clear` releases one only
from the last reference.

### Buffers and the lock

`Session_proofs` and `SessionBuffers_proofs` prove, for any processes, files,
modes of locking, failures and bounds, with `SessionConstants` and FileLock's
`LockConstants` assumed:

* `SessionLocks`: `Spec => Locks`, that is `Spec => L!Spec`
* `TypeCorrect`: `Spec => []TypeOK`
* `SessionExclusion`: `Spec => []L!Exclusion`
* `LockFollows`: `Spec => []LockFollowsBuffer`
* `ModifiedLocked`: `Spec => []ModifiedIsLocked`

`SessionLocks` is a refinement with the identity as its mapping: each action of
`Session` runs one of FileLock's actions or leaves its variables unchanged.
FileLock's theorems, instantiated (`P == INSTANCE FileLock_proofs`), then hold of
the editors: `TypeCorrect` takes the lock's half of `TypeOK` from them, and
`SessionExclusion` needs nothing else.

The two statements about buffers are of moments between requests. The inductive
invariant `BufferInv(p)` (lemma `Buffers`) holds at every moment, in the middle
of a call too:

* `CallInv`: a process inside `flock_set` is in a call of `file.c` that asks for
  the lock of `goal` and has no node for it; a dead or closing process has no
  buffer;
* `AskInv`: what is known when a lock is asked for, for each reason to ask;
* `LstatInv`: a buffer with `b_lstat` has a node for its present name, and one
  that is changed and subject to locking has `b_lstat`;
* `NodesInv`: without strict locking every node has one reference and is the
  buffer's, or has just been made by the `flock_set` under way.

FileLock's type invariant, and that a step of one process leaves the nodes of the
others alone, carry the rest: there is a lemma for each kind of step.

### Files under their lock

`SessionFiles_proofs` and `SessionUpdates_proofs` prove, from the same assumptions:

* `BackupHolds`: `Spec => []BackedUp`, for every save that has copied the whole
  file, whatever fails afterwards
* `ExitKeeps`: `Spec => []ExitKeepsWork`
* `NoUpdateLost`: `Spec => NoLostUpdate`, an action property

the last for names that are kept apart (`NamesApart`: no process saves under a
name that it renames a buffer to). TLC and the proof share that bound; without
it the property is not expected to hold, for a renamed buffer keeps the
`b_mtime` of its old file.

All three rest on one lemma, `OthersKeep`. A file is `Mine(p)` when `p` holds the
lock of its buffer's name and the file is neither `bold` nor `marred`. Then no
other process can hold it too (`Alone`, from FileLock's exclusion), and from its
backup on a save has the lock or has marked the file (`ClaimInv`), so a step of
another process leaves file and backup alone; all that is left to it is to find
that the file does not exist, make it, and remove it while it is still empty.

* `SureInv` and `SaveInv` carry the first two theorems. `CopyInv` and `FreshInv`
  follow a save from the copy to the truncation: what it copied is what it
  truncates. `WroteInv` follows it from the write to the exit. `CallMarks` says
  in which places the marks of one call can be set.
* `UpdateInv` carries the third. `TimesInv` and `ClockInv`: a file is never older
  than the time a buffer remembers of it, so the `>` of `buf_diskchanged` leaves
  equality. `NewInv`: a buffer without a time, which `buf_diskchanged` lets pass,
  has seen all its file contains, because no lock is taken for such a buffer
  after it was read (`AskedInv`: a lock is asked for only under `BF_LOCK`, which
  only a file that was read has). `PassedInv`: what the check found still holds
  at the truncation.

Each part has a lemma for the steps of the others and one for the process's own.

### The undo log

`UndoSlice_proofs` proves, for any number and size of slices, any log, lengths
of requests and number of failing accesses, with only `SliceConstants` assumed:

* `TypeCorrect`: `Spec => []TypeOK`
* `OneSliceHolds`: `Spec => []OneSlice`
* `SeeksHold`: `Spec => []SeeksWhereNeeded`: every access reaches its offset, and
  no write turns a stream that has just read without a seek. Of reads behind
  writes it says nothing, for the code does not seek there.
* `ReadBackHolds`: `Spec => []ReadBack`

`ReadBack` and `SeeksWhereNeeded` speak of a cache between two passes of the
loop; what makes them inductive is in `StateInv /\ DataInv`:

* `RequestInv`: a request lies in the log or at its end, and every pass but the
  first begins where a slice begins;
* `Unique`: `OneSlice` in terms of slots, because different slices are at least
  `SliceSize` apart (`SlicesApart`) and an address is in one slice (`SliceOffIs`);
* `StreamInv`: the tracked offset is the stream's position, and `u_need_seek` is
  set when it has just read, until an access fails;
* `DiskInv`: a slice that the log has reached and the cache no longer holds is
  on disk, so that a read of it is not cut short by the end of the file;
* `FlatInv`: `ReadBack`, of the part an append has already written too.

Only a miss changes which slices are held, and it gives the slot a slice no slot
holds (`StepUnique`). The eviction it makes writes the old slice out in full
(`EvictedDiskInv`) at the position `StreamInv` vouches for, so every byte is then
either where it was or on disk with the value it had in the slot.

`UndoSliceFits_proofs` proves `FitsFlat`: assuming `Fits`, a log no larger than
the cache (`MaxEof <= Slices * SliceSize`), `Spec => FlatFile`. Its `FitsInv`
says that slots are filled in the order of the slices (`InOrder`) as the log
reaches them (`Covered`), so a miss can only be an append reaching the next
slice, with a free slot for it (`MissIsNext`); nothing is evicted
(`NoEviction`), no access of the file is made or fails, and `lost` stays empty.
The step that ends an append is then the `Append` of `UndoFile`, a write that
finds its slice an `Overwrite`, and every other step a stutter (`StepFlat`).
Without `Fits` the refinement is false: an evicted slice that is written to loses
its other bytes.

### The undo engine

`Undo_proofs` proves, for any characters, strings a macro may insert, texts and
logs, with only `UndoConstants` assumed:

| Theorem | Statement | For |
|---|---|---|
| `RecordsReplay` | `WithinLimits => (Spec => []Replayable)` | any mixture of edits, saves, undos and redos |
| `UndoTypes` | `WithinLimits => (Spec => []TypeOK)` | the same |
| `MarksHold` | `SinceSave => (Spec => []MarkStands)` | undo that stops at saves, saves that succeed, with redo |
| `ChangesShown` | `NoRedo => (Spec => []ChangedShown)` | the same, without redo |
| `UnmodifiedIsSaved` | `NoRedo => (Spec => []Unmodified)` | the same |
| `UndoBringsBack` | `WholeCommands => (Spec => []UndoRestores)` | commands that type nothing, undo of whole commands; saves that fail, undo past saves and redo included |

The left sides are conditions on constants, met by the constants of the passing
runs (`Undo` meets `NoRedo`, `UndoRedo` meets `WholeCommands`). What each leaves
out is there because of the code:

* `WithinLimits`: no deletion of the end of the last line, no typing with cursors
  moved by other windows or with redo, no redo of insertions below the last line.
  Without any one of these TLC violates `Replayable`. It also violates `Unmodified`
  without the first or the second, `ChangedShown` and `UndoRestores` without the
  first. For `TypeOK` and `MarkStands` it finds no counterexample: they have the
  condition because they are proved from the fitting of records, and what they
  do outside it is open.
* `SinceSave`: `WithinLimits`, saves that succeed and undo that stops at them. With
  a save that fails to write or to close, or with undo past a save, TLC violates
  `MarkStands`, `Unmodified` and `ChangedShown`.
* `NoRedo`: `SinceSave` and no redo. With redo TLC violates `Unmodified` (`UndoExit`)
  and `ChangedShown`.
* `WholeCommands`: `WithinLimits`, no typing and no undo "to the last modification".
  Without either TLC violates `UndoRestores`.

Everything rests on `FitInv`. `Replayable` alone is not inductive: it does not say
that texts end in a newline, where the cursor is, or that a redo list has no
marks. `Fits(stk, u, q)` says of a list what `Replays` says, starting at the text
`u` and the cursor `q`, and two things more: that records leave the end of the
last line alone where nothing reaches it, so that what a redo takes back never
needs `ldeletedot`'s exception; and, while characters are typed, that the cursor a
DELETE meets is inside it or at its end, so that one more character belongs to it.

* Texts: `InsertBack` and `CutPlain` say what `Paste` and `Cut` do to each other,
  `SofarTakenBack` that the part of a string already inserted is taken back by
  the record of that part.
* Calls: `Leads(recs, t, p, u, q)` says that the records one call writes, oldest
  first, fit, and go from the text and cursor before the call to those after it.
  There is a lemma for each editing call and one for `undo_command` itself
  (`UndoneRecords`), which is why the records a redo will meet fit too.
  `LeadsJoin` puts two calls one after the other, `FitsJoin` puts a call on a list.
* Steps: one lemma for each action keeps `FitInv`.

`Inserted`, the records of `linserts`, is a recursive function over the characters
of a string. Its unfolding (`Added`, `InsertedSteps`) and the induction over the
lines of the string (`Inductive`: a set of numbers that has 0 and with each number
the next has them all) are proved from well-foundedness of the naturals in the
form that speaks of the least element of a set, which needs no operator as a
parameter.

The other invariants need only what a step does to the undo list, the count, the
flag and the file. `Kinds` says once that every step is one of four: `Wrote`
(records without marks are added), `Saved` (a mark is), `Took` (the top record
goes, and the text with it) or `Rested`. From these:

* `MarkInv`: no step removes or adds a mark but a save, whose mark has the text
  that is in the file from then on.
* `CountInv`: `b_nummod` is the number of edits above the last mark. `OriginInv`:
  before the first save the oldest record was written at the text of the file.
  With a count of 0 only cursor records are above the mark, and these change no
  text, so the text is the mark's: that is `Unmodified`. `ChangedShown` follows
  the same list: the flag is cleared by a save, or by an undo that finds the list
  empty, when `OriginInv` says that text and file agree.
* `RestInv`: the records of a command under way are numbered from 0
  (`ChainFrom`), and the one numbered 0 was written at the text the command
  found; while an undo is under way the rest of that chain is on top. The undo
  ends at the record numbered 0, and `FitInv` says that the text is then the one
  it was written at.

### What is only model-checked

`Returns`: liveness under fairness is out of the prover's reach. Every other
property of the passing runs is also a theorem, under the conditions its section
above states. The five violations and the disagreements listed with them are
TLC's alone.

## Not modelled

* In `FileLock`: the parsing and making of the link's text, systems without
  symbolic links, `getuid` differences, `flock_set` with an empty name. Two
  names of one file are one member of `File`; in the code a file reached through
  a symbolic link has a lock beside each name. A crash loses no link: the file system is taken to be atomic.
* In `Session`: several buffers in a process, on one file or on several;
  appending, writing under another name and inserting a file; several versions
  of a backup, several directories for it, and auto-save; a text written in part
  (a failed write leaves the file truncated, and a copy cut short is empty);
  failures to read; what a process reads from a file that another has removed
  while it was open (taken as empty, and no property speaks of it); the window between the `stat()` and the
  `open()` of `buf_writeout`, which are one step; process identifiers in use
  again and restarts (they are in `FileLock`); signals inside `flock_set`; macros
  run by triggers.
* In `UndoSlice`: the slice at which the search for a hit starts (`last_sp`),
  which only affects speed while `OneSlice` holds; seeks that fail.
* In `Undo`: records of anchors, of the scrap and of character maps, soft undo
  of translate, buffers without undo, undo called by macros in the middle of a
  command, the bytes of a record, the 64-byte pieces in which a long deletion is
  inserted again, the classes of punctuation and escapes that end a collapsed
  record (classes of characters are data of the run); a cursor beyond the end of its line or more
  than one line below the last; deletions of more than is left, whose record
  claims a length that was not written (undo.c:288).
* Components with status `not_modelled` in `PROJECT.json`: layout and terminal
  output, sequential evaluators and compilers, third-party libraries; and those
  marked *planned*.

## Plan

Done, in this order: `FileLock` with its proofs, `UndoFile`, `UndoSlice`, `Undo`,
`Session` (buffers, saving and the lock) with its proofs, and the proofs about
`UndoSlice` and `Undo`. What is left, most
important first:

1. `Scrap` with `Undo`: `UO_SCRAP` and `k_undo`, two logs taken back in step;
   anchors' records; soft undo.
2. Several buffers in a `Session`, files with two names, auto-save.
3. `Lines`: lines, chunks and their reference counts, window cursors and
   anchors under edits, refining the text of `Undo`.
4. `RingBuffer`, reference-counted objects and the threads wrapper of
   `libmisc`; the ring buffer as an implementation of a bounded queue.
5. Triggers and other signals; playback.
6. `libvfs`: nodes, cache and handles.
7. Splay tree, trie and `regdfa` against reference definitions, bounded inputs.

Proofs next: `TypeOK` and `MarkStands` of `Undo` outside `WithinLimits`; queue
refinement of `RingBuffer`.
