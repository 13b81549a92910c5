--------------------------- MODULE FileLock_proofs ---------------------------
(* Proofs about FileLock, for any processes, files, hosts and bounds.      *)
EXTENDS FileLock, TLAPS

(***************************************************************************)
(* The inductive invariant.  Exclusion and NoOrphan follow from it; what   *)
(* they lack is the state of a process inside flock_set, whose claim on    *)
(* the link is in its program counter and not yet in a node.               *)
(***************************************************************************)

InCall(p) == pc[p] \notin {"idle", "closing"}

(* A dead process has no node and is in no call.                           *)
DeadInv ==
    \A p \in Proc : ~alive[p] =>
        /\ pc[p] = "idle"
        /\ \A f \in File : status[p][f] = "none"

(* flock_set only reaches lock_try for a file without a node, and a node   *)
(* in the list has a reference.                                            *)
NodeOK(p) ==
    /\ InCall(p) => status[p][file[p]] = "none"
    /\ \A f \in File : status[p][f] # "none" => refs[p][f] >= 1

NodeInv == \A p \in Proc : NodeOK(p)

(* No link names a process that is still to come.                          *)
LinkInv ==
    \A f \in File : link[f] # None => link[f].boot <= boot[link[f].pid]

(* While the file is unmarred, the process that has read its own name in   *)
(* the link still has it when info_cmp looks at it.                        *)
ReadInv ==
    \A p \in Proc :
        /\ pc[p] = "compare" /\ curr[p] = Id(p)
        /\ ~marred[file[p]]
        => link[file[p]] = Id(p)

(* The link of a live process belongs to a lock it holds or is acquiring.  *)
Acquiring(p, f) ==
    /\ file[p] = f
    /\ pc[p] \in {"lstat", "readlink", "compare"}
    /\ pc[p] = "compare" => curr[p] = Id(p)

OwnerInv ==
    \A p \in Proc, f \in File :
        alive[p] /\ link[f] = Id(p) => Holds(p, f) \/ Acquiring(p, f)

IInv ==
    /\ TypeOK /\ DeadInv /\ NodeInv /\ LinkInv
    /\ ReadInv /\ OwnerInv /\ Exclusion

-----------------------------------------------------------------------------
LEMMA NoneApart ==
    ASSUME NEW i \in Ident
    PROVE  i # None
  BY LockConstants DEF Ident

LEMMA IdentOfId ==
    ASSUME TypeOK, NEW p \in Proc
    PROVE  Id(p) \in Ident /\ Id(p) # None /\ Id(p).pid = p /\ Id(p).boot = boot[p]
  BY NoneApart DEF Id, Ident, TypeOK

LEMMA IdsDiffer ==
    ASSUME TypeOK, NEW p \in Proc, NEW q \in Proc, p # q
    PROVE  Id(p) # Id(q)
  BY IdentOfId

(* The initial states satisfy the invariant.                               *)
LEMMA InitIInv == Init => IInv
  <1> SUFFICES ASSUME Init PROVE IInv
    OBVIOUS
  <1>1. TypeOK
    BY LockConstants DEF Init, TypeOK, NodeStatus, Pc
  <1>2. DeadInv /\ NodeInv /\ LinkInv /\ ReadInv
    BY DEF Init, DeadInv, NodeInv, NodeOK, LinkInv, ReadInv, InCall
  <1>3. Exclusion
    BY DEF Init, Exclusion, Holds
  <1>4. OwnerInv
    BY <1>1, IdentOfId DEF Init, OwnerInv
  <1> QED
    BY <1>1, <1>2, <1>3, <1>4 DEF IInv

(***************************************************************************)
(* The common endings of the actions, point by point.                      *)
(***************************************************************************)

(* Leaving lock_try with status st.                                        *)
LEMMA ReturnEffect ==
    ASSUME TypeOK, NEW p \in Proc, file[p] \in File,
           NEW st \in NodeStatus, Return(p, st)
    PROVE  /\ status' \in [Proc -> [File -> NodeStatus]]
           /\ refs' \in [Proc -> [File -> 0..MaxRefs]]
           /\ pc' \in [Proc -> Pc]
           /\ file' \in [Proc -> File \cup {None}]
           /\ ask' \in [Proc -> BOOLEAN]
           /\ force' \in [Proc -> BOOLEAN]
           /\ retries' \in [Proc -> 0..MaxRetries]
           /\ curr' \in [Proc -> Ident \cup {None}]
           /\ status'[p][file[p]] = st
           /\ refs'[p][file[p]] = IF st = "none" THEN 0 ELSE 1
           /\ \A f \in File : f # file[p] => /\ status'[p][f] = status[p][f]
                                             /\ refs'[p][f] = refs[p][f]
           /\ pc'[p] = "idle"
           /\ \A q \in Proc : q # p => /\ pc'[q] = pc[q]
                                       /\ status'[q] = status[q]
                                       /\ refs'[q] = refs[q]
                                       /\ file'[q] = file[q]
                                       /\ curr'[q] = curr[q]
  <1>1. status' \in [Proc -> [File -> NodeStatus]] /\ refs' \in [Proc -> [File -> 0..MaxRefs]]
    BY LockConstants DEF Return, TypeOK
  <1>2. /\ pc' \in [Proc -> Pc]
        /\ file' \in [Proc -> File \cup {None}]
        /\ ask' \in [Proc -> BOOLEAN]
        /\ force' \in [Proc -> BOOLEAN]
    BY DEF Return, Goto, Forget, TypeOK, Pc
  <1>3. /\ retries' \in [Proc -> 0..MaxRetries]
        /\ curr' \in [Proc -> Ident \cup {None}]
    BY LockConstants DEF Return, Forget, TypeOK
  <1>4. /\ status'[p][file[p]] = st
        /\ refs'[p][file[p]] = IF st = "none" THEN 0 ELSE 1
        /\ \A f \in File : f # file[p] => /\ status'[p][f] = status[p][f]
                                          /\ refs'[p][f] = refs[p][f]
    BY DEF Return, TypeOK
  <1>5. \A q \in Proc : q # p => status'[q] = status[q] /\ refs'[q] = refs[q]
    BY DEF Return, TypeOK
  <1>6. /\ pc'[p] = "idle"
        /\ \A q \in Proc : q # p => /\ pc'[q] = pc[q]
                                    /\ file'[q] = file[q]
                                    /\ curr'[q] = curr[q]
    BY DEF Return, Goto, Forget, TypeOK
  <1> QED
    BY <1>1, <1>2, <1>3, <1>4, <1>5, <1>6

(* The end of a process.                                                   *)
LEMMA DieEffect ==
    ASSUME TypeOK, NEW p \in Proc, Die(p)
    PROVE  /\ alive' \in [Proc -> BOOLEAN]
           /\ status' \in [Proc -> [File -> NodeStatus]]
           /\ refs' \in [Proc -> [File -> 0..MaxRefs]]
           /\ pc' \in [Proc -> Pc]
           /\ file' \in [Proc -> File \cup {None}]
           /\ ask' \in [Proc -> BOOLEAN]
           /\ force' \in [Proc -> BOOLEAN]
           /\ retries' \in [Proc -> 0..MaxRetries]
           /\ curr' \in [Proc -> Ident \cup {None}]
           /\ ~alive'[p]
           /\ pc'[p] = "idle"
           /\ \A f \in File : status'[p][f] = "none"
           /\ \A q \in Proc : q # p => /\ alive'[q] = alive[q]
                                       /\ pc'[q] = pc[q]
                                       /\ status'[q] = status[q]
                                       /\ refs'[q] = refs[q]
                                       /\ file'[q] = file[q]
                                       /\ curr'[q] = curr[q]
  <1>1. /\ alive' \in [Proc -> BOOLEAN]
        /\ status' \in [Proc -> [File -> NodeStatus]]
        /\ refs' \in [Proc -> [File -> 0..MaxRefs]]
    BY LockConstants DEF Die, TypeOK, NodeStatus
  <1>2. /\ pc' \in [Proc -> Pc]
        /\ file' \in [Proc -> File \cup {None}]
        /\ ask' \in [Proc -> BOOLEAN]
        /\ force' \in [Proc -> BOOLEAN]
    BY DEF Die, Goto, Forget, TypeOK, Pc
  <1>3. /\ retries' \in [Proc -> 0..MaxRetries]
        /\ curr' \in [Proc -> Ident \cup {None}]
    BY LockConstants DEF Die, Forget, TypeOK
  <1>4. /\ ~alive'[p]
        /\ \A f \in File : status'[p][f] = "none"
        /\ \A q \in Proc : q # p => /\ alive'[q] = alive[q]
                                    /\ status'[q] = status[q]
                                    /\ refs'[q] = refs[q]
    BY DEF Die, TypeOK
  <1>5. /\ pc'[p] = "idle"
        /\ \A q \in Proc : q # p => /\ pc'[q] = pc[q]
                                    /\ file'[q] = file[q]
                                    /\ curr'[q] = curr[q]
    BY DEF Die, Goto, Forget, TypeOK
  <1> QED
    BY <1>1, <1>2, <1>3, <1>4, <1>5

(* The end of a call by way of gr_exit.                                    *)
LEMMA AbandonEffect ==
    ASSUME TypeOK, NEW p \in Proc, Abandon(p)
    PROVE  /\ pc' \in [Proc -> Pc]
           /\ file' \in [Proc -> File \cup {None}]
           /\ ask' \in [Proc -> BOOLEAN]
           /\ force' \in [Proc -> BOOLEAN]
           /\ retries' \in [Proc -> 0..MaxRetries]
           /\ curr' \in [Proc -> Ident \cup {None}]
           /\ UNCHANGED <<alive, node>>
           /\ pc'[p] = "closing"
           /\ \A q \in Proc : q # p => /\ pc'[q] = pc[q]
                                       /\ file'[q] = file[q]
                                       /\ curr'[q] = curr[q]
  <1>1. /\ pc' \in [Proc -> Pc]
        /\ file' \in [Proc -> File \cup {None}]
        /\ ask' \in [Proc -> BOOLEAN]
        /\ force' \in [Proc -> BOOLEAN]
    BY DEF Abandon, Goto, Forget, TypeOK, Pc
  <1>2. /\ retries' \in [Proc -> 0..MaxRetries]
        /\ curr' \in [Proc -> Ident \cup {None}]
    BY LockConstants DEF Abandon, Forget, TypeOK
  <1>3. /\ UNCHANGED <<alive, node>>
        /\ pc'[p] = "closing"
        /\ \A q \in Proc : q # p => /\ pc'[q] = pc[q]
                                    /\ file'[q] = file[q]
                                    /\ curr'[q] = curr[q]
    BY DEF Abandon, Goto, Forget, TypeOK
  <1> QED
    BY <1>1, <1>2, <1>3

(* The removal of a node.                                                  *)
LEMMA ReleaseEffect ==
    ASSUME TypeOK, NEW p \in Proc, NEW f \in File, Release(p, f)
    PROVE  /\ link' \in [File -> Ident \cup {None}]
           /\ status' \in [Proc -> [File -> NodeStatus]]
           /\ refs' \in [Proc -> [File -> 0..MaxRefs]]
           /\ link'[f] = IF Holds(p, f) THEN None ELSE link[f]
           /\ \A g \in File : g # f => /\ link'[g] = link[g]
                                       /\ status'[p][g] = status[p][g]
                                       /\ refs'[p][g] = refs[p][g]
           /\ status'[p][f] = "none"
           /\ \A q \in Proc : q # p => status'[q] = status[q] /\ refs'[q] = refs[q]
  <1>1. link' \in [File -> Ident \cup {None}]
    BY DEF Release, TypeOK
  <1>2. /\ status' \in [Proc -> [File -> NodeStatus]]
        /\ refs' \in [Proc -> [File -> 0..MaxRefs]]
    BY LockConstants DEF Release, TypeOK, NodeStatus
  <1>3. /\ link'[f] = IF Holds(p, f) THEN None ELSE link[f]
        /\ \A g \in File : g # f => link'[g] = link[g]
    BY DEF Release, TypeOK
  <1>4. /\ \A g \in File : g # f => /\ status'[p][g] = status[p][g]
                                    /\ refs'[p][g] = refs[p][g]
        /\ status'[p][f] = "none"
        /\ \A q \in Proc : q # p => status'[q] = status[q] /\ refs'[q] = refs[q]
    BY DEF Release, TypeOK
  <1> QED
    BY <1>1, <1>2, <1>3, <1>4

(***************************************************************************)
(* Every action preserves the invariant: one lemma per conjunct, one step  *)
(* per action.                                                             *)
(***************************************************************************)

(* A call that ends keeps the types.                                       *)
LEMMA ReturnTypeOK ==
    ASSUME TypeOK, NEW p \in Proc, pc[p] \notin {"idle", "closing"},
           NEW st \in NodeStatus, Return(p, st),
           UNCHANGED <<link, alive, boot>>, marred' \in [File -> BOOLEAN]
    PROVE  TypeOK'
  <1>1. file[p] \in File
    BY DEF TypeOK
  <1> QED
    BY <1>1, ReturnEffect DEF TypeOK

LEMMA DieTypeOK ==
    ASSUME TypeOK, NEW p \in Proc, Die(p), UNCHANGED <<link, boot, marred>>
    PROVE  TypeOK'
  BY DieEffect DEF TypeOK

LEMMA AbandonTypeOK ==
    ASSUME TypeOK, NEW p \in Proc, Abandon(p), UNCHANGED <<link, boot, marred>>
    PROVE  TypeOK'
  BY AbandonEffect DEF TypeOK, node

LEMMA TryForceTypeOK ==
    ASSUME TypeOK, NEW p \in Proc, pc[p] \notin {"idle", "closing"}, TryForce(p),
           UNCHANGED <<link, alive, boot, marred>>
    PROVE  TypeOK'
  BY DEF TypeOK, TryForce, Goto, Pc, node

LEMMA ReleaseTypeOK ==
    ASSUME TypeOK, NEW p \in Proc, NEW f \in File, Release(p, f),
           UNCHANGED <<alive, boot, pc, locals, marred>>
    PROVE  TypeOK'
  BY ReleaseEffect DEF TypeOK, locals

LEMMA GotoEffect ==
    ASSUME TypeOK, NEW p \in Proc, NEW l \in Pc, Goto(p, l)
    PROVE  /\ pc' \in [Proc -> Pc]
           /\ pc'[p] = l
           /\ \A q \in Proc : q # p => pc'[q] = pc[q]
  BY DEF TypeOK, Goto

LEMMA StepTypeOK == IInv /\ [Next]_vars => TypeOK'
  <1> SUFFICES ASSUME IInv, [Next]_vars PROVE TypeOK'
    OBVIOUS
  <1> USE LockConstants
  <1>0. TypeOK /\ NodeInv
    BY DEF IInv
  <1>1. CASE UNCHANGED vars
    BY <1>0, <1>1 DEF TypeOK, vars, node, locals
  <1>2. ASSUME NEW p \in Proc, Create(p) PROVE TypeOK'
    <2>1. Id(p) \in Ident /\ file[p] \in File
      BY <1>0, <1>2, IdentOfId DEF TypeOK, Create, At
    <2>2. CASE CreateNew(p)
      BY <1>0, <1>2, <2>1, <2>2 DEF TypeOK, Create, CreateNew, At, Goto, Pc, node, locals
    <2>3. CASE CreateExists(p)
      BY <1>0, <1>2, <2>3 DEF TypeOK, Create, CreateExists, At, Goto, Pc, node, locals
    <2> QED
      BY <1>2, <2>2, <2>3 DEF Create
  <1>3. ASSUME NEW p \in Proc, CreateRefused(p) PROVE TypeOK'
    BY <1>0, <1>3, ReturnTypeOK DEF CreateRefused, TypeOK, At, NodeStatus
  <1>4. ASSUME NEW p \in Proc, Unlink(p) PROVE TypeOK'
    <2>1. file[p] \in File
      BY <1>0, <1>4 DEF TypeOK, Unlink, At
    <2>2. CASE link[file[p]] # None
      <3>1. link' \in [File -> Ident \cup {None}] /\ pc' \in [Proc -> Pc]
        BY <1>0, <1>4, <2>1, <2>2 DEF TypeOK, Unlink, Goto, Pc
      <3>2. link[file[p]] \in Ident
        BY <1>0, <2>1, <2>2 DEF TypeOK
      <3>3. Live(link[file[p]]) \in BOOLEAN
        BY <1>0, <3>2 DEF TypeOK, Live, Ident
      <3>4. marred' \in [File -> BOOLEAN]
        BY <1>0, <1>4, <2>1, <2>2, <3>3 DEF TypeOK, Unlink
      <3>5. /\ UNCHANGED <<node, locals, alive, boot>>
            /\ \A q \in Proc : q # p => pc'[q] = pc[q]
            /\ pc'[p] = "recreate"
            /\ pc[p] = "unlink"
        BY <1>0, <1>4, <2>2 DEF TypeOK, Unlink, Goto, At
      <3> QED
        BY <1>0, <3>1, <3>4, <3>5, <2>1 DEF TypeOK, node, locals
    <2>3. CASE link[file[p]] = None
      BY <1>0, <1>4, <2>3, ReturnTypeOK DEF Unlink, TypeOK, At, NodeStatus
    <2> QED
      BY <2>2, <2>3
  <1>5. ASSUME NEW p \in Proc, Recreate(p) PROVE TypeOK'
    <2>1. Id(p) \in Ident /\ file[p] \in File
      BY <1>0, <1>5, IdentOfId DEF TypeOK, Recreate, At
    <2>2. CASE link[file[p]] = None
      <3>1. /\ Goto(p, "lstat") /\ link' = [link EXCEPT ![file[p]] = Id(p)]
            /\ UNCHANGED <<alive, boot, node, locals, marred>>
            /\ pc[p] = "recreate"
        BY <1>5, <2>2 DEF Recreate, At
      <3>2. link' \in [File -> Ident \cup {None}]
        BY <1>0, <2>1, <3>1 DEF TypeOK
      <3> QED
        BY <1>0, <2>1, <3>1, <3>2, GotoEffect DEF TypeOK, Pc, node, locals
    <2>3. CASE link[file[p]] # None
      BY <1>0, <1>5, <2>3, ReturnTypeOK DEF Recreate, TypeOK, At, NodeStatus
    <2> QED
      BY <2>2, <2>3
  <1>6. ASSUME NEW p \in Proc, Lstat(p) PROVE TypeOK'
    <2>1. CASE link[file[p]] # None
      BY <1>0, <1>6, <2>1 DEF TypeOK, Lstat, At, Goto, Pc, node, locals
    <2>2. CASE link[file[p]] = None
      BY <1>0, <1>6, <2>2, DieTypeOK, AbandonTypeOK DEF Lstat
    <2> QED
      BY <2>1, <2>2
  <1>7. ASSUME NEW p \in Proc, Readlink(p) PROVE TypeOK'
    <2>1. file[p] \in File /\ pc[p] = "readlink"
      BY <1>0, <1>7 DEF TypeOK, Readlink, At
    <2>2. CASE link[file[p]] # None
      <3>1. link[file[p]] \in Ident
        BY <1>0, <2>1, <2>2 DEF TypeOK
      <3>2. /\ Goto(p, "compare")
            /\ retries' = [retries EXCEPT ![p] = 0]
            /\ curr' = [curr EXCEPT ![p] = link[file[p]]]
            /\ UNCHANGED <<link, alive, boot, node, file, ask, force, marred>>
        BY <1>7, <2>2 DEF Readlink
      <3>3. /\ curr' \in [Proc -> Ident \cup {None}] /\ curr'[p] \in Ident
            /\ \A q \in Proc : q # p => curr'[q] = curr[q]
        BY <1>0, <3>1, <3>2 DEF TypeOK
      <3>4. retries' \in [Proc -> 0..MaxRetries]
        BY <1>0, <3>2 DEF TypeOK
      <3> QED
        BY <1>0, <2>1, <3>2, <3>3, <3>4, GotoEffect DEF TypeOK, Pc, node
    <2>3. CASE link[file[p]] = None
      <3>1. CASE retries[p] = MaxRetries
        <4>1. Return(p, "none") /\ UNCHANGED <<link, alive, boot, marred>>
          BY <1>7, <2>3, <3>1 DEF Readlink, ReadFailure
        <4>2. marred' \in [File -> BOOLEAN]
          BY <1>0, <4>1 DEF TypeOK
        <4> QED
          BY <1>0, <2>1, <4>1, <4>2, ReturnTypeOK DEF NodeStatus
      <3>2. CASE retries[p] # MaxRetries /\ force[p]
        <4>1. /\ Goto(p, "create")
              /\ retries' = [retries EXCEPT ![p] = retries[p] + 1]
              /\ UNCHANGED <<link, alive, boot, node, file, ask, force, curr, marred>>
          BY <1>7, <2>3, <3>2 DEF Readlink, ReadFailure
        <4>2. retries[p] \in 0..MaxRetries
          BY <1>0 DEF TypeOK
        <4>3. retries[p] + 1 \in 0..MaxRetries
          BY <4>2, <3>2
        <4>4. retries' \in [Proc -> 0..MaxRetries]
          BY <1>0, <4>1, <4>3 DEF TypeOK
        <4> QED
          BY <1>0, <2>1, <4>1, <4>4, GotoEffect DEF TypeOK, Pc, node
      <3>3. CASE retries[p] # MaxRetries /\ ~force[p]
        <4>1. /\ Return(p, "success") /\ UNCHANGED <<link, alive, boot>>
              /\ marred' = [marred EXCEPT ![file[p]] = TRUE]
          BY <1>7, <2>3, <3>3 DEF Readlink, ReadFailure
        <4>2. marred' \in [File -> BOOLEAN]
          BY <1>0, <4>1 DEF TypeOK
        <4> QED
          BY <1>0, <2>1, <4>1, <4>2, ReturnTypeOK DEF NodeStatus
      <3> QED
        BY <3>1, <3>2, <3>3
    <2> QED
      BY <2>2, <2>3
  <1>8. ASSUME NEW p \in Proc, Compare(p) PROVE TypeOK'
    <2>1. /\ pc[p] = "compare" /\ file[p] \in File /\ curr[p] \in Ident
          /\ UNCHANGED <<link, alive, boot, marred>>
      BY <1>0, <1>8 DEF TypeOK, Compare, At
    <2>2. marred' \in [File -> BOOLEAN]
      BY <1>0, <2>1 DEF TypeOK
    <2>3. CASE CompareSame(p)
      BY <1>0, <2>1, <2>2, <2>3, ReturnTypeOK DEF CompareSame, NodeStatus
    <2>4. CASE CompareDead(p)
      BY <1>0, <2>1, <2>4, TryForceTypeOK DEF CompareDead
    <2>5. CASE CompareOther(p) /\ ask[p]
      BY <1>0, <2>1, <2>5 DEF TypeOK, CompareOther, Goto, Pc, node, locals
    <2>6. CASE CompareOther(p) /\ ~ask[p]
      BY <1>0, <2>1, <2>2, <2>6, ReturnTypeOK DEF CompareOther, NodeStatus
    <2> QED
      BY <1>8, <2>3, <2>4, <2>5, <2>6 DEF Compare
  <1>9. ASSUME NEW p \in Proc, NEW f \in File, SetAgain(p, f) PROVE TypeOK'
    BY <1>0, <1>9 DEF TypeOK, SetAgain, locals
  <1>10. ASSUME NEW p \in Proc, NEW f \in File, SetNew(p, f) PROVE TypeOK'
    BY <1>0, <1>10 DEF TypeOK, SetNew, At, Goto, Pc, node
  <1>11. ASSUME NEW p \in Proc, NEW f \in File, Clear(p, f) PROVE TypeOK'
    <2>1. CASE refs[p][f] = 1
      BY <1>0, <1>11, <2>1, ReleaseTypeOK DEF Clear
    <2>2. CASE refs[p][f] # 1
      <3>1. refs[p][f] - 1 \in 0..MaxRefs
        BY <1>0, <1>11, <2>2 DEF TypeOK, NodeInv, NodeOK, Clear
      <3>2. refs' \in [Proc -> [File -> 0..MaxRefs]]
        <4>1. refs' = [refs EXCEPT ![p] = [refs[p] EXCEPT ![f] = refs[p][f] - 1]]
          BY <1>11, <2>2 DEF Clear
        <4>2. [refs[p] EXCEPT ![f] = refs[p][f] - 1] \in [File -> 0..MaxRefs]
          BY <1>0, <3>1 DEF TypeOK
        <4> QED
          BY <1>0, <4>1, <4>2 DEF TypeOK
      <3> QED
        BY <1>0, <1>11, <2>2, <3>2 DEF TypeOK, Clear, locals
    <2> QED
      BY <2>1, <2>2
  <1>12. ASSUME NEW p \in Proc, NEW f \in File, CloseStep(p, f) PROVE TypeOK'
    BY <1>0, <1>12, ReleaseTypeOK DEF CloseStep
  <1>13. ASSUME NEW p \in Proc, CloseBegin(p) PROVE TypeOK'
    BY <1>0, <1>13 DEF TypeOK, CloseBegin, Goto, Pc, node, locals
  <1>14. ASSUME NEW p \in Proc, CloseEnd(p) PROVE TypeOK'
    BY <1>0, <1>14 DEF TypeOK, CloseEnd, Goto, Pc, node, locals
  <1>15. ASSUME NEW p \in Proc, Answer(p) PROVE TypeOK'
    <2>1. pc[p] = "ask" /\ UNCHANGED <<link, alive, boot, marred>>
      BY <1>15 DEF Answer, At
    <2>2. marred' \in [File -> BOOLEAN]
      BY <1>0, <2>1 DEF TypeOK
    <2>3. Return(p, "notlocked") \/ Return(p, "none") \/ TryForce(p)
      BY <1>15 DEF Answer
    <2> QED
      BY <1>0, <2>1, <2>2, <2>3, ReturnTypeOK, TryForceTypeOK DEF NodeStatus
  <1>16. ASSUME NEW p \in Proc, Crash(p) PROVE TypeOK'
    BY <1>0, <1>16, DieTypeOK DEF Crash
  <1>17. ASSUME NEW p \in Proc, Restart(p) PROVE TypeOK'
    <2>1. boot[p] + 1 \in 0..MaxBoot
      BY <1>0, <1>17 DEF TypeOK, Restart
    <2> QED
      BY <1>0, <1>17, <2>1 DEF TypeOK, Restart, node, locals
  <1> QED
    BY <1>1, <1>2, <1>3, <1>4, <1>5, <1>6, <1>7, <1>8, <1>9, <1>10, <1>11,
       <1>12, <1>13, <1>14, <1>15, <1>16, <1>17
       DEF Next, Step, Environment

(***************************************************************************)
(* What a step of p does: to the other processes, to the links, to p.      *)
(***************************************************************************)

Untouched(q) ==
    /\ alive'[q] = alive[q] /\ boot'[q] = boot[q]
    /\ pc'[q] = pc[q] /\ file'[q] = file[q] /\ curr'[q] = curr[q]
    /\ status'[q] = status[q] /\ refs'[q] = refs[q]

LEMMA ReturnUntouched ==
    ASSUME TypeOK, NEW p \in Proc, NEW st, Return(p, st), UNCHANGED <<alive, boot>>
    PROVE  \A q \in Proc : q # p => Untouched(q)
  BY DEF Return, Goto, Forget, TypeOK, Untouched

LEMMA GotoUntouched ==
    ASSUME TypeOK, NEW p \in Proc, NEW l, Goto(p, l),
           UNCHANGED <<alive, boot, node, file, curr>>
    PROVE  \A q \in Proc : q # p => Untouched(q)
  BY DEF Goto, TypeOK, Untouched, node

LEMMA OthersUntouched ==
    ASSUME TypeOK, NEW p \in Proc, Step(p) \/ Environment(p)
    PROVE  \A q \in Proc : q # p => Untouched(q)
  <1> DEFINE Goal == \A q \in Proc : q # p => Untouched(q)
  <1>1. CASE Create(p)
    BY <1>1, GotoUntouched DEF Create, CreateNew, CreateExists, locals
  <1>2. CASE CreateRefused(p)
    BY <1>2, ReturnUntouched DEF CreateRefused
  <1>3. CASE Unlink(p)
    BY <1>3, ReturnUntouched, GotoUntouched DEF Unlink, locals
  <1>4. CASE Recreate(p)
    BY <1>4, ReturnUntouched, GotoUntouched DEF Recreate, locals
  <1>5. CASE Lstat(p)
    BY <1>5, DieEffect, AbandonEffect, GotoUntouched DEF Lstat, locals, node, Untouched
  <1>6. CASE Readlink(p)
    <2>1. CASE link[file[p]] # None
      BY <1>6, <2>1 DEF Readlink, Goto, TypeOK, Untouched, node
    <2>2. CASE link[file[p]] = None
      BY <1>6, <2>2, ReturnUntouched, GotoUntouched DEF Readlink, ReadFailure
    <2> QED
      BY <2>1, <2>2
  <1>7. CASE Compare(p)
    BY <1>7, ReturnUntouched, GotoUntouched
       DEF Compare, CompareSame, CompareDead, CompareOther, TryForce, locals
  <1>8. ASSUME NEW f \in File, SetAgain(p, f) PROVE Goal
    BY <1>8 DEF SetAgain, TypeOK, Untouched, locals
  <1>9. ASSUME NEW f \in File, SetNew(p, f) PROVE Goal
    BY <1>9 DEF SetNew, Goto, TypeOK, Untouched, node
  <1>10. ASSUME NEW f \in File, Clear(p, f) PROVE Goal
    BY <1>10, ReleaseEffect DEF Clear, TypeOK, Untouched, locals
  <1>11. ASSUME NEW f \in File, CloseStep(p, f) PROVE Goal
    BY <1>11, ReleaseEffect DEF CloseStep, Untouched, locals
  <1>12. CASE CloseBegin(p)
    BY <1>12, GotoUntouched DEF CloseBegin, locals
  <1>13. CASE CloseEnd(p)
    BY <1>13 DEF CloseEnd, Goto, TypeOK, Untouched, node, locals
  <1>14. CASE Answer(p)
    BY <1>14, ReturnUntouched, GotoUntouched DEF Answer, TryForce
  <1>15. CASE Crash(p)
    BY <1>15, DieEffect DEF Crash, Untouched
  <1>16. CASE Restart(p)
    BY <1>16 DEF Restart, TypeOK, Untouched, node, locals
  <1> QED
    BY <1>1, <1>2, <1>3, <1>4, <1>5, <1>6, <1>7, <1>8, <1>9, <1>10, <1>11,
       <1>12, <1>13, <1>14, <1>15, <1>16 DEF Step, Environment

(* The link of a file is taken when free, by create or recreate, or        *)
(* removed, by unlink or by the release of a node.                         *)
Taken(p, f) ==
    /\ link[f] = None /\ link'[f] = Id(p)
    /\ file[p] = f /\ pc'[p] = "lstat"
    /\ UNCHANGED <<alive, boot, node, file>>

Robbed(p, f) ==
    /\ link[f] # None /\ link'[f] = None
    /\ file[p] = f /\ pc[p] = "unlink"
    /\ Live(link[f]) => marred'[f]

Released(p, f) ==
    /\ link'[f] = None
    /\ Holds(p, f) /\ status'[p][f] = "none"
    /\ pc[p] \in {"idle", "closing"}

LEMMA LinkEffect ==
    ASSUME TypeOK, NEW p \in Proc, Step(p) \/ Environment(p), NEW f \in File
    PROVE  link'[f] = link[f] \/ Taken(p, f) \/ Robbed(p, f) \/ Released(p, f)
  <1> DEFINE Goal == link'[f] = link[f] \/ Taken(p, f) \/ Robbed(p, f) \/ Released(p, f)
  <1>1. CASE Create(p)
    BY <1>1 DEF Create, CreateNew, CreateExists, Goto, At, TypeOK, Taken, locals
  <1>2. CASE Unlink(p)
    BY <1>2 DEF Unlink, Goto, At, TypeOK, Robbed
  <1>3. CASE Recreate(p)
    BY <1>3 DEF Recreate, Goto, At, TypeOK, Taken, locals
  <1>4. ASSUME NEW g \in File, Clear(p, g) PROVE Goal
    BY <1>4, ReleaseEffect DEF Clear, At, Released
  <1>5. ASSUME NEW g \in File, CloseStep(p, g) PROVE Goal
    BY <1>5, ReleaseEffect DEF CloseStep, At, Released
  <1> QED
    BY <1>1, <1>2, <1>3, <1>4, <1>5
       DEF Step, Environment, CreateRefused, Lstat, Readlink, Compare, SetAgain,
           SetNew, CloseBegin, CloseEnd, Answer, Crash, Restart

(* A file once marred stays so.                                            *)
LEMMA MarredEffect ==
    ASSUME TypeOK, NEW p \in Proc, Step(p) \/ Environment(p), NEW f \in File, marred[f]
    PROVE  marred'[f]
  <1>1. CASE Unlink(p)
    BY <1>1 DEF Unlink, TypeOK
  <1>2. CASE Readlink(p)
    BY <1>2 DEF Readlink, ReadFailure, TypeOK
  <1> QED
    BY <1>1, <1>2
       DEF Step, Environment, Create, CreateRefused, Recreate, Lstat, Compare, SetAgain,
           SetNew, Clear, CloseStep, CloseBegin, CloseEnd, Answer, Crash, Restart

(* p lives on, or dies and leaves nothing but its links, or starts again.  *)
Lives(p) == alive[p] /\ alive'[p] /\ boot'[p] = boot[p]

Dies(p) ==
    /\ alive[p] /\ ~alive'[p] /\ boot'[p] = boot[p]
    /\ pc'[p] = "idle"
    /\ \A f \in File : status'[p][f] = "none"

LEMMA AliveEffect ==
    ASSUME TypeOK, NEW p \in Proc, Step(p) \/ Environment(p)
    PROVE  Lives(p) \/ Dies(p) \/ Restart(p)
  <1>1. CASE Lstat(p)
    BY <1>1, DieEffect, AbandonEffect DEF Lstat, At, Lives, Dies
  <1>2. CASE CloseEnd(p)
    BY <1>2 DEF CloseEnd, At, Goto, TypeOK, Dies, node
  <1>3. CASE Crash(p)
    BY <1>3, DieEffect DEF Crash, Dies
  <1> QED
    BY <1>1, <1>2, <1>3
       DEF Step, Environment, Create, CreateRefused, Unlink, Recreate, Readlink, Compare,
           SetAgain, SetNew, Clear, CloseStep, CloseBegin, Answer, At, Lives

(* A lock becomes held by what info_cmp has read, or by a failed read.     *)
HeldAfterRead(p, f) ==
    /\ file[p] = f /\ pc[p] = "compare" /\ curr[p] = Id(p)
    /\ UNCHANGED <<link, boot>>

HeldAfterFailure(p, f) == file[p] = f /\ marred'[f]

LEMMA HeldEffect ==
    ASSUME TypeOK, NEW p \in Proc, Step(p) \/ Environment(p), NEW f \in File,
           status'[p][f] \in {"success", "forced"}
    PROVE  Holds(p, f) \/ HeldAfterRead(p, f) \/ HeldAfterFailure(p, f)
  <1> DEFINE Goal == Holds(p, f) \/ HeldAfterRead(p, f) \/ HeldAfterFailure(p, f)
  <1>0. ASSUME NEW st \in NodeStatus, st \notin {"success", "forced"},
               file[p] \in File, Return(p, st)
        PROVE  Goal
    BY <1>0, ReturnEffect DEF Holds
  <1>1. CASE CreateRefused(p)
    BY <1>0, <1>1 DEF CreateRefused, At, TypeOK, NodeStatus
  <1>2. CASE Unlink(p)
    BY <1>0, <1>2 DEF Unlink, At, TypeOK, NodeStatus, Holds, node
  <1>3. CASE Recreate(p)
    BY <1>0, <1>3 DEF Recreate, At, TypeOK, NodeStatus, Holds, node
  <1>4. CASE Lstat(p)
    BY <1>4, DieEffect, AbandonEffect DEF Lstat, Holds, node
  <1>5. CASE Readlink(p)
    <2>1. file[p] \in File
      BY <1>5 DEF Readlink, At, TypeOK
    <2>2. CASE UNCHANGED node
      BY <2>2 DEF Holds, node
    <2>3. CASE Return(p, "none")
      BY <1>0, <2>1, <2>3 DEF NodeStatus
    <2>4. CASE Return(p, "success") /\ marred' = [marred EXCEPT ![file[p]] = TRUE]
      BY <2>1, <2>4, ReturnEffect DEF Holds, HeldAfterFailure, NodeStatus, TypeOK
    <2> QED
      BY <1>5, <2>2, <2>3, <2>4 DEF Readlink, ReadFailure
  <1>6. CASE Compare(p)
    <2>1. file[p] \in File /\ pc[p] = "compare" /\ UNCHANGED <<link, boot>>
      BY <1>6 DEF Compare, At, TypeOK
    <2>2. CASE CompareSame(p)
      BY <2>1, <2>2, ReturnEffect
         DEF CompareSame, Holds, HeldAfterRead, NodeStatus
    <2>3. CASE UNCHANGED node
      BY <2>3 DEF Holds, node
    <2>4. CASE Return(p, "none")
      BY <1>0, <2>1, <2>4 DEF NodeStatus
    <2> QED
      BY <1>6, <2>2, <2>3, <2>4 DEF Compare, CompareDead, CompareOther, TryForce
  <1>7. ASSUME NEW g \in File, Clear(p, g) PROVE Goal
    BY <1>7, ReleaseEffect DEF Clear, Holds, TypeOK
  <1>8. ASSUME NEW g \in File, CloseStep(p, g) PROVE Goal
    BY <1>8, ReleaseEffect DEF CloseStep, Holds
  <1>9. CASE Answer(p)
    <2>1. file[p] \in File
      BY <1>9 DEF Answer, At, TypeOK
    <2> QED
      BY <1>0, <1>9, <2>1 DEF Answer, TryForce, NodeStatus, Holds, node
  <1>10. CASE Crash(p)
    BY <1>10, DieEffect DEF Crash
  <1> QED
    BY <1>1, <1>2, <1>3, <1>4, <1>5, <1>6, <1>7, <1>8, <1>9, <1>10
       DEF Step, Environment, Create, SetAgain, SetNew, CloseBegin, CloseEnd, Restart,
           Holds, node

-----------------------------------------------------------------------------
(* The conjuncts of the invariant, one by one.                             *)

LEMMA StepDeadInv ==
    ASSUME IInv, NEW p \in Proc, Step(p) \/ Environment(p)
    PROVE  DeadInv'
  <1> SUFFICES ASSUME NEW q \in Proc, ~alive'[q]
               PROVE  pc'[q] = "idle" /\ \A f \in File : status'[q][f] = "none"
    BY DEF DeadInv
  <1>0. TypeOK /\ DeadInv
    BY DEF IInv
  <1>1. CASE q # p
    BY <1>0, <1>1, OthersUntouched DEF DeadInv, Untouched
  <1>2. CASE q = p
    BY <1>0, <1>2, AliveEffect DEF TypeOK, Lives, Dies, Restart
  <1> QED
    BY <1>1, <1>2

LEMMA StepLinkInv ==
    ASSUME IInv, NEW p \in Proc, Step(p) \/ Environment(p)
    PROVE  LinkInv'
  <1> SUFFICES ASSUME NEW f \in File, link'[f] # None
               PROVE  link'[f].boot <= boot'[link'[f].pid]
    BY DEF LinkInv
  <1>0. TypeOK /\ LinkInv
    BY DEF IInv
  <1>1. \A q \in Proc : boot[q] \in Nat /\ boot'[q] \in Nat /\ boot[q] <= boot'[q]
    <2>1. \A q \in Proc : q # p => boot'[q] = boot[q]
      BY <1>0, OthersUntouched DEF Untouched
    <2>2. boot'[p] = boot[p] \/ boot'[p] = boot[p] + 1
      BY <1>0, AliveEffect DEF Lives, Dies, Restart, TypeOK
    <2>3. \A q \in Proc : boot[q] \in Nat
      BY <1>0, LockConstants DEF TypeOK
    <2> QED
      BY <2>1, <2>2, <2>3
  <1>2. CASE link'[f] = link[f]
    <2>1. link[f] \in Ident /\ link[f].boot <= boot[link[f].pid]
      BY <1>0, <1>2 DEF TypeOK, LinkInv
    <2>2. link[f].pid \in Proc /\ link[f].boot \in Nat
      BY <2>1, LockConstants DEF Ident
    <2> QED
      BY <1>1, <1>2, <2>1, <2>2
  <1>3. CASE Taken(p, f)
    BY <1>0, <1>1, <1>3, IdentOfId DEF Taken
  <1> QED
    BY <1>0, <1>2, <1>3, LinkEffect DEF Robbed, Released

(* A held, unmarred link is only removed by its holder.                    *)
LEMMA HeldLinkStays ==
    ASSUME IInv, NEW p \in Proc, Step(p) \/ Environment(p),
           NEW q \in Proc, q # p, NEW f \in File,
           alive[q], link[f] = Id(q), ~marred'[f]
    PROVE  link'[f] = Id(q) /\ Id(q)' = Id(q)
  <1>0. TypeOK /\ Exclusion
    BY DEF IInv
  <1>1. Id(q)' = Id(q)
    BY <1>0, OthersUntouched DEF Untouched, Id
  <1>2. ~Taken(p, f)
    BY <1>0, IdentOfId DEF Taken
  <1>3. ~Robbed(p, f)
    BY <1>0, IdentOfId DEF Robbed, Live
  <1>4. ~Released(p, f)
    BY <1>0, IdsDiffer, MarredEffect DEF Released, Exclusion
  <1> QED
    BY <1>0, <1>1, <1>2, <1>3, <1>4, LinkEffect

LEMMA StepExclusion ==
    ASSUME IInv, NEW p \in Proc, Step(p) \/ Environment(p)
    PROVE  Exclusion'
  <1> SUFFICES ASSUME NEW f \in File, ~marred'[f],
                      NEW q \in Proc, status'[q][f] \in {"success", "forced"}
               PROVE  link'[f] = Id(q)'
    BY DEF Exclusion, Holds
  <1>0. TypeOK /\ DeadInv /\ ReadInv /\ Exclusion
    BY DEF IInv
  <1>1. ~marred[f]
    BY <1>0, MarredEffect
  <1>2. CASE q # p
    <2>1. Holds(q, f)
      BY <1>0, <1>2, OthersUntouched DEF Untouched, Holds
    <2>2. alive[q] /\ link[f] = Id(q)
      BY <1>0, <1>1, <2>1 DEF DeadInv, Holds, Exclusion
    <2> QED
      BY <1>2, <2>2, HeldLinkStays
  <1>3. CASE q = p /\ Holds(p, f)
    <2>1. alive[p] /\ link[f] = Id(p)
      BY <1>0, <1>1, <1>3 DEF DeadInv, Holds, Exclusion
    <2>2. Id(p)' = Id(p)
      BY <1>0, <2>1, AliveEffect DEF Lives, Dies, Restart, Id
    <2>3. ~Taken(p, f) /\ ~Released(p, f)
      BY <1>0, <1>3, <2>1, IdentOfId DEF Taken, Released
    <2>4. ~Robbed(p, f)
      BY <1>0, <2>1, IdentOfId DEF Robbed, Live
    <2> QED
      BY <1>0, <1>3, <2>1, <2>2, <2>3, <2>4, LinkEffect
  <1>4. CASE q = p /\ HeldAfterRead(p, f)
    BY <1>0, <1>1, <1>4 DEF HeldAfterRead, ReadInv, Id
  <1> QED
    BY <1>0, <1>2, <1>3, <1>4, HeldEffect DEF HeldAfterFailure

(* Only a successful readlink leads to info_cmp.                           *)
LEMMA CompareEffect ==
    ASSUME TypeOK, NEW p \in Proc, Step(p) \/ Environment(p), pc'[p] = "compare"
    PROVE  \/ /\ pc[p] = "readlink" /\ file'[p] = file[p]
              /\ curr'[p] = link[file[p]]
              /\ UNCHANGED <<link, boot, marred>>
           \/ Restart(p)
  <1> DEFINE Goal ==
           \/ /\ pc[p] = "readlink" /\ file'[p] = file[p]
              /\ curr'[p] = link[file[p]]
              /\ UNCHANGED <<link, boot, marred>>
           \/ Restart(p)
  <1>0. \A st : ~Return(p, st)
    BY DEF Return, Goto, TypeOK
  <1>1. ~Die(p) /\ ~Abandon(p)
    BY DEF Die, Abandon, Goto, TypeOK
  <1>2. \A l : Goto(p, l) => l = "compare"
    BY DEF Goto, TypeOK
  <1>3. \A l : At(p, l) /\ UNCHANGED pc => l = "compare"
    BY DEF At
  <1>4. CASE Readlink(p)
    <2>1. CASE link[file[p]] # None
      BY <1>4, <2>1 DEF Readlink, At, TypeOK
    <2>2. CASE link[file[p]] = None
      BY <1>0, <1>2, <1>4, <2>2 DEF Readlink, ReadFailure
    <2> QED
      BY <2>1, <2>2
  <1>5. CASE Create(p) \/ CreateRefused(p) \/ Unlink(p) \/ Recreate(p) \/ Lstat(p)
    BY <1>0, <1>1, <1>2, <1>5
       DEF Create, CreateNew, CreateExists, CreateRefused, Unlink, Recreate, Lstat
  <1>6. CASE Compare(p) \/ Answer(p) \/ Crash(p)
    BY <1>0, <1>1, <1>2, <1>6
       DEF Compare, CompareSame, CompareDead, CompareOther, TryForce, Answer, Crash
  <1>7. ASSUME NEW f \in File,
               SetAgain(p, f) \/ SetNew(p, f) \/ Clear(p, f) \/ CloseStep(p, f)
        PROVE  Goal
    BY <1>2, <1>3, <1>7 DEF SetAgain, SetNew, Clear, CloseStep
  <1>8. CASE CloseBegin(p) \/ CloseEnd(p)
    BY <1>2, <1>8 DEF CloseBegin, CloseEnd
  <1> QED
    BY <1>4, <1>5, <1>6, <1>7, <1>8 DEF Step, Environment

LEMMA StepReadInv ==
    ASSUME IInv, NEW p \in Proc, Step(p) \/ Environment(p)
    PROVE  ReadInv'
  <1> SUFFICES ASSUME NEW q \in Proc, pc'[q] = "compare", curr'[q] = Id(q)',
                      ~marred'[file'[q]]
               PROVE  link'[file'[q]] = Id(q)'
    BY DEF ReadInv
  <1>0. TypeOK /\ DeadInv /\ ReadInv
    BY DEF IInv
  <1>1. CASE q # p
    <2>1. pc[q] = "compare" /\ file'[q] = file[q] /\ curr[q] = Id(q)
      BY <1>0, <1>1, OthersUntouched DEF Untouched, Id
    <2>2. alive[q] /\ file[q] \in File
      BY <1>0, <2>1 DEF DeadInv, TypeOK
    <2>3. ~marred[file[q]]
      BY <1>0, <2>1, <2>2, MarredEffect
    <2> QED
      BY <1>0, <1>1, <2>1, <2>2, <2>3, HeldLinkStays DEF ReadInv
  <1>2. CASE q = p
    <2>1. ~Restart(p)
      BY <1>0, <1>2 DEF Restart, DeadInv
    <2> QED
      BY <1>0, <1>2, <2>1, CompareEffect DEF Id
  <1> QED
    BY <1>1, <1>2

(* The nodes of p, as its calls proceed.                                   *)
LEMMA ReturnNodeOK ==
    ASSUME IInv, NEW p \in Proc, NEW st \in NodeStatus, file[p] \in File, Return(p, st)
    PROVE  NodeOK(p)'
  <1>1. TypeOK /\ NodeOK(p)
    BY DEF IInv, NodeInv
  <1>2. ~InCall(p)'
    BY <1>1, ReturnEffect DEF InCall
  <1>3. ASSUME NEW f \in File, status'[p][f] # "none" PROVE refs'[p][f] >= 1
    <2>1. CASE f = file[p]
      <3>1. status'[p][f] = st /\ refs'[p][f] = IF st = "none" THEN 0 ELSE 1
        BY <1>1, <2>1, ReturnEffect
      <3> QED
        BY <1>3, <3>1
    <2>2. CASE f # file[p]
      <3>1. status'[p][f] = status[p][f] /\ refs'[p][f] = refs[p][f]
        BY <1>1, <2>2, ReturnEffect
      <3> QED
        BY <1>1, <1>3, <3>1 DEF NodeOK
    <2> QED
      BY <2>1, <2>2
  <1> QED
    BY <1>2, <1>3 DEF NodeOK

LEMMA DieNodeOK ==
    ASSUME IInv, NEW p \in Proc, Die(p)
    PROVE  NodeOK(p)'
  <1>1. pc'[p] = "idle" /\ \A f \in File : status'[p][f] = "none"
    BY DieEffect DEF IInv
  <1> QED
    BY <1>1 DEF NodeOK, InCall

LEMMA AbandonNodeOK ==
    ASSUME IInv, NEW p \in Proc, Abandon(p)
    PROVE  NodeOK(p)'
  <1>1. pc'[p] = "closing" /\ UNCHANGED node
    BY AbandonEffect DEF IInv
  <1> QED
    BY <1>1 DEF NodeOK, InCall, IInv, NodeInv, node

LEMMA GotoNodeOK ==
    ASSUME IInv, NEW p \in Proc, NEW l, InCall(p), Goto(p, l), UNCHANGED <<node, file>>
    PROVE  NodeOK(p)'
  BY DEF IInv, NodeInv, NodeOK, node

LEMMA ReleaseNodeOK ==
    ASSUME IInv, NEW p \in Proc, NEW f \in File, Release(p, f), UNCHANGED pc, ~InCall(p)
    PROVE  NodeOK(p)'
  <1>1. TypeOK /\ NodeOK(p)
    BY DEF IInv, NodeInv
  <1>2. /\ status'[p][f] = "none"
        /\ \A g \in File : g # f => /\ status'[p][g] = status[p][g]
                                    /\ refs'[p][g] = refs[p][g]
    BY <1>1, ReleaseEffect
  <1> QED
    BY <1>1, <1>2 DEF NodeOK, InCall

LEMMA StepNodeInv ==
    ASSUME IInv, NEW p \in Proc, Step(p) \/ Environment(p)
    PROVE  NodeInv'
  <1>0. TypeOK /\ NodeInv /\ NodeOK(p)
    BY DEF IInv, NodeInv
  <1> SUFFICES NodeOK(p)'
    BY <1>0, OthersUntouched DEF NodeInv, NodeOK, Untouched, InCall
  <1>1. CASE Step(p) \/ Answer(p)
    <2>1. InCall(p)
      BY <1>1 DEF Step, Create, CreateRefused, Unlink, Recreate, Lstat, Readlink,
                  Compare, Answer, At, InCall
    <2>2. file[p] \in File
      BY <1>0, <2>1 DEF InCall, TypeOK
    <2>3. CASE Create(p) \/ CreateRefused(p)
      BY <2>1, <2>2, <2>3, ReturnNodeOK, GotoNodeOK
         DEF Create, CreateNew, CreateExists, CreateRefused, NodeStatus, locals,
             NodeOK, InCall
    <2>4. CASE Unlink(p) \/ Recreate(p)
      BY <2>1, <2>2, <2>4, ReturnNodeOK, GotoNodeOK DEF Unlink, Recreate, NodeStatus, locals,
                                                      NodeOK, InCall
    <2>5. CASE Lstat(p)
      BY <2>1, <2>5, DieNodeOK, AbandonNodeOK, GotoNodeOK DEF Lstat, locals, NodeOK, InCall
    <2>6. CASE Readlink(p)
      BY <2>1, <2>2, <2>6, ReturnNodeOK, GotoNodeOK
         DEF Readlink, ReadFailure, NodeStatus, NodeOK, InCall
    <2>7. CASE Compare(p)
      BY <2>1, <2>2, <2>7, ReturnNodeOK, GotoNodeOK
         DEF Compare, CompareSame, CompareDead, CompareOther, TryForce, NodeStatus, locals,
             NodeOK, InCall
    <2>8. CASE Answer(p)
      BY <2>1, <2>2, <2>8, ReturnNodeOK, GotoNodeOK
         DEF Answer, TryForce, NodeStatus, NodeOK, InCall
    <2> QED
      BY <1>1, <2>3, <2>4, <2>5, <2>6, <2>7, <2>8 DEF Step
  <1>2. ASSUME NEW f \in File, SetAgain(p, f) PROVE NodeOK(p)'
    <2>1. /\ refs'[p][f] = refs[p][f] + 1 /\ refs[p][f] \in Nat
          /\ \A g \in File : g # f => refs'[p][g] = refs[p][g]
          /\ UNCHANGED <<status, pc, file>>
      BY <1>0, <1>2, LockConstants DEF SetAgain, TypeOK, locals
    <2> QED
      BY <1>0, <2>1 DEF NodeOK, InCall
  <1>3. ASSUME NEW f \in File, SetNew(p, f) PROVE NodeOK(p)'
    <2>1. status[p][f] = "none" /\ file'[p] = f /\ UNCHANGED node
      BY <1>0, <1>3 DEF SetNew, TypeOK
    <2> QED
      BY <1>0, <2>1 DEF NodeOK, node
  <1>4. ASSUME NEW f \in File, Clear(p, f) PROVE NodeOK(p)'
    <2>1. CASE refs[p][f] = 1
      BY <1>4, <2>1, ReleaseNodeOK DEF Clear, At, InCall, NodeOK
    <2>2. CASE refs[p][f] # 1
      <3>1. refs[p][f] >= 1 /\ refs[p][f] \in Nat
        BY <1>0, <1>4, LockConstants DEF Clear, TypeOK, NodeOK
      <3>2. /\ refs'[p][f] = refs[p][f] - 1
            /\ \A g \in File : g # f => refs'[p][g] = refs[p][g]
            /\ UNCHANGED <<status, pc, file>>
        BY <1>0, <1>4, <2>2 DEF Clear, TypeOK, locals
      <3> QED
        BY <1>0, <2>2, <3>1, <3>2 DEF NodeOK, InCall
    <2> QED
      BY <2>1, <2>2
  <1>5. ASSUME NEW f \in File, CloseStep(p, f) PROVE NodeOK(p)'
    BY <1>5, ReleaseNodeOK DEF CloseStep, At, InCall, NodeOK
  <1>6. CASE CloseBegin(p) \/ CloseEnd(p)
    <2>1. pc'[p] \in {"idle", "closing"} /\ UNCHANGED node
      BY <1>0, <1>6 DEF CloseBegin, CloseEnd, Goto, TypeOK
    <2> QED
      BY <1>0, <2>1 DEF NodeOK, InCall, node
  <1>7. CASE Crash(p)
    BY <1>7, DieNodeOK DEF Crash, NodeOK, InCall
  <1>8. CASE Restart(p)
    BY <1>0, <1>8 DEF Restart, NodeOK, InCall, node, locals
  <1> QED
    BY <1>1, <1>2, <1>3, <1>4, <1>5, <1>6, <1>7, <1>8 DEF Environment, NodeOK, InCall

(* The claim of p on the link of f, as its calls proceed.                  *)
LEMMA ClaimKept ==
    ASSUME IInv, NEW p \in Proc, Step(p) \/ Environment(p), alive[p], alive'[p],
           NEW f \in File, link[f] = Id(p), link'[f] = Id(p)
    PROVE  (Holds(p, f) \/ Acquiring(p, f))'
  <1> DEFINE Goal == (Holds(p, f) \/ Acquiring(p, f))'
  <1>0. TypeOK /\ NodeOK(p) /\ Id(p) # None
    BY IdentOfId DEF IInv, NodeInv
  <1>1. Holds(p, f) \/ Acquiring(p, f)
    BY DEF IInv, OwnerInv
  <1>2. ASSUME UNCHANGED <<node, file, curr, boot>>,
               pc'[p] = pc[p] \/ pc[p] \notin {"lstat", "readlink", "compare"}
        PROVE  Goal
    BY <1>1, <1>2 DEF Holds, Acquiring, Id, node
  <1>3. ASSUME NEW st \in NodeStatus, file[p] \in File, Return(p, st), Holds(p, f), InCall(p)
        PROVE  Goal
    <2>1. status[p][file[p]] = "none" /\ status[p][f] # "none"
      BY <1>0, <1>3 DEF NodeOK, Holds
    <2>2. f # file[p]
      BY <2>1
    <2>3. status'[p][f] = status[p][f]
      BY <1>0, <1>3, <2>2, ReturnEffect
    <2> QED
      BY <1>3, <2>3 DEF Holds
  <1>4. CASE Create(p)
    BY <1>0, <1>2, <1>4 DEF Create, CreateNew, CreateExists, At, locals
  <1>5. CASE CreateRefused(p) \/ Unlink(p) \/ Recreate(p)
    <2>1. /\ InCall(p) /\ file[p] \in File
          /\ pc[p] \notin {"lstat", "readlink", "compare"}
      BY <1>0, <1>5 DEF CreateRefused, Unlink, Recreate, At, InCall, TypeOK
    <2>2. Holds(p, f)
      BY <1>1, <2>1 DEF Acquiring
    <2> QED
      BY <1>2, <1>3, <1>5, <2>1, <2>2 DEF CreateRefused, Unlink, Recreate, NodeStatus, locals
  <1>6. CASE Lstat(p)
    <2>1. CASE link[file[p]] # None
      <3>1. pc'[p] = "readlink" /\ UNCHANGED <<node, file, curr, boot>>
        BY <1>0, <1>6, <2>1 DEF Lstat, Goto, TypeOK, locals
      <3> QED
        BY <1>1, <3>1 DEF Holds, Acquiring, Id, node
    <2>2. CASE link[file[p]] = None
      <3>1. Abandon(p)
        BY <1>0, <1>6, <2>2, DieEffect DEF Lstat
      <3>2. UNCHANGED node /\ file[p] # f
        BY <1>0, <2>2, <3>1 DEF Abandon
      <3> QED
        BY <1>1, <3>2 DEF Holds, Acquiring, node
    <2> QED
      BY <2>1, <2>2
  <1>7. CASE Readlink(p)
    <2>1. InCall(p) /\ file[p] \in File
      BY <1>0, <1>7 DEF Readlink, At, InCall, TypeOK
    <2>2. CASE link[file[p]] # None
      <3>1. /\ pc'[p] = "compare" /\ curr'[p] = link[file[p]]
            /\ UNCHANGED <<node, file, boot>>
        BY <1>0, <1>7, <2>2 DEF Readlink, Goto, TypeOK
      <3> QED
        BY <1>1, <3>1 DEF Holds, Acquiring, Id, node
    <2>3. CASE link[file[p]] = None
      <3>1. Holds(p, f)
        BY <1>0, <1>1, <2>3 DEF Acquiring
      <3>2. CASE UNCHANGED node
        BY <3>1, <3>2 DEF Holds, node
      <3> QED
        BY <1>3, <1>7, <2>1, <2>3, <3>1, <3>2 DEF Readlink, ReadFailure, NodeStatus
    <2> QED
      BY <2>2, <2>3
  <1>8. CASE Compare(p)
    <2>1. InCall(p) /\ file[p] \in File /\ pc[p] = "compare"
      BY <1>0, <1>8 DEF Compare, At, InCall, TypeOK
    <2>2. CASE CompareSame(p)
      <3>1. CASE file[p] = f
        BY <1>0, <2>1, <2>2, <3>1, ReturnEffect DEF CompareSame, Holds, NodeStatus
      <3>2. CASE file[p] # f
        BY <1>1, <1>3, <2>1, <2>2, <3>2 DEF CompareSame, NodeStatus, Acquiring
      <3> QED
        BY <3>1, <3>2
    <2>3. CASE CompareDead(p) \/ CompareOther(p)
      <3>1. Holds(p, f)
        BY <1>1, <2>1, <2>3 DEF CompareDead, CompareOther, Acquiring
      <3>2. CASE UNCHANGED node
        BY <3>1, <3>2 DEF Holds, node
      <3> QED
        BY <1>3, <2>1, <2>3, <3>1, <3>2 DEF CompareDead, CompareOther, TryForce, NodeStatus
    <2> QED
      BY <1>8, <2>2, <2>3 DEF Compare
  <1>9. ASSUME NEW g \in File, SetAgain(p, g) \/ SetNew(p, g) PROVE Goal
    <2>1. Holds(p, f)
      BY <1>1, <1>9 DEF SetAgain, SetNew, At, Acquiring
    <2>2. UNCHANGED status
      BY <1>9 DEF SetAgain, SetNew, node
    <2> QED
      BY <2>1, <2>2 DEF Holds
  <1>10. ASSUME NEW g \in File, Clear(p, g) \/ CloseStep(p, g) PROVE Goal
    <2>1. Holds(p, f)
      BY <1>1, <1>10 DEF Clear, CloseStep, At, Acquiring
    <2>2. CASE UNCHANGED status
      BY <2>1, <2>2 DEF Holds
    <2>3. CASE Release(p, g)
      BY <1>0, <2>1, <2>3, ReleaseEffect DEF Holds
    <2> QED
      BY <1>10, <2>2, <2>3 DEF Clear, CloseStep
  <1>11. CASE CloseBegin(p)
    BY <1>2, <1>11 DEF CloseBegin, At, locals
  <1>12. CASE Answer(p)
    <2>1. InCall(p) /\ file[p] \in File
      BY <1>0, <1>12 DEF Answer, At, InCall, TypeOK
    <2>2. Holds(p, f)
      BY <1>1, <1>12 DEF Answer, At, Acquiring
    <2>3. CASE UNCHANGED node
      BY <2>2, <2>3 DEF Holds, node
    <2> QED
      BY <1>3, <1>12, <2>1, <2>2, <2>3 DEF Answer, TryForce, NodeStatus
  <1>13. ~CloseEnd(p) /\ ~Crash(p) /\ ~Restart(p)
    BY <1>0, DieEffect DEF CloseEnd, Crash, Restart, TypeOK
  <1> QED
    BY <1>4, <1>5, <1>6, <1>7, <1>8, <1>9, <1>10, <1>11, <1>12, <1>13
       DEF Step, Environment

LEMMA StepOwnerInv ==
    ASSUME IInv, NEW p \in Proc, Step(p) \/ Environment(p)
    PROVE  OwnerInv'
  <1> SUFFICES ASSUME NEW q \in Proc, NEW f \in File, alive'[q], link'[f] = Id(q)'
               PROVE  (Holds(q, f) \/ Acquiring(q, f))'
    BY DEF OwnerInv
  <1>0. TypeOK /\ TypeOK' /\ LinkInv /\ OwnerInv /\ DeadInv
    BY StepTypeOK DEF IInv, Next
  <1>1. Id(q)' # None /\ Id(q)'.pid = q /\ Id(q)'.boot = boot'[q]
    BY <1>0, NoneApart DEF Id, Ident, TypeOK
  <1>2. ~Robbed(p, f) /\ ~Released(p, f)
    BY <1>1 DEF Robbed, Released
  <1>3. CASE q # p
    <2>1. Id(q)' = Id(q) /\ alive[q]
      BY <1>0, <1>3, OthersUntouched DEF Untouched, Id
    <2>2. ~Taken(p, f)
      BY <1>0, <1>3, <2>1, IdsDiffer DEF Taken
    <2>3. link[f] = Id(q)
      BY <1>0, <1>2, <2>1, <2>2, LinkEffect
    <2>4. Holds(q, f) \/ Acquiring(q, f)
      BY <1>0, <2>1, <2>3 DEF OwnerInv
    <2> QED
      BY <1>0, <1>3, <2>1, <2>4, OthersUntouched DEF Untouched, Holds, Acquiring, Id
  <1>4. CASE q = p /\ Taken(p, f)
    BY <1>4 DEF Taken, Acquiring
  <1>5. CASE q = p /\ link'[f] = link[f]
    <2>1. ~Restart(p)
      BY <1>0, <1>1, <1>5 DEF Restart, LinkInv, TypeOK
    <2>2. alive[p] /\ Id(p)' = Id(p)
      BY <1>0, <1>5, <2>1, AliveEffect DEF Lives, Dies, Id
    <2>3. link[f] = Id(p) /\ link'[f] = Id(p) /\ alive'[p]
      BY <1>5, <2>2
    <2>4. (Holds(p, f) \/ Acquiring(p, f))'
      BY <2>2, <2>3, ClaimKept DEF Holds, Acquiring, Id
    <2> QED
      BY <1>5, <2>4 DEF Holds, Acquiring, Id
  <1> QED
    BY <1>0, <1>2, <1>3, <1>4, <1>5, LinkEffect

-----------------------------------------------------------------------------
LEMMA StepIInv == IInv /\ [Next]_vars => IInv'
  <1> SUFFICES ASSUME IInv, [Next]_vars PROVE IInv'
    OBVIOUS
  <1>1. CASE UNCHANGED vars
    BY <1>1 DEF vars, node, locals, IInv, TypeOK, DeadInv, NodeInv, NodeOK, InCall, LinkInv,
                ReadInv, OwnerInv, Acquiring, Exclusion, Holds, Id
  <1>2. ASSUME NEW p \in Proc, Step(p) \/ Environment(p) PROVE IInv'
    BY <1>2, StepTypeOK, StepDeadInv, StepNodeInv, StepLinkInv, StepReadInv, StepOwnerInv,
       StepExclusion DEF IInv
  <1> QED
    BY <1>1, <1>2 DEF Next

LEMMA Invariance == Spec => []IInv
  BY InitIInv, StepIInv, PTL DEF Spec

(* Every variable of the lock protocol keeps its type: in particular the   *)
(* reference count of a node never falls below zero and an attempt is never*)
(* compared with an owner nobody has read.                                 *)
THEOREM TypeCorrect == Spec => []TypeOK
  <1>1. IInv => TypeOK
    BY DEF IInv
  <1> QED
    BY <1>1, Invariance, PTL

(* Exclusion for any number of processes, hosts and files: as long as no   *)
(* live owner was robbed and no failed read was taken for success, whoever *)
(* believes it holds the lock is named by the link, so it is alone.        *)
THEOREM ExclusionHolds == Spec => []Exclusion
  <1>1. IInv => Exclusion
    BY DEF IInv
  <1> QED
    BY <1>1, Invariance, PTL

(* NoOrphan in general: lock_try gives up without leaving a link of its    *)
(* own, whatever the interleaving.                                         *)
THEOREM NoOrphanHolds == Spec => []NoOrphan
  <1>1. IInv => NoOrphan
    BY DEF IInv, OwnerInv, NoOrphan, Acquiring
  <1> QED
    BY <1>1, Invariance, PTL

-----------------------------------------------------------------------------
(* SharedLockKept, one step of it: a process between calls keeps a lock it *)
(* has two references on.                                                  *)
Shared(p, f) == Holds(p, f) /\ refs[p][f] > 1 /\ pc[p] = "idle"

LEMMA OwnStepKeeps ==
    ASSUME TypeOK, NEW p \in Proc, Step(p) \/ Environment(p), alive[p], alive'[p],
           NEW f \in File, Shared(p, f)
    PROVE  status'[p][f] = status[p][f]
  <1> DEFINE Goal == status'[p][f] = status[p][f]
  <1>0. pc[p] = "idle" /\ refs[p][f] # 1
    BY DEF Shared, TypeOK
  <1>1. ~Step(p) /\ ~Answer(p)
    BY <1>0 DEF Step, Create, CreateRefused, Unlink, Recreate, Lstat, Readlink, Compare,
                Answer, At
  <1>2. ASSUME NEW g \in File, Clear(p, g) PROVE Goal
    <2>1. CASE refs[p][g] = 1
      <3>1. f # g
        BY <1>0, <2>1
      <3>2. Release(p, g)
        BY <1>2, <2>1 DEF Clear
      <3> QED
        BY <3>1, <3>2, ReleaseEffect
    <2>2. CASE refs[p][g] # 1
      BY <1>2, <2>2 DEF Clear
    <2> QED
      BY <2>1, <2>2
  <1>3. ASSUME NEW g \in File, SetAgain(p, g) \/ SetNew(p, g) PROVE Goal
    BY <1>3 DEF SetAgain, SetNew, node
  <1>4. ASSUME NEW g \in File, CloseStep(p, g) PROVE FALSE
    BY <1>0, <1>4 DEF CloseStep, At
  <1>5. CASE CloseBegin(p) \/ CloseEnd(p) \/ Restart(p)
    BY <1>5 DEF CloseBegin, CloseEnd, Restart, node
  <1>6. CASE Crash(p)
    <2>1. ~alive'[p]
      BY <1>6, DieEffect DEF Crash
    <2> QED
      BY <2>1
  <1> QED
    BY <1>1, <1>2, <1>3, <1>4, <1>5, <1>6 DEF Environment

LEMMA StepShared ==
    ASSUME IInv, [Next]_vars, NEW p \in Proc, NEW f \in File,
           Holds(p, f), refs[p][f] > 1, pc[p] = "idle", alive[p], alive'[p]
    PROVE  Holds(p, f)'
  <1>0. TypeOK
    BY DEF IInv
  <1>1. status'[p][f] = status[p][f]
    <2>1. CASE UNCHANGED vars
      BY <2>1 DEF vars, node
    <2>2. CASE Step(p) \/ Environment(p)
      BY <1>0, <2>2, OwnStepKeeps DEF Shared
    <2>3. ASSUME NEW q \in Proc, q # p, Step(q) \/ Environment(q)
          PROVE  status'[p][f] = status[p][f]
      BY <1>0, <2>3, OthersUntouched DEF Untouched
    <2> QED
      BY <2>1, <2>2, <2>3 DEF Next
  <1> QED
    BY <1>1 DEF Holds

(* SharedLockKept in general: while a process has several references on a  *)
(* lock, no call of its own or of another process takes its node away      *)
(* (flock_clear, node_release).                                            *)
THEOREM SharedLockHolds == Spec => SharedLockKept
  <1>1. IInv /\ [Next]_vars =>
          [\A p \in Proc, f \in File :
              /\ Holds(p, f) /\ refs[p][f] > 1 /\ pc[p] = "idle"
              /\ alive[p] /\ alive'[p]
              => Holds(p, f)']_vars
    BY StepShared
  <1> QED
    BY <1>1, Invariance, PTL DEF Spec, SharedLockKept
=============================================================================
