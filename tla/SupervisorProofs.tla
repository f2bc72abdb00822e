-------------------------- MODULE SupervisorProofs --------------------------
(***************************************************************************)
(* Proofs about the supervisor's process table, for any number of entries  *)
(* and any number of crashes, requests, timeouts and failed spawns, and,   *)
(* on top of the table invariant, about its policies: which deaths count   *)
(* as crashes, who may restart what during a shutdown, and that the whole  *)
(* implements ChildLifecycle.                                              *)
(***************************************************************************)
EXTENDS Supervisor, TLAPS

\* The entries of processes[] are numbered 1..N.
LEMMA RolesFacts ==
  1 \in Roles /\ \A r \in Roles : r \in Nat /\ (r < N => r + 1 \in Roles)
BY NAssumption DEF Roles

\* The names of the threads and of the program points used below.
LEMMA PCFacts ==
  /\ "main" \in Threads /\ "reaper" \in Threads /\ "control" \in Threads
  /\ "reap" \in PCs /\ "buried" \in PCs /\ "read" \in PCs /\ "grace" \in PCs
  /\ "wait" \in PCs /\ "clear" \in PCs /\ "spawn" \in PCs /\ "store" \in PCs
  /\ "unlock" \in PCs /\ "run" \in PCs /\ "lock" \in PCs /\ "next" \in PCs
  /\ "flag" \in PCs /\ "frozen" \in PCs /\ "sleep" \in PCs
  /\ "receive" \in PCs /\ "done" \in PCs /\ "aborted" \in PCs
BY DEF PCs, Locked, Threads

\* Every state of the supervisor is well typed.
THEOREM TypeCorrect == Spec => []TypeOK
<1>1. Init => TypeOK
  <2> SUFFICES ASSUME Init PROVE TypeOK
    OBVIOUS
  <2>1. TypeTable
    BY DEF Init, TypeTable, NoPid
  <2>2. TypeLocal
    <3>1. pc \in [Threads -> PCs] /\ op \in [Threads -> Ops]
      BY DEF Init, PCs, Ops
    <3> QED BY <3>1, RolesFacts DEF Init, TypeLocal, NoPid
  <2>3. TypeKernel
    BY DEF Init, TypeKernel
  <2>4. TypeEnv
    <3>1. inbox \in Seq(Message)
      BY DEF Init
    <3>2. shutting_down \in BOOLEAN /\ fdirQuiet \in BOOLEAN /\ sigterm \in BOOLEAN
      BY DEF Init
    <3>3. requests \in Nat /\ quiets \in Nat /\ spawnFailures \in Nat
      BY DEF Init
    <3> QED BY <3>1, <3>2, <3>3 DEF TypeEnv
  <2> QED BY <2>1, <2>2, <2>3, <2>4 DEF TypeOK
<1>2. TypeOK /\ [Next]_vars => TypeOK'
  <2> SUFFICES ASSUME TypeOK, [Next]_vars PROVE TypeOK'
    OBVIOUS
  <2>a. TypeTable /\ TypeLocal /\ TypeKernel /\ TypeEnv
    BY DEF TypeOK
  <2>1. ASSUME NEW t \in Threads, ThreadStep(t) PROVE TypeOK'
    <3>1. CASE Lock(t)
      <4>1. TypeTable'
        BY <2>a, <3>1
           DEF Lock, table, TypeTable, TypeLocal
      <4>2. TypeLocal'
        BY <2>a, <3>1, PCFacts
           DEF Lock, Goto, TypeLocal
      <4>3. TypeKernel' /\ TypeEnv'
        BY <2>a, <3>1
           DEF Lock, table, local, kernel, env, TypeKernel, TypeEnv
      <4> QED BY <4>1, <4>2, <4>3 DEF TypeOK
    <3>2. CASE ReadPid(t)
      <4>1. TypeLocal'
        BY <2>a, <3>2, PCFacts
           DEF ReadPid, Goto, TypeTable, TypeLocal
      <4>2. TypeTable' /\ TypeKernel' /\ TypeEnv'
        BY <2>a, <3>2
           DEF ReadPid, table, local, kernel, env, TypeTable, TypeKernel, TypeEnv
      <4> QED BY <4>1, <4>2 DEF TypeOK
    <3>3. CASE GraceExit(t)
      <4>1. TypeLocal'
        BY <2>a, <3>3, PCFacts
           DEF GraceExit, Goto, TypeLocal
      <4>2. TypeKernel'
        BY <2>a, <3>3
           DEF GraceExit, Waited, TypeLocal, TypeKernel
      <4>3. TypeTable' /\ TypeEnv'
        BY <2>a, <3>3
           DEF GraceExit, table, local, kernel, env, TypeTable, TypeEnv
      <4> QED BY <4>1, <4>2, <4>3 DEF TypeOK
    <3>4. CASE GraceExpires(t)
      <4>1. TypeLocal'
        BY <2>a, <3>4, PCFacts
           DEF GraceExpires, Goto, TypeLocal
      <4>2. TypeTable' /\ TypeKernel' /\ TypeEnv'
        BY <2>a, <3>4
           DEF GraceExpires, table, local, kernel, env, TypeTable, TypeKernel, TypeEnv
      <4> QED BY <4>1, <4>2 DEF TypeOK
    <3>5. CASE KillWaited(t)
      <4>1. TypeLocal'
        BY <2>a, <3>5, PCFacts
           DEF KillWaited, Goto, TypeLocal
      <4>2. TypeKernel'
        BY <2>a, <3>5
           DEF KillWaited, Waited, TypeLocal, TypeKernel
      <4>3. TypeTable' /\ TypeEnv'
        BY <2>a, <3>5
           DEF KillWaited, table, local, kernel, env, TypeTable, TypeEnv
      <4> QED BY <4>1, <4>2, <4>3 DEF TypeOK
    <3>6. CASE ClearPid(t)
      <4>1. TypeTable'
        BY <2>a, <3>6
           DEF ClearPid, NoPid, TypeLocal, TypeTable
      <4>2. TypeLocal'
        BY <2>a, <3>6, PCFacts
           DEF ClearPid, Goto, TypeLocal
      <4>3. TypeKernel' /\ TypeEnv'
        BY <2>a, <3>6
           DEF ClearPid, table, local, kernel, env, TypeKernel, TypeEnv
      <4> QED BY <4>1, <4>2, <4>3 DEF TypeOK
    <3>7. CASE Spawn(t)
      <4>1. TypeLocal'
        BY <2>a, <3>7, PCFacts
           DEF Spawn, Goto, Forked, TypeKernel, TypeLocal
      <4>2. TypeKernel'
        BY <2>a, <3>7
           DEF Spawn, Forked, kernel, TypeLocal, TypeKernel
      <4>3. TypeEnv'
        BY <2>a, <3>7
           DEF Spawn, SpawnFails, TypeEnv
      <4>4. TypeTable'
        BY <2>a, <3>7
           DEF Spawn, table, local, kernel, env, TypeTable
      <4> QED BY <4>1, <4>2, <4>3, <4>4 DEF TypeOK
    <3>8. CASE StorePid(t)
      <4>1. TypeTable'
        BY <2>a, <3>8
           DEF StorePid, TypeLocal, TypeTable
      <4>2. TypeLocal'
        BY <2>a, <3>8, PCFacts
           DEF StorePid, Goto, TypeLocal
      <4>3. TypeEnv'
        BY <2>a, <3>8
           DEF StorePid, MarkAlive, env, TypeEnv
      <4>4. TypeKernel'
        BY <2>a, <3>8
           DEF StorePid, table, local, kernel, env, TypeKernel
      <4> QED BY <4>1, <4>2, <4>3, <4>4 DEF TypeOK
    <3>9. CASE Unlock(t)
      <4>1. TypeTable'
        BY <2>a, <3>9
           DEF Unlock, table, TypeTable, TypeLocal
      <4>2. TypeLocal'
        BY <2>a, <3>9, PCFacts
           DEF Unlock, Goto, AfterUnlock, TypeLocal
      <4>3. TypeKernel' /\ TypeEnv'
        BY <2>a, <3>9
           DEF Unlock, table, local, kernel, env, TypeKernel, TypeEnv
      <4> QED BY <4>1, <4>2, <4>3 DEF TypeOK
    <3> QED BY <2>1, <3>1, <3>2, <3>3, <3>4, <3>5, <3>6, <3>7, <3>8, <3>9
            DEF ThreadStep
  <2>2. CASE MainStep
    <3>1. CASE BootSpawn
      <4>1. TypeTable'
        BY <2>a, <3>1, PCFacts
           DEF BootSpawn, TypeKernel, TypeLocal, TypeTable
      <4>2. TypeLocal'
        BY <2>a, <3>1, PCFacts, RolesFacts
           DEF BootSpawn, Goto, TypeLocal
      <4>3. TypeKernel'
        BY <2>a, <3>1, PCFacts
           DEF BootSpawn, Forked, TypeLocal, TypeKernel
      <4>4. TypeEnv'
        BY <2>a, <3>1
           DEF BootSpawn, MarkAlive, env, TypeEnv
      <4> QED BY <4>1, <4>2, <4>3, <4>4 DEF TypeOK
    <3>2. CASE BootFails
      <4>1. TypeLocal'
        BY <2>a, <3>2, PCFacts
           DEF BootFails, Goto, TypeLocal
      <4>2. TypeEnv'
        BY <2>a, <3>2
           DEF BootFails, SpawnFails, TypeEnv
      <4>3. TypeTable' /\ TypeKernel'
        BY <2>a, <3>2
           DEF BootFails, table, local, kernel, env, TypeTable, TypeKernel
      <4> QED BY <4>1, <4>2, <4>3 DEF TypeOK
    <3>3. CASE ShutdownAll
      <4>1. TypeLocal'
        BY <2>a, <3>3, PCFacts, RolesFacts
           DEF ShutdownAll, Goto, TypeLocal
      <4>2. TypeEnv'
        BY <2>a, <3>3
           DEF ShutdownAll, env, TypeEnv
      <4>3. TypeTable' /\ TypeKernel'
        BY <2>a, <3>3
           DEF ShutdownAll, table, local, kernel, env, TypeTable, TypeKernel
      <4> QED BY <4>1, <4>2, <4>3 DEF TypeOK
    <3>4. CASE ShutdownNext
      <4>1. TypeLocal'
        BY <2>a, <3>4, PCFacts, RolesFacts
           DEF ShutdownNext, Goto, TypeLocal
      <4>2. TypeTable' /\ TypeKernel' /\ TypeEnv'
        BY <2>a, <3>4
           DEF ShutdownNext, table, local, kernel, env, TypeTable, TypeKernel, TypeEnv
      <4> QED BY <4>1, <4>2 DEF TypeOK
    <3> QED BY <2>2, <3>1, <3>2, <3>3, <3>4 DEF MainStep
  <2>3. CASE ReaperStep
    <3>1. CASE Reap
      <4>1. TypeLocal'
        BY <2>a, <3>1, PCFacts
           DEF Reap, Goto, TypeLocal
      <4>2. TypeKernel'
        BY <2>a, <3>1, PCFacts
           DEF Reap, TypeLocal, TypeKernel
      <4>3. TypeTable' /\ TypeEnv'
        BY <2>a, <3>1
           DEF Reap, table, local, kernel, env, TypeTable, TypeEnv
      <4> QED BY <4>1, <4>2, <4>3 DEF TypeOK
    <3>2. CASE Bury
      <4>1. TypeTable'
        BY <2>a, <3>2, PCFacts
           DEF Bury, NoPid, TypeLocal, TypeTable
      <4>2. TypeLocal'
        BY <2>a, <3>2, PCFacts
           DEF Bury, Goto, TypeLocal
      <4>3. TypeKernel' /\ TypeEnv'
        BY <2>a, <3>2
           DEF Bury, table, local, kernel, env, TypeKernel, TypeEnv
      <4> QED BY <4>1, <4>2, <4>3 DEF TypeOK
    <3>3. CASE ReapNext
      <4>1. TypeLocal'
        BY <2>a, <3>3, PCFacts, RolesFacts
           DEF ReapNext, Goto, TypeLocal
      <4>2. TypeTable' /\ TypeKernel' /\ TypeEnv'
        BY <2>a, <3>3
           DEF ReapNext, table, local, kernel, env, TypeTable, TypeKernel, TypeEnv
      <4> QED BY <4>1, <4>2 DEF TypeOK
    <3>4. CASE CheckFlag
      <4>1. TypeLocal'
        BY <2>a, <3>4, PCFacts
           DEF CheckFlag, Goto, TypeLocal
      <4>2. TypeTable' /\ TypeKernel' /\ TypeEnv'
        BY <2>a, <3>4
           DEF CheckFlag, table, local, kernel, env, TypeTable, TypeKernel, TypeEnv
      <4> QED BY <4>1, <4>2 DEF TypeOK
    <3>5. CASE CheckFrozen
      <4>1. TypeLocal'
        BY <2>a, <3>5, PCFacts, RolesFacts
           DEF CheckFrozen, Goto, Fdir, Ops, TypeLocal
      <4>2. TypeTable' /\ TypeKernel' /\ TypeEnv'
        BY <2>a, <3>5
           DEF CheckFrozen, table, local, kernel, env, TypeTable, TypeKernel, TypeEnv
      <4> QED BY <4>1, <4>2 DEF TypeOK
    <3>6. CASE ReaperWakes
      <4>1. TypeLocal'
        BY <2>a, <3>6, PCFacts, RolesFacts
           DEF ReaperWakes, Goto, Ops, TypeLocal
      <4>2. TypeTable' /\ TypeKernel' /\ TypeEnv'
        BY <2>a, <3>6
           DEF ReaperWakes, table, local, kernel, env, TypeTable, TypeKernel, TypeEnv
      <4> QED BY <4>1, <4>2 DEF TypeOK
    <3> QED BY <2>3, <3>1, <3>2, <3>3, <3>4, <3>5, <3>6 DEF ReaperStep
  <2>4. CASE Receive
    <3>1. Head(inbox) \in Message /\ Tail(inbox) \in Seq(Message)
      BY <2>a, <2>4 DEF Receive, TypeEnv
    <3>2. TypeLocal'
      <4>1. pc' \in [Threads -> PCs]
        BY <2>a, <2>4, PCFacts DEF Receive, Goto, TypeLocal
      <4>2. op' \in [Threads -> Ops]
        BY <2>a, <2>4, <3>1 DEF Receive, Message, Ops, TypeLocal
      <4>3. tgt' \in [Threads -> Roles]
        BY <2>a, <2>4, <3>1 DEF Receive, Message, TypeLocal
      <4> QED BY <2>a, <2>4, <4>1, <4>2, <4>3 DEF Receive, TypeLocal
    <3>3. TypeEnv'
      BY <2>a, <2>4, <3>1 DEF Receive, MarkAlive, TypeEnv
    <3>4. TypeTable' /\ TypeKernel'
      BY <2>a, <2>4 DEF Receive, table, kernel, TypeTable, TypeKernel
    <3> QED BY <3>2, <3>3, <3>4 DEF TypeOK
  <2>5. ASSUME NEW r \in Roles, NEW p \in alive[r], ChildCrashes(r, p)
        PROVE TypeOK'
    <3>1. TypeKernel'
      BY <2>a, <2>5
         DEF ChildCrashes, TypeKernel
    <3>2. TypeTable' /\ TypeLocal' /\ TypeEnv'
      BY <2>a, <2>5
         DEF ChildCrashes, table, local, kernel, env, TypeTable, TypeLocal, TypeEnv
    <3> QED BY <3>1, <3>2 DEF TypeOK
  <2>6. ASSUME NEW t \in Threads, ChildStops(t) PROVE TypeOK'
    <3>1. TypeKernel'
      BY <2>a, <2>6
         DEF ChildStops, TypeLocal, TypeKernel
    <3>2. TypeTable' /\ TypeLocal' /\ TypeEnv'
      BY <2>a, <2>6
         DEF ChildStops, table, local, kernel, env, TypeTable, TypeLocal, TypeEnv
    <3> QED BY <3>1, <3>2 DEF TypeOK
  <2>7. ASSUME NEW m \in Message, Send(m) PROVE TypeOK'
    <3>1. TypeEnv'
      BY <2>a, <2>7
         DEF Send, TypeEnv
    <3>2. TypeTable' /\ TypeLocal' /\ TypeKernel'
      BY <2>a, <2>7
         DEF Send, table, local, kernel, env, TypeTable, TypeLocal, TypeKernel
    <3> QED BY <3>1, <3>2 DEF TypeOK
  <2>8. CASE FdirGoesQuiet
    <3>1. TypeEnv'
      BY <2>a, <2>8
         DEF FdirGoesQuiet, TypeEnv
    <3>2. TypeTable' /\ TypeLocal' /\ TypeKernel'
      BY <2>a, <2>8
         DEF FdirGoesQuiet, table, local, kernel, env, TypeTable, TypeLocal, TypeKernel
    <3> QED BY <3>1, <3>2 DEF TypeOK
  <2>9. CASE Sigterm
    <3>1. TypeEnv'
      BY <2>a, <2>9
         DEF Sigterm, TypeEnv
    <3>2. TypeTable' /\ TypeLocal' /\ TypeKernel'
      BY <2>a, <2>9
         DEF Sigterm, table, local, kernel, env, TypeTable, TypeLocal, TypeKernel
    <3> QED BY <3>1, <3>2 DEF TypeOK
  <2>10. CASE UNCHANGED vars
    BY <2>a, <2>10 DEF vars, TypeOK, TypeTable, TypeLocal, TypeKernel, TypeEnv
  <2> QED
    BY <2>1, <2>2, <2>3, <2>4, <2>5, <2>6, <2>7, <2>8, <2>9, <2>10
       DEF Next, Halted
<1> QED BY <1>1, <1>2, PTL DEF Spec

-----------------------------------------------------------------------------
(***************************************************************************)
(* TableInv is inductive.  One lemma per action; in each, LockInv says     *)
(* that no other thread is inside a locked section of the same entry, so   *)
(* only the step's own thread is affected by what it does to the entry.    *)
(***************************************************************************)
\* A lock is held by a thread and Free is none of them.
LEMMA FreeIsNoThread == Free \notin Threads
BY DEF Free, Threads

\* Taking a free lock: the entry and its child agree, and the thread knows it.
LEMMA LockPreserves ==
  ASSUME TypeOK, TableInv, NEW t \in Threads, Lock(t)
  PROVE  TableInv'
<1>a. TypeTable /\ TypeLocal /\ TypeKernel
  BY DEF TypeOK
<1>b. LockInv /\ BootInv /\ ChildInv /\ HolderInv
  BY DEF TableInv
<1>c. pc["main"] # "boot" /\ pc'["main"] # "boot"
  BY <1>a, <1>b, PCFacts DEF Lock, BootInv, TypeLocal, Threads, Goto, table,
      kernel
<1>1. LockInv'
  BY <1>a, <1>b, PCFacts, FreeIsNoThread
     DEF Lock, LockInv, Locked, TypeTable, TypeLocal, Goto, table, kernel
<1>2. BootInv'
  BY <1>c DEF BootInv
<1>3. ChildInv'
  BY <1>a, <1>b, PCFacts, FreeIsNoThread
     DEF Lock, LockInv, ChildInv, HolderInv, Children, Entry, Locked, NoPid,
         TypeTable, TypeLocal, TypeKernel, Goto, table, kernel
<1>4. HolderInv'
  BY <1>a, <1>b, PCFacts, FreeIsNoThread
     DEF Lock, LockInv, ChildInv, HolderInv, Children, Entry, Locked, NoPid,
         TypeTable, TypeLocal, TypeKernel, Goto, table, kernel
<1> QED BY <1>1, <1>2, <1>3, <1>4 DEF TableInv

\* The pid a thread reads under the lock is the child, or there is none.
LEMMA ReadPidPreserves ==
  ASSUME TypeOK, TableInv, NEW t \in Threads, ReadPid(t)
  PROVE  TableInv'
<1>a. TypeTable /\ TypeLocal /\ TypeKernel
  BY DEF TypeOK
<1>b. LockInv /\ BootInv /\ ChildInv /\ HolderInv
  BY DEF TableInv
<1>c. pc["main"] # "boot" /\ pc'["main"] # "boot"
  BY <1>a, <1>b, PCFacts DEF ReadPid, BootInv, TypeLocal, Threads, Goto,
      Respawns, table, kernel
<1>1. LockInv'
  BY <1>a, <1>b, PCFacts, FreeIsNoThread
     DEF ReadPid, LockInv, Locked, TypeTable, TypeLocal, Goto, Respawns,
         table, kernel
<1>2. BootInv'
  BY <1>c DEF BootInv
<1>3. ChildInv'
  BY <1>a, <1>b, PCFacts, FreeIsNoThread
     DEF ReadPid, LockInv, ChildInv, HolderInv, Children, Entry, Locked,
         NoPid, TypeTable, TypeLocal, TypeKernel, Goto, Respawns, table,
         kernel
<1>4. HolderInv'
  BY <1>a, <1>b, PCFacts, FreeIsNoThread
     DEF ReadPid, LockInv, ChildInv, HolderInv, Children, Entry, Locked,
         NoPid, TypeTable, TypeLocal, TypeKernel, Goto, Respawns, table,
         kernel
<1> QED BY <1>1, <1>2, <1>3, <1>4 DEF TableInv

\* A child that was waited for leaves the entry childless.
LEMMA GraceExitPreserves ==
  ASSUME TypeOK, TableInv, NEW t \in Threads, GraceExit(t)
  PROVE  TableInv'
<1>a. TypeTable /\ TypeLocal /\ TypeKernel
  BY DEF TypeOK
<1>b. LockInv /\ BootInv /\ ChildInv /\ HolderInv
  BY DEF TableInv
<1>c. pc["main"] # "boot" /\ pc'["main"] # "boot"
  BY <1>a, <1>b, PCFacts DEF GraceExit, BootInv, TypeLocal, Threads, Goto,
      Waited, table
<1>1. LockInv'
  BY <1>a, <1>b, PCFacts, FreeIsNoThread
     DEF GraceExit, LockInv, Locked, TypeTable, TypeLocal, Goto, Waited, table
<1>2. BootInv'
  BY <1>c DEF BootInv
<1>3. ChildInv'
  BY <1>a, <1>b, PCFacts, FreeIsNoThread
     DEF GraceExit, LockInv, ChildInv, HolderInv, Children, Entry, Locked,
         NoPid, TypeTable, TypeLocal, TypeKernel, Goto, Waited, table
<1>4. HolderInv'
  BY <1>a, <1>b, PCFacts, FreeIsNoThread
     DEF GraceExit, LockInv, ChildInv, HolderInv, Children, Entry, Locked,
         NoPid, TypeTable, TypeLocal, TypeKernel, Goto, Waited, table
<1> QED BY <1>1, <1>2, <1>3, <1>4 DEF TableInv

\* Escalating to SIGKILL changes neither table nor children.
LEMMA GraceExpiresPreserves ==
  ASSUME TypeOK, TableInv, NEW t \in Threads, GraceExpires(t)
  PROVE  TableInv'
<1>a. TypeTable /\ TypeLocal /\ TypeKernel
  BY DEF TypeOK
<1>b. LockInv /\ BootInv /\ ChildInv /\ HolderInv
  BY DEF TableInv
<1>c. pc["main"] # "boot" /\ pc'["main"] # "boot"
  BY <1>a, <1>b, PCFacts DEF GraceExpires, BootInv, TypeLocal, Threads, Goto,
      table, kernel
<1>1. LockInv'
  BY <1>a, <1>b, PCFacts, FreeIsNoThread
     DEF GraceExpires, LockInv, Locked, TypeTable, TypeLocal, Goto, table,
         kernel
<1>2. BootInv'
  BY <1>c DEF BootInv
<1>3. ChildInv'
  BY <1>a, <1>b, PCFacts, FreeIsNoThread
     DEF GraceExpires, LockInv, ChildInv, HolderInv, Children, Entry, Locked,
         NoPid, TypeTable, TypeLocal, TypeKernel, Goto, table, kernel
<1>4. HolderInv'
  BY <1>a, <1>b, PCFacts, FreeIsNoThread
     DEF GraceExpires, LockInv, ChildInv, HolderInv, Children, Entry, Locked,
         NoPid, TypeTable, TypeLocal, TypeKernel, Goto, table, kernel
<1> QED BY <1>1, <1>2, <1>3, <1>4 DEF TableInv

\* The same for the wait after SIGKILL.
LEMMA KillWaitedPreserves ==
  ASSUME TypeOK, TableInv, NEW t \in Threads, KillWaited(t)
  PROVE  TableInv'
<1>a. TypeTable /\ TypeLocal /\ TypeKernel
  BY DEF TypeOK
<1>b. LockInv /\ BootInv /\ ChildInv /\ HolderInv
  BY DEF TableInv
<1>c. pc["main"] # "boot" /\ pc'["main"] # "boot"
  BY <1>a, <1>b, PCFacts DEF KillWaited, BootInv, TypeLocal, Threads, Goto,
      Waited, table
<1>1. LockInv'
  BY <1>a, <1>b, PCFacts, FreeIsNoThread
     DEF KillWaited, LockInv, Locked, TypeTable, TypeLocal, Goto, Waited,
         table
<1>2. BootInv'
  BY <1>c DEF BootInv
<1>3. ChildInv'
  BY <1>a, <1>b, PCFacts, FreeIsNoThread
     DEF KillWaited, LockInv, ChildInv, HolderInv, Children, Entry, Locked,
         NoPid, TypeTable, TypeLocal, TypeKernel, Goto, Waited, table
<1>4. HolderInv'
  BY <1>a, <1>b, PCFacts, FreeIsNoThread
     DEF KillWaited, LockInv, ChildInv, HolderInv, Children, Entry, Locked,
         NoPid, TypeTable, TypeLocal, TypeKernel, Goto, Waited, table
<1> QED BY <1>1, <1>2, <1>3, <1>4 DEF TableInv

\* Clearing the pid of a childless entry makes the entry agree again.
LEMMA ClearPidPreserves ==
  ASSUME TypeOK, TableInv, NEW t \in Threads, ClearPid(t)
  PROVE  TableInv'
<1>a. TypeTable /\ TypeLocal /\ TypeKernel
  BY DEF TypeOK
<1>b. LockInv /\ BootInv /\ ChildInv /\ HolderInv
  BY DEF TableInv
<1>c. pc["main"] # "boot" /\ pc'["main"] # "boot"
  BY <1>a, <1>b, PCFacts DEF ClearPid, BootInv, TypeLocal, Threads, Goto,
      Respawns, kernel
<1>1. LockInv'
  BY <1>a, <1>b, PCFacts, FreeIsNoThread
     DEF ClearPid, LockInv, Locked, TypeTable, TypeLocal, Goto, Respawns,
         kernel
<1>2. BootInv'
  BY <1>c DEF BootInv
<1>3. ChildInv'
  BY <1>a, <1>b, PCFacts, FreeIsNoThread
     DEF ClearPid, LockInv, ChildInv, HolderInv, Children, Entry, Locked,
         NoPid, TypeTable, TypeLocal, TypeKernel, Goto, Respawns, kernel
<1>4. HolderInv'
  BY <1>a, <1>b, PCFacts, FreeIsNoThread
     DEF ClearPid, LockInv, ChildInv, HolderInv, Children, Entry, Locked,
         NoPid, TypeTable, TypeLocal, TypeKernel, Goto, Respawns, kernel
<1> QED BY <1>1, <1>2, <1>3, <1>4 DEF TableInv

\* posix_spawn happens only when the entry has no child.
LEMMA SpawnPreserves ==
  ASSUME TypeOK, TableInv, NEW t \in Threads, Spawn(t)
  PROVE  TableInv'
<1>a. TypeTable /\ TypeLocal /\ TypeKernel
  BY DEF TypeOK
<1>b. LockInv /\ BootInv /\ ChildInv /\ HolderInv
  BY DEF TableInv
<1>c. pc["main"] # "boot" /\ pc'["main"] # "boot"
  BY <1>a, <1>b, PCFacts DEF Spawn, BootInv, TypeLocal, Threads, Goto, Forked,
      SpawnFails, table, kernel
<1>1. LockInv'
  BY <1>a, <1>b, PCFacts, FreeIsNoThread
     DEF Spawn, LockInv, Locked, TypeTable, TypeLocal, Goto, Forked,
         SpawnFails, table, kernel
<1>2. BootInv'
  BY <1>c DEF BootInv
<1>3. ChildInv'
  BY <1>a, <1>b, PCFacts, FreeIsNoThread
     DEF Spawn, LockInv, ChildInv, HolderInv, Children, Entry, Locked, NoPid,
         TypeTable, TypeLocal, TypeKernel, Goto, Forked, SpawnFails, table,
         kernel
<1>4. HolderInv'
  BY <1>a, <1>b, PCFacts, FreeIsNoThread
     DEF Spawn, LockInv, ChildInv, HolderInv, Children, Entry, Locked, NoPid,
         TypeTable, TypeLocal, TypeKernel, Goto, Forked, SpawnFails, table,
         kernel
<1> QED BY <1>1, <1>2, <1>3, <1>4 DEF TableInv

\* Publishing the pid makes the entry agree with the new child.
LEMMA StorePidPreserves ==
  ASSUME TypeOK, TableInv, NEW t \in Threads, StorePid(t)
  PROVE  TableInv'
<1>a. TypeTable /\ TypeLocal /\ TypeKernel
  BY DEF TypeOK
<1>b. LockInv /\ BootInv /\ ChildInv /\ HolderInv
  BY DEF TableInv
<1>c. pc["main"] # "boot" /\ pc'["main"] # "boot"
  BY <1>a, <1>b, PCFacts DEF StorePid, BootInv, TypeLocal, Threads, Goto,
      kernel
<1>1. LockInv'
  BY <1>a, <1>b, PCFacts, FreeIsNoThread
     DEF StorePid, LockInv, Locked, TypeTable, TypeLocal, Goto, kernel
<1>2. BootInv'
  BY <1>c DEF BootInv
<1>3. ChildInv'
  BY <1>a, <1>b, PCFacts, FreeIsNoThread
     DEF StorePid, LockInv, ChildInv, HolderInv, Children, Entry, Locked,
         NoPid, TypeTable, TypeLocal, TypeKernel, Goto, kernel
<1>4. HolderInv'
  BY <1>a, <1>b, PCFacts, FreeIsNoThread
     DEF StorePid, LockInv, ChildInv, HolderInv, Children, Entry, Locked,
         NoPid, TypeTable, TypeLocal, TypeKernel, Goto, kernel
<1> QED BY <1>1, <1>2, <1>3, <1>4 DEF TableInv

\* The lock is released only when entry and child agree.
LEMMA UnlockPreserves ==
  ASSUME TypeOK, TableInv, NEW t \in Threads, Unlock(t)
  PROVE  TableInv'
<1>a. TypeTable /\ TypeLocal /\ TypeKernel
  BY DEF TypeOK
<1>b. LockInv /\ BootInv /\ ChildInv /\ HolderInv
  BY DEF TableInv
<1>c. pc["main"] # "boot" /\ pc'["main"] # "boot"
  BY <1>a, <1>b, PCFacts DEF Unlock, BootInv, TypeLocal, Threads, Goto,
      AfterUnlock, table, kernel
<1>1. LockInv'
  BY <1>a, <1>b, PCFacts, FreeIsNoThread
     DEF Unlock, LockInv, Locked, TypeTable, TypeLocal, Goto, AfterUnlock,
         table, kernel
<1>2. BootInv'
  BY <1>c DEF BootInv
<1>3. ChildInv'
  BY <1>a, <1>b, PCFacts, FreeIsNoThread
     DEF Unlock, LockInv, ChildInv, HolderInv, Children, Entry, Locked, NoPid,
         TypeTable, TypeLocal, TypeKernel, Goto, AfterUnlock, table, kernel
<1>4. HolderInv'
  BY <1>a, <1>b, PCFacts, FreeIsNoThread
     DEF Unlock, LockInv, ChildInv, HolderInv, Children, Entry, Locked, NoPid,
         TypeTable, TypeLocal, TypeKernel, Goto, AfterUnlock, table, kernel
<1> QED BY <1>1, <1>2, <1>3, <1>4 DEF TableInv

\* Boot starts entries that have no child yet, before other threads exist.
LEMMA BootSpawnPreserves ==
  ASSUME TypeOK, TableInv, BootSpawn
  PROVE  TableInv'
<1>a. TypeTable /\ TypeLocal /\ TypeKernel
  BY DEF TypeOK
<1>b. LockInv /\ BootInv /\ ChildInv /\ HolderInv
  BY DEF TableInv
<1>c. /\ pc["main"] = "boot" /\ pc["reaper"] = "off" /\ pc["control"] = "off"
      /\ tgt["main"] \in Roles
  BY <1>a, <1>b, PCFacts DEF BootSpawn, BootInv, TypeLocal
<1>d. \A t \in Threads : pc[t] \notin Locked /\ pc'[t] \notin Locked
  <2>1. \/ UNCHANGED pc
        \/ pc' = [pc EXCEPT !["main"] = "run", !["reaper"] = "lock",
                            !["control"] = "receive"]
    BY DEF BootSpawn
  <2>2. pc'["main"] \in {"boot", "run"} /\ pc'["reaper"] \in {"off", "lock"}
        /\ pc'["control"] \in {"off", "receive"}
    BY <1>a, <1>c, <2>1 DEF TypeLocal, Threads
  <2> QED BY <1>c, <2>2 DEF Threads, Locked
<1>e. \A r \in Roles : lifecycle_lock[r] = Free /\ lifecycle_lock'[r] = Free
  BY <1>a, <1>b, <1>d DEF BootSpawn, LockInv, TypeTable
<1>f. Children(tgt["main"]) = {} /\ spawned[tgt["main"]] + 1 > 0
  BY <1>a, <1>b, <1>c, RolesFacts DEF BootInv, TypeKernel
<1>1. LockInv'
  BY <1>d, <1>e, FreeIsNoThread DEF LockInv
<1>2. BootInv'
  <2>1. CASE pc' = [pc EXCEPT !["main"] = "run", !["reaper"] = "lock",
                              !["control"] = "receive"]
    BY <1>a, <2>1, PCFacts DEF BootInv, TypeLocal, Threads
  <2>2. CASE tgt' = [tgt EXCEPT !["main"] = tgt["main"] + 1] /\ UNCHANGED pc
    <3>1. tgt'["main"] = tgt["main"] + 1
      BY <1>a, <2>2, PCFacts DEF TypeLocal
    <3>2. ASSUME NEW r \in Roles, r >= tgt'["main"]
          PROVE  pid'[r] = NoPid /\ Children(r)' = {}
      <4>0. r \in Nat /\ tgt["main"] \in Nat
        BY <1>c, RolesFacts
      <4>1. r > tgt["main"] /\ r # tgt["main"]
        BY <3>1, <3>2, <4>0
      <4>2. pid[r] = NoPid /\ Children(r) = {}
        BY <1>b, <1>c, <4>1, RolesFacts DEF BootInv
      <4> QED BY <1>a, <4>1, <4>2
              DEF BootSpawn, Forked, Children, TypeTable, TypeKernel
    <3> QED BY <1>c, <2>2, <3>2 DEF BootInv
  <2> QED BY <2>1, <2>2 DEF BootSpawn
<1>3. ChildInv'
  BY <1>a, <1>b, <1>c, <1>e, <1>f
     DEF BootSpawn, Forked, ChildInv, Children, Entry, NoPid, TypeTable, TypeKernel
<1>4. HolderInv'
  BY <1>d DEF HolderInv, Locked
<1> QED BY <1>1, <1>2, <1>3, <1>4 DEF TableInv

\* A failed boot changes neither table nor children.
LEMMA BootFailsPreserves ==
  ASSUME TypeOK, TableInv, BootFails
  PROVE  TableInv'
<1>a. TypeTable /\ TypeLocal /\ TypeKernel
  BY DEF TypeOK
<1>b. LockInv /\ BootInv /\ ChildInv /\ HolderInv
  BY DEF TableInv
<1>1. LockInv'
  BY <1>a, <1>b, PCFacts, FreeIsNoThread
     DEF BootFails, LockInv, Locked, TypeTable, TypeLocal, Goto, table, kernel
<1>2. BootInv'
  BY <1>a, <1>b, PCFacts, FreeIsNoThread
     DEF BootFails, BootInv, Children, TypeTable, TypeLocal, TypeKernel, Goto,
         table, kernel
<1>3. ChildInv'
  BY <1>a, <1>b, PCFacts, FreeIsNoThread
     DEF BootFails, LockInv, ChildInv, HolderInv, Children, Entry, Locked,
         NoPid, TypeTable, TypeLocal, TypeKernel, BootInv, Goto, table, kernel
<1>4. HolderInv'
  BY <1>a, <1>b, PCFacts, FreeIsNoThread
     DEF BootFails, LockInv, ChildInv, HolderInv, Children, Entry, Locked,
         NoPid, TypeTable, TypeLocal, TypeKernel, BootInv, Goto, table, kernel
<1> QED BY <1>1, <1>2, <1>3, <1>4 DEF TableInv

\* The start of the shutdown loop.
LEMMA ShutdownAllPreserves ==
  ASSUME TypeOK, TableInv, ShutdownAll
  PROVE  TableInv'
<1>a. TypeTable /\ TypeLocal /\ TypeKernel
  BY DEF TypeOK
<1>b. LockInv /\ BootInv /\ ChildInv /\ HolderInv
  BY DEF TableInv
<1>c. pc["main"] # "boot" /\ pc'["main"] # "boot"
  BY <1>a, <1>b, PCFacts DEF ShutdownAll, BootInv, TypeLocal, Threads, Goto,
      table, kernel
<1>1. LockInv'
  BY <1>a, <1>b, PCFacts, FreeIsNoThread
     DEF ShutdownAll, LockInv, Locked, TypeTable, TypeLocal, Goto, table,
         kernel
<1>2. BootInv'
  BY <1>c DEF BootInv
<1>3. ChildInv'
  BY <1>a, <1>b, PCFacts, FreeIsNoThread
     DEF ShutdownAll, LockInv, ChildInv, HolderInv, Children, Entry, Locked,
         NoPid, TypeTable, TypeLocal, TypeKernel, Goto, table, kernel
<1>4. HolderInv'
  BY <1>a, <1>b, PCFacts, FreeIsNoThread
     DEF ShutdownAll, LockInv, ChildInv, HolderInv, Children, Entry, Locked,
         NoPid, TypeTable, TypeLocal, TypeKernel, Goto, table, kernel
<1> QED BY <1>1, <1>2, <1>3, <1>4 DEF TableInv

\* The next entry of the shutdown loop.
LEMMA ShutdownNextPreserves ==
  ASSUME TypeOK, TableInv, ShutdownNext
  PROVE  TableInv'
<1>a. TypeTable /\ TypeLocal /\ TypeKernel
  BY DEF TypeOK
<1>b. LockInv /\ BootInv /\ ChildInv /\ HolderInv
  BY DEF TableInv
<1>c. pc["main"] # "boot" /\ pc'["main"] # "boot"
  BY <1>a, <1>b, PCFacts DEF ShutdownNext, BootInv, TypeLocal, Threads, Goto,
      table, kernel
<1>1. LockInv'
  BY <1>a, <1>b, PCFacts, FreeIsNoThread
     DEF ShutdownNext, LockInv, Locked, TypeTable, TypeLocal, Goto, table,
         kernel
<1>2. BootInv'
  BY <1>c DEF BootInv
<1>3. ChildInv'
  BY <1>a, <1>b, PCFacts, FreeIsNoThread
     DEF ShutdownNext, LockInv, ChildInv, HolderInv, Children, Entry, Locked,
         NoPid, TypeTable, TypeLocal, TypeKernel, Goto, table, kernel
<1>4. HolderInv'
  BY <1>a, <1>b, PCFacts, FreeIsNoThread
     DEF ShutdownNext, LockInv, ChildInv, HolderInv, Children, Entry, Locked,
         NoPid, TypeTable, TypeLocal, TypeKernel, Goto, table, kernel
<1> QED BY <1>1, <1>2, <1>3, <1>4 DEF TableInv

\* The reaper polls, and perhaps waits for, the child of the entry it locked.
LEMMA ReapPreserves ==
  ASSUME TypeOK, TableInv, Reap
  PROVE  TableInv'
<1>a. TypeTable /\ TypeLocal /\ TypeKernel
  BY DEF TypeOK
<1>b. LockInv /\ BootInv /\ ChildInv /\ HolderInv
  BY DEF TableInv
<1>c. pc["main"] # "boot" /\ pc'["main"] # "boot"
  BY <1>a, <1>b, PCFacts DEF Reap, BootInv, TypeLocal, Threads, Goto, table
<1>1. LockInv'
  BY <1>a, <1>b, PCFacts, FreeIsNoThread
     DEF Reap, LockInv, Locked, TypeTable, TypeLocal, Goto, table
<1>2. BootInv'
  BY <1>c DEF BootInv
<1>3. ChildInv'
  BY <1>a, <1>b, PCFacts, FreeIsNoThread
     DEF Reap, LockInv, ChildInv, HolderInv, Children, Entry, Locked, NoPid,
         TypeTable, TypeLocal, TypeKernel, Goto, table
<1>4. HolderInv'
  BY <1>a, <1>b, PCFacts, FreeIsNoThread
     DEF Reap, LockInv, ChildInv, HolderInv, Children, Entry, Locked, NoPid,
         TypeTable, TypeLocal, TypeKernel, Goto, table
<1> QED BY <1>1, <1>2, <1>3, <1>4 DEF TableInv

\* The reaper clears the pid of the child it waited for.
LEMMA BuryPreserves ==
  ASSUME TypeOK, TableInv, Bury
  PROVE  TableInv'
<1>a. TypeTable /\ TypeLocal /\ TypeKernel
  BY DEF TypeOK
<1>b. LockInv /\ BootInv /\ ChildInv /\ HolderInv
  BY DEF TableInv
<1>c. pc["main"] # "boot" /\ pc'["main"] # "boot"
  BY <1>a, <1>b, PCFacts DEF Bury, BootInv, TypeLocal, Threads, Goto, kernel
<1>1. LockInv'
  BY <1>a, <1>b, PCFacts, FreeIsNoThread
     DEF Bury, LockInv, Locked, TypeTable, TypeLocal, Goto, kernel
<1>2. BootInv'
  BY <1>c DEF BootInv
<1>3. ChildInv'
  BY <1>a, <1>b, PCFacts, FreeIsNoThread
     DEF Bury, LockInv, ChildInv, HolderInv, Children, Entry, Locked, NoPid,
         TypeTable, TypeLocal, TypeKernel, Goto, kernel
<1>4. HolderInv'
  BY <1>a, <1>b, PCFacts, FreeIsNoThread
     DEF Bury, LockInv, ChildInv, HolderInv, Children, Entry, Locked, NoPid,
         TypeTable, TypeLocal, TypeKernel, Goto, kernel
<1> QED BY <1>1, <1>2, <1>3, <1>4 DEF TableInv

\* The next entry of the scan.
LEMMA ReapNextPreserves ==
  ASSUME TypeOK, TableInv, ReapNext
  PROVE  TableInv'
<1>a. TypeTable /\ TypeLocal /\ TypeKernel
  BY DEF TypeOK
<1>b. LockInv /\ BootInv /\ ChildInv /\ HolderInv
  BY DEF TableInv
<1>c. pc["main"] # "boot" /\ pc'["main"] # "boot"
  BY <1>a, <1>b, PCFacts DEF ReapNext, BootInv, TypeLocal, Threads, Goto,
      table, kernel
<1>1. LockInv'
  BY <1>a, <1>b, PCFacts, FreeIsNoThread
     DEF ReapNext, LockInv, Locked, TypeTable, TypeLocal, Goto, table, kernel
<1>2. BootInv'
  BY <1>c DEF BootInv
<1>3. ChildInv'
  BY <1>a, <1>b, PCFacts, FreeIsNoThread
     DEF ReapNext, LockInv, ChildInv, HolderInv, Children, Entry, Locked,
         NoPid, TypeTable, TypeLocal, TypeKernel, Goto, table, kernel
<1>4. HolderInv'
  BY <1>a, <1>b, PCFacts, FreeIsNoThread
     DEF ReapNext, LockInv, ChildInv, HolderInv, Children, Entry, Locked,
         NoPid, TypeTable, TypeLocal, TypeKernel, Goto, table, kernel
<1> QED BY <1>1, <1>2, <1>3, <1>4 DEF TableInv

\* check_frozen reads the flag.
LEMMA CheckFlagPreserves ==
  ASSUME TypeOK, TableInv, CheckFlag
  PROVE  TableInv'
<1>a. TypeTable /\ TypeLocal /\ TypeKernel
  BY DEF TypeOK
<1>b. LockInv /\ BootInv /\ ChildInv /\ HolderInv
  BY DEF TableInv
<1>c. pc["main"] # "boot" /\ pc'["main"] # "boot"
  BY <1>a, <1>b, PCFacts DEF CheckFlag, BootInv, TypeLocal, Threads, Goto,
      table, kernel
<1>1. LockInv'
  BY <1>a, <1>b, PCFacts, FreeIsNoThread
     DEF CheckFlag, LockInv, Locked, TypeTable, TypeLocal, Goto, table, kernel
<1>2. BootInv'
  BY <1>c DEF BootInv
<1>3. ChildInv'
  BY <1>a, <1>b, PCFacts, FreeIsNoThread
     DEF CheckFlag, LockInv, ChildInv, HolderInv, Children, Entry, Locked,
         NoPid, TypeTable, TypeLocal, TypeKernel, Goto, table, kernel
<1>4. HolderInv'
  BY <1>a, <1>b, PCFacts, FreeIsNoThread
     DEF CheckFlag, LockInv, ChildInv, HolderInv, Children, Entry, Locked,
         NoPid, TypeTable, TypeLocal, TypeKernel, Goto, table, kernel
<1> QED BY <1>1, <1>2, <1>3, <1>4 DEF TableInv

\* check_frozen reads the pid without the lock and decides.
LEMMA CheckFrozenPreserves ==
  ASSUME TypeOK, TableInv, CheckFrozen
  PROVE  TableInv'
<1>a. TypeTable /\ TypeLocal /\ TypeKernel
  BY DEF TypeOK
<1>b. LockInv /\ BootInv /\ ChildInv /\ HolderInv
  BY DEF TableInv
<1>c. pc["main"] # "boot" /\ pc'["main"] # "boot"
  BY <1>a, <1>b, PCFacts DEF CheckFrozen, BootInv, TypeLocal, Threads, Goto,
      table, kernel
<1>1. LockInv'
  BY <1>a, <1>b, PCFacts, FreeIsNoThread
     DEF CheckFrozen, LockInv, Locked, TypeTable, TypeLocal, Goto, table,
         kernel
<1>2. BootInv'
  BY <1>c DEF BootInv
<1>3. ChildInv'
  BY <1>a, <1>b, PCFacts, FreeIsNoThread
     DEF CheckFrozen, LockInv, ChildInv, HolderInv, Children, Entry, Locked,
         NoPid, TypeTable, TypeLocal, TypeKernel, Goto, table, kernel
<1>4. HolderInv'
  BY <1>a, <1>b, PCFacts, FreeIsNoThread
     DEF CheckFrozen, LockInv, ChildInv, HolderInv, Children, Entry, Locked,
         NoPid, TypeTable, TypeLocal, TypeKernel, Goto, table, kernel
<1> QED BY <1>1, <1>2, <1>3, <1>4 DEF TableInv

\* The next period of the heartbeat thread.
LEMMA ReaperWakesPreserves ==
  ASSUME TypeOK, TableInv, ReaperWakes
  PROVE  TableInv'
<1>a. TypeTable /\ TypeLocal /\ TypeKernel
  BY DEF TypeOK
<1>b. LockInv /\ BootInv /\ ChildInv /\ HolderInv
  BY DEF TableInv
<1>c. pc["main"] # "boot" /\ pc'["main"] # "boot"
  BY <1>a, <1>b, PCFacts DEF ReaperWakes, BootInv, TypeLocal, Threads, Goto,
      table, kernel
<1>1. LockInv'
  BY <1>a, <1>b, PCFacts, FreeIsNoThread
     DEF ReaperWakes, LockInv, Locked, TypeTable, TypeLocal, Goto, table,
         kernel
<1>2. BootInv'
  BY <1>c DEF BootInv
<1>3. ChildInv'
  BY <1>a, <1>b, PCFacts, FreeIsNoThread
     DEF ReaperWakes, LockInv, ChildInv, HolderInv, Children, Entry, Locked,
         NoPid, TypeTable, TypeLocal, TypeKernel, Goto, table, kernel
<1>4. HolderInv'
  BY <1>a, <1>b, PCFacts, FreeIsNoThread
     DEF ReaperWakes, LockInv, ChildInv, HolderInv, Children, Entry, Locked,
         NoPid, TypeTable, TypeLocal, TypeKernel, Goto, table, kernel
<1> QED BY <1>1, <1>2, <1>3, <1>4 DEF TableInv

\* The control thread takes a message.
LEMMA ReceivePreserves ==
  ASSUME TypeOK, TableInv, Receive
  PROVE  TableInv'
<1>a. TypeTable /\ TypeLocal /\ TypeKernel
  BY DEF TypeOK
<1>b. LockInv /\ BootInv /\ ChildInv /\ HolderInv
  BY DEF TableInv
<1>c. /\ pc["control"] = "receive" /\ pc'["control"] \in {"receive", "lock"}
      /\ \A t \in Threads : t # "control" => pc'[t] = pc[t] /\ tgt'[t] = tgt[t]
  BY <1>a, PCFacts DEF Receive, Goto, TypeLocal
<1>d. \A t \in Threads : pc[t] \in Locked \/ pc'[t] \in Locked =>
        pc'[t] = pc[t] /\ tgt'[t] = tgt[t] /\ victim'[t] = victim[t]
  BY <1>c DEF Receive, Locked
<1>e. /\ UNCHANGED <<pid, lifecycle_lock, alive, zombie>>
      /\ \A r : Children(r)' = Children(r) /\ Entry(r)' = Entry(r)
  BY DEF Receive, table, kernel, Children, Entry
<1>1. LockInv'
  BY <1>b, <1>d, <1>e DEF LockInv
<1>2. BootInv'
  BY <1>b, <1>c, PCFacts DEF BootInv, Threads
<1>3. ChildInv'
  BY <1>b, <1>e DEF ChildInv
<1>4. HolderInv'
  BY <1>b, <1>d, <1>e DEF HolderInv, Locked
<1> QED BY <1>1, <1>2, <1>3, <1>4 DEF TableInv

\* A crash turns the running child into an unreaped one.
LEMMA ChildCrashesPreserves ==
  ASSUME TypeOK, TableInv, NEW r \in Roles, NEW p \in alive[r], ChildCrashes(r, p)
  PROVE  TableInv'
<1>a. TypeTable /\ TypeLocal /\ TypeKernel
  BY DEF TypeOK
<1>b. LockInv /\ BootInv /\ ChildInv /\ HolderInv
  BY DEF TableInv
<1>1. LockInv'
  BY <1>a, <1>b, PCFacts, FreeIsNoThread
     DEF ChildCrashes, LockInv, Locked, TypeTable, TypeLocal, table, local
<1>2. BootInv'
  BY <1>a, <1>b, PCFacts, FreeIsNoThread
     DEF ChildCrashes, BootInv, Children, TypeTable, TypeLocal, TypeKernel,
         table, local
<1>3. ChildInv'
  BY <1>a, <1>b, PCFacts, FreeIsNoThread
     DEF ChildCrashes, LockInv, ChildInv, HolderInv, Children, Entry, Locked,
         NoPid, TypeTable, TypeLocal, TypeKernel, BootInv, table, local
<1>4. HolderInv'
  BY <1>a, <1>b, PCFacts, FreeIsNoThread
     DEF ChildCrashes, LockInv, ChildInv, HolderInv, Children, Entry, Locked,
         NoPid, TypeTable, TypeLocal, TypeKernel, BootInv, table, local
<1> QED BY <1>1, <1>2, <1>3, <1>4 DEF TableInv

\* So does a signal that takes effect.
LEMMA ChildStopsPreserves ==
  ASSUME TypeOK, TableInv, NEW t \in Threads, ChildStops(t)
  PROVE  TableInv'
<1>a. TypeTable /\ TypeLocal /\ TypeKernel
  BY DEF TypeOK
<1>b. LockInv /\ BootInv /\ ChildInv /\ HolderInv
  BY DEF TableInv
<1>1. LockInv'
  BY <1>a, <1>b, PCFacts, FreeIsNoThread
     DEF ChildStops, LockInv, Locked, TypeTable, TypeLocal, Stopping, table,
         local
<1>2. BootInv'
  BY <1>a, <1>b, PCFacts, FreeIsNoThread
     DEF ChildStops, BootInv, Children, TypeTable, TypeLocal, TypeKernel,
         Stopping, table, local
<1>3. ChildInv'
  BY <1>a, <1>b, PCFacts, FreeIsNoThread
     DEF ChildStops, LockInv, ChildInv, HolderInv, Children, Entry, Locked,
         NoPid, TypeTable, TypeLocal, TypeKernel, BootInv, Stopping, table,
         local
<1>4. HolderInv'
  BY <1>a, <1>b, PCFacts, FreeIsNoThread
     DEF ChildStops, LockInv, ChildInv, HolderInv, Children, Entry, Locked,
         NoPid, TypeTable, TypeLocal, TypeKernel, BootInv, Stopping, table,
         local
<1> QED BY <1>1, <1>2, <1>3, <1>4 DEF TableInv

\* Steps that touch neither the table, the locks, the threads nor the children.
LEMMA FramePreserves ==
  ASSUME TableInv, UNCHANGED <<table, lifecycle_lock, local, kernel>>
  PROVE  TableInv'
BY DEF TableInv, LockInv, BootInv, ChildInv, HolderInv, Children, Entry, table,
       local, kernel

\* The table invariant holds in every reachable state.
LEMMA TableCorrect == Spec => []TableInv
<1>1. Init => TableInv
  <2> SUFFICES ASSUME Init PROVE TableInv
    OBVIOUS
  <2>1. \A t \in Threads : pc[t] \notin Locked
    BY DEF Init, Locked
  <2>2. \A r \in Roles : /\ lifecycle_lock[r] = Free /\ pid[r] = NoPid
                         /\ alive[r] = {} /\ zombie[r] = {}
    BY DEF Init
  <2>3. LockInv
    BY <2>1, <2>2, FreeIsNoThread DEF LockInv
  <2>4. BootInv
    BY <2>2, PCFacts DEF Init, BootInv, Children
  <2>5. ChildInv
    BY <2>2 DEF ChildInv, Children, Entry
  <2>6. HolderInv
    BY <2>1 DEF HolderInv, Locked
  <2> QED BY <2>3, <2>4, <2>5, <2>6 DEF TableInv
<1>2. TypeOK /\ TableInv /\ [Next]_vars => TableInv'
  <2> SUFFICES ASSUME TypeOK, TableInv, [Next]_vars PROVE TableInv'
    OBVIOUS
  <2>1. ASSUME NEW t \in Threads, ThreadStep(t) PROVE TableInv'
    BY <2>1, LockPreserves, ReadPidPreserves, GraceExitPreserves,
       GraceExpiresPreserves, KillWaitedPreserves, ClearPidPreserves,
       SpawnPreserves, StorePidPreserves, UnlockPreserves DEF ThreadStep
  <2>2. CASE MainStep
    BY <2>2, BootSpawnPreserves, BootFailsPreserves, ShutdownAllPreserves,
       ShutdownNextPreserves DEF MainStep
  <2>3. CASE ReaperStep
    BY <2>3, ReapPreserves, BuryPreserves, ReapNextPreserves,
       CheckFlagPreserves, CheckFrozenPreserves, ReaperWakesPreserves
       DEF ReaperStep
  <2>4. CASE Receive
    BY <2>4, ReceivePreserves
  <2>5. ASSUME NEW r \in Roles, NEW p \in alive[r], ChildCrashes(r, p)
        PROVE TableInv'
    BY <2>5, ChildCrashesPreserves
  <2>6. ASSUME NEW t \in Threads, ChildStops(t) PROVE TableInv'
    BY <2>6, ChildStopsPreserves
  <2>7. ASSUME NEW m \in Message, Send(m) PROVE TableInv'
    BY <2>7, FramePreserves DEF Send
  <2>8. CASE FdirGoesQuiet
    BY <2>8, FramePreserves DEF FdirGoesQuiet
  <2>9. CASE Sigterm
    BY <2>9, FramePreserves DEF Sigterm
  <2>10. CASE UNCHANGED vars
    BY <2>10, FramePreserves DEF vars, table, local, kernel
  <2> QED
    BY <2>1, <2>2, <2>3, <2>4, <2>5, <2>6, <2>7, <2>8, <2>9, <2>10
       DEF Next, Halted
<1> QED BY <1>1, <1>2, TypeCorrect, PTL DEF Spec

-----------------------------------------------------------------------------
\* An entry that nobody works on names its only child, or has none
\* (processes[].pid against the kernel).
THEOREM EntryTracksChildTheorem == Spec => []EntryTracksChild
<1>1. TableInv => EntryTracksChild
  BY DEF TableInv, ChildInv, EntryTracksChild, Entry
<1> QED BY <1>1, TableCorrect, PTL

\* No thread ever signals or waits for a pid that was already reaped.
THEOREM VictimIsOurChildTheorem == Spec => []VictimIsOurChild
<1>1. TableInv => VictimIsOurChild
  BY DEF TableInv, HolderInv, VictimIsOurChild, Stopping
<1> QED BY <1>1, TableCorrect, PTL

\* No role ever has two running processes, for any number of entries and any
\* interleaving of the three threads.
THEOREM SingleInstanceTheorem == Spec => []SingleInstance
<1>1. TypeOK /\ TableInv => SingleInstance
  <2> SUFFICES ASSUME TypeOK, TableInv, NEW r \in Roles,
                      NEW p \in alive[r], NEW q \in alive[r]
               PROVE  p = q
    BY DEF SingleInstance
  <2>1. CASE lifecycle_lock[r] = Free
    BY <2>1 DEF TableInv, ChildInv, Children, Entry
  <2>2. CASE lifecycle_lock[r] # Free
    <3>1. PICK t \in Threads : lifecycle_lock[r] = t
      BY <2>2 DEF TypeOK, TypeTable
    <3>2. pc[t] \in Locked /\ tgt[t] = r
      BY <3>1 DEF TableInv, LockInv
    <3> QED BY <3>2 DEF TableInv, HolderInv, Locked, Children, Entry
  <2> QED BY <2>1, <2>2
<1> QED BY <1>1, TypeCorrect, TableCorrect, PTL

-----------------------------------------------------------------------------
\* A step of a thread that neither collects, stops nor starts a child.
LEMMA CrashFrame ==
  ASSUME TypeOK, CrashInv,
         UNCHANGED <<restart_count, zombie, crashes>>,
         pc'["reaper"] = "buried" =>
           pc["reaper"] = "buried" /\ tgt'["reaper"] = tgt["reaper"],
         \A t \in Threads : Stopping(t) => Stopping(t)' /\ tgt'[t] = tgt[t]
  PROVE  CrashInv'
<1>1. \A r \in Roles : Unasked(r)' => Unasked(r)
  BY DEF Unasked
<1> QED BY <1>1 DEF CrashInv

\* A child that a stopping thread waited for leaves nothing unasked behind.
LEMMA CrashWaited ==
  ASSUME TypeOK, TableInv, CrashInv, NEW t \in Threads, Stopping(t), Waited(t),
         UNCHANGED <<restart_count, tgt>>, Goto(t, "clear")
  PROVE  CrashInv'
<1>a. /\ zombie \in [Roles -> SUBSET Nat] /\ tgt \in [Threads -> Roles]
      /\ pc \in [Threads -> PCs] /\ tgt[t] \in Roles
  BY DEF TypeOK, TypeKernel, TypeLocal
<1>1. zombie'[tgt[t]] = {}
  <2>1. Children(tgt[t]) = {victim[t]}
    BY DEF TableInv, HolderInv, Stopping
  <2> QED BY <1>a, <2>1 DEF Waited, Children
<1>2. \A r \in Roles : r # tgt[t] => zombie'[r] = zombie[r]
  BY <1>a DEF Waited
<1>3. \A u \in Threads : u # t => pc'[u] = pc[u]
  BY <1>a DEF Goto
<1>4. \A r \in Roles : Unasked(r)' => Unasked(r)
  BY <1>a, <1>1, <1>2, <1>3 DEF Unasked, Stopping
<1>5. pc'["reaper"] = "buried" => pc["reaper"] = "buried"
  BY <1>a, PCFacts DEF Goto
<1> QED BY <1>4, <1>5 DEF CrashInv, Waited

\* The crash accounting survives every step.
LEMMA CrashStep == TypeOK /\ TableInv /\ CrashInv /\ [Next]_vars => CrashInv'
<1> SUFFICES ASSUME TypeOK, TableInv, CrashInv, [Next]_vars PROVE CrashInv'
  OBVIOUS
<1>a. /\ pc \in [Threads -> PCs] /\ tgt \in [Threads -> Roles]
      /\ zombie \in [Roles -> SUBSET Nat]
  BY DEF TypeOK, TypeLocal, TypeKernel
<1>b. restart_count \in [Roles -> Nat] /\ crashes \in [Roles -> Nat]
  BY DEF TypeOK, TypeTable, TypeKernel
<1>1. ASSUME NEW t \in Threads, ThreadStep(t) PROVE CrashInv'
  <2>1. CASE Lock(t) \/ ReadPid(t) \/ GraceExpires(t) \/ ClearPid(t)
             \/ StorePid(t) \/ Unlock(t)
    <3>1. UNCHANGED <<restart_count, zombie, crashes, tgt>>
      BY <2>1 DEF Lock, ReadPid, GraceExpires, ClearPid, StorePid, Unlock,
                  table, kernel
    <3>2. /\ pc'["reaper"] = "buried" => pc["reaper"] = "buried"
          /\ \A u \in Threads : Stopping(u) => Stopping(u)'
      BY <1>a, <2>1, PCFacts
         DEF Lock, ReadPid, GraceExpires, ClearPid, StorePid, Unlock, Goto,
             AfterUnlock, Stopping
    <3> QED BY <3>1, <3>2, CrashFrame
  <2>2. CASE GraceExit(t) \/ KillWaited(t)
    BY <2>2, CrashWaited DEF GraceExit, KillWaited, Stopping, table
  <2>3. CASE Spawn(t)
    <3>1. UNCHANGED <<restart_count, zombie, crashes, tgt>>
      BY <2>3 DEF Spawn, Forked, table, kernel
    <3>2. /\ pc'["reaper"] = "buried" => pc["reaper"] = "buried"
          /\ \A u \in Threads : Stopping(u) => Stopping(u)'
      BY <1>a, <2>3, PCFacts DEF Spawn, Goto, Stopping
    <3> QED BY <3>1, <3>2, CrashFrame
  <2> QED BY <1>1, <2>1, <2>2, <2>3 DEF ThreadStep
<1>2. CASE MainStep
  <2>1. UNCHANGED <<restart_count, zombie, crashes>>
    BY <1>2 DEF MainStep, BootSpawn, Forked, BootFails, ShutdownAll,
                ShutdownNext, table, kernel
  <2>2. pc["main"] \notin {"grace", "wait"} /\ \A t \in Threads :
          t # "main" => tgt'[t] = tgt[t] /\ (pc'[t] = pc[t] \/ pc["main"] = "boot")
    BY <1>2, <1>a, PCFacts
       DEF MainStep, BootSpawn, BootFails, ShutdownAll, ShutdownNext, Goto
  <2>3. \A t \in Threads : Stopping(t) => Stopping(t)' /\ tgt'[t] = tgt[t]
    BY <2>2 DEF Stopping, TableInv, BootInv, Threads
  <2>4. pc'["reaper"] = "buried" => pc["reaper"] = "buried" /\ tgt'["reaper"] = tgt["reaper"]
    BY <1>2, <1>a, <2>2, PCFacts
       DEF MainStep, BootSpawn, BootFails, ShutdownAll, ShutdownNext, Goto
  <2> QED BY <2>1, <2>3, <2>4, CrashFrame
<1>3. CASE ReaperStep
  <2>1. CASE Reap
    <3> DEFINE r0 == tgt["reaper"]
    <3>1. CASE pid[r0] \notin zombie[r0] /\ Goto("reaper", "unlock")
               /\ UNCHANGED zombie
      <4>1. /\ pc'["reaper"] # "buried"
            /\ \A t \in Threads : Stopping(t) => Stopping(t)'
        BY <1>a, <2>1, <3>1, PCFacts DEF Reap, Goto, Stopping
      <4> QED BY <2>1, <3>1, <4>1, CrashFrame DEF Reap, table
    <3>2. CASE pid[r0] \in zombie[r0] /\ Goto("reaper", "buried")
               /\ zombie' = [zombie EXCEPT ![r0] = @ \ {pid[r0]}]
      <4>1. r0 \in Roles /\ pc["reaper"] = "reap"
        BY <1>a, <2>1, PCFacts DEF Reap
      <4>2. \A t \in Threads : Stopping(t) => tgt[t] # r0
        BY <4>1, PCFacts DEF TableInv, LockInv, Locked, Stopping
      <4>3. restart_count[r0] < crashes[r0]
        BY <3>2, <4>1, <4>2 DEF CrashInv, Unasked
      <4>4. zombie'[r0] = {} /\ \A r \in Roles : r # r0 => zombie'[r] = zombie[r]
        <5>1. Children(r0) = Entry(r0)
          BY <4>1, PCFacts DEF TableInv, HolderInv
        <5> QED BY <1>a, <3>2, <4>1, <5>1 DEF Children, Entry
      <4>5. \A t \in Threads : Stopping(t) => Stopping(t)'
        BY <1>a, <3>2, <4>1 DEF Goto, Stopping
      <4>6. \A r \in Roles : Unasked(r)' => Unasked(r)
        BY <2>1, <4>4, <4>5 DEF Unasked, Reap
      <4>7. UNCHANGED <<restart_count, crashes, tgt>>
        BY <2>1 DEF Reap, table
      <4> QED BY <4>1, <4>3, <4>6, <4>7 DEF CrashInv
    <3> QED BY <2>1, <3>1, <3>2 DEF Reap
  <2>2. CASE Bury
    <3> DEFINE r0 == tgt["reaper"]
    <3>1. /\ r0 \in Roles /\ pc["reaper"] = "buried" /\ pc'["reaper"] # "buried"
          /\ \A t \in Threads : Stopping(t)' => Stopping(t)
          /\ \A t \in Threads : Stopping(t) => Stopping(t)'
          /\ UNCHANGED <<zombie, crashes, tgt>>
      BY <1>a, <2>2, PCFacts DEF Bury, Goto, Stopping, kernel
    <3>2. Children(r0) = {} /\ restart_count[r0] < crashes[r0]
      BY <3>1, PCFacts DEF TableInv, HolderInv, CrashInv
    <3>3. restart_count' \in {restart_count,
                              [restart_count EXCEPT ![r0] = @ + 1]}
      BY <2>2 DEF Bury
    <3>4. ASSUME NEW r \in Roles
          PROVE  /\ restart_count'[r] <= crashes[r]
                 /\ Unasked(r)' => restart_count'[r] < crashes[r]
      <4>1. CASE r = r0
        <5>1. ~Unasked(r)'
          BY <3>1, <3>2, <4>1 DEF Unasked, Children
        <5> QED BY <1>b, <3>1, <3>2, <3>3, <4>1, <5>1
      <4>2. CASE r # r0
        BY <1>b, <3>1, <3>3, <4>2 DEF Unasked, CrashInv
      <4> QED BY <4>1, <4>2
    <3> QED BY <3>1, <3>4 DEF CrashInv
  <2>3. CASE ReapNext \/ CheckFlag \/ CheckFrozen \/ ReaperWakes
    <3>1. /\ UNCHANGED <<restart_count, zombie, crashes>>
          /\ pc'["reaper"] # "buried" /\ pc["reaper"] \notin {"grace", "wait"}
          /\ \A t \in Threads : t # "reaper" => pc'[t] = pc[t] /\ tgt'[t] = tgt[t]
      BY <1>a, <2>3, PCFacts
         DEF ReapNext, CheckFlag, CheckFrozen, ReaperWakes, Goto, table, kernel
    <3>2. \A t \in Threads : Stopping(t) => Stopping(t)' /\ tgt'[t] = tgt[t]
      BY <3>1 DEF Stopping
    <3> QED BY <3>1, <3>2, CrashFrame
  <2> QED BY <1>3, <2>1, <2>2, <2>3 DEF ReaperStep
<1>4. CASE Receive
  <2>1. /\ UNCHANGED <<restart_count, zombie, crashes>>
        /\ pc["control"] = "receive"
        /\ \A t \in Threads : t # "control" => pc'[t] = pc[t] /\ tgt'[t] = tgt[t]
    BY <1>a, <1>4, PCFacts DEF Receive, Goto, table, kernel
  <2>2. \A t \in Threads : Stopping(t) => Stopping(t)' /\ tgt'[t] = tgt[t]
    BY <2>1 DEF Stopping
  <2> QED BY <2>1, <2>2, PCFacts, CrashFrame
<1>5. ASSUME NEW r \in Roles, NEW p \in alive[r], ChildCrashes(r, p)
      PROVE CrashInv'
  <2>1. /\ UNCHANGED <<restart_count, pc, tgt>>
        /\ crashes'[r] = crashes[r] + 1
        /\ \A q \in Roles : q # r => crashes'[q] = crashes[q] /\ zombie'[q] = zombie[q]
    BY <1>a, <1>b, <1>5 DEF ChildCrashes, table, local
  <2>2. restart_count[r] < crashes'[r]
    BY <1>b, <2>1 DEF CrashInv
  <2>3. \A q \in Roles : q # r /\ Unasked(q)' => Unasked(q)
    BY <2>1 DEF Unasked, Stopping
  <2>4. crashes' \in [Roles -> Nat]
    BY <1>b, <1>5 DEF ChildCrashes
  <2> QED BY <1>b, <2>1, <2>2, <2>3, <2>4 DEF CrashInv
<1>6. ASSUME NEW t \in Threads, ChildStops(t) PROVE CrashInv'
  <2>1. /\ UNCHANGED <<restart_count, crashes, pc, tgt>>
        /\ Stopping(t) /\ Stopping(t)'
        /\ \A q \in Roles : q # tgt[t] => zombie'[q] = zombie[q]
    BY <1>a, <1>6 DEF ChildStops, Stopping, table, local
  <2>2. \A q \in Roles : Unasked(q)' => Unasked(q)
    BY <2>1 DEF Unasked, Stopping
  <2> QED BY <2>1, <2>2 DEF CrashInv
<1>7. CASE UNCHANGED <<restart_count, zombie, crashes, pc, tgt>>
  BY <1>7, CrashFrame DEF Stopping
<1>8. ASSUME NEW m \in Message, Send(m) PROVE CrashInv'
  BY <1>7, <1>8 DEF Send, table, local, kernel
<1> QED
  BY <1>1, <1>2, <1>3, <1>4, <1>5, <1>6, <1>7, <1>8
     DEF Next, Halted, FdirGoesQuiet, Sigterm, vars, table, local, kernel

\* Stopping a process on purpose never uses up one of its crash restarts.
THEOREM CrashAccountingTheorem == Spec => []CrashAccounting
<1>1. Init => CrashInv
  BY PCFacts DEF Init, CrashInv, Unasked
<1>2. CrashInv => CrashAccounting
  BY DEF CrashInv, CrashAccounting
<1> QED BY <1>1, <1>2, CrashStep, TypeCorrect, TableCorrect, PTL DEF Spec

-----------------------------------------------------------------------------
\* A step that moves neither main nor the flag, and does not let the reaper
\* decide on a restart.
LEMMA ShutdownFrame ==
  ASSUME ShutdownInv, UNCHANGED <<shutting_down>>,
         op'["main"] = op["main"], tgt'["main"] = tgt["main"],
         pc'["main"] = pc["main"],
         \A r \in Roles : Reviving(r)' => Reviving(r)
  PROVE  ShutdownInv'
<1>1. \A r \in Roles : Passed(r)' => Passed(r)
  BY DEF Passed
<1> QED BY <1>1 DEF ShutdownInv

\* The shutdown invariant survives every step.
LEMMA ShutdownStep == TypeOK /\ TableInv /\ ShutdownInv /\ [Next]_vars => ShutdownInv'
<1> SUFFICES ASSUME TypeOK, TableInv, ShutdownInv, [Next]_vars PROVE ShutdownInv'
  OBVIOUS
<1>a. /\ pc \in [Threads -> PCs] /\ tgt \in [Threads -> Roles]
      /\ op \in [Threads -> Ops]
  BY DEF TypeOK, TypeLocal
<1>b. op["main"] = "stop" /\ tgt["main"] \in Roles
  BY <1>a, PCFacts DEF ShutdownInv
<1>1. ASSUME NEW t \in Threads, ThreadStep(t) PROVE ShutdownInv'
  <2>a. /\ UNCHANGED <<shutting_down, op, tgt>> /\ Up
        /\ \A u \in Threads : u # t => pc'[u] = pc[u]
        /\ pc[t] \in Locked \cup {"lock"}
        /\ pc'[t] \in Locked \/ (pc[t] = "unlock" /\ pc'[t] = AfterUnlock(t))
    BY <1>1, <1>a
       DEF ThreadStep, Lock, ReadPid, GraceExit, GraceExpires, KillWaited,
           ClearPid, Spawn, StorePid, Unlock, Goto, Locked
  <2>1. CASE t = "reaper"
    <3>1. \A r \in Roles : Reviving(r)' => Reviving(r)
      <4>1. CASE Lock(t)
        BY <1>a, <2>1, <2>a, <4>1 DEF Lock, Goto, Reviving
      <4>2. CASE ~Lock(t)
        <5>1. pc'["reaper"] \in {"read", "grace", "wait", "clear", "spawn", "store"}
                => pc["reaper"] \in {"read", "grace", "wait", "clear", "spawn", "store"}
          BY <1>1, <1>a, <2>1, <4>2
             DEF ThreadStep, ReadPid, GraceExit, GraceExpires, KillWaited,
                 ClearPid, Spawn, StorePid, Unlock, Goto, AfterUnlock
        <5> QED BY <2>a, <5>1 DEF Reviving
      <4> QED BY <4>1, <4>2
    <3> QED BY <2>1, <2>a, <3>1, PCFacts, ShutdownFrame
  <2>2. CASE t = "control"
    <3>1. \A r \in Roles : Reviving(r)' => Reviving(r)
      BY <2>2, <2>a, PCFacts DEF Reviving
    <3> QED BY <2>2, <2>a, <3>1, PCFacts, ShutdownFrame
  <2>3. CASE t = "main"
    <3>1. \A r \in Roles : Reviving(r)' <=> Reviving(r)
      BY <2>3, <2>a, PCFacts DEF Reviving
    <3>2. shutting_down
      BY <2>3, <2>a DEF ShutdownInv, Locked
    <3>3. CASE pc'["main"] \in Locked
      <4>1. \A r \in Roles : Passed(r)' => Passed(r)
        BY <2>a, <3>3 DEF Passed, Locked
      <4> QED BY <2>a, <3>1, <3>2, <4>1 DEF ShutdownInv
    <3>4. CASE pc["main"] = "unlock" /\ pc'["main"] = AfterUnlock("main")
      <4>1. pc'["main"] = "next"
        BY <1>b, <3>4 DEF AfterUnlock
      <4>2. ~Reviving(tgt["main"])
        BY <1>b, <3>4, PCFacts DEF Reviving, TableInv, LockInv, Locked
      <4>3. \A r \in Roles : Passed(r)' => Passed(r) \/ r = tgt["main"]
        BY <2>a, <4>1 DEF Passed
      <4> QED BY <1>b, <2>a, <3>1, <3>2, <4>1, <4>2, <4>3 DEF ShutdownInv
    <3> QED BY <2>3, <2>a, <3>3, <3>4
  <2> QED BY <2>1, <2>2, <2>3 DEF Threads
<1>2. CASE MainStep
  <2>1. CASE BootSpawn
    <3>1. op'["main"] = "stop" /\ pc'["main"] \in {"boot", "run"}
          /\ shutting_down' = shutting_down
      BY <1>a, <1>b, <2>1, PCFacts DEF BootSpawn
    <3>2. \A r \in Roles : ~Reviving(r)'
      <4>1. pc'["reaper"] \in {"off", "lock"}
        BY <1>a, <2>1, PCFacts DEF BootSpawn, TableInv, BootInv, Threads
      <4> QED BY <4>1 DEF Reviving
    <3> QED BY <3>1, <3>2 DEF ShutdownInv
  <2>2. CASE BootFails
    <3>1. op'["main"] = "stop" /\ pc'["main"] = "aborted"
      BY <1>a, <1>b, <2>2, PCFacts DEF BootFails, Goto
    <3>2. \A r \in Roles : ~Reviving(r)'
      <4>1. pc'["reaper"] = "off"
        BY <1>a, <2>2, PCFacts DEF BootFails, Goto, TableInv, BootInv, Threads
      <4> QED BY <4>1 DEF Reviving
    <3> QED BY <3>1, <3>2 DEF ShutdownInv
  <2>3. CASE ShutdownAll
    <3>1. /\ op'["main"] = "stop" /\ pc'["main"] = "lock" /\ tgt'["main"] = 1
          /\ shutting_down'
      BY <1>a, <1>b, <2>3, PCFacts DEF ShutdownAll, Goto
    <3>2. \A r \in Roles : ~Passed(r)'
      BY <3>1, NAssumption DEF Passed, Roles
    <3> QED BY <3>1, <3>2 DEF ShutdownInv
  <2>4. CASE ShutdownNext
    <3>1. /\ op'["main"] = "stop" /\ pc["main"] = "next"
          /\ UNCHANGED shutting_down /\ shutting_down
      BY <1>b, <2>4 DEF ShutdownNext, ShutdownInv
    <3>2. \A r \in Roles : Reviving(r)' <=> Reviving(r)
      BY <1>a, <2>4, PCFacts DEF ShutdownNext, Goto, Reviving
    <3>3. ASSUME NEW r \in Roles, Passed(r)' PROVE Passed(r)
      <4>1. CASE tgt["main"] < N /\ tgt' = [tgt EXCEPT !["main"] = @ + 1]
                 /\ Goto("main", "lock")
        <5>1. tgt'["main"] = tgt["main"] + 1 /\ pc'["main"] = "lock"
          BY <1>a, <4>1, PCFacts DEF Goto
        <5>2. r < tgt["main"] + 1 /\ r \in Nat /\ tgt["main"] \in Nat
          BY <1>b, <3>3, <5>1, RolesFacts DEF Passed
        <5>3. r < tgt["main"] \/ r = tgt["main"]
          BY <5>2
        <5> QED BY <3>1, <5>3 DEF Passed
      <4>2. CASE tgt["main"] = N
        <5>1. r < tgt["main"] \/ r = tgt["main"]
          BY <4>2, NAssumption DEF Roles
        <5> QED BY <3>1, <5>1 DEF Passed
      <4> QED BY <2>4, <4>1, <4>2 DEF ShutdownNext
    <3> QED BY <3>1, <3>2, <3>3 DEF ShutdownInv
  <2> QED BY <1>2, <2>1, <2>2, <2>3, <2>4 DEF MainStep
<1>3. CASE ReaperStep
  <2>1. /\ UNCHANGED shutting_down /\ op'["main"] = op["main"]
        /\ tgt'["main"] = tgt["main"] /\ pc'["main"] = pc["main"] /\ Up
    BY <1>3, <1>a, PCFacts
       DEF ReaperStep, Reap, Bury, ReapNext, CheckFlag, CheckFrozen,
           ReaperWakes, Goto
  <2>2. CASE Bury
    <3>1. CASE shutting_down
      <4>1. \A r \in Roles : Reviving(r)' => Reviving(r)
        BY <1>a, <2>2, <3>1, PCFacts DEF Bury, Goto, Reviving
      <4> QED BY <2>1, <4>1, ShutdownFrame
    <3>2. CASE ~shutting_down
      <4>1. \A r \in Roles : ~Passed(r)'
        BY <2>1, <3>2, <1>b DEF Passed, ShutdownInv
      <4> QED BY <1>b, <2>1, <4>1 DEF ShutdownInv
    <3> QED BY <3>1, <3>2
  <2>3. CASE Reap \/ ReapNext \/ CheckFlag \/ CheckFrozen \/ ReaperWakes
    <3>1. \A r \in Roles : ~Reviving(r)'
      BY <1>a, <2>3, PCFacts
         DEF Reap, ReapNext, CheckFlag, CheckFrozen, ReaperWakes, Goto, Reviving
    <3> QED BY <2>1, <3>1, ShutdownFrame
  <2> QED BY <1>3, <2>2, <2>3 DEF ReaperStep
<1>4. CASE Receive
  <2>1. /\ UNCHANGED shutting_down
        /\ \A t \in Threads : t # "control" =>
             pc'[t] = pc[t] /\ tgt'[t] = tgt[t] /\ op'[t] = op[t]
    BY <1>a, <1>4, PCFacts DEF Receive, Goto
  <2>2. \A r \in Roles : Reviving(r)' => Reviving(r)
    BY <2>1, PCFacts DEF Reviving
  <2> QED BY <2>1, <2>2, PCFacts, ShutdownFrame
<1>5. CASE UNCHANGED <<local, shutting_down>>
  BY <1>5, ShutdownFrame DEF local, Reviving
<1>6. ASSUME NEW r \in Roles, NEW p \in alive[r], ChildCrashes(r, p)
      PROVE ShutdownInv'
  BY <1>5, <1>6 DEF ChildCrashes
<1>7. ASSUME NEW t \in Threads, ChildStops(t) PROVE ShutdownInv'
  BY <1>5, <1>7 DEF ChildStops
<1>8. ASSUME NEW m \in Message, Send(m) PROVE ShutdownInv'
  BY <1>5, <1>8 DEF Send
<1> QED
  BY <1>1, <1>2, <1>3, <1>4, <1>5, <1>6, <1>7, <1>8
     DEF Next, Halted, FdirGoesQuiet, Sigterm, vars, local

\* Once supervisor_shutdown_all is done with an entry, the reaper never brings
\* it back.
THEOREM ScanRespectsShutdownTheorem == Spec => []ScanRespectsShutdown
<1>1. Init => ShutdownInv
  BY PCFacts DEF Init, ShutdownInv, Reviving
<1>2. ShutdownInv => ScanRespectsShutdown
  BY DEF ShutdownInv, ScanRespectsShutdown
<1> QED BY <1>1, <1>2, ShutdownStep, TypeCorrect, TableCorrect, PTL DEF Spec

-----------------------------------------------------------------------------
\* Every step is a step of some child's life, or changes no child.
LEMMA LifecycleStep ==
  TypeOK /\ TableInv /\ [Next]_vars => [Lifecycle!Next]_(Lifecycle!lifeVars)
<1> SUFFICES ASSUME TypeOK, TableInv, [Next]_vars
             PROVE  [Lifecycle!Next]_(Lifecycle!lifeVars)
  OBVIOUS
<1>a. /\ alive \in [Roles -> SUBSET Nat] /\ zombie \in [Roles -> SUBSET Nat]
      /\ spawned \in [Roles -> Nat] /\ tgt \in [Threads -> Roles]
  BY DEF TypeOK, TypeLocal, TypeKernel
<1>b. ASSUME NEW r \in Roles, Children(r) = {}, Forked(r)
      PROVE  Lifecycle!Next
  <2>1. alive[r] = {} /\ zombie[r] = {}
    BY <1>b DEF Children
  <2>2. Lifecycle!Start(r)
    BY <1>a, <1>b, <2>1 DEF Forked, Lifecycle!Start
  <2> QED BY <2>2 DEF Lifecycle!Next
<1>c. ASSUME NEW r \in Roles, NEW p, p \in zombie[r], Children(r) = {p},
             zombie' = [zombie EXCEPT ![r] = @ \ {p}], UNCHANGED <<alive, spawned>>
      PROVE  Lifecycle!Next
  <2>1. zombie[r] \ {p} = {} /\ zombie[r] # {}
    BY <1>c DEF Children
  <2>2. Lifecycle!Collect(r)
    BY <1>a, <1>c, <2>1 DEF Lifecycle!Collect
  <2> QED BY <2>2 DEF Lifecycle!Next
<1>d. ASSUME NEW r \in Roles, NEW p, p \in alive[r], Children(r) = {p},
             alive' = [alive EXCEPT ![r] = @ \ {p}],
             zombie' = [zombie EXCEPT ![r] = @ \cup {p}], UNCHANGED spawned
      PROVE  Lifecycle!Next
  <2>1. alive[r] = {p} /\ zombie[r] = {}
    BY <1>d DEF Children, TableInv, ChildInv
  <2>2. alive[r] \ {p} = {} /\ zombie[r] \cup {p} = alive[r]
    BY <2>1
  <2>3. Lifecycle!Die(r)
    BY <1>a, <1>d, <2>1, <2>2 DEF Lifecycle!Die
  <2> QED BY <2>3 DEF Lifecycle!Next
<1>1. CASE UNCHANGED <<alive, zombie, spawned>>
  BY <1>1 DEF Lifecycle!lifeVars
<1>2. ASSUME NEW t \in Threads, ThreadStep(t)
      PROVE [Lifecycle!Next]_(Lifecycle!lifeVars)
  <2>1. CASE Lock(t) \/ ReadPid(t) \/ GraceExpires(t) \/ ClearPid(t)
             \/ StorePid(t) \/ Unlock(t)
    BY <1>1, <2>1
       DEF Lock, ReadPid, GraceExpires, ClearPid, StorePid, Unlock, kernel
  <2>2. CASE GraceExit(t) \/ KillWaited(t)
    <3>1. Waited(t) /\ Children(tgt[t]) = {victim[t]} /\ tgt[t] \in Roles
      BY <1>a, <2>2 DEF GraceExit, KillWaited, TableInv, HolderInv
    <3> QED BY <1>c, <3>1 DEF Waited
  <2>3. CASE Spawn(t)
    <3>1. Children(tgt[t]) = {} /\ tgt[t] \in Roles
      BY <1>a, <2>3 DEF Spawn, TableInv, HolderInv
    <3> QED BY <1>1, <1>b, <2>3, <3>1 DEF Spawn, kernel
  <2> QED BY <1>2, <2>1, <2>2, <2>3 DEF ThreadStep
<1>3. CASE MainStep
  <2>1. CASE BootSpawn
    <3>1. Children(tgt["main"]) = {} /\ tgt["main"] \in Roles
      BY <1>a, <2>1, PCFacts, RolesFacts DEF BootSpawn, TableInv, BootInv
    <3> QED BY <1>b, <2>1, <3>1 DEF BootSpawn
  <2> QED BY <1>1, <1>3, <2>1
          DEF MainStep, BootFails, ShutdownAll, ShutdownNext, kernel
<1>4. CASE ReaperStep
  <2>1. CASE Reap
    <3> DEFINE r0 == tgt["reaper"]
    <3>1. r0 \in Roles /\ Children(r0) = Entry(r0)
      BY <1>a, <2>1, PCFacts DEF Reap, TableInv, HolderInv
    <3>2. CASE pid[r0] \in zombie[r0]
               /\ zombie' = [zombie EXCEPT ![r0] = @ \ {pid[r0]}]
      <4>1. Children(r0) = {pid[r0]}
        BY <3>1, <3>2 DEF Children, Entry
      <4> QED BY <1>c, <2>1, <3>1, <3>2, <4>1 DEF Reap
    <3> QED BY <1>1, <2>1, <3>2 DEF Reap
  <2> QED BY <1>1, <1>4, <2>1
          DEF ReaperStep, Bury, ReapNext, CheckFlag, CheckFrozen, ReaperWakes,
              kernel
<1>5. CASE Receive
  BY <1>1, <1>5 DEF Receive, kernel
<1>6. ASSUME NEW r \in Roles, NEW p \in alive[r], ChildCrashes(r, p)
      PROVE [Lifecycle!Next]_(Lifecycle!lifeVars)
  <2>1. Children(r) = {p}
    <3>1. p \in Children(r)
      BY DEF Children
    <3>2. CASE lifecycle_lock[r] = Free
      BY <3>1, <3>2 DEF TableInv, ChildInv, Entry
    <3>3. CASE lifecycle_lock[r] # Free
      <4>1. PICK t \in Threads : lifecycle_lock[r] = t
        BY <3>3 DEF TypeOK, TypeTable
      <4>2. pc[t] \in Locked /\ tgt[t] = r
        BY <4>1 DEF TableInv, LockInv
      <4> QED BY <3>1, <4>2 DEF TableInv, HolderInv, Locked, Entry
    <3> QED BY <3>2, <3>3
  <2> QED BY <1>6, <1>d, <2>1 DEF ChildCrashes
<1>7. ASSUME NEW t \in Threads, ChildStops(t)
      PROVE [Lifecycle!Next]_(Lifecycle!lifeVars)
  <2>1. Children(tgt[t]) = {victim[t]} /\ tgt[t] \in Roles
    BY <1>a, <1>7 DEF ChildStops, Stopping, TableInv, HolderInv
  <2> QED BY <1>7, <1>d, <2>1 DEF ChildStops
<1>8. ASSUME NEW m \in Message, Send(m)
      PROVE [Lifecycle!Next]_(Lifecycle!lifeVars)
  BY <1>1, <1>8 DEF Send, kernel
<1> QED
  BY <1>1, <1>2, <1>3, <1>4, <1>5, <1>6, <1>7, <1>8
     DEF Next, Halted, FdirGoesQuiet, Sigterm, vars, kernel

\* The supervisor implements ChildLifecycle: one child per role at a time,
\* replaced only after it was waited for.
THEOREM LifecycleTheorem == Spec => ImplementsLifecycle
<1>1. Init => Lifecycle!Init
  BY DEF Init, Lifecycle!Init
<1> QED BY <1>1, LifecycleStep, TypeCorrect, TableCorrect, PTL
        DEF Spec, ImplementsLifecycle, Lifecycle!Spec

=============================================================================
