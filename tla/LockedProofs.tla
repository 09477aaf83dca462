----------------------------- MODULE LockedProofs -----------------------------
(***************************************************************************)
(* Proofs about the lifecycle when only the handlers that lock take part:  *)
(* one VM per name, no forgotten VM, the abstract sandbox that the         *)
(* lifecycle implements, and the resume points the collector spares.       *)
(***************************************************************************)
EXTENDS LifecycleProofs, FiniteSetTheorems

\* What request p's step does to the other requests: nothing, but for the locks
\* it takes free and gives back.
Alone(p) ==
    \A q \in Requests : q # p => pc'[q] = pc[q] /\ name'[q] = name[q] /\ rec'[q] = rec[q]
OwnLocks(p) ==
    /\ \A n \in Names : nameLock'[n] # nameLock[n] => nameLock[n] \in {None, p}
    /\ lifecycle' # lifecycle => lifecycle \in {None, p}
Solo(p) == Alone(p) /\ OwnLocks(p)

\* the steps between the check of a record and the write that relies on it
Critical == {"create_quota", "create_vm", "create_put", "create_undo",
             "resume_vm", "resume_put", "resume_undo",
             "stop_mark", "stop_vm", "stop_snap", "stop_put"}

\* No two requests stand between check and write on one sandbox.
LEMMA CriticalAlone ==
  ASSUME IndexInv, LockedInv, NEW p \in Requests, NEW q \in Requests, name[p] = name[q],
         pc[p] \in Critical, pc[q] \in Critical
  PROVE  p = q
<1>1. LockHeld(p) /\ LockHeld(q) /\ Knows(p) /\ Knows(q)
  BY DEF LockedInv
<1>2. CASE pc[p] \in NameHolding /\ pc[q] \in NameHolding
  BY <1>1, <1>2 DEF LockHeld
<1>3. CASE pc[p] \in StopHolding /\ pc[q] \in StopHolding
  BY <1>1, <1>3 DEF LockHeld
<1>4. CASE pc[p] \in NameHolding /\ pc[q] \in StopHolding
  BY <1>1, <1>4 DEF Knows, CopyHolds, Critical, NameHolding, StopHolding
<1>5. CASE pc[p] \in StopHolding /\ pc[q] \in NameHolding
  BY <1>1, <1>5 DEF Knows, CopyHolds, Critical, NameHolding, StopHolding
<1> QED
  BY <1>2, <1>3, <1>4, <1>5 DEF Critical, NameHolding, StopHolding

\* A request has a VM of its own only while it starts it or when it is over.
LEMMA NoVmYet ==
  ASSUME IndexInv, LockedInv, NEW p \in Requests, pc[p] \notin Spawning, pc[p] # "done"
  PROVE  p \notin vms
<1> SUFFICES ASSUME p \in vms PROVE FALSE
  OBVIOUS
<1>1. pc[p] # "idle"
  BY DEF LockedInv, VmsStarted
<1>2. name[p] \in Names /\ Exists(name[p]) /\ sandboxes[name[p]].session = p
  BY <1>1, NamedOf DEF LockedInv, NoOrphanVm
<1> QED
  BY <1>2 DEF LockedInv, RecordsSettled

\* The locks of the other requests stay theirs.
LEMMA LocksStay ==
  ASSUME IndexInv, LockedInv, NEW p \in Requests, Solo(p), NEW q \in Requests, q # p
  PROVE  LockHeld(q)'
<1>1. LockHeld(q) /\ pc'[q] = pc[q] /\ name'[q] = name[q] /\ q # None
  BY NoneIsFresh DEF LockedInv, Solo, Alone
<1>2. pc[q] \in NameHolding => name[q] \in Names
  BY NamedOf DEF NameHolding
<1> QED
  BY <1>1, <1>2 DEF LockHeld, Solo, OwnLocks

\* The VMs of the other requests keep their record, or their lock.
LEMMA AccountStays ==
  ASSUME IndexInv, LockedInv, NEW p \in Requests, Solo(p), NEW s \in vms, s # p,
         UNCHANGED sandboxes
  PROVE  \/ /\ Exists(name[s])' /\ (sandboxes[name[s]].session)' = s
            /\ (sandboxes[name[s]].status)' \in {"running", "stopping"}
         \/ pc'[s] \in Spawning /\ (nameLock[name[s]])' = s
<1>1. s \in Requests
  BY DEF IndexInv, TypeOK, RuntimeOK
<1>2. pc'[s] = pc[s] /\ name'[s] = name[s]
  BY <1>1 DEF Solo, Alone
<1>3. \/ Exists(name[s]) /\ sandboxes[name[s]].session = s
                         /\ sandboxes[name[s]].status \in {"running", "stopping"}
      \/ pc[s] \in Spawning /\ nameLock[name[s]] = s
  BY DEF LockedInv, NoOrphanVm
<1>4. pc[s] \in Spawning => name[s] \in Names /\ s # None
  BY <1>1, NamedOf, NoneIsFresh DEF Spawning
<1> QED
  BY <1>2, <1>3, <1>4 DEF Exists, Solo, OwnLocks

(* A step of p that writes no record and starts no VM but p's keeps the      *)
(* invariant, if p itself goes on with what it must hold and know.           *)
LEMMA QuietLocked ==
  ASSUME IndexInv, LockedInv, NEW p \in Requests, Solo(p),
         pc[p] # "done", pc'[p] # "idle",
         pc[p] \in Expiring => pc'[p] \in Expiring \cup {"done"},
         UNCHANGED <<sandboxes, up>>, vms' \subseteq vms \cup {p},
         LockHeld(p)', Knows(p)', p \in vms' => pc'[p] \in Spawning
  PROVE  LockedInv'
<1>1. ASSUME NEW q \in Requests, q # p PROVE Knows(q)'
  <2>1. Knows(q) /\ pc'[q] = pc[q] /\ name'[q] = name[q] /\ rec'[q] = rec[q]
    BY <1>1 DEF LockedInv, Solo, Alone
  <2>2. ASSUME pc[q] \in {"stop_snap", "stop_put"} PROVE rec[q].session \notin vms'
    <3>1. name[q] \in Names /\ CopyHolds(q, "stopping") /\ rec[q].session \notin vms
      BY <2>1, <2>2, NamedOf DEF Knows
    <3>2. pc[rec[q].session] = "done"
      BY <3>1 DEF CopyHolds, LockedInv, RecordsSettled
    <3> QED
      BY <3>1, <3>2
  <2> QED
    BY <2>1, <2>2 DEF Knows, CopyHolds, Exists
<1>2. RecordsSettled'
  <2> SUFFICES ASSUME NEW n \in Names, Exists(n)
               PROVE  /\ pc'[sandboxes[n].session] = "done"
                      /\ sandboxes[n].snapshot # None =>
                             pc'[sandboxes[n].snapshot] \in Expiring \cup {"done"}
    BY DEF RecordsSettled, Exists
  <2>1. /\ pc[sandboxes[n].session] = "done"
        /\ sandboxes[n].snapshot # None =>
               pc[sandboxes[n].snapshot] \in Expiring \cup {"done"}
    BY DEF LockedInv, RecordsSettled
  <2>2. sandboxes[n].session \in Requests /\ sandboxes[n].snapshot \in Requests \cup {None}
    BY RowOf DEF SnapshotIds
  <2> QED
    BY <2>1, <2>2 DEF Solo, Alone
<1>3. VmsStarted'
  BY DEF VmsStarted, LockedInv, Solo, Alone, IndexInv, TypeOK, RuntimeOK
<1>4. NoOrphanVm'
  <2> SUFFICES ASSUME NEW s \in vms'
               PROVE  \/ /\ Exists(name[s])' /\ (sandboxes[name[s]].session)' = s
                         /\ (sandboxes[name[s]].status)' \in {"running", "stopping"}
                      \/ pc'[s] \in Spawning /\ (nameLock[name[s]])' = s
    BY DEF NoOrphanVm
  <2>1. CASE s = p
    BY <2>1 DEF LockHeld, Spawning, NameHolding
  <2>2. CASE s # p
    BY <2>2, AccountStays
  <2> QED
    BY <2>1, <2>2
<1>5. \A q \in Requests : LockHeld(q)' /\ Knows(q)'
  BY <1>1, LocksStay
<1> QED
  BY <1>2, <1>3, <1>4, <1>5 DEF LockedInv

(* A step of p that writes record r for the sandbox it checked keeps the     *)
(* invariant, if every VM of that sandbox is the session of r.               *)
LEMMA WriteLocked ==
  ASSUME IndexInv, LockedInv, NEW p \in Requests, Solo(p),
         pc[p] \in Critical, pc'[p] # "idle", name'[p] = name[p],
         NEW r \in Records, sandboxes' = [sandboxes EXCEPT ![name[p]] = r],
         UNCHANGED <<up, vms>>,
         pc'[r.session] = "done",
         r.snapshot # None => pc'[r.snapshot] \in Expiring \cup {"done"},
         \A s \in VmsOf(name[p]) : s = r.session /\ r.status \in {"running", "stopping"},
         LockHeld(p)', Knows(p)'
  PROVE  LockedInv'
<1>1. name[p] \in Names /\ pc[p] # "done" /\ pc[p] \notin Expiring
  BY NamedOf DEF Critical, Expiring
<1>2. /\ \A n \in Names : n # name[p] => sandboxes'[n] = sandboxes[n]
      /\ sandboxes'[name[p]] = r /\ r # None
  BY <1>1, NoneIsNoRecord DEF IndexInv, TypeOK, StoreOK
<1>3. ASSUME NEW q \in Requests, q # p PROVE Knows(q)'
  <2>1. Knows(q) /\ pc'[q] = pc[q] /\ name'[q] = name[q] /\ rec'[q] = rec[q]
    BY <1>3 DEF LockedInv, Solo, Alone
  <2>2. CASE name[q] = name[p]
    <3>1. pc[q] \notin Critical
      BY <1>3, <2>2, CriticalAlone
    <3> QED
      BY <1>2, <2>1, <2>2, <3>1 DEF Knows, Exists, Critical
  <2>3. CASE name[q] # name[p]
    <3>1. pc[q] # "idle" => sandboxes'[name[q]] = sandboxes[name[q]]
      BY <1>2, <2>3, NamedOf
    <3>2. Exists(name[q])' <=> sandboxes'[name[q]] # None
      BY <2>1 DEF Exists
    <3> QED
      BY <2>1, <3>1, <3>2 DEF Knows, CopyHolds, Exists
  <2> QED
    BY <2>2, <2>3
<1>4. RecordsSettled'
  <2> SUFFICES ASSUME NEW n \in Names, sandboxes'[n] # None
               PROVE  /\ pc'[(sandboxes'[n]).session] = "done"
                      /\ (sandboxes'[n]).snapshot # None =>
                             pc'[(sandboxes'[n]).snapshot] \in Expiring \cup {"done"}
    BY DEF RecordsSettled, Exists
  <2>1. CASE n = name[p]
    BY <1>2, <2>1
  <2>2. CASE n # name[p]
    <3>1. sandboxes'[n] = sandboxes[n] /\ Exists(n)
      BY <1>2, <2>2 DEF Exists
    <3>2. /\ pc[sandboxes[n].session] = "done"
          /\ sandboxes[n].snapshot # None =>
                 pc[sandboxes[n].snapshot] \in Expiring \cup {"done"}
      BY <3>1 DEF LockedInv, RecordsSettled
    <3>3. sandboxes[n].session \in Requests /\ sandboxes[n].snapshot \in Requests \cup {None}
      BY <3>1, RowOf DEF SnapshotIds
    <3> QED
      BY <1>1, <3>1, <3>2, <3>3 DEF Solo, Alone
  <2> QED
    BY <2>1, <2>2
<1>5. VmsStarted'
  BY DEF VmsStarted, LockedInv, Solo, Alone, IndexInv, TypeOK, RuntimeOK
<1>6. NoOrphanVm'
  <2> SUFFICES ASSUME NEW s \in vms
               PROVE  \/ /\ Exists(name[s])' /\ (sandboxes[name[s]].session)' = s
                         /\ (sandboxes[name[s]].status)' \in {"running", "stopping"}
                      \/ pc'[s] \in Spawning /\ (nameLock[name[s]])' = s
    BY DEF NoOrphanVm
  <2>1. s \in Requests /\ name'[s] = name[s] /\ name[s] \in Names
    BY NamedOf DEF Solo, Alone, IndexInv, TypeOK, RuntimeOK, LockedInv, VmsStarted
  <2>2. CASE name[s] = name[p]
    BY <1>2, <2>1, <2>2 DEF VmsOf, Exists
  <2>3. CASE name[s] # name[p]
    <3>1. sandboxes'[name[s]] = sandboxes[name[s]] /\ s # p /\ pc'[s] = pc[s] /\ s # None
      BY <1>2, <2>1, <2>3, NoneIsFresh DEF Solo, Alone
    <3>2. \/ Exists(name[s]) /\ sandboxes[name[s]].session = s
                             /\ sandboxes[name[s]].status \in {"running", "stopping"}
          \/ pc[s] \in Spawning /\ nameLock[name[s]] = s
      BY DEF LockedInv, NoOrphanVm
    <3> QED
      BY <2>1, <3>1, <3>2 DEF Exists, Solo, OwnLocks
  <2> QED
    BY <2>2, <2>3
<1>7. \A q \in Requests : LockHeld(q)' /\ Knows(q)'
  BY <1>3, LocksStay
<1> QED
  BY <1>4, <1>5, <1>6, <1>7 DEF LockedInv

(* How the steps meet those hypotheses. *)

\* A handler that returns, giving back its lock or none, leaves nothing to hold
\* or know.
LEMMA ReturnsSolo ==
  ASSUME IndexInv, LockedInv, NEW p \in Requests,
         \/ pc[p] \in NameHolding /\ ReturnUnlocked(p)
         \/ pc[p] \in StopHolding /\ ReturnStopped(p)
         \/ Return(p) /\ UNCHANGED locks
  PROVE  /\ Solo(p) /\ pc'[p] = "done" /\ LockHeld(p)' /\ Knows(p)' /\ UNCHANGED name
<1>1. Return(p)
  BY DEF ReturnUnlocked, ReturnStopped
<1>2. Alone(p) /\ pc'[p] = "done" /\ UNCHANGED name
  BY <1>1 DEF Return, Goto, Alone, IndexInv, TypeOK, RequestsOK
<1>3. LockHeld(p)' /\ Knows(p)'
  BY <1>2 DEF LockHeld, Knows, NameHolding, StopHolding, UnlockedSteps
<1>4. OwnLocks(p)
  <2>1. LockHeld(p)
    BY DEF LockedInv
  <2>2. CASE pc[p] \in NameHolding /\ ReturnUnlocked(p)
    BY <2>1, <2>2 DEF LockHeld, ReturnUnlocked, Unlock, OwnLocks, IndexInv, TypeOK, LocksOK
  <2>3. CASE pc[p] \in StopHolding /\ ReturnStopped(p)
    BY <2>1, <2>3 DEF LockHeld, ReturnStopped, OwnLocks
  <2>4. CASE UNCHANGED locks
    BY <2>4 DEF OwnLocks, locks
  <2> QED
    BY <2>2, <2>3, <2>4
<1> QED
  BY <1>2, <1>3, <1>4 DEF Solo

\* A handler that goes on with the locks it has.
LEMMA GoesOnSolo ==
  ASSUME IndexInv, NEW p \in Requests, NEW l \in Labels, Goto(p, l), UNCHANGED name,
         \A q \in Requests : q # p => rec'[q] = rec[q], OwnLocks(p)
  PROVE  Solo(p) /\ pc'[p] = l
  BY DEF Goto, Solo, Alone, IndexInv, TypeOK, RequestsOK

\* A handler that begins holds nothing yet.
LEMMA BeginSolo ==
  ASSUME IndexInv, NEW p \in Requests, NEW o, NEW n, NEW r, NEW l \in Labels,
         Begin(p, o, n, r, l)
  PROVE  /\ Solo(p) /\ pc[p] = "idle" /\ pc'[p] = l /\ name'[p] = n /\ o \in Ops
         /\ UNCHANGED <<sandboxes, vms, up>>
<1>1. /\ pc[p] = "idle" /\ o \in Ops /\ UNCHANGED <<sandboxes, vms, up, nameLock, lifecycle>>
      /\ pc' = [pc EXCEPT ![p] = l] /\ name' = [name EXCEPT ![p] = n]
      /\ rec' = [rec EXCEPT ![p] = r]
  BY DEF Begin, Goto, store, runtime, locks, process
<1> QED
  BY <1>1 DEF Solo, Alone, OwnLocks, IndexInv, TypeOK, RequestsOK

\* A handler that begins keeps the invariant.
LEMMA BeginLocked ==
  ASSUME IndexInv, LockedInv, NEW p \in Requests, NEW o, NEW n, NEW r,
         NEW l \in {"create_lock", "get_lock", "stop_lock", "image", "gc_list"},
         Begin(p, o, n, r, l), l \in {"get_lock", "stop_lock"} => Exists(n)
  PROVE  LockedInv'
<1>1. l \in Labels
  BY DEF Labels, LockWaits
<1>2. /\ Solo(p) /\ pc[p] = "idle" /\ pc'[p] = l /\ name'[p] = n
      /\ UNCHANGED <<sandboxes, vms, up>>
  BY <1>1, BeginSolo
<1>3. LockHeld(p)' /\ Knows(p)'
  BY <1>2 DEF LockHeld, Knows, NameHolding, StopHolding, UnlockedSteps, Exists
<1>4. p \notin vms
  BY <1>2 DEF LockedInv, VmsStarted
<1> QED
  BY <1>2, <1>3, <1>4, QuietLocked DEF Expiring

\* A handler that returns without writing a record keeps the invariant.
LEMMA ReturnLocked ==
  ASSUME IndexInv, LockedInv, NEW p \in Requests, pc[p] \notin {"idle", "done"},
         \/ pc[p] \in NameHolding /\ ReturnUnlocked(p)
         \/ pc[p] \in StopHolding /\ ReturnStopped(p)
         \/ Return(p) /\ UNCHANGED locks,
         UNCHANGED <<sandboxes, up>>, vms' \subseteq vms, p \notin vms'
  PROVE  LockedInv'
<1>1. Solo(p) /\ pc'[p] = "done" /\ LockHeld(p)' /\ Knows(p)'
  BY ReturnsSolo
<1> QED
  BY <1>1, QuietLocked

\* A handler that goes on with its locks and its copy keeps the invariant.
LEMMA GoLocked ==
  ASSUME IndexInv, LockedInv, NEW p \in Requests, pc[p] \notin {"idle", "done"},
         NEW l \in Labels, l # "idle", Goto(p, l), UNCHANGED <<name, rec>>, UNCHANGED locks,
         UNCHANGED <<sandboxes, up>>, vms' \subseteq vms \cup {p},
         p \in vms' => l \in Spawning,
         pc[p] \in Expiring => l \in Expiring,
         LockHeld(p)', Knows(p)'
  PROVE  LockedInv'
<1>1. OwnLocks(p)
  BY DEF OwnLocks, locks
<1>2. Solo(p) /\ pc'[p] = l
  BY <1>1, GoesOnSolo
<1> QED
  BY <1>2, QuietLocked

\* Taking the lock of a sandbox.
LEMMA AcquireNameLocked ==
  ASSUME IndexInv, LockedInv, NEW p \in Requests, AcquireName(p)
  PROVE  LockedInv'
<1> DEFINE l == IF pc[p] = "create_lock" THEN "create_check" ELSE "get_reread"
<1>1. /\ pc[p] \in {"create_lock", "get_lock"} /\ nameLock[name[p]] = None
      /\ nameLock' = [nameLock EXCEPT ![name[p]] = p] /\ lifecycle' = lifecycle
      /\ Goto(p, l) /\ UNCHANGED <<name, rec, sandboxes, vms, up>>
  BY DEF AcquireName, store, runtime, locals, process
<1>2. l \in Labels /\ l \in {"create_check", "get_reread"} /\ (l = "get_reread" => pc[p] = "get_lock")
  BY <1>1 DEF Labels
<1> HIDE DEF l
<1>3. name[p] \in Names
  BY <1>1, NamedOf
<1>4. OwnLocks(p) /\ nameLock'[name[p]] = p
  BY <1>1, <1>3 DEF OwnLocks, IndexInv, TypeOK, LocksOK
<1>5. Solo(p) /\ pc'[p] = l
  BY <1>1, <1>2, <1>4, GoesOnSolo
<1>6. LockHeld(p)' /\ Knows(p)'
  <2>1. Knows(p)
    BY DEF LockedInv
  <2> QED
    BY <1>1, <1>2, <1>4, <1>5, <2>1 DEF LockHeld, Knows, StopHolding, UnlockedSteps, Exists
<1>7. p \notin vms
  BY <1>1, NoVmYet DEF Spawning
<1> QED
  BY <1>1, <1>2, <1>5, <1>6, <1>7, QuietLocked DEF Expiring

\* The checks of createSandbox.
LEMMA CreateChecksLocked ==
  ASSUME IndexInv, LockedInv, NEW p \in Requests, CreateCheck(p) \/ CreateQuota(p)
  PROVE  LockedInv'
<1>1. /\ pc[p] \in {"create_check", "create_quota"} /\ UNCHANGED <<sandboxes, vms, up>>
  BY DEF CreateCheck, CreateQuota, store, runtime, process
<1>2. p \notin vms
  BY <1>1, NoVmYet DEF Spawning
<1>3. CASE ReturnUnlocked(p)
  BY <1>1, <1>2, <1>3, ReturnLocked DEF NameHolding
<1>4. ASSUME NEW l \in {"create_quota", "create_vm"}, Goto(p, l),
             UNCHANGED locks, UNCHANGED <<name, rec>>, ~Exists(name[p])
      PROVE  LockedInv'
  <2>1. l \in Labels /\ pc'[p] = l
    BY <1>4 DEF Goto, Labels, IndexInv, TypeOK, RequestsOK
  <2>2. LockHeld(p)
    BY DEF LockedInv
  <2>3. LockHeld(p)' /\ Knows(p)'
    BY <1>1, <1>4, <2>1, <2>2 DEF LockHeld, Knows, NameHolding, StopHolding, UnlockedSteps,
        Exists, locks
  <2> QED
    BY <1>1, <1>2, <1>4, <2>1, <2>3, GoLocked DEF Expiring
<1>5. CASE CreateCheck(p)
  BY <1>3, <1>4, <1>5 DEF CreateCheck, locals
<1>6. CASE CreateQuota(p)
  <2>1. pc[p] = "create_quota" /\ Knows(p)
    BY <1>6 DEF CreateQuota, LockedInv
  <2>2. ~Exists(name[p])
    BY <2>1 DEF Knows
  <2> QED
    BY <1>3, <1>4, <1>6, <2>2 DEF CreateQuota, locals
<1> QED
  BY <1>5, <1>6

\* Starting the VM of a new or a resumed sandbox.
LEMMA SpawnLocked ==
  ASSUME Locked, IndexInv, LockedInv, NEW p \in Requests, CreateVm(p) \/ ResumeVm(p)
  PROVE  LockedInv'
<1>1. /\ pc[p] \in {"create_vm", "resume_vm"} /\ UNCHANGED <<sandboxes, up>>
      /\ vms' = vms \cup {p}
  BY DEF CreateVm, ResumeVm, SpawnVm, store, process
<1>2. PICK l \in {"create_put", "create_undo", "resume_put", "resume_undo"} :
        /\ Goto(p, l) /\ UNCHANGED locks /\ UNCHANGED <<name, rec>>
        /\ pc[p] = "create_vm" <=> l \in {"create_put", "create_undo"}
  BY DEF CreateVm, ResumeVm, Spawned, Failing, Locked, locals
<1>3. l \in Labels /\ l \in Spawning /\ pc'[p] = l
  BY <1>2 DEF Goto, Labels, IndexInv, TypeOK, RequestsOK, Spawning
<1>4. LockHeld(p) /\ Knows(p)
  BY DEF LockedInv
<1>5. LockHeld(p)'
  BY <1>1, <1>2, <1>3, <1>4 DEF LockHeld, NameHolding, StopHolding, locks
<1>6. Knows(p)'
  BY <1>1, <1>2, <1>3, <1>4 DEF Knows, UnlockedSteps, CopyHolds, Exists
<1> QED
  BY <1>1, <1>2, <1>3, <1>5, <1>6, GoLocked DEF Expiring

\* A VM that cannot be started.
LEMMA SpawnErrorLocked ==
  ASSUME IndexInv, LockedInv, NEW p \in Requests, CreateVmError(p) \/ ResumeVmError(p)
  PROVE  LockedInv'
<1>1. /\ pc[p] \in {"create_vm", "resume_vm"} /\ ReturnUnlocked(p)
      /\ UNCHANGED <<sandboxes, vms, up>>
  BY DEF CreateVmError, ResumeVmError, store, runtime, process
<1>2. p \notin vms
  BY <1>1, NoVmYet DEF Spawning
<1> QED
  BY <1>1, <1>2, ReturnLocked DEF NameHolding

\* Undoing a start stops the VM.
LEMMA UndoLocked ==
  ASSUME Locked, IndexInv, LockedInv, NEW p \in Requests, Undo(p)
  PROVE  LockedInv'
<1>1. /\ pc[p] \in {"create_undo", "resume_undo"} /\ ReturnUnlocked(p)
      /\ UNCHANGED <<sandboxes, up>> /\ vms' = vms \ {p}
  BY DEF Undo, store, process, Failing, Locked
<1> QED
  BY <1>1, ReturnLocked DEF NameHolding

\* Before a new sandbox is recorded its only VM is the one just started.
LEMMA OnlyOwnVm ==
  ASSUME IndexInv, LockedInv, NEW p \in Requests,
         pc[p] \in {"create_vm", "create_put", "create_undo",
                    "resume_vm", "resume_put", "resume_undo"}
  PROVE  VmsOf(name[p]) \subseteq {p}
<1> SUFFICES ASSUME NEW s \in vms, name[s] = name[p], s # p PROVE FALSE
  BY DEF VmsOf
<1>1. Knows(p) /\ LockHeld(p)
  BY DEF LockedInv
<1>2. s \in Requests /\ nameLock[name[s]] # s
  BY <1>1 DEF LockHeld, NameHolding, IndexInv, TypeOK, RuntimeOK
<1>3. Exists(name[p]) /\ sandboxes[name[p]].status \in {"running", "stopping"}
  BY <1>2 DEF LockedInv, NoOrphanVm
<1> QED
  BY <1>1, <1>3 DEF Knows, CopyHolds

\* Before a stop is recorded the sandbox has no VM but its session's.
LEMMA OnlySessionVm ==
  ASSUME IndexInv, LockedInv, NEW p \in Requests,
         pc[p] \in {"stop_mark", "stop_vm", "stop_snap", "stop_put"}
  PROVE  VmsOf(name[p]) \subseteq {rec[p].session}
<1> SUFFICES ASSUME NEW s \in vms, name[s] = name[p], s # rec[p].session PROVE FALSE
  BY DEF VmsOf
<1>1. Knows(p)
  BY DEF LockedInv
<1>2. s \in Requests /\ rec[p] = sandboxes[name[p]]
  BY <1>1 DEF Knows, CopyHolds, IndexInv, TypeOK, RuntimeOK
<1>3. pc[s] \in Spawning
  BY <1>2 DEF LockedInv, NoOrphanVm
<1>4. s = p
  BY <1>2, <1>3, CriticalAlone DEF Spawning, Critical
<1> QED
  BY <1>3, <1>4 DEF Spawning

\* Recording a new sandbox.
LEMMA CreatePutLocked ==
  ASSUME IndexInv, LockedInv, NEW p \in Requests, CreatePut(p)
  PROVE  LockedInv'
<1> DEFINE row(b) == [status |-> "running", session |-> p, snapshot |-> None, persistent |-> b]
<1>1. pc[p] = "create_put" /\ ReturnUnlocked(p) /\ UNCHANGED <<vms, up>>
  BY DEF CreatePut, runtime, process
<1>2. Solo(p) /\ pc'[p] = "done" /\ LockHeld(p)' /\ Knows(p)' /\ UNCHANGED name
  BY <1>1, ReturnsSolo DEF NameHolding
<1>3. PICK b \in Persistence : PutSandbox(name[p], row(b))
  BY DEF CreatePut
<1>4. row(b) \in Records /\ row(b).session = p /\ row(b).snapshot = None /\ row(b).status = "running"
  BY PersistenceIsBoolean DEF Records, Statuses, SnapshotIds
<1> HIDE DEF row
<1>5. sandboxes' = [sandboxes EXCEPT ![name[p]] = row(b)]
  BY <1>3 DEF PutSandbox
<1>6. VmsOf(name[p]) \subseteq {p}
  BY <1>1, OnlyOwnVm
<1> QED
  BY <1>1, <1>2, <1>4, <1>5, <1>6, WriteLocked DEF Critical

\* Recording a resumed sandbox.
LEMMA ResumePutLocked ==
  ASSUME IndexInv, LockedInv, NEW p \in Requests, ResumePut(p)
  PROVE  LockedInv'
<1> DEFINE r == [rec[p] EXCEPT !.session = p, !.status = "running"]
<1>1. pc[p] = "resume_put" /\ ReturnUnlocked(p) /\ UNCHANGED <<vms, up>>
  BY DEF ResumePut, runtime, process
<1>2. Solo(p) /\ pc'[p] = "done" /\ LockHeld(p)' /\ Knows(p)' /\ UNCHANGED name
  BY <1>1, ReturnsSolo DEF NameHolding
<1>3. rec[p] \in Records /\ name[p] \in Names
  BY <1>1, HeldNames DEF CopyHeld
<1>4. /\ r \in Records /\ r.session = p /\ r.snapshot = rec[p].snapshot /\ r.status = "running"
  BY <1>3, SessionUpdate DEF Statuses, Records
<1>5. Exists(name[p]) /\ rec[p] = sandboxes[name[p]]
  BY <1>1 DEF LockedInv, Knows, CopyHolds
<1>6. sandboxes' = [sandboxes EXCEPT ![name[p]] = r]
  BY DEF ResumePut, PutSandbox
<1> HIDE DEF r
<1>7. r.snapshot # None => pc'[r.snapshot] \in Expiring \cup {"done"}
  <2>1. r.snapshot # None => pc[r.snapshot] \in Expiring \cup {"done"}
    BY <1>3, <1>4, <1>5 DEF LockedInv, RecordsSettled
  <2>2. r.snapshot \in Requests \cup {None}
    BY <1>4 DEF Records, SnapshotIds
  <2> QED
    BY <1>1, <1>2, <2>1, <2>2 DEF Solo, Alone
<1>8. VmsOf(name[p]) \subseteq {p}
  BY <1>1, OnlyOwnVm
<1> QED
  BY <1>1, <1>2, <1>4, <1>6, <1>7, <1>8, WriteLocked DEF Critical

\* The re-read of getSandbox.
LEMMA GetRereadLocked ==
  ASSUME IndexInv, LockedInv, NEW p \in Requests, GetReread(p)
  PROVE  LockedInv'
<1> DEFINE current == IF Exists(name[p]) THEN sandboxes[name[p]] ELSE rec[p]
<1>1. pc[p] = "get_reread" /\ UNCHANGED <<sandboxes, vms, up>>
  BY DEF GetReread, store, runtime, process
<1>2. p \notin vms /\ LockHeld(p) /\ Knows(p)
  BY <1>1, NoVmYet DEF Spawning, LockedInv
<1>3. Exists(name[p]) /\ current = sandboxes[name[p]]
  BY <1>1, <1>2 DEF Knows
<1> HIDE DEF current
<1>4. CASE ReturnUnlocked(p)
  BY <1>1, <1>2, <1>4, ReturnLocked DEF NameHolding
<1>5. CASE /\ current.status = "stopped" /\ Goto(p, "resume_vm")
           /\ rec' = [rec EXCEPT ![p] = current]
           /\ UNCHANGED locks /\ UNCHANGED name
  <2>1. OwnLocks(p) /\ rec'[p] = current /\ \A q \in Requests : q # p => rec'[q] = rec[q]
    BY <1>5 DEF OwnLocks, locks, IndexInv, TypeOK, RequestsOK
  <2>2. Solo(p) /\ pc'[p] = "resume_vm"
    BY <1>5, <2>1, GoesOnSolo DEF Labels
  <2>3. LockHeld(p)' /\ Knows(p)'
    BY <1>1, <1>2, <1>3, <1>5, <2>1, <2>2 DEF LockHeld, Knows, CopyHolds, NameHolding, StopHolding,
        UnlockedSteps, Exists, locks
  <2> QED
    BY <1>1, <1>2, <2>2, <2>3, QuietLocked DEF Expiring
<1> QED
  BY <1>4, <1>5 DEF GetReread, current

\* Taking the lifecycle lock.
LEMMA AcquireLifecycleLocked ==
  ASSUME IndexInv, LockedInv, NEW p \in Requests, AcquireLifecycle(p)
  PROVE  LockedInv'
<1>1. /\ pc[p] = "stop_lock" /\ lifecycle = None /\ lifecycle' = p /\ nameLock' = nameLock
      /\ Goto(p, "stop_reread") /\ UNCHANGED <<name, rec, sandboxes, vms, up>>
  BY DEF AcquireLifecycle, store, runtime, locals, process
<1>2. p \notin vms /\ Knows(p)
  BY <1>1, NoVmYet DEF Spawning, LockedInv
<1>3. OwnLocks(p)
  BY <1>1 DEF OwnLocks
<1>4. Solo(p) /\ pc'[p] = "stop_reread"
  BY <1>1, <1>3, GoesOnSolo DEF Labels
<1>5. LockHeld(p)' /\ Knows(p)'
  BY <1>1, <1>2, <1>4 DEF LockHeld, Knows, NameHolding, UnlockedSteps, Exists
<1> QED
  BY <1>1, <1>2, <1>4, <1>5, QuietLocked DEF Expiring

\* The re-read of stopRecord.
LEMMA StopRereadLocked ==
  ASSUME IndexInv, LockedInv, NEW p \in Requests, StopReread(p)
  PROVE  LockedInv'
<1> DEFINE current == IF Exists(name[p]) THEN sandboxes[name[p]] ELSE rec[p]
<1>1. pc[p] = "stop_reread" /\ UNCHANGED <<sandboxes, vms, up>>
  BY DEF StopReread, store, runtime, process
<1>2. p \notin vms /\ LockHeld(p) /\ Knows(p)
  BY <1>1, NoVmYet DEF Spawning, LockedInv
<1>3. Exists(name[p]) /\ current = sandboxes[name[p]]
  BY <1>1, <1>2 DEF Knows
<1> HIDE DEF current
<1>4. CASE ReturnStopped(p)
  BY <1>1, <1>2, <1>4, ReturnLocked DEF StopHolding
<1>5. CASE /\ current.status = "running" /\ Goto(p, "stop_mark")
           /\ rec' = [rec EXCEPT ![p] = current]
           /\ UNCHANGED locks /\ UNCHANGED name
  <2>1. OwnLocks(p) /\ rec'[p] = current /\ \A q \in Requests : q # p => rec'[q] = rec[q]
    BY <1>5 DEF OwnLocks, locks, IndexInv, TypeOK, RequestsOK
  <2>2. Solo(p) /\ pc'[p] = "stop_mark"
    BY <1>5, <2>1, GoesOnSolo DEF Labels
  <2>3. LockHeld(p)' /\ Knows(p)'
    BY <1>1, <1>2, <1>3, <1>5, <2>1, <2>2 DEF LockHeld, Knows, CopyHolds, NameHolding, StopHolding,
        UnlockedSteps, Exists, locks
  <2> QED
    BY <1>1, <1>2, <2>2, <2>3, QuietLocked DEF Expiring
<1> QED
  BY <1>4, <1>5 DEF StopReread, current

\* Marking the record "stopping".
LEMMA StopMarkLocked ==
  ASSUME Locked, IndexInv, LockedInv, NEW p \in Requests, StopMark(p)
  PROVE  LockedInv'
<1> DEFINE r == [rec[p] EXCEPT !.status = "stopping"]
<1>1. /\ pc[p] = "stop_mark" /\ Goto(p, "stop_vm") /\ rec' = [rec EXCEPT ![p] = r]
      /\ UNCHANGED <<vms, up, name>> /\ UNCHANGED locks
      /\ sandboxes' = [sandboxes EXCEPT ![name[p]] = r]
  BY DEF StopMark, PutSandbox, Failing, Locked, runtime, process
<1>2. LockHeld(p) /\ Knows(p)
  BY DEF LockedInv
<1>3. rec[p] \in Records /\ name[p] \in Names
  BY <1>1, HeldNames DEF CopyHeld
<1>4. /\ r \in Records /\ r.session = rec[p].session /\ r.snapshot = rec[p].snapshot
      /\ r.status = "stopping" /\ r # None
  BY <1>3, StatusUpdate, NoneIsNoRecord DEF Statuses, Records
<1>5. Exists(name[p]) /\ rec[p] = sandboxes[name[p]]
  BY <1>1, <1>2 DEF Knows, CopyHolds
<1> HIDE DEF r
<1>6. /\ OwnLocks(p) /\ rec'[p] = r /\ \A q \in Requests : q # p => rec'[q] = rec[q]
      /\ sandboxes'[name[p]] = r
  BY <1>1, <1>3 DEF OwnLocks, locks, IndexInv, TypeOK, RequestsOK, StoreOK
<1>7. Solo(p) /\ pc'[p] = "stop_vm"
  BY <1>1, <1>6, GoesOnSolo DEF Labels
<1>8. LockHeld(p)' /\ Knows(p)'
  BY <1>1, <1>2, <1>4, <1>6, <1>7 DEF LockHeld, Knows, CopyHolds, NameHolding, StopHolding,
      UnlockedSteps, Exists, locks
<1>9. /\ pc'[r.session] = "done"
      /\ r.snapshot # None => pc'[r.snapshot] \in Expiring \cup {"done"}
  <2>1. /\ pc[r.session] = "done"
        /\ r.snapshot # None => pc[r.snapshot] \in Expiring \cup {"done"}
    BY <1>3, <1>4, <1>5 DEF LockedInv, RecordsSettled
  <2>2. r.session \in Requests /\ r.snapshot \in Requests \cup {None}
    BY <1>4 DEF Records, SnapshotIds
  <2> QED
    BY <1>1, <1>7, <2>1, <2>2 DEF Solo, Alone, Expiring
<1>10. VmsOf(name[p]) \subseteq {r.session}
  BY <1>1, <1>4, OnlySessionVm
<1> QED
  BY <1>1, <1>4, <1>7, <1>8, <1>9, <1>10, WriteLocked DEF Critical

\* The runtime's stop.
LEMMA StopVmLocked ==
  ASSUME IndexInv, LockedInv, NEW p \in Requests, StopVm(p) \/ StopVmError(p)
  PROVE  LockedInv'
<1>1. pc[p] = "stop_vm" /\ UNCHANGED <<sandboxes, up>> /\ vms' \subseteq vms
  BY DEF StopVm, StopVmError, StopEffect, store, runtime, process
<1>2. p \notin vms /\ LockHeld(p) /\ Knows(p)
  BY <1>1, NoVmYet DEF Spawning, LockedInv
<1>3. CASE ReturnStopped(p)
  BY <1>1, <1>2, <1>3, ReturnLocked DEF StopHolding
<1>4. ASSUME NEW l \in {"stop_snap", "stop_put"}, Goto(p, l), UNCHANGED locks,
             UNCHANGED <<name, rec>>, vms' = vms \ {rec[p].session}
      PROVE  LockedInv'
  <2>1. l \in Labels /\ pc'[p] = l
    BY <1>4 DEF Goto, Labels, IndexInv, TypeOK, RequestsOK
  <2>2. LockHeld(p)' /\ Knows(p)'
    BY <1>1, <1>2, <1>4, <2>1 DEF LockHeld, Knows, CopyHolds, NameHolding, StopHolding,
        UnlockedSteps, Exists, locks
  <2> QED
    BY <1>1, <1>2, <1>4, <2>1, <2>2, GoLocked DEF Expiring
<1> QED
  BY <1>3, <1>4 DEF StopVm, StopVmError, StopEffect, locals

\* Recording the snapshot.
LEMMA StopSnapLocked ==
  ASSUME IndexInv, LockedInv, NEW p \in Requests, StopSnap(p)
  PROVE  LockedInv'
<1>1. pc[p] = "stop_snap" /\ UNCHANGED <<sandboxes, vms, up>>
  BY DEF StopSnap, PutSnapshot, store, runtime, process
<1>2. p \notin vms /\ LockHeld(p) /\ Knows(p)
  BY <1>1, NoVmYet DEF Spawning, LockedInv
<1>3. CASE ReturnStopped(p)
  BY <1>1, <1>2, <1>3, ReturnLocked DEF StopHolding
<1>4. CASE Goto(p, "stop_put") /\ UNCHANGED locks /\ UNCHANGED locals
  <2>1. pc'[p] = "stop_put" /\ UNCHANGED <<name, rec>>
    BY <1>4 DEF Goto, locals, IndexInv, TypeOK, RequestsOK
  <2>2. LockHeld(p)' /\ Knows(p)'
    BY <1>1, <1>2, <1>4, <2>1 DEF LockHeld, Knows, CopyHolds, NameHolding, StopHolding,
        UnlockedSteps, Exists, locks
  <2> QED
    BY <1>1, <1>2, <1>4, <2>1, <2>2, GoLocked DEF Expiring, Labels
<1> QED
  BY <1>3, <1>4 DEF StopSnap

\* Recording the stop.
LEMMA StopPutLocked ==
  ASSUME Locked, IndexInv, LockedInv, NEW p \in Requests, StopPut(p)
  PROVE  LockedInv'
<1> DEFINE x == IF keep[p] THEN p ELSE rec[p].snapshot
           r == [rec[p] EXCEPT !.status = "stopped", !.snapshot = x]
<1>1. pc[p] = "stop_put" /\ UNCHANGED <<vms, up>>
  BY DEF StopPut, runtime, process
<1>2. LockHeld(p) /\ Knows(p)
  BY DEF LockedInv
<1>3. rec[p] \in Records /\ name[p] \in Names
  BY <1>1, HeldNames DEF CopyHeld
<1>4. x \in SnapshotIds
  BY <1>3 DEF Records, SnapshotIds
<1>5. /\ r \in Records /\ r.session = rec[p].session /\ r.snapshot = x
      /\ r.status = "stopped"
  <2> HIDE DEF x
  <2> QED
    BY <1>3, <1>4 DEF Statuses, Records
<1>6. sandboxes' = [sandboxes EXCEPT ![name[p]] = r]
  BY DEF StopPut, PutSandbox, Failing, Locked
<1>7. Exists(name[p]) /\ rec[p] = sandboxes[name[p]] /\ rec[p].session \notin vms
  BY <1>1, <1>2 DEF Knows, CopyHolds
<1>8. /\ Solo(p) /\ pc'[p] \in Expiring \cup {"done"} /\ LockHeld(p)' /\ Knows(p)'
      /\ UNCHANGED name
  <2>1. CASE ReturnStopped(p)
    BY <1>1, <2>1, ReturnsSolo DEF StopHolding
  <2>2. CASE Goto(p, "expire_read") /\ lifecycle' = None /\ UNCHANGED <<nameLock, locals>>
    <3>1. OwnLocks(p)
      BY <1>1, <1>2, <2>2 DEF LockHeld, StopHolding, OwnLocks
    <3>2. Solo(p) /\ pc'[p] = "expire_read" /\ UNCHANGED name
      BY <2>2, <3>1, GoesOnSolo DEF Labels, locals
    <3> QED
      BY <3>2 DEF LockHeld, Knows, NameHolding, StopHolding, UnlockedSteps, Expiring
  <2> QED
    BY <2>1, <2>2 DEF StopPut, Failing, Locked
<1> HIDE DEF r
<1>9. pc'[r.session] = "done"
  <2>1. pc[r.session] = "done" /\ r.session \in Requests
    BY <1>3, <1>5, <1>7 DEF LockedInv, RecordsSettled, Records
  <2> QED
    BY <1>1, <1>8, <2>1 DEF Solo, Alone
<1>10. r.snapshot # None => pc'[r.snapshot] \in Expiring \cup {"done"}
  <2>1. CASE keep[p]
    BY <1>5, <1>8, <2>1
  <2>2. CASE ~keep[p]
    <3>1. r.snapshot # None => pc[r.snapshot] \in Expiring \cup {"done"}
      BY <1>3, <1>5, <1>7, <2>2 DEF LockedInv, RecordsSettled
    <3>2. r.snapshot \in Requests \cup {None}
      BY <1>4, <1>5 DEF SnapshotIds
    <3> QED
      BY <1>1, <1>8, <3>1, <3>2 DEF Solo, Alone, Expiring
  <2> QED
    BY <2>1, <2>2
<1>11. VmsOf(name[p]) = {}
  BY <1>1, <1>7, OnlySessionVm DEF VmsOf
<1> QED
  BY <1>1, <1>5, <1>6, <1>8, <1>9, <1>10, <1>11, WriteLocked DEF Critical, Expiring

\* Rewriting a snapshot's expiration, and the handlers that delete snapshots.
LEMMA SnapshotStepsLocked ==
  ASSUME IndexInv, LockedInv, NEW p \in Requests,
         \/ ExpireRead(p) \/ ExpirePut(p) \/ DeleteSnapshotImage(p) \/ DeleteSnapshotRecord(p)
         \/ GcList(p) \/ GcImage(p) \/ GcRecord(p) \/ GcDone(p)
  PROVE  LockedInv'
<1> DEFINE Own == Expiring \cup {"image", "image_record", "gc_list", "gc_image", "gc_record"}
<1>1. pc[p] \in Own /\ UNCHANGED <<sandboxes, vms, up>> /\ UNCHANGED locks
  BY DEF ExpireRead, ExpirePut, DeleteSnapshotImage, DeleteSnapshotRecord, GcList, GcImage,
      GcRecord, GcDone, PutSnapshot, DeleteSnapshot, store, runtime, process, Expiring
<1>2. \/ Return(p)
      \/ \E l \in Own : /\ Goto(p, l) /\ UNCHANGED <<name, rec>>
                        /\ pc[p] \in Expiring => l \in Expiring
  BY DEF ExpireRead, ExpirePut, DeleteSnapshotImage, DeleteSnapshotRecord, GcList, GcImage,
      GcRecord, GcDone, TakeUp, locals, Expiring
<1>3. p \notin vms
  BY <1>1, NoVmYet DEF Spawning, Expiring
<1>4. CASE Return(p)
  BY <1>1, <1>3, <1>4, ReturnLocked DEF Expiring
<1>5. ASSUME NEW l \in Own, Goto(p, l), UNCHANGED <<name, rec>>,
             pc[p] \in Expiring => l \in Expiring
      PROVE  LockedInv'
  <2>1. l \in Labels /\ l # "idle" /\ pc'[p] = l
    BY <1>5 DEF Goto, Labels, Expiring, IndexInv, TypeOK, RequestsOK
  <2>2. LockHeld(p)' /\ Knows(p)'
    BY <2>1 DEF LockHeld, Knows, NameHolding, StopHolding, UnlockedSteps, Expiring
  <2>3. pc[p] \notin {"idle", "done"}
    BY <1>1 DEF Expiring
  <2> HIDE DEF Own
  <2> QED
    BY <1>1, <1>3, <1>5, <2>1, <2>2, <2>3, GoLocked
<1> QED
  BY <1>2, <1>4, <1>5

\* The handlers that may begin.
LEMMA StartLocked ==
  ASSUME Locked, IndexInv, LockedInv, NEW p \in Requests, Start(p)
  PROVE  LockedInv'
<1>1. CASE CreateStart(p) \/ DeleteSnapshotStart(p) \/ GcStart(p)
  BY <1>1, BeginLocked DEF CreateStart, DeleteSnapshotStart, GcStart
<1>2. CASE GetStart(p) \/ TimeoutStart(p)
  BY <1>2, BeginLocked DEF GetStart, TimeoutStart
<1>3. CASE StopStart(p)
  BY <1>3, BeginLocked DEF StopStart
<1>4. CASE ExtendStart(p) \/ UpdateStart(p) \/ DeleteStart(p)
  BY <1>4 DEF ExtendStart, UpdateStart, DeleteStart, Begin, Locked
<1> QED
  BY <1>1, <1>2, <1>3, <1>4 DEF Start

\* Every step keeps the invariant of the locked handlers.
LEMMA LockedStep ==
  ASSUME Locked, IndexInv, LockedInv, [Next]_vars
  PROVE  LockedInv'
<1>1. ASSUME NEW p \in Requests, Start(p) PROVE LockedInv'
  BY <1>1, StartLocked
<1>2. ASSUME NEW p \in Requests, Step(p) PROVE LockedInv'
  <2>1. CASE AcquireName(p) \/ CreateCheck(p) \/ CreateQuota(p) \/ CreateVm(p)
             \/ CreateVmError(p) \/ CreatePut(p) \/ Undo(p)
    BY <2>1, AcquireNameLocked, CreateChecksLocked, SpawnLocked, SpawnErrorLocked,
       CreatePutLocked, UndoLocked
  <2>2. CASE GetReread(p) \/ ResumeVm(p) \/ ResumeVmError(p) \/ ResumePut(p)
    BY <2>2, GetRereadLocked, SpawnLocked, SpawnErrorLocked, ResumePutLocked
  <2>3. CASE AcquireLifecycle(p) \/ StopReread(p) \/ StopMark(p) \/ StopVm(p) \/ StopVmError(p)
             \/ StopSnap(p) \/ StopPut(p)
    BY <2>3, AcquireLifecycleLocked, StopRereadLocked, StopMarkLocked, StopVmLocked,
       StopSnapLocked, StopPutLocked
  <2>4. CASE ExpireRead(p) \/ ExpirePut(p) \/ DeleteSnapshotImage(p) \/ DeleteSnapshotRecord(p)
             \/ GcList(p) \/ GcImage(p) \/ GcRecord(p) \/ GcDone(p)
    BY <2>4, SnapshotStepsLocked
  <2>5. CASE CreatePutError(p) \/ ResumePutError(p)
    BY <2>5 DEF CreatePutError, ResumePutError, Failing, Locked
  <2>6. CASE UpdateFields(p) \/ PolicyVm(p) \/ WriteBack(p) \/ DeleteVm(p) \/ DeleteList(p)
             \/ DeleteImage(p) \/ DeleteRecord(p) \/ DeleteRow(p)
    <3>1. pc[p] \in UnlockedSteps
      BY <2>6 DEF UpdateFields, PolicyVm, WriteBack, DeleteVm, DeleteList, DeleteImage,
          DeleteRecord, DeleteRow, UnlockedSteps
    <3> QED
      BY <3>1 DEF LockedInv, Knows
  <2> QED
    BY <1>2, <2>1, <2>2, <2>3, <2>4, <2>5, <2>6 DEF Step
<1>3. CASE Crash \/ Restart
  BY <1>3 DEF Crash, Restart, Failing, Locked, LockedInv
<1>4. CASE Idle \/ UNCHANGED vars
  <2>1. UNCHANGED <<sandboxes, vms, nameLock, lifecycle, pc, name, rec, up>>
    BY <1>4 DEF Idle, vars, store, runtime, locks, locals, process
  <2> QED
    BY <2>1 DEF LockedInv, LockHeld, Knows, CopyHolds, Exists, RecordsSettled, VmsStarted,
        NoOrphanVm
<1> QED
  BY <1>1, <1>2, <1>3, <1>4 DEF Next

\* With the handlers that lock, and no step whose effect is in doubt, what the
\* handlers read under their locks stays so until they write.
THEOREM LockedInvariant == ASSUME Locked PROVE Spec => []LockedInv
<1>1. Init => LockedInv
  BY DEF Init, LockedInv, LockHeld, Knows, RecordsSettled, VmsStarted, NoOrphanVm, Exists,
      NameHolding, StopHolding, UnlockedSteps
<1>2. IndexInv /\ LockedInv /\ [Next]_vars => LockedInv'
  BY LockedStep
<1> QED
  BY <1>1, <1>2, IndexInvariant, PTL DEF Spec

\* At most one VM runs for a name.
LEMMA OneVm ==
  ASSUME IndexInv, LockedInv
  PROVE  OneVmPerName
<1> SUFFICES ASSUME NEW n \in Names, NEW s \in vms, NEW t \in vms,
                    name[s] = n, name[t] = n, s # t
             PROVE  FALSE
  BY DEF OneVmPerName, VmsOf
<1>1. s \in Requests /\ t \in Requests
  BY DEF IndexInv, TypeOK, RuntimeOK
<1>2. ASSUME NEW u \in vms, NEW v \in vms, name[u] = n, name[v] = n, u # v,
             pc[u] \in Spawning
      PROVE  FALSE
  <2>1. u \in Requests /\ VmsOf(n) \subseteq {u}
    BY <1>2, OnlyOwnVm DEF Spawning, IndexInv, TypeOK, RuntimeOK
  <2> QED
    BY <1>2, <2>1 DEF VmsOf
<1>3. pc[s] \notin Spawning /\ pc[t] \notin Spawning
  BY <1>2
<1> QED
  BY <1>3 DEF LockedInv, NoOrphanVm

\* Concurrent requests never run two VMs under one name, for any number of
\* requests and names, if the handlers that change a record lock it first.
THEOREM OneVmPerSandbox == ASSUME Locked PROVE Spec => []OneVmPerName
<1>1. IndexInv /\ LockedInv => OneVmPerName
  BY OneVm
<1> QED
  BY <1>1, IndexInvariant, LockedInvariant, PTL

\* No VM is forgotten by the handlers that lock.
THEOREM NoVmIsForgotten == ASSUME Locked PROVE Spec => []NoOrphanVm
<1>1. LockedInv => NoOrphanVm
  BY DEF LockedInv
<1> QED
  BY <1>1, LockedInvariant, PTL

\* The steps that change rows.
LEMMA RowsChange ==
  ASSUME Locked, IndexInv, LockedInv, [Next]_vars
  PROVE  \/ UNCHANGED sandboxes
         \/ \E p \in Requests : CreatePut(p) \/ ResumePut(p) \/ StopMark(p) \/ StopPut(p)
<1>1. CASE Crash \/ Restart
  BY <1>1 DEF Crash, Restart, Failing, Locked, LockedInv
<1>2. CASE Idle \/ UNCHANGED vars
  BY <1>2 DEF Idle, vars, store
<1>3. ASSUME NEW p \in Requests, Start(p) PROVE UNCHANGED sandboxes
  BY <1>3 DEF Start, CreateStart, GetStart, StopStart, TimeoutStart, ExtendStart, UpdateStart,
      DeleteStart, DeleteSnapshotStart, GcStart, Begin, store
<1>4. ASSUME NEW p \in Requests, Step(p),
             ~(CreatePut(p) \/ ResumePut(p) \/ StopMark(p) \/ StopPut(p))
      PROVE  UNCHANGED sandboxes
  <2>1. pc[p] \notin UnlockedSteps
    BY DEF LockedInv, Knows
  <2>2. CASE AcquireName(p) \/ CreateCheck(p) \/ CreateQuota(p) \/ CreateVm(p)
             \/ CreateVmError(p) \/ CreatePutError(p) \/ Undo(p)
    BY <2>2 DEF AcquireName, CreateCheck, CreateQuota, CreateVm, CreateVmError,
        CreatePutError, Undo, store
  <2>3. CASE GetReread(p) \/ ResumeVm(p) \/ ResumeVmError(p) \/ ResumePutError(p)
    BY <2>3 DEF GetReread, ResumeVm, ResumeVmError, ResumePutError, store
  <2>4. CASE AcquireLifecycle(p) \/ StopReread(p) \/ StopVm(p) \/ StopVmError(p) \/ StopSnap(p)
    BY <2>4 DEF AcquireLifecycle, StopReread, StopVm, StopVmError, StopSnap, PutSnapshot, store
  <2>5. CASE ExpireRead(p) \/ ExpirePut(p) \/ DeleteSnapshotImage(p) \/ DeleteSnapshotRecord(p)
             \/ GcList(p) \/ GcImage(p) \/ GcRecord(p) \/ GcDone(p)
    BY <2>5 DEF ExpireRead, ExpirePut, DeleteSnapshotImage, DeleteSnapshotRecord, GcList,
        GcImage, GcRecord, GcDone, PutSnapshot, DeleteSnapshot, store
  <2>6. CASE UpdateFields(p) \/ PolicyVm(p) \/ WriteBack(p) \/ DeleteVm(p) \/ DeleteList(p)
             \/ DeleteImage(p) \/ DeleteRecord(p) \/ DeleteRow(p)
    BY <2>1, <2>6 DEF UpdateFields, PolicyVm, WriteBack, DeleteVm, DeleteList, DeleteImage,
        DeleteRecord, DeleteRow, UnlockedSteps
  <2> QED
    BY <1>4, <2>2, <2>3, <2>4, <2>5, <2>6 DEF Step
<1> QED
  BY <1>1, <1>2, <1>3, <1>4 DEF Next

\* What each of them writes, over which row.
LEMMA Writes ==
  ASSUME Locked, IndexInv, LockedInv, NEW p \in Requests,
         CreatePut(p) \/ ResumePut(p) \/ StopMark(p) \/ StopPut(p)
  PROVE  \E r \in Records :
           /\ name[p] \in Names /\ pc[p] # "done" /\ sandboxes' = [sandboxes EXCEPT ![name[p]] = r]
           /\ CreatePut(p) => ~Exists(name[p]) /\ r.snapshot = None
           /\ ~CreatePut(p) => Exists(name[p])
           /\ ResumePut(p) => r.session = p /\ r.snapshot = sandboxes[name[p]].snapshot
           /\ StopMark(p) => /\ sandboxes[name[p]].status = "running"
                             /\ r.snapshot = sandboxes[name[p]].snapshot
           /\ StopPut(p) => /\ r.status = "stopped"
                            /\ r.snapshot = IF keep[p] THEN p ELSE sandboxes[name[p]].snapshot
<1>1. pc[p] \in {"create_put", "resume_put", "stop_mark", "stop_put"} /\ Knows(p)
  BY DEF CreatePut, ResumePut, StopMark, StopPut, LockedInv
<1>2. name[p] \in Names
  BY <1>1, NamedOf
<1>3. CASE CreatePut(p)
  <2> DEFINE row(b) == [status |-> "running", session |-> p, snapshot |-> None, persistent |-> b]
  <2>1. pc[p] = "create_put" /\ \E b \in Persistence : sandboxes' = [sandboxes EXCEPT ![name[p]] = row(b)]
    BY <1>3 DEF CreatePut, PutSandbox
  <2>2. \A b \in Persistence : row(b) \in Records /\ row(b).session = p /\ row(b).snapshot = None
    BY PersistenceIsBoolean DEF Records, Statuses, SnapshotIds
  <2> HIDE DEF row
  <2> QED
    BY <1>1, <1>2, <1>3, <2>1, <2>2 DEF Knows, ResumePut, StopMark, StopPut
<1>4. CASE ~CreatePut(p)
  <2>1. pc[p] \in {"resume_put", "stop_mark", "stop_put"}
    BY <1>4 DEF ResumePut, StopMark, StopPut
  <2>2. rec[p] \in Records /\ Exists(name[p]) /\ rec[p] = sandboxes[name[p]]
    BY <1>1, <2>1, HeldNames DEF CopyHeld, Knows, CopyHolds
  <2>3. CASE ResumePut(p)
    <3> DEFINE r == [rec[p] EXCEPT !.session = p, !.status = "running"]
    <3>1. pc[p] = "resume_put" /\ sandboxes' = [sandboxes EXCEPT ![name[p]] = r]
      BY <2>3 DEF ResumePut, PutSandbox
    <3>2. r \in Records /\ r.session = p /\ r.snapshot = rec[p].snapshot
      BY <2>2 DEF Records, Statuses
    <3> HIDE DEF r
    <3> QED
      BY <1>2, <1>4, <2>2, <2>3, <3>1, <3>2 DEF StopMark, StopPut
  <2>4. CASE StopMark(p)
    <3> DEFINE r == [rec[p] EXCEPT !.status = "stopping"]
    <3>1. pc[p] = "stop_mark" /\ sandboxes' = [sandboxes EXCEPT ![name[p]] = r]
      BY <2>4 DEF StopMark, PutSandbox, Failing, Locked
    <3>2. r \in Records /\ r.snapshot = rec[p].snapshot
      BY <2>2 DEF Records, Statuses
    <3> HIDE DEF r
    <3> QED
      BY <1>1, <1>2, <1>4, <2>2, <2>4, <3>1, <3>2 DEF ResumePut, StopPut, Knows, CopyHolds
  <2>5. CASE StopPut(p)
    <3> DEFINE x == IF keep[p] THEN p ELSE rec[p].snapshot
               r == [rec[p] EXCEPT !.status = "stopped", !.snapshot = x]
    <3>1. pc[p] = "stop_put" /\ sandboxes' = [sandboxes EXCEPT ![name[p]] = r]
      BY <2>5 DEF StopPut, PutSandbox, Failing, Locked
    <3>2. x \in SnapshotIds
      BY <2>2 DEF Records, SnapshotIds
    <3>3. r \in Records /\ r.snapshot = x /\ r.status = "stopped"
      <4> HIDE DEF x
      <4> QED
        BY <2>2, <3>2 DEF Records, Statuses
    <3> HIDE DEF r
    <3> QED
      BY <1>1, <1>2, <1>4, <2>2, <2>5, <3>1, <3>3 DEF ResumePut, StopMark
  <2> QED
    BY <1>4, <2>3, <2>4, <2>5
<1> QED
  BY <1>3, <1>4

-----------------------------------------------------------------------------
(* The refinement.  A step is seen by the abstract sandbox only through the  *)
(* VMs of a name, the images under their disks, and the resume point.        *)

Elsewhere(p) ==
    \A q \in Requests : q # p => pc'[q] = pc[q] /\ name'[q] = name[q] /\ keep'[q] = keep[q]
AtRest(n) ==
    /\ VmsOf(n)' = VmsOf(n)
    /\ ResumePoint(n)' = ResumePoint(n)
    /\ \A s \in VmsOf(n) : boot'[s] = boot[s]

\* A name at rest keeps its VM, its disk and its resume point.
LEMMA RestKeeps ==
  ASSUME IndexInv, NEW n \in Names, AtRest(n)
  PROVE  Live(n)' = Live(n) /\ Disk(n)' = Disk(n) /\ ResumePoint(n)' = ResumePoint(n)
<1>1. VmsOf(n)' = VmsOf(n)
  BY DEF AtRest
<1>2. Live(n)' = Live(n)
  BY <1>1 DEF Live
<1>3. Live(n) # None => Live(n) \in VmsOf(n)
  BY DEF Live
<1>4. Live(n) # None => boot'[Live(n)] = boot[Live(n)]
  BY <1>3 DEF AtRest
<1> QED
  BY <1>2, <1>4 DEF AtRest, Disk

\* When every name is at rest the abstract sandbox does nothing.
LEMMA StutterStep ==
  ASSUME IndexInv, \A n \in Names : AtRest(n)
  PROVE  UNCHANGED Durable!vars
<1>1. \A n \in Names : Live(n)' = Live(n) /\ Disk(n)' = Disk(n) /\ ResumePoint(n)' = ResumePoint(n)
  BY RestKeeps
<1> QED
  BY <1>1 DEF Durable!vars

\* Starting the only VM of a name, from its resume point if it has one.
LEMMA BootStep ==
  ASSUME IndexInv, NEW n \in Names, NEW p \in Requests, VmsOf(n) = {}, VmsOf(n)' = {p},
         boot'[p] \in SnapshotIds, ResumePoint(n) # None => boot'[p] = ResumePoint(n),
         ResumePoint(n)' = ResumePoint(n), \A m \in Names : m # n => AtRest(m)
  PROVE  Durable!Boot(n)
<1>1. \A m \in Names : m # n =>
         Live(m)' = Live(m) /\ Disk(m)' = Disk(m) /\ ResumePoint(m)' = ResumePoint(m)
  BY RestKeeps
<1>2. Live(n) = None /\ Live(n)' = p
  BY DEF Live
<1>3. Disk(n)' = boot'[p]
  BY <1>2, NoneIsFresh DEF Disk
<1> DEFINE x == boot'[p]
<1>4. x \in Requests \cup {None} /\ (ResumePoint(n) # None => x = ResumePoint(n))
  BY DEF SnapshotIds
<1>5. [m \in Names |-> Live(m)]' = [[m \in Names |-> Live(m)] EXCEPT ![n] = p]
  BY <1>1, <1>2
<1>6. [m \in Names |-> Disk(m)]' = [[m \in Names |-> Disk(m)] EXCEPT ![n] = x]
  BY <1>1, <1>3
<1>7. [m \in Names |-> ResumePoint(m)]' = [m \in Names |-> ResumePoint(m)]
  BY <1>1
<1> HIDE DEF x
<1> QED
  BY <1>2, <1>4, <1>5, <1>6, <1>7 DEF Durable!Boot

\* Stopping the VM of a name, with its disk captured or not.
LEMMA HaltStep ==
  ASSUME IndexInv, NEW n \in Names, VmsOf(n) # {}, VmsOf(n)' = {},
         \/ ResumePoint(n)' = ResumePoint(n)
         \/ \E x \in Requests : ResumePoint(n)' = x /\ x # ResumePoint(n),
         \A m \in Names : m # n => AtRest(m)
  PROVE  Durable!Halt(n)
<1>1. \A m \in Names : m # n =>
         Live(m)' = Live(m) /\ Disk(m)' = Disk(m) /\ ResumePoint(m)' = ResumePoint(m)
  BY RestKeeps
<1>2. Live(n) # None
  <2>1. VmsOf(n) \subseteq Requests
    BY DEF VmsOf, IndexInv, TypeOK, RuntimeOK
  <2> QED
    BY <2>1, NoneIsFresh DEF Live
<1>3. Live(n)' = None
  BY DEF Live
<1>4. Disk(n)' = None
  BY <1>3 DEF Disk
<1>5. [m \in Names |-> Live(m)]' = [[m \in Names |-> Live(m)] EXCEPT ![n] = None]
  BY <1>1, <1>3
<1>6. [m \in Names |-> Disk(m)]' = [[m \in Names |-> Disk(m)] EXCEPT ![n] = None]
  BY <1>1, <1>4
<1>7. CASE ResumePoint(n)' = ResumePoint(n)
  <2>1. [m \in Names |-> ResumePoint(m)]' = [m \in Names |-> ResumePoint(m)]
    BY <1>1, <1>7
  <2> QED
    BY <1>2, <1>5, <1>6, <2>1 DEF Durable!Halt
<1>8. ASSUME NEW x \in Requests, ResumePoint(n)' = x, x # ResumePoint(n)
      PROVE  Durable!Halt(n)
  <2>1. [m \in Names |-> ResumePoint(m)]' = [[m \in Names |-> ResumePoint(m)] EXCEPT ![n] = x]
    BY <1>1, <1>8
  <2> QED
    BY <1>2, <1>5, <1>6, <1>8, <2>1 DEF Durable!Halt
<1> QED
  BY <1>7, <1>8

\* The request that has captured a disk is the only one, and its snapshot is
\* the resume point; without one the record says.
LEMMA PointIs ==
  ASSUME IndexInv, LockedInv, NEW n \in Names
  PROVE  /\ \A p \in Capturing(n) : Capturing(n) = {p} /\ ResumePoint(n) = p
         /\ Capturing(n) = {} => ResumePoint(n) = IF Exists(n) THEN sandboxes[n].snapshot ELSE None
<1>1. ASSUME NEW p \in Capturing(n), NEW q \in Capturing(n) PROVE p = q
  BY <1>1, CriticalAlone DEF Capturing, Captures, Critical
<1>2. \A p \in Capturing(n) : Capturing(n) = {p}
  BY <1>1
<1> QED
  BY <1>2 DEF ResumePoint

\* The names that a step of p does not touch are at rest.
LEMMA Untouched ==
  ASSUME IndexInv, NEW p \in Requests, Elsewhere(p), NEW n \in Names,
         sandboxes'[n] = sandboxes[n], VmsOf(n)' = VmsOf(n),
         \A s \in VmsOf(n) : boot'[s] = boot[s],
         Captures(p)' /\ name'[p] = n <=> Captures(p) /\ name[p] = n
  PROVE  AtRest(n)
<1>1. \A q \in Requests : Captures(q)' /\ name'[q] = n <=> Captures(q) /\ name[q] = n
  BY DEF Elsewhere, Captures
<1>2. Capturing(n)' = Capturing(n)
  BY <1>1 DEF Capturing
<1>3. ResumePoint(n)' = ResumePoint(n)
  BY <1>2 DEF ResumePoint, Exists
<1> QED
  BY <1>3 DEF AtRest

\* A step that writes no record and changes no VM.
LEMMA QuietRest ==
  ASSUME IndexInv, NEW p \in Requests, Elsewhere(p), UNCHANGED <<sandboxes, vms, boot>>,
         name'[p] = name[p] \/ p \notin vms,
         Captures(p)' <=> Captures(p), Captures(p) => name'[p] = name[p]
  PROVE  UNCHANGED Durable!vars
<1>1. ASSUME NEW n \in Names PROVE AtRest(n)
  <2>1. VmsOf(n)' = VmsOf(n)
    <3>1. \A s \in vms : name'[s] = name[s]
      BY DEF Elsewhere, IndexInv, TypeOK, RuntimeOK
    <3> QED
      BY <3>1 DEF VmsOf
  <2> QED
    BY <2>1, Untouched
<1> QED
  BY <1>1, StutterStep

\* What a return, or a step to another label, leaves of the other requests.
LEMMA ElsewhereOf ==
  ASSUME IndexInv, NEW p \in Requests,
         \/ Return(p)
         \/ \E l \in Labels : Goto(p, l) /\ UNCHANGED <<name, keep>>
  PROVE  Elsewhere(p) /\ UNCHANGED name /\ (Return(p) => pc'[p] = "done" /\ ~Captures(p)')
<1>1. CASE Return(p)
  <2>1. Elsewhere(p) /\ UNCHANGED name /\ pc'[p] = "done"
    BY <1>1 DEF Return, Goto, Elsewhere, IndexInv, TypeOK, RequestsOK
  <2> QED
    BY <2>1 DEF Captures
<1>2. CASE ~Return(p)
  BY <1>2 DEF Goto, Elsewhere, IndexInv, TypeOK, RequestsOK
<1> QED
  BY <1>1, <1>2

\* A handler that begins.
LEMMA StartRest ==
  ASSUME IndexInv, LockedInv, NEW p \in Requests, Start(p)
  PROVE  UNCHANGED Durable!vars
<1> DEFINE Entry == {"create_lock", "get_lock", "stop_lock", "write_back", "policy_vm",
                     "update_snap", "delete_vm", "delete_list", "image", "gc_list"}
<1>1. ASSUME NEW o, NEW n, NEW r, NEW l \in Entry, Begin(p, o, n, r, l),
             \A q \in Requests : q # p => keep'[q] = keep[q]
      PROVE  UNCHANGED Durable!vars
  <2>1. /\ pc[p] = "idle" /\ UNCHANGED <<sandboxes, vms, boot>>
        /\ pc' = [pc EXCEPT ![p] = l] /\ name' = [name EXCEPT ![p] = n]
    BY <1>1 DEF Begin, Goto, store, runtime
  <2>2. Elsewhere(p) /\ pc'[p] = l
    BY <1>1, <2>1 DEF Elsewhere, IndexInv, TypeOK, RequestsOK
  <2>3. ~Captures(p) /\ ~Captures(p)'
    BY <2>1, <2>2 DEF Captures
  <2>4. p \notin vms
    BY <2>1 DEF LockedInv, VmsStarted
  <2> HIDE DEF Entry
  <2> QED
    BY <2>1, <2>2, <2>3, <2>4, QuietRest
<1>2. CASE CreateStart(p) \/ DeleteSnapshotStart(p) \/ GcStart(p) \/ GetStart(p) \/ UpdateStart(p)
  BY <1>1, <1>2 DEF CreateStart, DeleteSnapshotStart, GcStart, GetStart, UpdateStart
<1>3. CASE TimeoutStart(p) \/ StopStart(p)
  BY <1>1, <1>3 DEF TimeoutStart, StopStart, IndexInv, TypeOK, RequestsOK
<1>4. CASE ExtendStart(p) \/ DeleteStart(p)
  BY <1>1, <1>4 DEF ExtendStart, DeleteStart
<1> QED
  BY <1>2, <1>3, <1>4 DEF Start

\* A step of a handler that neither starts nor stops a VM nor writes a record.
LEMMA PassRest ==
  ASSUME Locked, IndexInv, LockedInv, NEW p \in Requests,
         \/ AcquireName(p) \/ CreateCheck(p) \/ CreateQuota(p) \/ CreateVmError(p)
         \/ GetReread(p) \/ ResumeVmError(p) \/ AcquireLifecycle(p) \/ StopReread(p)
         \/ StopVmError(p) \/ StopSnap(p) \/ ExpireRead(p) \/ ExpirePut(p)
         \/ DeleteSnapshotImage(p) \/ DeleteSnapshotRecord(p)
         \/ GcList(p) \/ GcImage(p) \/ GcRecord(p) \/ GcDone(p)
  PROVE  UNCHANGED Durable!vars
<1> DEFINE Other == Labels \ {"stop_snap", "stop_put"}
<1>1. ASSUME pc[p] \in Other, UNCHANGED <<sandboxes, vms, boot>>,
             Return(p) \/ \E l \in Other : Goto(p, l) /\ UNCHANGED <<name, keep>>
      PROVE  UNCHANGED Durable!vars
  <2>1. Elsewhere(p) /\ UNCHANGED name /\ (Return(p) => ~Captures(p)')
    BY <1>1, ElsewhereOf
  <2>2. ~Captures(p)
    BY <1>1 DEF Captures
  <2>3. ~Captures(p)'
    BY <1>1, <2>1 DEF Captures, Goto, IndexInv, TypeOK, RequestsOK
  <2> QED
    BY <1>1, <2>1, <2>2, <2>3, QuietRest
<1>2. CASE StopSnap(p)
  <2>1. /\ pc[p] = "stop_snap" /\ UNCHANGED <<sandboxes, vms, boot>> /\ Goto(p, "stop_put")
        /\ UNCHANGED <<name, keep>>
    BY <1>2 DEF StopSnap, PutSnapshot, Failing, Locked, runtime, locals
  <2>2. Elsewhere(p) /\ pc'[p] = "stop_put"
    BY <2>1 DEF Elsewhere, Goto, IndexInv, TypeOK, RequestsOK
  <2>3. Captures(p)' <=> Captures(p)
    BY <2>1, <2>2 DEF Captures
  <2> QED
    BY <2>1, <2>2, <2>3, QuietRest
<1>3. CASE CreateCheck(p) \/ CreateQuota(p)
  BY <1>1, <1>3 DEF CreateCheck, CreateQuota, ReturnUnlocked, store, runtime, locals, Labels
<1>4. CASE GetReread(p)
  BY <1>1, <1>4 DEF GetReread, ReturnUnlocked, store, runtime, locals, Labels
<1>8. CASE CreateVmError(p) \/ ResumeVmError(p)
  BY <1>1, <1>8 DEF CreateVmError, ResumeVmError, ReturnUnlocked, store, runtime, Labels
<1>9. CASE AcquireName(p)
  <2> DEFINE l == IF pc[p] = "create_lock" THEN "create_check" ELSE "get_reread"
  <2>1. l \in Other /\ Goto(p, l) /\ UNCHANGED <<name, keep>>
    BY <1>9 DEF AcquireName, locals, Labels
  <2> HIDE DEF l
  <2> QED
    BY <1>1, <1>9, <2>1 DEF AcquireName, store, runtime, Labels, LockWaits
<1>5. CASE AcquireLifecycle(p) \/ StopReread(p) \/ StopVmError(p)
  BY <1>1, <1>5 DEF AcquireLifecycle, StopReread, StopVmError, ReturnStopped, store, runtime,
      locals, Labels, LockWaits
<1>6. CASE ExpireRead(p) \/ ExpirePut(p) \/ DeleteSnapshotImage(p) \/ DeleteSnapshotRecord(p)
  BY <1>1, <1>6 DEF ExpireRead, ExpirePut, DeleteSnapshotImage, DeleteSnapshotRecord,
      PutSnapshot, DeleteSnapshot, store, runtime, locals, Labels
<1>7. CASE GcList(p) \/ GcImage(p) \/ GcRecord(p) \/ GcDone(p)
  BY <1>1, <1>7 DEF GcList, GcImage, GcRecord, GcDone, TakeUp, DeleteSnapshot, store, runtime,
      locals, Labels, LockWaits, Finished
<1> QED
  BY <1>2, <1>3, <1>4, <1>5, <1>6, <1>7, <1>8, <1>9

\* Starting a VM is a boot of the abstract sandbox.
LEMMA SpawnBoots ==
  ASSUME Locked, IndexInv, LockedInv, NEW p \in Requests, CreateVm(p) \/ ResumeVm(p),
         NEW n \in Names, n = name[p]
  PROVE  Durable!Boot(n)
<1>1. /\ pc[p] \in {"create_vm", "resume_vm"} /\ UNCHANGED sandboxes
      /\ vms' = vms \cup {p}
  BY DEF CreateVm, ResumeVm, SpawnVm, store
<1>2. Knows(p) /\ p \notin vms
  BY <1>1, NoVmYet DEF LockedInv, Spawning
<1>3. PICK l \in {"create_put", "create_undo", "resume_put", "resume_undo"} :
        Goto(p, l) /\ UNCHANGED <<name, keep>>
  BY DEF CreateVm, ResumeVm, Spawned, Failing, Locked, locals
<1>4. Elsewhere(p) /\ pc'[p] = l /\ UNCHANGED name
  BY <1>3 DEF Elsewhere, Goto, IndexInv, TypeOK, RequestsOK
<1>5. ~Captures(p) /\ ~Captures(p)'
  BY <1>1, <1>4 DEF Captures
<1>6. VmsOf(n) = {} /\ VmsOf(n)' = {p}
  <2>1. VmsOf(n) = {}
    BY <1>1, <1>2, OnlyOwnVm DEF VmsOf
  <2> QED
    BY <1>1, <1>4, <2>1 DEF VmsOf
<1>7. PICK x \in SnapshotIds : /\ boot' = [boot EXCEPT ![p] = x]
                               /\ pc[p] = "resume_vm" => x = rec[p].snapshot
  <2>1. CASE CreateVm(p)
    BY <2>1 DEF CreateVm, SpawnVm, SnapshotIds, IndexInv, TypeOK, RuntimeOK
  <2>2. CASE ResumeVm(p)
    BY <2>2 DEF ResumeVm, SpawnVm, SnapshotIds, IndexInv, TypeOK, RuntimeOK
  <2> QED
    BY <2>1, <2>2
<1>8. boot'[p] = x /\ \A q \in Requests : q # p => boot'[q] = boot[q]
  BY <1>7 DEF IndexInv, TypeOK, RuntimeOK
<1>9. Capturing(n) = {}
  <2>1. \A q \in Requests : name[q] = name[p] /\ Captures(q) => q = p
    BY <1>1, CriticalAlone DEF Captures, Critical
  <2> QED
    BY <1>5, <2>1 DEF Capturing
<1>10. ResumePoint(n) # None => x = ResumePoint(n)
  <2>1. ResumePoint(n) = IF Exists(n) THEN sandboxes[n].snapshot ELSE None
    BY <1>2, <1>9, PointIs
  <2> QED
    BY <1>1, <1>2, <1>7, <2>1 DEF Knows, CopyHolds
<1>11. ResumePoint(n)' = ResumePoint(n)
  <2>1. \A q \in Requests : Captures(q)' /\ name'[q] = n <=> Captures(q) /\ name[q] = n
    BY <1>4, <1>5 DEF Elsewhere, Captures
  <2>2. {q \in Requests : name'[q] = n /\ Captures(q)'}
          = {q \in Requests : name[q] = n /\ Captures(q)}
    BY <2>1
  <2>3. Capturing(n)' = Capturing(n)
    BY <1>4, <2>2 DEF Capturing
  <2> QED
    BY <1>1, <1>4, <2>3 DEF ResumePoint, Exists
<1>12. ASSUME NEW m \in Names, m # n PROVE AtRest(m)
  <2>1. VmsOf(m)' = VmsOf(m)
    BY <1>1, <1>4, <1>12 DEF VmsOf
  <2>2. \A s \in VmsOf(m) : boot'[s] = boot[s]
    BY <1>8, <1>12 DEF VmsOf, IndexInv, TypeOK, RuntimeOK
  <2> QED
    BY <1>1, <1>4, <1>5, <2>1, <2>2, Untouched
<1>13. boot'[p] \in SnapshotIds /\ (ResumePoint(n) # None => boot'[p] = ResumePoint(n))
  BY <1>8, <1>10
<1> QED
  BY <1>6, <1>11, <1>12, <1>13, BootStep

\* Undoing a start is a halt that captures nothing.
LEMMA UndoHalts ==
  ASSUME Locked, IndexInv, LockedInv, NEW p \in Requests, Undo(p),
         NEW n \in Names, n = name[p], p \in vms
  PROVE  Durable!Halt(n)
<1>1. /\ pc[p] \in {"create_undo", "resume_undo"} /\ Return(p)
      /\ UNCHANGED <<sandboxes, boot>> /\ vms' = vms \ {p}
  BY DEF Undo, ReturnUnlocked, store, Failing, Locked
<1>2. Elsewhere(p) /\ UNCHANGED name /\ ~Captures(p)' /\ ~Captures(p)
  BY <1>1, ElsewhereOf DEF Captures
<1>3. VmsOf(n) \subseteq {p}
  BY <1>1, OnlyOwnVm
<1>4. VmsOf(n) # {} /\ VmsOf(n)' = {}
  BY <1>1, <1>2, <1>3 DEF VmsOf
<1>5. ResumePoint(n)' = ResumePoint(n)
  <2>1. \A q \in Requests : name'[q] = n /\ Captures(q)' <=> name[q] = n /\ Captures(q)
    BY <1>2 DEF Elsewhere, Captures
  <2>2. Capturing(n)' = Capturing(n)
    BY <2>1 DEF Capturing
  <2> QED
    BY <1>1, <2>2 DEF ResumePoint, Exists
<1>6. ASSUME NEW m \in Names, m # n PROVE AtRest(m)
  <2>1. VmsOf(m)' = VmsOf(m)
    BY <1>1, <1>2, <1>6 DEF VmsOf
  <2> QED
    BY <1>1, <1>2, <2>1, Untouched
<1> QED
  BY <1>4, <1>5, <1>6, HaltStep

\* The runtime's stop is a halt, which captures the disk when the stop goes on
\* to record the snapshot it took.
LEMMA StopHalts ==
  ASSUME Locked, IndexInv, LockedInv, NEW p \in Requests, StopVm(p),
         NEW n \in Names, n = name[p]
  PROVE  Durable!Halt(n)
<1>1. /\ pc[p] = "stop_vm" /\ UNCHANGED <<sandboxes, boot>>
      /\ rec[p].session \in vms /\ vms' = vms \ {rec[p].session}
  BY DEF StopVm, StopEffect, store
<1>2. Exists(n) /\ rec[p] = sandboxes[n] /\ ~Captures(p)
  BY <1>1 DEF LockedInv, Knows, CopyHolds, Captures
<1>3. name[rec[p].session] = n
  BY <1>2, RowOf
<1>4. \/ Return(p)
      \/ Goto(p, IF keep[p] THEN "stop_snap" ELSE "stop_put") /\ UNCHANGED <<name, keep>>
  BY DEF StopVm, ReturnStopped, locals
<1>5. Elsewhere(p) /\ UNCHANGED name
  <2>1. (IF keep[p] THEN "stop_snap" ELSE "stop_put") \in Labels
    BY DEF Labels
  <2> QED
    BY <1>4, <2>1, ElsewhereOf
<1>6. VmsOf(n) \subseteq {rec[p].session}
  BY <1>1, OnlySessionVm
<1>7. VmsOf(n) # {} /\ VmsOf(n)' = {}
  BY <1>1, <1>3, <1>5, <1>6 DEF VmsOf
<1>8. Capturing(n) = {} /\ ResumePoint(n) = sandboxes[n].snapshot
  <2>1. \A q \in Requests : name[q] = n /\ Captures(q) => q = p
    BY <1>1, CriticalAlone DEF Captures, Critical
  <2>2. Capturing(n) = {}
    BY <1>2, <2>1 DEF Capturing
  <2> QED
    BY <1>2, <2>2, PointIs
<1>9. \/ ResumePoint(n)' = ResumePoint(n)
      \/ \E x \in Requests : ResumePoint(n)' = x /\ x # ResumePoint(n)
  <2>1. \A q \in Requests : q # p => ~(name'[q] = n /\ Captures(q)')
    BY <1>5, <1>8 DEF Elsewhere, Captures, Capturing
  <2>2. CASE Captures(p)'
    <3>1. Capturing(n)' = {p}
      BY <1>5, <2>1, <2>2 DEF Capturing
    <3>2. ResumePoint(n)' = p
      BY <3>1 DEF ResumePoint
    <3>3. sandboxes[n].snapshot # p
      BY <1>1, <1>2, NoneIsFresh DEF LockedInv, RecordsSettled, Expiring
    <3> QED
      BY <1>8, <3>2, <3>3
  <2>3. CASE ~Captures(p)'
    <3>1. Capturing(n)' = {}
      BY <2>1, <2>3 DEF Capturing
    <3> QED
      BY <1>1, <1>2, <1>8, <3>1 DEF ResumePoint, Exists
  <2> QED
    BY <2>2, <2>3
<1>10. ASSUME NEW m \in Names, m # n PROVE AtRest(m)
  <2>1. VmsOf(m)' = VmsOf(m)
    BY <1>1, <1>3, <1>5, <1>10 DEF VmsOf
  <2>2. name'[p] # m /\ name[p] # m
    BY <1>5, <1>10
  <2> QED
    BY <1>1, <2>1, <2>2, <1>5, Untouched
<1> QED
  BY <1>7, <1>9, <1>10, HaltStep

\* Writing a record changes nothing that the owner sees: the snapshot the last
\* stop took was the resume point before it was written.
LEMMA WriteRest ==
  ASSUME Locked, IndexInv, LockedInv, NEW p \in Requests,
         CreatePut(p) \/ ResumePut(p) \/ StopMark(p) \/ StopPut(p)
  PROVE  UNCHANGED Durable!vars
<1> DEFINE Target == {"stop_vm", "expire_read"}
<1>1. PICK r \in Records :
        /\ name[p] \in Names /\ sandboxes' = [sandboxes EXCEPT ![name[p]] = r]
        /\ CreatePut(p) => ~Exists(name[p]) /\ r.snapshot = None
        /\ ~CreatePut(p) => Exists(name[p])
        /\ ResumePut(p) => r.snapshot = sandboxes[name[p]].snapshot
        /\ StopMark(p) => r.snapshot = sandboxes[name[p]].snapshot
        /\ StopPut(p) => r.snapshot = IF keep[p] THEN p ELSE sandboxes[name[p]].snapshot
  BY Writes
<1>2. PICK n \in Names : n = name[p]
  BY <1>1
<1>3. /\ \A m \in Names : sandboxes'[m] = IF m = n THEN r ELSE sandboxes[m]
      /\ r # None
  BY <1>1, <1>2, NoneIsNoRecord DEF IndexInv, TypeOK, StoreOK
<1>4. /\ pc[p] \in {"create_put", "resume_put", "stop_mark", "stop_put"}
      /\ UNCHANGED <<vms, boot>>
      /\ pc[p] = "stop_put" <=> StopPut(p)
  BY DEF CreatePut, ResumePut, StopMark, StopPut, runtime
<1>5. Return(p) \/ \E l \in Target : Goto(p, l) /\ UNCHANGED <<name, keep>>
  BY DEF CreatePut, ResumePut, StopMark, StopPut, ReturnUnlocked, ReturnStopped, locals
<1>6. Elsewhere(p) /\ UNCHANGED name /\ ~Captures(p)'
  <2>1. CASE Return(p)
    BY <2>1, ElsewhereOf
  <2>2. ASSUME NEW l \in Target, Goto(p, l), UNCHANGED <<name, keep>>
        PROVE  Elsewhere(p) /\ UNCHANGED name /\ ~Captures(p)'
    <3>1. l \in Labels /\ pc'[p] = l
      BY <2>2 DEF Labels, Goto, IndexInv, TypeOK, RequestsOK
    <3> QED
      BY <2>2, <3>1, ElsewhereOf DEF Captures
  <2> QED
    BY <1>5, <2>1, <2>2
<1>7. ASSUME NEW m \in Names PROVE VmsOf(m)' = VmsOf(m)
  BY <1>4, <1>6 DEF VmsOf
<1>8. \A q \in Requests : name[q] = n /\ Captures(q) => q = p
  BY <1>2, <1>4, CriticalAlone DEF Captures, Critical
<1>9. Capturing(n)' = {}
  <2>1. \A q \in Requests : q # p => ~(name'[q] = n /\ Captures(q)')
    BY <1>6, <1>8 DEF Elsewhere, Captures
  <2> QED
    BY <1>6, <2>1 DEF Capturing
<1>10. ResumePoint(n)' = r.snapshot
  BY <1>3, <1>9 DEF ResumePoint, Exists
<1>11. ResumePoint(n) = r.snapshot
  <2>1. CASE Captures(p)
    <3>1. StopPut(p) /\ keep[p] /\ p \in Capturing(n)
      BY <1>2, <1>4, <2>1 DEF Captures, Capturing
    <3> QED
      BY <1>1, <3>1, PointIs
  <2>2. CASE ~Captures(p)
    <3>1. Capturing(n) = {}
      BY <1>8, <2>2 DEF Capturing
    <3>2. StopPut(p) => ~keep[p]
      BY <1>4, <2>2 DEF Captures
    <3> QED
      BY <1>1, <1>2, <3>1, <3>2, PointIs
  <2> QED
    BY <2>1, <2>2
<1>12. AtRest(n)
  BY <1>4, <1>7, <1>10, <1>11 DEF AtRest
<1>13. ASSUME NEW m \in Names, m # n PROVE AtRest(m)
  <2>1. sandboxes'[m] = sandboxes[m] /\ VmsOf(m)' = VmsOf(m) /\ name[p] # m /\ name'[p] # m
    BY <1>2, <1>3, <1>6, <1>7, <1>13
  <2> QED
    BY <1>4, <1>6, <2>1, Untouched
<1> QED
  BY <1>12, <1>13, StutterStep

\* Every step of the locked handlers is one of the abstract sandbox's.
LEMMA DurableStep ==
  ASSUME Locked, IndexInv, LockedInv, [Next]_vars
  PROVE  [Durable!Next]_(Durable!vars)
<1>1. ASSUME NEW p \in Requests, Start(p) PROVE UNCHANGED Durable!vars
  BY <1>1, StartRest
<1>2. ASSUME NEW p \in Requests, Step(p) PROVE [Durable!Next]_(Durable!vars)
  <2>1. CASE \/ AcquireName(p) \/ CreateCheck(p) \/ CreateQuota(p) \/ CreateVmError(p)
             \/ GetReread(p) \/ ResumeVmError(p) \/ AcquireLifecycle(p) \/ StopReread(p)
             \/ StopVmError(p) \/ StopSnap(p) \/ ExpireRead(p) \/ ExpirePut(p)
             \/ DeleteSnapshotImage(p) \/ DeleteSnapshotRecord(p)
             \/ GcList(p) \/ GcImage(p) \/ GcRecord(p) \/ GcDone(p)
    BY <2>1, PassRest
  <2>2. CASE CreateVm(p) \/ ResumeVm(p)
    <3>1. name[p] \in Names
      BY <2>2, NamedOf DEF CreateVm, ResumeVm
    <3>2. PICK n \in Names : n = name[p]
      BY <3>1
    <3> QED
      BY <2>2, <3>2, SpawnBoots DEF Durable!Next
  <2>3. CASE Undo(p) \/ StopVm(p)
    <3>1. name[p] \in Names
      BY <2>3, NamedOf DEF Undo, StopVm
    <3>2. PICK n \in Names : n = name[p]
      BY <3>1
    <3>3. CASE StopVm(p) \/ p \in vms
      BY <2>3, <3>2, <3>3, UndoHalts, StopHalts DEF Durable!Next
    <3>4. CASE Undo(p) /\ p \notin vms
      <4>1. Return(p) /\ pc[p] \in {"create_undo", "resume_undo"} /\ UNCHANGED <<sandboxes, boot>>
        BY <3>4 DEF Undo, ReturnUnlocked, store
      <4>2. UNCHANGED vms
        BY <3>4 DEF Undo
      <4>3. Elsewhere(p) /\ UNCHANGED name /\ ~Captures(p)' /\ ~Captures(p)
        BY <4>1, ElsewhereOf DEF Captures
      <4> QED
        BY <4>1, <4>2, <4>3, QuietRest
    <3> QED
      BY <2>3, <3>3, <3>4
  <2>4. CASE CreatePut(p) \/ ResumePut(p) \/ StopMark(p) \/ StopPut(p)
    BY <2>4, WriteRest
  <2>5. CASE CreatePutError(p) \/ ResumePutError(p)
    BY <2>5 DEF CreatePutError, ResumePutError, Failing, Locked
  <2>6. CASE UpdateFields(p) \/ PolicyVm(p) \/ WriteBack(p) \/ DeleteVm(p) \/ DeleteList(p)
             \/ DeleteImage(p) \/ DeleteRecord(p) \/ DeleteRow(p)
    <3>1. pc[p] \in UnlockedSteps
      BY <2>6 DEF UpdateFields, PolicyVm, WriteBack, DeleteVm, DeleteList, DeleteImage,
          DeleteRecord, DeleteRow, UnlockedSteps
    <3> QED
      BY <3>1 DEF LockedInv, Knows
  <2> QED
    BY <1>2, <2>1, <2>2, <2>3, <2>4, <2>5, <2>6 DEF Step
<1>3. CASE Crash \/ Restart
  BY <1>3 DEF Crash, Restart, Failing, Locked, LockedInv
<1>4. CASE Idle \/ UNCHANGED vars
  <2>1. UNCHANGED <<sandboxes, vms, boot, pc, name, keep>>
    BY <1>4 DEF Idle, vars, store, runtime, locals
  <2>2. \A n \in Names : AtRest(n)
    BY <2>1 DEF AtRest, VmsOf, ResumePoint, Capturing, Captures, Exists
  <2> QED
    BY <2>2, StutterStep
<1> QED
  BY <1>1, <1>2, <1>3, <1>4 DEF Next

\* The locked handlers implement the abstract sandbox: a name has one VM, and a
\* resumed sandbox goes on from the disk that was captured last.
THEOREM LifecycleIsDurable == ASSUME Locked PROVE Spec => ImplementsDurableSandbox
<1>1. Init => Durable!Init
  BY DEF Init, Durable!Init, Live, Disk, ResumePoint, VmsOf, Capturing, Captures, Exists
<1>2. IndexInv /\ LockedInv /\ [Next]_vars => [Durable!Next]_(Durable!vars)
  BY DurableStep
<1> QED
  BY <1>1, <1>2, IndexInvariant, LockedInvariant, PTL
     DEF Spec, ImplementsDurableSandbox, Durable!Spec

-----------------------------------------------------------------------------
(* The collector and the resume points.                                      *)

Settled == {"stop_put", "done"} \cup Expiring

\* A resume point is some stop's snapshot, or there is none.
LEMMA PointIds ==
  ASSUME IndexInv, LockedInv, NEW n \in Names
  PROVE  ResumePoint(n) \in SnapshotIds
<1>1. CASE Capturing(n) = {}
  BY <1>1, PointIs, RowOf DEF SnapshotIds
<1>2. ASSUME NEW p \in Capturing(n) PROVE ResumePoint(n) \in SnapshotIds
  BY <1>2, PointIs DEF Capturing, SnapshotIds
<1> QED
  BY <1>1, <1>2

\* An owner who sees nothing sees no resume point move.
LEMMA PointStays ==
  ASSUME UNCHANGED Durable!vars, NEW n \in Names
  PROVE  ResumePoint(n)' = ResumePoint(n)
  BY DEF Durable!vars

\* The runtime's stop makes the disk it captures the resume point.
LEMMA StopMoves ==
  ASSUME IndexInv, LockedInv, NEW p \in Requests, StopVm(p), NEW n \in Names
  PROVE  \/ ResumePoint(n)' = ResumePoint(n)
         \/ name[p] = n /\ ResumePoint(n)' = p
<1>1. pc[p] = "stop_vm" /\ UNCHANGED sandboxes
  BY DEF StopVm, store
<1>2. \/ Return(p)
      \/ Goto(p, IF keep[p] THEN "stop_snap" ELSE "stop_put") /\ UNCHANGED <<name, keep>>
  BY DEF StopVm, ReturnStopped, locals
<1>3. Elsewhere(p) /\ UNCHANGED name
  <2>1. (IF keep[p] THEN "stop_snap" ELSE "stop_put") \in Labels
    BY DEF Labels
  <2> QED
    BY <1>2, <2>1, ElsewhereOf
<1>4. ~Captures(p)
  BY <1>1 DEF Captures
<1>5. \A q \in Requests : q # p => (Captures(q)' <=> Captures(q))
  BY <1>3 DEF Elsewhere, Captures
<1>6. CASE name[p] = n /\ Captures(p)'
  <2>1. ASSUME NEW q \in Requests, q # p, name[q] = n PROVE ~Captures(q)
    BY <1>1, <1>6, <2>1, CriticalAlone DEF Captures, Critical
  <2>2. Capturing(n)' = {p}
    BY <1>3, <1>5, <1>6, <2>1 DEF Capturing
  <2> QED
    BY <1>6, <2>2 DEF ResumePoint
<1>7. CASE ~(name[p] = n /\ Captures(p)')
  <2>1. Capturing(n)' = Capturing(n)
    BY <1>3, <1>4, <1>5, <1>7 DEF Capturing
  <2> QED
    BY <1>1, <2>1 DEF ResumePoint, Exists
<1> QED
  BY <1>6, <1>7

\* A resume point moves only when the runtime has captured a disk.
LEMMA PointsMove ==
  ASSUME Locked, IndexInv, LockedInv, NEW p \in Requests, Start(p) \/ Step(p), NEW n \in Names
  PROVE  \/ ResumePoint(n)' = ResumePoint(n)
         \/ StopVm(p) /\ name[p] = n /\ ResumePoint(n)' = p
<1>1. CASE Start(p)
  BY <1>1, StartRest, PointStays
<1>2. CASE \/ AcquireName(p) \/ CreateCheck(p) \/ CreateQuota(p) \/ CreateVmError(p)
           \/ GetReread(p) \/ ResumeVmError(p) \/ AcquireLifecycle(p) \/ StopReread(p)
           \/ StopVmError(p) \/ StopSnap(p) \/ ExpireRead(p) \/ ExpirePut(p)
           \/ DeleteSnapshotImage(p) \/ DeleteSnapshotRecord(p)
           \/ GcList(p) \/ GcImage(p) \/ GcRecord(p) \/ GcDone(p)
  BY <1>2, PassRest, PointStays
<1>3. CASE CreatePut(p) \/ ResumePut(p) \/ StopMark(p) \/ StopPut(p)
  BY <1>3, WriteRest, PointStays
<1>4. CASE CreateVm(p) \/ ResumeVm(p) \/ Undo(p)
  <2>1. /\ pc[p] \in {"create_vm", "resume_vm", "create_undo", "resume_undo"}
        /\ UNCHANGED sandboxes
        /\ Return(p) \/ \E l \in Labels \ {"stop_snap", "stop_put"} :
                           Goto(p, l) /\ UNCHANGED <<name, keep>>
    BY <1>4 DEF CreateVm, ResumeVm, Undo, Spawned, ReturnUnlocked, store, locals, Labels
  <2>2. Elsewhere(p) /\ UNCHANGED name /\ (Return(p) => ~Captures(p)')
    BY <2>1, ElsewhereOf
  <2>3. ~Captures(p) /\ ~Captures(p)'
    BY <2>1, <2>2 DEF Captures, Goto, IndexInv, TypeOK, RequestsOK
  <2>4. Capturing(n)' = Capturing(n)
    BY <2>2, <2>3 DEF Elsewhere, Captures, Capturing
  <2> QED
    BY <2>1, <2>4 DEF ResumePoint, Exists
<1>5. CASE StopVm(p)
  BY <1>5, StopMoves
<1>6. CASE CreatePutError(p) \/ ResumePutError(p)
  BY <1>6 DEF CreatePutError, ResumePutError, Failing, Locked
<1>7. CASE UpdateFields(p) \/ PolicyVm(p) \/ WriteBack(p) \/ DeleteVm(p) \/ DeleteList(p)
           \/ DeleteImage(p) \/ DeleteRecord(p) \/ DeleteRow(p)
  <2>1. pc[p] \in UnlockedSteps
    BY <1>7 DEF UpdateFields, PolicyVm, WriteBack, DeleteVm, DeleteList, DeleteImage,
        DeleteRecord, DeleteRow, UnlockedSteps
  <2> QED
    BY <2>1 DEF LockedInv, Knows
<1> QED
  BY <1>1, <1>2, <1>3, <1>4, <1>5, <1>6, <1>7 DEF Step

\* What a step of p does to the snapshots if it neither lists nor dates one.
Unlisting(p) ==
    /\ \A q \in Requests : q # p => /\ pc'[q] = pc[q] /\ name'[q] = name[q]
                                    /\ todo'[q] = todo[q] /\ keep'[q] = keep[q]
    /\ pc'[p] = "stop_snap" => keep'[p]
    /\ pc[p] # "idle" => name'[p] = name[p]
    /\ pc[p] \in Settled => pc'[p] \in Settled
    /\ UNCHANGED before
    /\ \A x \in Requests : snapshots'[x] \in {snapshots[x], None}
    /\ \/ todo'[p] \subseteq todo[p]
       \/ GcList(p) /\ todo'[p] \subseteq {x \in Requests : snapshots[x] # None}

LEMMA UnlistingSettled ==
  ASSUME IndexInv, SnapshotsSettled, NEW p \in Requests, Unlisting(p)
  PROVE  SnapshotsSettled'
<1> SUFFICES ASSUME NEW x \in Requests
             PROVE  /\ Recorded(x)' => pc'[x] \in {"stop_put", "done"} \cup Expiring
                    /\ snapshots'[x] \in {name'[x], Nobody, None}
                    /\ pc'[x] = "stop_snap" => keep'[x]
  BY DEF SnapshotsSettled
<1>1. Recorded(x)' => Recorded(x)
  BY NoneIsFresh DEF Recorded, Unlisting
<1>2. Recorded(x) => pc[x] \in Settled
  BY DEF SnapshotsSettled, Settled
<1>3. Recorded(x)' => pc'[x] \in Settled
  BY <1>1, <1>2 DEF Unlisting
<1>4. snapshots'[x] # None => pc[x] # "idle" /\ snapshots'[x] = snapshots[x]
  BY <1>2 DEF Unlisting, Recorded, Settled, Expiring
<1>5. snapshots'[x] \in {name'[x], Nobody, None}
  BY <1>4 DEF Unlisting, SnapshotsSettled
<1>6. pc'[x] = "stop_snap" => keep'[x]
  BY DEF Unlisting, SnapshotsSettled
<1> QED
  BY <1>3, <1>5, <1>6 DEF Settled

\* The steps that neither list nor date a snapshot.
LEMMA UnlistingSteps ==
  ASSUME Locked, IndexInv, LockedInv, NEW p \in Requests, Start(p) \/ Step(p),
         ~StopSnap(p), ~ExpirePut(p)
  PROVE  Unlisting(p)
<1> USE DEF Settled, Expiring
<1>1. CASE Start(p)
  <2>1. PICK o, n, r, l : Begin(p, o, n, r, l) /\ l # "stop_snap"
    BY <1>1 DEF Start, CreateStart, GetStart, StopStart, TimeoutStart, ExtendStart, UpdateStart,
        DeleteStart, DeleteSnapshotStart, GcStart
  <2>2. \A q \in Requests : q # p => keep'[q] = keep[q]
    BY <1>1 DEF Start, CreateStart, GetStart, StopStart, TimeoutStart, ExtendStart, UpdateStart,
        DeleteStart, DeleteSnapshotStart, GcStart, IndexInv, TypeOK, RequestsOK
  <2> QED
    BY <2>1, <2>2 DEF Begin, Goto, Unlisting, store, IndexInv, TypeOK, RequestsOK
<1>2. ASSUME pc[p] \notin {"idle", "done"}, UNCHANGED <<snapshots, before>>,
             \/ Return(p)
             \/ \E l \in Labels : /\ Goto(p, l) /\ UNCHANGED <<name, todo, keep>>
                                  /\ pc[p] \in Settled => l \in Settled
                                  /\ l = "stop_snap" => keep[p]
      PROVE  Unlisting(p)
  BY <1>2 DEF Unlisting, Return, Goto, IndexInv, TypeOK, RequestsOK
<1>3. CASE AcquireName(p) \/ CreateCheck(p) \/ CreateQuota(p)
  BY <1>2, <1>3 DEF AcquireName, CreateCheck, CreateQuota, ReturnUnlocked, store, locals, Labels,
      LockWaits
<1>4. CASE CreateVm(p) \/ CreateVmError(p) \/ ResumeVm(p) \/ ResumeVmError(p) \/ Undo(p)
  BY <1>2, <1>4 DEF CreateVm, CreateVmError, ResumeVm, ResumeVmError, Undo, Spawned,
      ReturnUnlocked, store, locals, Labels
<1>5. CASE CreatePut(p) \/ ResumePut(p)
  BY <1>2, <1>5 DEF CreatePut, ResumePut, PutSandbox, ReturnUnlocked
<1>15. CASE GetReread(p)
  BY <1>2, <1>15 DEF GetReread, ReturnUnlocked, store, Labels
<1>6. CASE AcquireLifecycle(p) \/ StopReread(p) \/ StopVmError(p)
  BY <1>2, <1>6 DEF AcquireLifecycle, StopReread, StopVmError, ReturnStopped, store,
      locals, Labels, LockWaits
<1>7. CASE StopMark(p) \/ StopVm(p)
  <2>1. /\ pc[p] \in {"stop_mark", "stop_vm"} /\ UNCHANGED <<snapshots, before>>
        /\ \/ Return(p)
           \/ \E l \in {"stop_vm", "stop_snap", "stop_put"} :
                  /\ Goto(p, l) /\ UNCHANGED <<name, todo, keep>>
                  /\ l = "stop_snap" => keep[p]
    BY <1>7 DEF StopMark, StopVm, PutSandbox, ReturnStopped, store, locals
  <2> QED
    BY <1>2, <2>1 DEF Labels
<1>8. CASE StopPut(p) \/ ExpireRead(p)
  <2>1. /\ pc[p] \in {"stop_put", "expire_read"} /\ UNCHANGED <<snapshots, before>>
        /\ \/ Return(p)
           \/ \E l \in Expiring : Goto(p, l) /\ UNCHANGED <<name, todo, keep>>
    BY <1>8 DEF StopPut, ExpireRead, PutSandbox, ReturnStopped, store, locals
  <2> QED
    BY <1>2, <2>1 DEF Labels
<1>9. CASE DeleteSnapshotImage(p) \/ GcDone(p)
  BY <1>2, <1>9 DEF DeleteSnapshotImage, GcDone, store, locals, Labels
<1>10. CASE DeleteSnapshotRecord(p) \/ GcRecord(p)
  BY <1>10 DEF DeleteSnapshotRecord, GcRecord, DeleteSnapshot, Unlisting, Return, Goto, store,
      locals, IndexInv, TypeOK, RequestsOK, StoreOK
<1>11. CASE GcList(p)
  <2>1. CASE Return(p)
    BY <1>2, <1>11, <2>1, GcListIs DEF store
  <2>2. CASE ~Return(p)
    <3>1. pc[p] = "gc_list" /\ UNCHANGED <<snapshots, before, name, keep>> /\ Goto(p, "gc_image")
      BY <1>11, <2>2, GcListIs DEF store
    <3>2. PICK doomed \in SUBSET SnapshotsOf(name[p]) : todo' = [todo EXCEPT ![p] = doomed]
      BY <1>11, <2>2, GcListIs
    <3>3. name[p] \in Names
      BY <3>1, NamedOf
    <3>4. SnapshotsOf(name[p]) \subseteq {x \in Requests : snapshots[x] # None}
      BY <3>3, NoneIsFresh DEF SnapshotsOf
    <3>5. todo'[p] = doomed /\ \A q \in Requests : q # p => todo'[q] = todo[q]
      BY <3>2 DEF IndexInv, TypeOK, RequestsOK
    <3>6. pc'[p] = "gc_image" /\ \A q \in Requests : q # p => pc'[q] = pc[q]
      BY <3>1 DEF Goto, IndexInv, TypeOK, RequestsOK
    <3> QED
      BY <1>11, <3>1, <3>2, <3>4, <3>5, <3>6 DEF Unlisting
  <2> QED
    BY <2>1, <2>2
<1>12. CASE GcImage(p)
  BY <1>12, GcImageIs DEF TakeUp, Unlisting, Goto, store, IndexInv, TypeOK, RequestsOK
<1>13. CASE CreatePutError(p) \/ ResumePutError(p)
  BY <1>13 DEF CreatePutError, ResumePutError, Failing, Locked
<1>14. CASE UpdateFields(p) \/ PolicyVm(p) \/ WriteBack(p) \/ DeleteVm(p) \/ DeleteList(p)
            \/ DeleteImage(p) \/ DeleteRecord(p) \/ DeleteRow(p)
  <2>1. pc[p] \in UnlockedSteps
    BY <1>14 DEF UpdateFields, PolicyVm, WriteBack, DeleteVm, DeleteList, DeleteImage,
        DeleteRecord, DeleteRow, UnlockedSteps
  <2> QED
    BY <2>1 DEF LockedInv, Knows
<1> QED
  BY <1>1, <1>3, <1>4, <1>5, <1>6, <1>7, <1>8, <1>9, <1>10, <1>11, <1>12, <1>13, <1>14,
     <1>15 DEF Step

\* A stop that lists its snapshot, and dates it after all others.
LEMMA StopSnapIs ==
  ASSUME Locked, IndexInv, NEW p \in Requests, StopSnap(p)
  PROVE  /\ pc[p] = "stop_snap" /\ pc' = [pc EXCEPT ![p] = "stop_put"]
         /\ snapshots' = [snapshots EXCEPT ![p] = name[p]]
         /\ before' = [before EXCEPT ![p] = {x \in Requests : before[x] # {}} \cup {p}]
         /\ UNCHANGED <<name, todo, keep>>
  BY DEF StopSnap, PutSnapshot, Goto, locals, Failing, Locked

\* An expiration written to a snapshot's record.
LEMMA ExpirePutIs ==
  ASSUME Locked, IndexInv, NEW p \in Requests, ExpirePut(p)
  PROVE  /\ pc[p] \in Expiring /\ pc' = [pc EXCEPT ![p] = "done"]
         /\ \E n \in {name[p], Nobody} : snapshots' = [snapshots EXCEPT ![p] = n]
         /\ UNCHANGED <<name, before>> /\ todo' = [todo EXCEPT ![p] = {}]
         /\ keep' = [keep EXCEPT ![p] = FALSE]
  BY DEF ExpirePut, PutSnapshot, Return, Goto, Failing, Locked, Expiring

LEMMA SettledStep ==
  ASSUME Locked, IndexInv, LockedInv, SnapshotsSettled, NEW p \in Requests, Start(p) \/ Step(p)
  PROVE  SnapshotsSettled'
<1>1. CASE StopSnap(p)
  <2> SUFFICES ASSUME NEW x \in Requests
               PROVE  /\ Recorded(x)' => pc'[x] \in {"stop_put", "done"} \cup Expiring
                      /\ snapshots'[x] \in {name'[x], Nobody, None}
                      /\ pc'[x] = "stop_snap" => keep'[x]
    BY DEF SnapshotsSettled
  <2>1. CASE x = p
    BY <1>1, <2>1, StopSnapIs DEF IndexInv, TypeOK, RequestsOK, StoreOK
  <2>2. CASE x # p
    <3>1. Recorded(x)' => Recorded(x)
      BY <1>1, <2>2, StopSnapIs DEF Recorded, IndexInv, TypeOK, StoreOK
    <3>2. /\ pc'[x] = pc[x] /\ snapshots'[x] = snapshots[x]
          /\ name'[x] = name[x] /\ keep'[x] = keep[x]
      BY <1>1, <2>2, StopSnapIs DEF IndexInv, TypeOK, RequestsOK, StoreOK
    <3> QED
      BY <3>1, <3>2 DEF SnapshotsSettled
  <2> QED
    BY <2>1, <2>2
<1>2. CASE ExpirePut(p)
  <2> SUFFICES ASSUME NEW x \in Requests
               PROVE  /\ Recorded(x)' => pc'[x] \in {"stop_put", "done"} \cup Expiring
                      /\ snapshots'[x] \in {name'[x], Nobody, None}
                      /\ pc'[x] = "stop_snap" => keep'[x]
    BY DEF SnapshotsSettled
  <2>1. CASE x = p
    BY <1>2, <2>1, ExpirePutIs DEF IndexInv, TypeOK, RequestsOK, StoreOK
  <2>2. CASE x # p
    <3>1. Recorded(x)' => Recorded(x)
      BY <1>2, <2>2, ExpirePutIs DEF Recorded, IndexInv, TypeOK, StoreOK, RequestsOK
    <3>2. /\ pc'[x] = pc[x] /\ snapshots'[x] = snapshots[x]
          /\ name'[x] = name[x] /\ keep'[x] = keep[x]
      BY <1>2, <2>2, ExpirePutIs DEF IndexInv, TypeOK, RequestsOK, StoreOK
    <3> QED
      BY <3>1, <3>2 DEF SnapshotsSettled
  <2> QED
    BY <2>1, <2>2
<1>3. CASE ~StopSnap(p) /\ ~ExpirePut(p)
  BY <1>3, UnlistingSteps, UnlistingSettled
<1> QED
  BY <1>1, <1>2, <1>3

\* No pass of the collector dooms a resume point: the newest snapshot of a
\* sandbox is within every retention, and has not expired.
LEMMA PointsNotDoomed ==
  ASSUME ~FreshMayExpire, IndexInv, LockedInv, SparedInv, NEW p \in Requests, pc[p] = "gc_list",
         NEW n \in Names,
         NEW expired \in SUBSET Expirable(SnapshotsOf(name[p]), rec[p].snapshot), NEW count \in Nat
  PROVE  ResumePoint(n) \notin Doomed(SnapshotsOf(name[p]), rec[p].snapshot, expired, count)
<1> DEFINE listed == SnapshotsOf(name[p])
           current == rec[p].snapshot
           x == ResumePoint(n)
           newer == {y \in (listed \ expired) \cup ({current} \cap listed) : Newer(y, x)}
<1> SUFFICES ASSUME x \in Doomed(listed, current, expired, count) PROVE FALSE
  OBVIOUS
<1>1. x \in listed /\ x # current /\ x \in Requests
  BY DEF Doomed, SnapshotsOf
<1>2. name[p] \in Names
  BY NamedOf
<1>3. \A y \in listed : y \in Requests /\ name[y] = name[p]
  BY <1>2, NoneIsFresh DEF SnapshotsOf, SparedInv, SnapshotsSettled
<1>4. x # None /\ name[x] = n
  BY <1>1, NoneIsFresh DEF SparedInv, NewestPoint
<1>5. \A y \in listed : ~Newer(y, x)
  BY <1>1, <1>3, <1>4 DEF SparedInv, NewestPoint
<1>6. x \notin expired
  BY <1>1, <1>5 DEF Expirable
<1>7. newer = {}
  BY <1>5
<1>8. Cardinality(newer) = 0
  BY <1>7, FS_EmptySet
<1>9. count > 0 /\ Cardinality(newer) >= count
  BY <1>6 DEF Doomed
<1> QED
  BY <1>8, <1>9

\* What a step takes up to delete is no resume point.
LEMMA PointsNotTaken ==
  ASSUME Locked, ~FreshMayExpire, IndexInv, LockedInv, SparedInv,
         NEW p \in Requests, Start(p) \/ Step(p), NEW n \in Names, ResumePoint(n) # None,
         NEW q \in Requests
  PROVE  ResumePoint(n) \notin todo'[q]
<1> DEFINE x == ResumePoint(n)
<1>1. x \notin todo[q]
  BY DEF SparedInv, NewestPoint
<1>2. CASE todo'[q] \subseteq todo[q]
  BY <1>1, <1>2
<1>3. CASE StopSnap(p)
  BY <1>1, <1>3, StopSnapIs
<1>4. CASE ExpirePut(p)
  BY <1>1, <1>4, ExpirePutIs DEF IndexInv, TypeOK, RequestsOK
<1>5. CASE GcList(p)
  <2>1. CASE Return(p)
    BY <1>1, <2>1 DEF Return, IndexInv, TypeOK, RequestsOK
  <2>2. CASE ~Return(p)
    <3>1. \A c \in 0..Cardinality(Requests) : c \in Nat
      OBVIOUS
    <3>2. PICK expired \in SUBSET Expirable(SnapshotsOf(name[p]), rec[p].snapshot), count \in Nat :
            todo' = [todo EXCEPT ![p] = Doomed(SnapshotsOf(name[p]), rec[p].snapshot, expired, count)]
      BY <1>5, <2>2, <3>1 DEF GcList
    <3>3. x \notin Doomed(SnapshotsOf(name[p]), rec[p].snapshot, expired, count)
      BY <1>5, <3>2, PointsNotDoomed, GcListIs
    <3> QED
      BY <1>1, <3>2, <3>3 DEF IndexInv, TypeOK, RequestsOK
  <2> QED
    BY <2>1, <2>2
<1>6. CASE ~StopSnap(p) /\ ~ExpirePut(p) /\ ~GcList(p)
  <2>1. Unlisting(p)
    BY <1>6, UnlistingSteps
  <2> QED
    BY <1>1, <1>6, <2>1 DEF Unlisting
<1> QED
  BY <1>3, <1>4, <1>5, <1>6

\* What a step does to the names and the dates that the resume points rest on.
LEMMA DatesMove ==
  ASSUME Locked, IndexInv, LockedInv, SparedInv, NEW p \in Requests, Start(p) \/ Step(p)
  PROVE  /\ \A q \in Requests : name[q] \in Names => name'[q] = name[q]
         /\ \A y, x \in Requests :
                name'[y] \in Names /\ x \in before'[y] =>
                    \/ name'[y] = name[y] /\ x \in before[y]
                    \/ StopSnap(p) /\ y = p /\ name'[y] = name[y]
<1>1. CASE StopSnap(p)
  BY <1>1, StopSnapIs DEF IndexInv, TypeOK, StoreOK
<1>2. CASE ExpirePut(p)
  BY <1>2, ExpirePutIs
<1>3. CASE ~StopSnap(p) /\ ~ExpirePut(p)
  <2>1. Unlisting(p)
    BY <1>3, UnlistingSteps
  <2>2. \A q \in Requests : name[q] \in Names => name'[q] = name[q]
    BY <2>1, NoneIsFresh DEF Unlisting, IndexInv, LocalsOK
  <2>3. \A y, x \in Requests : x \in before'[y] => x \in before[y] /\ before[y] # {}
    BY <2>1 DEF Unlisting
  <2>4. \A y \in Requests : before[y] # {} => pc[y] # "idle"
    BY DEF SparedInv, SnapshotsSettled, Recorded, Expiring
  <2>5. \A y \in Requests : pc[y] # "idle" => name'[y] = name[y]
    BY <2>1 DEF Unlisting
  <2> QED
    BY <2>2, <2>3, <2>4, <2>5
<1> QED
  BY <1>1, <1>2, <1>3

\* A capture that stands between the stop and its record is the resume point.
LEMMA CapturedPoint ==
  ASSUME Locked, IndexInv, LockedInv, NEW p \in Requests, StopSnap(p), NEW n \in Names,
         name[p] = n, keep[p]
  PROVE  ResumePoint(n) = p
<1>1. p \in Capturing(n)
  BY StopSnapIs DEF Capturing, Captures
<1> QED
  BY <1>1, PointIs

LEMMA NewestStep ==
  ASSUME Locked, ~FreshMayExpire, IndexInv, LockedInv, SparedInv,
         NEW p \in Requests, Start(p) \/ Step(p)
  PROVE  NewestPoint'
<1> SUFFICES ASSUME NEW n \in Names, ResumePoint(n)' # None
             PROVE  /\ name'[ResumePoint(n)'] = n
                    /\ \A q \in Requests : ResumePoint(n)' \notin todo'[q]
                    /\ \A y \in Requests : name'[y] = n /\ y # ResumePoint(n)'
                                              => ResumePoint(n)' \notin before'[y]
  BY DEF NewestPoint, Newer
<1>1. CASE ResumePoint(n)' = ResumePoint(n)
  <2>1. ResumePoint(n) \in Requests /\ name[ResumePoint(n)] = n
    BY <1>1, PointIds DEF SnapshotIds, SparedInv, NewestPoint
  <2>2. \A q \in Requests : ResumePoint(n) \notin todo'[q]
    BY <1>1, PointsNotTaken
  <2>3. ASSUME NEW y \in Requests, name'[y] = n, y # ResumePoint(n), ResumePoint(n) \in before'[y]
        PROVE  FALSE
    <3>1. CASE name'[y] = name[y] /\ ResumePoint(n) \in before[y]
      BY <1>1, <2>3, <3>1 DEF SparedInv, NewestPoint, Newer
    <3>2. CASE StopSnap(p) /\ y = p /\ name'[y] = name[y]
      BY <1>1, <2>3, <3>2, CapturedPoint DEF SparedInv, SnapshotsSettled, StopSnap
    <3> QED
      BY <2>1, <2>3, <3>1, <3>2, DatesMove
  <2> QED
    BY <1>1, <2>1, <2>2, <2>3, DatesMove
<1>2. CASE StopVm(p) /\ name[p] = n /\ ResumePoint(n)' = p
  <2>1. pc[p] = "stop_vm" /\ ~StopSnap(p)
    BY <1>2 DEF StopVm, StopSnap
  <2>2. ~Recorded(p)
    BY <2>1 DEF SparedInv, SnapshotsSettled, Expiring
  <2>3. \A q \in Requests : p \notin before[q] /\ p \notin todo[q]
    BY <2>2 DEF Recorded
  <2>4. Unlisting(p) /\ ~GcList(p)
    BY <2>1, UnlistingSteps DEF ExpirePut, GcList
  <2> QED
    BY <1>2, <2>3, <2>4, DatesMove DEF Unlisting
<1> QED
  BY <1>1, <1>2, PointsMove

\* Every step keeps the invariant of the resume points.
LEMMA SparedStep ==
  ASSUME Locked, ~FreshMayExpire, IndexInv, LockedInv, SparedInv, [Next]_vars
  PROVE  SparedInv'
<1>1. ASSUME NEW p \in Requests, Start(p) \/ Step(p) PROVE SparedInv'
  BY <1>1, SettledStep, NewestStep DEF SparedInv
<1>2. CASE Crash \/ Restart
  BY <1>2 DEF Crash, Restart, Failing, Locked, LockedInv
<1>3. CASE Idle \/ UNCHANGED vars
  <2>1. UNCHANGED <<sandboxes, snapshots, before, pc, name, keep, todo>>
    BY <1>3 DEF Idle, vars, store, locals
  <2> QED
    BY <2>1 DEF SparedInv, SnapshotsSettled, NewestPoint, Recorded, Newer, ResumePoint, Capturing,
        Captures, Exists
<1> QED
  BY <1>1, <1>2, <1>3 DEF Next

\* The steps by which an image goes.
LEMMA ImagesGo ==
  ASSUME Locked, IndexInv, LockedInv, NEW p \in Requests, Start(p) \/ Step(p),
         NEW x \in images \ images'
  PROVE  (pc[p] = "image" /\ snap[p] = x) \/ x \in todo[p]
<1>1. CASE Start(p)
  BY <1>1 DEF Start, CreateStart, GetStart, StopStart, TimeoutStart, ExtendStart, UpdateStart,
      DeleteStart, DeleteSnapshotStart, GcStart, Begin, runtime
<1>2. CASE UpdateFields(p) \/ PolicyVm(p) \/ WriteBack(p) \/ DeleteVm(p) \/ DeleteList(p)
           \/ DeleteImage(p) \/ DeleteRecord(p) \/ DeleteRow(p)
  <2>1. pc[p] \in UnlockedSteps
    BY <1>2 DEF UpdateFields, PolicyVm, WriteBack, DeleteVm, DeleteList, DeleteImage,
        DeleteRecord, DeleteRow, UnlockedSteps
  <2> QED
    BY <2>1 DEF LockedInv, Knows
<1>3. CASE DeleteSnapshotImage(p)
  BY <1>3 DEF DeleteSnapshotImage
<1>4. CASE GcImage(p)
  BY <1>4, GcImageIs
<1>5. CASE GcList(p)
  BY <1>5, GcListIs DEF runtime
<1>6. CASE \/ AcquireName(p) \/ CreateCheck(p) \/ CreateQuota(p) \/ CreateVm(p)
           \/ CreateVmError(p) \/ CreatePut(p) \/ CreatePutError(p) \/ Undo(p)
           \/ GetReread(p) \/ ResumeVm(p) \/ ResumeVmError(p) \/ ResumePut(p)
           \/ ResumePutError(p)
  BY <1>6 DEF AcquireName, CreateCheck, CreateQuota, CreateVm, CreateVmError, CreatePut,
      CreatePutError, Undo, GetReread, ResumeVm, ResumeVmError, ResumePut, ResumePutError,
      SpawnVm, runtime
<1>7. CASE \/ AcquireLifecycle(p) \/ StopReread(p) \/ StopMark(p) \/ StopVm(p)
           \/ StopVmError(p) \/ StopSnap(p) \/ StopPut(p) \/ ExpireRead(p) \/ ExpirePut(p)
           \/ DeleteSnapshotRecord(p) \/ GcRecord(p) \/ GcDone(p)
  BY <1>7 DEF AcquireLifecycle, StopReread, StopMark, StopVm, StopEffect, StopVmError, StopSnap,
      StopPut, ExpireRead, ExpirePut, DeleteSnapshotRecord, GcRecord, GcDone, runtime
<1> QED
  BY <1>1, <1>2, <1>3, <1>4, <1>5, <1>6, <1>7 DEF Step

\* With the handlers that lock, and snapshots that outlive a pass, the collector
\* never strands a sandbox, whatever stops and resumes race with it and
\* whichever of its answers are lost.
THEOREM CollectorSparesResumePoints ==
  ASSUME Locked, ~FreshMayExpire PROVE Spec => ResumePointsSpared
<1>1. Init => SparedInv
  BY NoneIsFresh DEF Init, SparedInv, SnapshotsSettled, NewestPoint, Recorded, ResumePoint, Capturing,
     Captures, Exists
<1>2. IndexInv /\ LockedInv /\ SparedInv /\ [Next]_vars => SparedInv'
  BY SparedStep
<1>3. ASSUME IndexInv, LockedInv, SparedInv, [Next]_vars, NEW n \in Names,
             ResumePoint(n) \in images \ images'
      PROVE  \E p \in Requests : pc[p] = "image" /\ snap[p] = ResumePoint(n)
  <2>1. UNCHANGED images \/ \E p \in Requests : Start(p) \/ Step(p)
    BY <1>3 DEF Next, Crash, Restart, Idle, vars, runtime, Failing, Locked
  <2>2. PICK p \in Requests : Start(p) \/ Step(p)
    BY <1>3, <2>1
  <2>3. ResumePoint(n) # None
    BY <1>3, NoneIsFresh DEF IndexInv, TypeOK, RuntimeOK
  <2>4. ResumePoint(n) \notin todo[p]
    BY <1>3, <2>3 DEF SparedInv, NewestPoint
  <2> QED
    BY <1>3, <2>2, <2>4, ImagesGo
<1>4. IndexInv /\ LockedInv /\ SparedInv /\ [Next]_vars =>
        [\A n \in Names : ResumePoint(n) \in images \ images' =>
            \E p \in Requests : pc[p] = "image" /\ snap[p] = ResumePoint(n)]_vars
  BY <1>3
<1> QED
  BY <1>1, <1>2, <1>4, IndexInvariant, LockedInvariant, PTL DEF Spec, ResumePointsSpared

=============================================================================
