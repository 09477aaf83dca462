--------------------------- MODULE LifecycleProofs ---------------------------
(***************************************************************************)
(* Proofs about the sandbox lifecycle, for any requests, names, operations *)
(* and faults.                                                             *)
(***************************************************************************)
EXTENDS LifecycleProperties, TLAPS

\* Changing fields of a record gives a record.
LEMMA StatusUpdate ==
  ASSUME NEW r \in Records, NEW st \in Statuses
  PROVE  /\ [r EXCEPT !.status = st] \in Records
         /\ [r EXCEPT !.status = st].session = r.session
  BY DEF Records

\* So does moving it to a new session.
LEMMA SessionUpdate ==
  ASSUME NEW r \in Records, NEW s \in Requests, NEW st \in Statuses
  PROVE  /\ [r EXCEPT !.session = s, !.status = st] \in Records
         /\ [r EXCEPT !.session = s, !.status = st].session = s
  BY DEF Records

\* So does naming another snapshot with a new status.
LEMMA SnapshotUpdate ==
  ASSUME NEW r \in Records, NEW st \in Statuses, NEW x \in SnapshotIds
  PROVE  /\ [r EXCEPT !.status = st, !.snapshot = x] \in Records
         /\ [r EXCEPT !.status = st, !.snapshot = x].session = r.session
  BY DEF Records

\* So do the fields that updateSandbox changes.
LEMMA FieldsUpdate ==
  ASSUME NEW r \in Records, NEW x \in SnapshotIds, NEW b \in BOOLEAN
  PROVE  /\ [r EXCEPT !.snapshot = x, !.persistent = b] \in Records
         /\ [r EXCEPT !.snapshot = x, !.persistent = b].session = r.session
  BY DEF Records

\* PutSandbox keeps the buckets well formed.
LEMMA PutTypes ==
  ASSUME StoreOK, NEW n \in Names, NEW r \in Records, PutSandbox(n, r)
  PROVE  StoreOK'
  BY NoneIsFresh DEF StoreOK, PutSandbox, Records

\* A handler that returns leaves well-formed locals.
LEMMA ReturnTypes ==
  ASSUME RequestsOK, LocalsOK, NEW p \in Requests, pc[p] # "idle", Return(p)
  PROVE  RequestsOK' /\ LocalsOK'
  BY DEF RequestsOK, LocalsOK, Return, Goto, Labels, Finished, LockWaits, CopyHeld,
         SnapshotHeld, SnapshotIds

\* So does a handler that goes on with what it holds.
LEMMA GotoTypes ==
  ASSUME RequestsOK, LocalsOK, NEW p \in Requests, pc[p] # "idle",
         NEW l \in Labels, l # "idle",
         l \in CopyHeld => rec[p] # None, l \in SnapshotHeld => snap[p] # None,
         Goto(p, l), UNCHANGED locals
  PROVE  RequestsOK' /\ LocalsOK'
  BY DEF RequestsOK, LocalsOK, Goto, locals

\* What a step leaves alone stays well formed.
LEMMA FrameTypes ==
  ASSUME TypeOK
  PROVE  /\ UNCHANGED store => StoreOK'
         /\ UNCHANGED runtime => RuntimeOK'
         /\ UNCHANGED locks => LocksOK'
         /\ UNCHANGED process => ProcessOK'
  BY DEF TypeOK, StoreOK, RuntimeOK, LocksOK, ProcessOK, store, runtime, locks, process

\* A handler that is running has a sandbox name, and its copy while it needs it.
LEMMA Held ==
  ASSUME RequestsOK, LocalsOK, NEW p \in Requests, pc[p] # "idle"
  PROVE  /\ name[p] \in Names
         /\ pc[p] \in CopyHeld => rec[p] \in Records
  BY DEF RequestsOK, LocalsOK

\* A handler that returns leaves its lock free and everything else as it was.
LEMMA ReturnsTypes ==
  ASSUME TypeOK, LocalsOK, NEW p \in Requests, pc[p] # "idle",
         ReturnUnlocked(p) \/ ReturnStopped(p) \/ (Return(p) /\ UNCHANGED locks),
         StoreOK', RuntimeOK', ProcessOK'
  PROVE  TypeOK' /\ LocalsOK'
<1>1. RequestsOK' /\ LocalsOK'
  BY ReturnTypes DEF ReturnUnlocked, ReturnStopped, TypeOK
<1>2. LocksOK'
  <2>1. CASE ReturnUnlocked(p)
    BY <2>1, Held DEF ReturnUnlocked, Unlock, LocksOK, TypeOK
  <2>2. CASE ReturnStopped(p)
    BY <2>2 DEF ReturnStopped, LocksOK, TypeOK
  <2>3. CASE UNCHANGED locks
    BY <2>3, FrameTypes
  <2> QED
    BY <2>1, <2>2, <2>3
<1> QED
  BY <1>1, <1>2 DEF TypeOK

\* A handler that goes on with what it holds, or with a fresh copy.
LEMMA GoesOnTypes ==
  ASSUME TypeOK, LocalsOK, NEW p \in Requests, pc[p] # "idle",
         NEW l \in Labels, l # "idle", l \notin SnapshotHeld, Goto(p, l),
         UNCHANGED <<op, name, keep, todo, snap>>,
         NEW r \in Records \cup {None}, rec' = [rec EXCEPT ![p] = r],
         l \in CopyHeld => r # None,
         StoreOK', RuntimeOK', LocksOK', ProcessOK'
  PROVE  TypeOK' /\ LocalsOK'
<1>1. RequestsOK' /\ LocalsOK'
  BY DEF TypeOK, RequestsOK, LocalsOK, Goto
<1> QED
  BY <1>1 DEF TypeOK

(* The steps whose type correctness needs an argument of its own. *)

\* What a pass of the collector takes up: snapshots of the sandbox other than
\* the resume point it listed; or it skips the sandbox.
LEMMA GcListIs ==
  ASSUME NEW p \in Requests, GcList(p)
  PROVE  /\ pc[p] = "gc_list" /\ UNCHANGED <<store, runtime, locks, process>>
         /\ \/ Return(p)
            \/ /\ \E doomed \in SUBSET (SnapshotsOf(name[p]) \ {rec[p].snapshot}) :
                      todo' = [todo EXCEPT ![p] = doomed]
               /\ Goto(p, "gc_image") /\ UNCHANGED <<op, name, rec, keep, snap>>
  BY DEF GcList, Doomed

\* The collector's step by which an image goes.
LEMMA GcImageIs ==
  ASSUME NEW p \in Requests, GcImage(p)
  PROVE  /\ pc[p] = "gc_image" /\ UNCHANGED <<store, vms, boot, locks, process>>
         /\ \E x \in todo[p], l \in {"gc_record", "gc_image"} :
                TakeUp(p, x, l) /\ images' \in {images, images \ {x}}
  BY DEF GcImage

\* A handler whose VM was started goes on, undoes it or returns well formed.
LEMMA SpawnedTypes ==
  ASSUME TypeOK, LocalsOK, NEW p \in Requests, pc[p] # "idle",
         NEW l \in Labels, NEW u \in Labels, "idle" \notin {l, u},
         l \in CopyHeld => rec[p] # None, u \notin CopyHeld,
         SnapshotHeld \cap {l, u} = {}, Spawned(p, l, u), StoreOK', RuntimeOK', ProcessOK'
  PROVE  TypeOK' /\ LocalsOK'
<1>1. CASE ReturnUnlocked(p)
  BY <1>1, ReturnsTypes
<1>2. CASE Goto(p, l) /\ UNCHANGED <<locks, locals>>
  <2>1. UNCHANGED locks /\ UNCHANGED locals
    BY <1>2
  <2>2. RequestsOK' /\ LocalsOK'
    BY <1>2, <2>1, GotoTypes DEF TypeOK
  <2> QED
    BY <2>1, <2>2, FrameTypes DEF TypeOK
<1>3. CASE Goto(p, u) /\ UNCHANGED <<locks, locals>>
  <2>1. UNCHANGED locks /\ UNCHANGED locals
    BY <1>3
  <2>2. RequestsOK' /\ LocalsOK'
    BY <1>3, <2>1, GotoTypes DEF TypeOK
  <2> QED
    BY <2>1, <2>2, FrameTypes DEF TypeOK
<1> QED
  BY <1>1, <1>2, <1>3 DEF Spawned

\* createSandbox starting its VM.
LEMMA CreateVmTypes ==
  ASSUME TypeOK, LocalsOK, NEW p \in Requests, CreateVm(p)
  PROVE  TypeOK' /\ LocalsOK'
<1>1. pc[p] = "create_vm" /\ UNCHANGED store /\ UNCHANGED process
  BY DEF CreateVm
<1>2. RuntimeOK'
  BY DEF CreateVm, SpawnVm, TypeOK, RuntimeOK, SnapshotIds
<1> QED
  BY <1>1, <1>2, SpawnedTypes, FrameTypes DEF CreateVm, Labels, CopyHeld, SnapshotHeld

\* resumeSandbox starting its VM.
LEMMA ResumeVmTypes ==
  ASSUME TypeOK, LocalsOK, NEW p \in Requests, ResumeVm(p)
  PROVE  TypeOK' /\ LocalsOK'
<1>1. pc[p] = "resume_vm" /\ UNCHANGED store /\ UNCHANGED process
  BY DEF ResumeVm
<1>2. RuntimeOK'
  BY DEF ResumeVm, SpawnVm, TypeOK, RuntimeOK, SnapshotIds
<1>3. rec[p] # None
  BY <1>1 DEF LocalsOK, CopyHeld
<1> QED
  BY <1>1, <1>2, <1>3, SpawnedTypes, FrameTypes DEF ResumeVm, Labels, CopyHeld, SnapshotHeld

\* The existence check of createSandbox.
LEMMA CreateCheckTypes ==
  ASSUME TypeOK, LocalsOK, NEW p \in Requests, CreateCheck(p)
  PROVE  TypeOK' /\ LocalsOK'
<1>1. pc[p] = "create_check" /\ UNCHANGED store /\ UNCHANGED runtime /\ UNCHANGED process
  BY DEF CreateCheck
<1>2. CASE Exists(name[p])
  <2>1. ReturnUnlocked(p)
    BY <1>2 DEF CreateCheck
  <2> QED
    BY <1>1, <2>1, FrameTypes, ReturnsTypes
<1>3. CASE ~Exists(name[p])
  <2>1. Goto(p, "create_quota") /\ UNCHANGED locks /\ UNCHANGED locals
    BY <1>3 DEF CreateCheck
  <2>2. RequestsOK' /\ LocalsOK'
    BY <1>1, <2>1, GotoTypes DEF TypeOK, Labels, CopyHeld, SnapshotHeld
  <2> QED
    BY <1>1, <2>1, <2>2, FrameTypes DEF TypeOK
<1> QED
  BY <1>2, <1>3

\* The quota check of createSandbox.
LEMMA CreateQuotaTypes ==
  ASSUME TypeOK, LocalsOK, NEW p \in Requests, CreateQuota(p)
  PROVE  TypeOK' /\ LocalsOK'
<1>1. pc[p] = "create_quota" /\ UNCHANGED store /\ UNCHANGED runtime /\ UNCHANGED process
  BY DEF CreateQuota
<1>2. CASE ReturnUnlocked(p)
  BY <1>1, <1>2, FrameTypes, ReturnsTypes
<1>3. CASE Goto(p, "create_vm") /\ UNCHANGED locks /\ UNCHANGED locals
  <2>1. RequestsOK' /\ LocalsOK'
    BY <1>1, <1>3, GotoTypes DEF TypeOK, Labels, CopyHeld, SnapshotHeld
  <2> QED
    BY <1>1, <1>3, <2>1, FrameTypes DEF TypeOK
<1> QED
  BY <1>2, <1>3 DEF CreateQuota

\* The re-read of getSandbox.
LEMMA GetRereadTypes ==
  ASSUME TypeOK, LocalsOK, NEW p \in Requests, GetReread(p)
  PROVE  TypeOK' /\ LocalsOK'
<1> DEFINE current == IF Exists(name[p]) THEN sandboxes[name[p]] ELSE rec[p]
<1>1. pc[p] = "get_reread" /\ UNCHANGED store /\ UNCHANGED runtime /\ UNCHANGED process
  BY DEF GetReread
<1>2. current \in Records
  BY <1>1, Held DEF Exists, TypeOK, StoreOK, CopyHeld
<1> HIDE DEF current
<1>3. CASE ReturnUnlocked(p)
  BY <1>1, <1>3, FrameTypes, ReturnsTypes
<1>4. CASE /\ Goto(p, "resume_vm")
           /\ rec' = [rec EXCEPT ![p] = current]
           /\ UNCHANGED locks /\ UNCHANGED <<op, name, keep, todo, snap>>
  <2>1. "resume_vm" \in Labels /\ "resume_vm" \notin SnapshotHeld /\ current # None
    BY <1>2, NoneIsNoRecord DEF Labels, SnapshotHeld
  <2> QED
    BY <1>1, <1>2, <1>4, <2>1, FrameTypes, GoesOnTypes
<1> QED
  BY <1>3, <1>4 DEF GetReread, current

\* The write of resumeSandbox.
LEMMA ResumePutTypes ==
  ASSUME TypeOK, LocalsOK, NEW p \in Requests, ResumePut(p)
  PROVE  TypeOK' /\ LocalsOK'
<1> DEFINE r == [rec[p] EXCEPT !.session = p, !.status = "running"]
<1>1. pc[p] = "resume_put" /\ UNCHANGED runtime /\ UNCHANGED process /\ ReturnUnlocked(p)
  BY DEF ResumePut
<1>2. r \in Records /\ name[p] \in Names
  BY <1>1, Held, SessionUpdate DEF CopyHeld, TypeOK, Statuses
<1> HIDE DEF r
<1>3. PutSandbox(name[p], r)
  BY DEF ResumePut, r
<1> QED
  BY <1>1, <1>2, <1>3, PutTypes, FrameTypes, ReturnsTypes DEF TypeOK

\* The re-read of stopRecord.
LEMMA StopRereadTypes ==
  ASSUME TypeOK, LocalsOK, NEW p \in Requests, StopReread(p)
  PROVE  TypeOK' /\ LocalsOK'
<1> DEFINE current == IF Exists(name[p]) THEN sandboxes[name[p]] ELSE rec[p]
<1>1. pc[p] = "stop_reread" /\ UNCHANGED store /\ UNCHANGED runtime /\ UNCHANGED process
  BY DEF StopReread
<1>2. current \in Records
  BY <1>1, Held DEF Exists, TypeOK, StoreOK, CopyHeld
<1> HIDE DEF current
<1>3. CASE ReturnStopped(p)
  BY <1>1, <1>3, FrameTypes, ReturnsTypes
<1>4. CASE /\ Goto(p, "stop_mark")
           /\ rec' = [rec EXCEPT ![p] = current]
           /\ UNCHANGED locks /\ UNCHANGED <<op, name, keep, todo, snap>>
  <2>1. "stop_mark" \in Labels /\ "stop_mark" \notin SnapshotHeld /\ current # None
    BY <1>2, NoneIsNoRecord DEF Labels, SnapshotHeld
  <2> QED
    BY <1>1, <1>2, <1>4, <2>1, FrameTypes, GoesOnTypes
<1> QED
  BY <1>3, <1>4 DEF StopReread, current

\* The "stopping" write of stopRecord.
LEMMA StopMarkTypes ==
  ASSUME TypeOK, LocalsOK, NEW p \in Requests, StopMark(p)
  PROVE  TypeOK' /\ LocalsOK'
<1> DEFINE r == [rec[p] EXCEPT !.status = "stopping"]
<1>1. /\ pc[p] = "stop_mark" /\ Goto(p, "stop_vm") /\ UNCHANGED locks
      /\ UNCHANGED runtime /\ UNCHANGED process /\ UNCHANGED <<op, name, keep, todo, snap>>
  BY DEF StopMark
<1>2. r \in Records /\ name[p] \in Names
  BY <1>1, Held, StatusUpdate DEF CopyHeld, TypeOK, Statuses
<1> HIDE DEF r
<1>3. (PutSandbox(name[p], r) \/ UNCHANGED store) /\ rec' = [rec EXCEPT ![p] = r]
  BY DEF StopMark, r
<1>4. "stop_vm" \in Labels /\ "stop_vm" \notin SnapshotHeld /\ r # None
  BY <1>2, NoneIsNoRecord DEF Labels, SnapshotHeld
<1> QED
  BY <1>1, <1>2, <1>3, <1>4, PutTypes, FrameTypes, GoesOnTypes DEF TypeOK

\* The last write of stopRecord.
LEMMA StopPutTypes ==
  ASSUME TypeOK, LocalsOK, NEW p \in Requests, StopPut(p)
  PROVE  TypeOK' /\ LocalsOK'
<1> DEFINE x == IF keep[p] THEN p ELSE rec[p].snapshot
           r == [rec[p] EXCEPT !.status = "stopped", !.snapshot = x]
<1>1. pc[p] = "stop_put" /\ UNCHANGED runtime /\ UNCHANGED process
  BY DEF StopPut
<1>2. rec[p] \in Records /\ name[p] \in Names
  BY <1>1, Held DEF CopyHeld, TypeOK
<1>3. x \in SnapshotIds
  BY <1>2 DEF Records, SnapshotIds
<1>4. r \in Records
  <2> HIDE DEF x
  <2> QED
    BY <1>2, <1>3, SnapshotUpdate DEF Statuses
<1>5. PutSandbox(name[p], r) \/ UNCHANGED store
  BY DEF StopPut
<1> HIDE DEF r
<1>6. StoreOK'
  BY <1>2, <1>4, <1>5, PutTypes, FrameTypes DEF TypeOK
<1>7. CASE ReturnStopped(p)
  BY <1>1, <1>6, <1>7, FrameTypes, ReturnsTypes
<1>8. CASE Goto(p, "expire_read") /\ lifecycle' = None /\ UNCHANGED <<nameLock, locals>>
  <2>1. LocksOK'
    BY <1>8 DEF TypeOK, LocksOK
  <2>2. UNCHANGED locals
    BY <1>8
  <2>3. RequestsOK' /\ LocalsOK'
    BY <1>1, <1>8, <2>2, GotoTypes DEF TypeOK, Labels, CopyHeld, SnapshotHeld
  <2> QED
    BY <1>1, <1>6, <2>1, <2>3, FrameTypes DEF TypeOK
<1> QED
  BY <1>7, <1>8 DEF StopPut

\* The changes of updateSandbox to its copy.
LEMMA UpdateFieldsTypes ==
  ASSUME TypeOK, LocalsOK, NEW p \in Requests, UpdateFields(p)
  PROVE  TypeOK' /\ LocalsOK'
<1>1. /\ pc[p] = "update_snap" /\ UNCHANGED store /\ UNCHANGED runtime
      /\ UNCHANGED locks /\ UNCHANGED process /\ UNCHANGED <<op, name, keep, todo, snap>>
  BY DEF UpdateFields
<1>2. rec[p] \in Records
  BY <1>1, Held DEF CopyHeld, TypeOK
<1>3. PICK x \in SnapshotsOf(name[p]) \cup {rec[p].snapshot},
           b \in Persistence \cup {rec[p].persistent} :
         rec' = [rec EXCEPT ![p].snapshot = x, ![p].persistent = b]
  BY DEF UpdateFields
<1>4. x \in SnapshotIds /\ b \in BOOLEAN
  BY <1>2, <1>3, PersistenceIsBoolean DEF SnapshotsOf, Records, SnapshotIds
<1> DEFINE r == [rec[p] EXCEPT !.snapshot = x, !.persistent = b]
<1>5. r \in Records
  BY <1>2, <1>4, FieldsUpdate DEF Statuses
<1>6. rec' = [rec EXCEPT ![p] = r]
  BY <1>3 DEF TypeOK, RequestsOK
<1> HIDE DEF r
<1>7. r # None
  BY <1>5, NoneIsNoRecord
<1>8. PICK l \in {"write_back", "policy_vm"} : Goto(p, l)
  BY DEF UpdateFields
<1>9. l \in Labels /\ l # "idle" /\ l \notin SnapshotHeld
  BY DEF Labels, SnapshotHeld
<1> QED
  BY <1>1, <1>5, <1>6, <1>7, <1>8, <1>9, FrameTypes, GoesOnTypes

\* The runtime call of a policy update.
LEMMA PolicyVmTypes ==
  ASSUME TypeOK, LocalsOK, NEW p \in Requests, PolicyVm(p)
  PROVE  TypeOK' /\ LocalsOK'
<1>1. /\ pc[p] = "policy_vm" /\ UNCHANGED store /\ UNCHANGED runtime
      /\ UNCHANGED locks /\ UNCHANGED process
  BY DEF PolicyVm
<1>2. CASE Return(p)
  BY <1>1, <1>2, FrameTypes, ReturnsTypes
<1>3. CASE Goto(p, "write_back") /\ UNCHANGED locals
  <2>1. rec[p] # None
    BY <1>1 DEF LocalsOK, CopyHeld
  <2>2. RequestsOK' /\ LocalsOK'
    BY <1>1, <1>3, <2>1, GotoTypes DEF TypeOK, Labels, SnapshotHeld
  <2> QED
    BY <1>1, <2>2, FrameTypes DEF TypeOK
<1> QED
  BY <1>2, <1>3 DEF PolicyVm

\* The last write of extendTimeout and updateSandbox.
LEMMA WriteBackTypes ==
  ASSUME TypeOK, LocalsOK, NEW p \in Requests, WriteBack(p)
  PROVE  TypeOK' /\ LocalsOK'
<1>1. /\ pc[p] = "write_back" /\ Return(p) /\ UNCHANGED locks
      /\ UNCHANGED runtime /\ UNCHANGED process
  BY DEF WriteBack
<1>2. rec[p] \in Records /\ name[p] \in Names
  BY <1>1, Held DEF CopyHeld, TypeOK
<1>3. StoreOK'
  BY <1>2, PutTypes, FrameTypes DEF WriteBack, TypeOK
<1> QED
  BY <1>1, <1>3, FrameTypes, ReturnsTypes

\* The handlers that end with giving up a row or a snapshot record.
LEMMA DeletesTypes ==
  ASSUME TypeOK, LocalsOK, NEW p \in Requests, DeleteRow(p) \/ DeleteSnapshotRecord(p)
  PROVE  TypeOK' /\ LocalsOK'
<1>1. /\ pc[p] \in {"delete_image", "image_record"} /\ Return(p) /\ UNCHANGED locks
      /\ UNCHANGED runtime /\ UNCHANGED process
  BY DEF DeleteRow, DeleteSnapshotRecord
<1>2. \/ DeleteSandbox(name[p])
      \/ DeleteSnapshot(snap[p])
      \/ UNCHANGED store
  BY DEF DeleteRow, DeleteSnapshotRecord
<1>3. StoreOK'
  BY <1>2 DEF TypeOK, StoreOK, DeleteSandbox, DeleteSnapshot, store
<1> QED
  BY <1>1, <1>3, FrameTypes, ReturnsTypes

\* The crashes counted stay within their bound.
LEMMA CrashTypes ==
  ASSUME ProcessOK, Crash
  PROVE  ProcessOK'
<1>1. up' = FALSE
  BY DEF Crash
<1>2. crashes \in 0..MaxCrashes /\ crashes < MaxCrashes /\ crashes' = crashes + 1
  BY DEF Crash, ProcessOK
<1>3. crashes' \in 0..MaxCrashes
  BY ONLY <1>2, LimitsAreNat, SMT
<1> QED
  BY <1>1, <1>3 DEF ProcessOK

\* Every step keeps the state well formed and every handler what it holds.
LEMMA TypeStep ==
  ASSUME TypeOK, LocalsOK, [Next]_vars
  PROVE  TypeOK' /\ LocalsOK'
<1> USE NoneIsFresh, PersistenceIsBoolean, LimitsAreNat
    DEF TypeOK, StoreOK, RuntimeOK, LocksOK, RequestsOK, ProcessOK, LocalsOK, CopyHeld,
        SnapshotHeld, Labels, LockWaits, Finished, Records, SnapshotIds, Statuses, AllOps,
        vars, store, runtime, locks, locals, process
<1>1. ASSUME NEW p \in Requests, CreateStart(p) PROVE TypeOK' /\ LocalsOK'
  BY <1>1 DEF CreateStart, Begin, Goto
<1>2. ASSUME NEW p \in Requests, GetStart(p) PROVE TypeOK' /\ LocalsOK'
  BY <1>2 DEF GetStart, Exists, Begin, Goto
<1>3. ASSUME NEW p \in Requests, StopStart(p) PROVE TypeOK' /\ LocalsOK'
  BY <1>3 DEF StopStart, Exists, Begin, Goto
<1>4. ASSUME NEW p \in Requests, TimeoutStart(p) PROVE TypeOK' /\ LocalsOK'
  BY <1>4 DEF TimeoutStart, Exists, Begin, Goto
<1>5. ASSUME NEW p \in Requests, ExtendStart(p) PROVE TypeOK' /\ LocalsOK'
  BY <1>5 DEF ExtendStart, Exists, Begin, Goto
<1>6. ASSUME NEW p \in Requests, UpdateStart(p) PROVE TypeOK' /\ LocalsOK'
  BY <1>6 DEF UpdateStart, Exists, Begin, Goto
<1>7. ASSUME NEW p \in Requests, DeleteStart(p) PROVE TypeOK' /\ LocalsOK'
  BY <1>7 DEF DeleteStart, Exists, Begin, Goto
<1>8. ASSUME NEW p \in Requests, DeleteSnapshotStart(p) PROVE TypeOK' /\ LocalsOK'
  BY <1>8 DEF DeleteSnapshotStart, Begin, Goto
<1>9. ASSUME NEW p \in Requests, GcStart(p) PROVE TypeOK' /\ LocalsOK'
  BY <1>9 DEF GcStart, Exists, Begin, Goto
<1>10. ASSUME NEW p \in Requests, AcquireName(p) PROVE TypeOK' /\ LocalsOK'
  BY <1>10 DEF AcquireName, Goto
<1>11. ASSUME NEW p \in Requests, CreateCheck(p) PROVE TypeOK' /\ LocalsOK'
  BY ONLY <1>11, CreateCheckTypes, TypeOK, LocalsOK
<1>12. ASSUME NEW p \in Requests, CreateQuota(p) PROVE TypeOK' /\ LocalsOK'
  BY ONLY <1>12, CreateQuotaTypes, TypeOK, LocalsOK
<1>13. ASSUME NEW p \in Requests, CreateVm(p) PROVE TypeOK' /\ LocalsOK'
  BY ONLY <1>13, CreateVmTypes, TypeOK, LocalsOK
<1>14. ASSUME NEW p \in Requests, CreateVmError(p) PROVE TypeOK' /\ LocalsOK'
  BY <1>14 DEF CreateVmError, Failing, Sources, ReturnUnlocked, Return,
      Unlock, Goto
<1>15. ASSUME NEW p \in Requests, CreatePut(p) PROVE TypeOK' /\ LocalsOK'
  BY <1>15 DEF CreatePut, PutSandbox, ReturnUnlocked, Exists, Return, Unlock,
      Goto
<1>16. ASSUME NEW p \in Requests, CreatePutError(p) PROVE TypeOK' /\ LocalsOK'
  BY <1>16 DEF CreatePutError, Failing, Goto
<1>17. ASSUME NEW p \in Requests, Undo(p) PROVE TypeOK' /\ LocalsOK'
  BY <1>17 DEF Undo, Failing, ReturnUnlocked, Return, Unlock, Goto
<1>18. ASSUME NEW p \in Requests, GetReread(p) PROVE TypeOK' /\ LocalsOK'
  BY ONLY <1>18, GetRereadTypes, TypeOK, LocalsOK
<1>19. ASSUME NEW p \in Requests, ResumeVm(p) PROVE TypeOK' /\ LocalsOK'
  BY ONLY <1>19, ResumeVmTypes, TypeOK, LocalsOK
<1>20. ASSUME NEW p \in Requests, ResumeVmError(p) PROVE TypeOK' /\ LocalsOK'
  BY <1>20 DEF ResumeVmError, Failing, ReturnUnlocked, Return, Unlock, Goto
<1>21. ASSUME NEW p \in Requests, ResumePut(p) PROVE TypeOK' /\ LocalsOK'
  BY ONLY <1>21, ResumePutTypes, TypeOK, LocalsOK
<1>22. ASSUME NEW p \in Requests, ResumePutError(p) PROVE TypeOK' /\ LocalsOK'
  BY <1>22 DEF ResumePutError, Failing, ReturnUnlocked, Return, Unlock, Goto
<1>23. ASSUME NEW p \in Requests, AcquireLifecycle(p) PROVE TypeOK' /\ LocalsOK'
  BY <1>23 DEF AcquireLifecycle, Goto
<1>24. ASSUME NEW p \in Requests, StopReread(p) PROVE TypeOK' /\ LocalsOK'
  BY ONLY <1>24, StopRereadTypes, TypeOK, LocalsOK
<1>25. ASSUME NEW p \in Requests, StopMark(p) PROVE TypeOK' /\ LocalsOK'
  BY ONLY <1>25, StopMarkTypes, TypeOK, LocalsOK
<1>26. ASSUME NEW p \in Requests, StopVm(p) PROVE TypeOK' /\ LocalsOK'
  <2>1. RuntimeOK'
    BY <1>26 DEF StopVm, StopEffect
  <2>2. CASE ReturnStopped(p)
    BY <1>26, <2>1, <2>2 DEF StopVm, ReturnStopped, Return, Goto
  <2>3. CASE Goto(p, "stop_snap") /\ UNCHANGED <<locks, locals>>
    BY <1>26, <2>1, <2>3 DEF StopVm, Goto
  <2>4. CASE Goto(p, "stop_put") /\ UNCHANGED <<locks, locals>>
    BY <1>26, <2>1, <2>4 DEF StopVm, Goto
  <2> QED
    BY <1>26, <2>2, <2>3, <2>4 DEF StopVm
<1>27. ASSUME NEW p \in Requests, StopVmError(p) PROVE TypeOK' /\ LocalsOK'
  BY <1>27 DEF StopVmError, Failing, ReturnStopped, Return, Goto
<1>28. ASSUME NEW p \in Requests, StopSnap(p) PROVE TypeOK' /\ LocalsOK'
  <2>1. CASE ReturnStopped(p) /\ UNCHANGED store
    BY <1>28, <2>1 DEF StopSnap, ReturnStopped, Return, Goto
  <2>2. CASE /\ PutSnapshot(p, name[p]) /\ Goto(p, "stop_put") /\ UNCHANGED <<locks, locals>>
             /\ \E taken \in SUBSET Requests : before' = [before EXCEPT ![p] = taken]
    BY <1>28, <2>2 DEF StopSnap, PutSnapshot, Goto
  <2> QED
    BY <1>28, <2>1, <2>2 DEF StopSnap
<1>29. ASSUME NEW p \in Requests, StopPut(p) PROVE TypeOK' /\ LocalsOK'
  BY ONLY <1>29, StopPutTypes, TypeOK, LocalsOK
<1>30. ASSUME NEW p \in Requests, ExpireRead(p) PROVE TypeOK' /\ LocalsOK'
  BY <1>30 DEF ExpireRead, Goto
<1>31. ASSUME NEW p \in Requests, ExpirePut(p) PROVE TypeOK' /\ LocalsOK'
  BY <1>31 DEF ExpirePut, PutSnapshot, Failing, Return, Goto
<1>32. ASSUME NEW p \in Requests, UpdateFields(p) PROVE TypeOK' /\ LocalsOK'
  BY ONLY <1>32, UpdateFieldsTypes, TypeOK, LocalsOK
<1>33. ASSUME NEW p \in Requests, PolicyVm(p) PROVE TypeOK' /\ LocalsOK'
  BY ONLY <1>33, PolicyVmTypes, TypeOK, LocalsOK
<1>34. ASSUME NEW p \in Requests, WriteBack(p) PROVE TypeOK' /\ LocalsOK'
  BY ONLY <1>34, WriteBackTypes, TypeOK, LocalsOK
<1>35. ASSUME NEW p \in Requests, DeleteVm(p) PROVE TypeOK' /\ LocalsOK'
  <2>1. CASE Return(p) /\ UNCHANGED vms
    BY <1>35, <2>1 DEF DeleteVm, Return, Goto
  <2>2. CASE vms' \subseteq vms /\ Goto(p, "delete_list") /\ UNCHANGED locals
    BY <1>35, <2>2 DEF DeleteVm, Goto
  <2> QED
    BY <1>35, <2>1, <2>2 DEF DeleteVm
<1>36. ASSUME NEW p \in Requests, DeleteList(p) PROVE TypeOK' /\ LocalsOK'
  BY <1>36 DEF DeleteList, SnapshotsOf, Goto
<1>37. ASSUME NEW p \in Requests, DeleteImage(p) PROVE TypeOK' /\ LocalsOK'
  BY <1>37 DEF DeleteImage, TakeUp, Failing, Goto
<1>38. ASSUME NEW p \in Requests, DeleteRecord(p) PROVE TypeOK' /\ LocalsOK'
  BY <1>38 DEF DeleteRecord, DeleteSnapshot, Failing, Goto
<1>39. ASSUME NEW p \in Requests, DeleteRow(p) PROVE TypeOK' /\ LocalsOK'
  BY ONLY <1>39, DeletesTypes, TypeOK, LocalsOK
<1>40. ASSUME NEW p \in Requests, DeleteSnapshotImage(p) PROVE TypeOK' /\ LocalsOK'
  <2>1. CASE Return(p) /\ images' \subseteq images
    BY <1>40, <2>1 DEF DeleteSnapshotImage, Return, Goto
  <2>2. CASE images' \subseteq images /\ Goto(p, "image_record") /\ UNCHANGED locals
    BY <1>40, <2>2 DEF DeleteSnapshotImage, Goto
  <2> QED
    BY <1>40, <2>1, <2>2 DEF DeleteSnapshotImage
<1>41. ASSUME NEW p \in Requests, DeleteSnapshotRecord(p) PROVE TypeOK' /\ LocalsOK'
  BY ONLY <1>41, DeletesTypes, TypeOK, LocalsOK
<1>42. ASSUME NEW p \in Requests, GcList(p) PROVE TypeOK' /\ LocalsOK'
  <2>1. CASE Return(p)
    BY <1>42, <2>1, GcListIs, FrameTypes, ReturnTypes
  <2>2. CASE /\ \E doomed \in SUBSET Requests : todo' = [todo EXCEPT ![p] = doomed]
             /\ Goto(p, "gc_image") /\ UNCHANGED <<op, name, rec, keep, snap>>
    BY <1>42, <2>2, GcListIs DEF Goto
  <2> QED
    BY <1>42, <2>1, <2>2, GcListIs DEF SnapshotsOf
<1>43. ASSUME NEW p \in Requests, GcImage(p) PROVE TypeOK' /\ LocalsOK'
  <2>1. PICK x \in todo[p], l \in {"gc_record", "gc_image"} :
           TakeUp(p, x, l) /\ images' \in {images, images \ {x}}
    BY <1>43, GcImageIs
  <2>2. RequestsOK' /\ LocalsOK'
    <3>1. l \in Labels /\ pc[p] = "gc_image" /\ l # "idle" /\ x \in Requests /\ l \notin CopyHeld
      BY <1>43, <2>1, GcImageIs
    <3> QED
      BY ONLY <2>1, <3>1, NoneIsFresh, p \in Requests, RequestsOK, LocalsOK
      DEF RequestsOK, LocalsOK, TakeUp, Goto, SnapshotIds
  <2>3. StoreOK' /\ RuntimeOK' /\ LocksOK' /\ ProcessOK'
    BY <1>43, <2>1, GcImageIs
  <2> QED
    BY <2>2, <2>3
<1>44. ASSUME NEW p \in Requests, GcRecord(p) PROVE TypeOK' /\ LocalsOK'
  BY <1>44 DEF GcRecord, DeleteSnapshot, Failing, Goto
<1>45. ASSUME NEW p \in Requests, GcDone(p) PROVE TypeOK' /\ LocalsOK'
  BY <1>45 DEF GcDone, Return, Goto
<1>46. CASE Crash
  <2>1. pc' \in [Requests -> Labels] /\ LocalsOK'
    BY <1>46 DEF Crash, InFlight
  <2>2. RuntimeOK'
    BY <1>46 DEF Crash
  <2>3. ProcessOK'
    BY ONLY ProcessOK, LimitsAreNat, <1>46, CrashTypes
  <2>4. StoreOK' /\ LocksOK'
    BY <1>46 DEF Crash
  <2>5. RequestsOK'
    BY <1>46, <2>1 DEF Crash
  <2> QED
    BY <2>1, <2>2, <2>3, <2>4, <2>5
<1>47. CASE Restart
  <2>1. UNCHANGED sessions /\ UNCHANGED runtime /\ UNCHANGED locks /\ UNCHANGED <<pc, locals>>
    BY <1>47 DEF Restart
  <2>2. sandboxes' \in [Names -> Records \cup {None}]
    BY <1>47 DEF Restart, Failing, Dead, Exists
  <2>3. snapshots' = snapshots /\ before' = before
    BY <1>47 DEF Restart
  <2>4. ProcessOK'
    BY <1>47 DEF Restart
  <2> QED
    BY <2>1, <2>2, <2>3, <2>4
<1>48. CASE Idle \/ UNCHANGED vars
  BY <1>48 DEF Idle
<1> QED
  BY <1>1, <1>2, <1>3, <1>4, <1>5, <1>6, <1>7, <1>8, <1>9, <1>10, <1>11,
      <1>12, <1>13, <1>14, <1>15, <1>16, <1>17, <1>18, <1>19, <1>20, <1>21,
      <1>22, <1>23, <1>24, <1>25, <1>26, <1>27, <1>28, <1>29, <1>30, <1>31,
      <1>32, <1>33, <1>34, <1>35, <1>36, <1>37, <1>38, <1>39, <1>40, <1>41,
      <1>42, <1>43, <1>44, <1>45, <1>46, <1>47, <1>48 DEF Next, Start, Step

-----------------------------------------------------------------------------
(* The session index. *)

\* a step that gives up copies and touches neither rows, index nor names
Quiet ==
    /\ UNCHANGED <<sandboxes, sessions, name>>
    /\ \A p \in Requests : rec'[p] \in {rec[p], None}

\* A quiet step keeps the index.
LEMMA QuietStep ==
  ASSUME IndexInv, Quiet
  PROVE  SessionsKeepNames' /\ SessionIndexConsistent'
  BY DEF IndexInv, SessionsKeepNames, SessionIndexConsistent, Quiet, Exists

\* So does a handler that starts with the row of its name, or with no copy.
LEMMA BeginStep ==
  ASSUME IndexInv, NEW p \in Requests, NEW o, NEW l, NEW n \in Names,
         NEW r \in {None, sandboxes[n]}, Begin(p, o, n, r, l)
  PROVE  SessionsKeepNames' /\ SessionIndexConsistent'
<1>1. pc[p] = "idle" /\ name[p] = None /\ name[p] \notin Names
  BY NoneIsFresh DEF IndexInv, LocalsOK, Begin
<1>2. /\ UNCHANGED <<sandboxes, sessions>>
      /\ name' = [name EXCEPT ![p] = n]
      /\ rec' = [rec EXCEPT ![p] = r]
  BY DEF Begin, store
<1>3. SessionIndexConsistent'
  BY <1>2 DEF IndexInv, SessionIndexConsistent, Exists
<1>4. ASSUME NEW m \in Names, Exists(m) PROVE name'[sandboxes[m].session] = m
  <2>1. sandboxes[m].session \in Requests /\ name[sandboxes[m].session] = m
    BY <1>4 DEF IndexInv, TypeOK, StoreOK, Exists, Records, SessionsKeepNames
  <2> QED
    BY <1>1, <1>2, <2>1 DEF IndexInv, TypeOK, RequestsOK
<1>5. ASSUME NEW q \in Requests, rec'[q] # None PROVE name'[rec'[q].session] = name'[q]
  <2>1. CASE q = p
    <3>1. rec'[p] = sandboxes[n] /\ Exists(n) /\ name'[p] = n
      BY <1>2, <1>5, <2>1 DEF IndexInv, TypeOK, RequestsOK, Exists
    <3> QED
      BY <1>4, <2>1, <3>1
  <2>2. CASE q # p
    <3>1. rec'[q] = rec[q] /\ name'[q] = name[q] /\ rec[q] \in Records
      BY <1>2, <1>5, <2>2 DEF IndexInv, TypeOK, RequestsOK
    <3>2. rec[q].session \in Requests /\ name[rec[q].session] = name[q] /\ name[q] # None
      BY <1>5, <3>1 DEF IndexInv, SessionsKeepNames, Records, LocalsOK
    <3> QED
      BY <1>1, <1>2, <3>1, <3>2 DEF IndexInv, TypeOK, RequestsOK
  <2> QED
    BY <2>1, <2>2
<1> QED
  BY <1>2, <1>3, <1>4, <1>5 DEF SessionsKeepNames, Exists

\* Copies of records that belong to their holders' names, over untouched rows.
LEMMA CopyStep ==
  ASSUME IndexInv, UNCHANGED <<sandboxes, sessions, name>>,
         NEW p \in Requests, NEW r \in Records, name[r.session] = name[p],
         rec' = [rec EXCEPT ![p] = r]
  PROVE  SessionsKeepNames' /\ SessionIndexConsistent'
  BY DEF IndexInv, SessionsKeepNames, SessionIndexConsistent, Exists, TypeOK, RequestsOK

\* PutSandbox keeps the index when the session it writes belongs to its name.
LEMMA PutIndex ==
  ASSUME IndexInv, NEW n \in Names, NEW r \in Records, name[r.session] = n,
         PutSandbox(n, r), UNCHANGED name
  PROVE  /\ SessionIndexConsistent'
         /\ \A m \in Names : Exists(m)' => name'[(sandboxes[m].session)'] = m
<1>1. r.session \in Requests /\ r # None
  BY NoneIsNoRecord DEF Records
<1>2. \A m \in Names : sandboxes'[m] = IF m = n THEN r ELSE sandboxes[m]
  BY DEF PutSandbox, IndexInv, TypeOK, StoreOK
<1>3. \A s \in Requests : sessions'[s] =
         IF s = r.session THEN n
         ELSE IF Exists(n) /\ s = sandboxes[n].session THEN None
         ELSE sessions[s]
  BY DEF PutSandbox
<1>4. \A m \in Names : Exists(m) =>
         /\ sandboxes[m].session \in Requests
         /\ name[sandboxes[m].session] = m
         /\ sessions[sandboxes[m].session] = m
  BY DEF IndexInv, TypeOK, StoreOK, Exists, Records, SessionsKeepNames,
         SessionIndexConsistent
<1>5. \A s \in Requests : sessions[s] # None =>
         sessions[s] \in Names /\ Exists(sessions[s]) /\ sandboxes[sessions[s]].session = s
  BY DEF IndexInv, TypeOK, StoreOK, SessionIndexConsistent
<1>6. \A m \in Names : Exists(m)' =>
         name'[(sandboxes[m].session)'] = m /\ sessions'[(sandboxes[m].session)'] = m
  BY <1>1, <1>2, <1>3, <1>4 DEF Exists
<1>7. \A s \in Requests : sessions'[s] # None =>
         Exists(sessions[s])' /\ (sandboxes[sessions[s]].session)' = s
  BY <1>1, <1>2, <1>3, <1>4, <1>5 DEF Exists
<1> QED
  BY <1>6, <1>7 DEF SessionIndexConsistent

\* So the step keeps it, if the holders of copies keep those, give them up, or
\* hold what they have just written.
LEMMA PutStep ==
  ASSUME IndexInv, NEW n \in Names, NEW r \in Records, name[r.session] = n,
         PutSandbox(n, r), UNCHANGED name,
         \A q \in Requests : rec'[q] \in {rec[q], None} \/ (name[q] = n /\ rec'[q] = r)
  PROVE  SessionsKeepNames' /\ SessionIndexConsistent'
<1>1. \A q \in Requests : rec'[q] # None => name'[(rec[q].session)'] = name'[q]
  BY DEF IndexInv, SessionsKeepNames
<1> QED
  BY <1>1, PutIndex DEF SessionsKeepNames

\* DeleteSandbox keeps the index.
LEMMA DropStep ==
  ASSUME IndexInv, NEW n \in Names, DeleteSandbox(n), UNCHANGED name,
         \A q \in Requests : rec'[q] \in {rec[q], None}
  PROVE  SessionsKeepNames' /\ SessionIndexConsistent'
<1>1. \A m \in Names : sandboxes'[m] = IF m = n THEN None ELSE sandboxes[m]
  BY DEF DeleteSandbox, IndexInv, TypeOK, StoreOK
<1>2. \A s \in Requests : sessions'[s] =
         IF Exists(n) /\ s = sandboxes[n].session THEN None ELSE sessions[s]
  BY DEF DeleteSandbox
<1>3. \A m \in Names : Exists(m) =>
         /\ sandboxes[m].session \in Requests
         /\ name[sandboxes[m].session] = m
         /\ sessions[sandboxes[m].session] = m
  BY DEF IndexInv, TypeOK, StoreOK, Exists, Records, SessionsKeepNames,
         SessionIndexConsistent
<1>4. \A s \in Requests : sessions[s] # None =>
         sessions[s] \in Names /\ Exists(sessions[s]) /\ sandboxes[sessions[s]].session = s
  BY DEF IndexInv, TypeOK, StoreOK, SessionIndexConsistent
<1>5. SessionIndexConsistent'
  BY <1>1, <1>2, <1>3, <1>4 DEF Exists, SessionIndexConsistent
<1>6. SessionsKeepNames'
  BY <1>1, <1>3 DEF Exists, SessionsKeepNames, IndexInv
<1> QED
  BY <1>5, <1>6

\* A handler's copy belongs to the sandbox it works on.
LEMMA HeldNames ==
  ASSUME IndexInv, NEW p \in Requests, pc[p] \in CopyHeld
  PROVE  /\ rec[p] \in Records /\ name[p] \in Names
         /\ name[rec[p].session] = name[p]
<1>1. rec[p] # None /\ pc[p] # "idle"
  BY DEF IndexInv, LocalsOK, CopyHeld
<1> QED
  BY <1>1, Held DEF IndexInv, TypeOK, SessionsKeepNames

(* The steps that write a row, or take a fresh copy of one. *)

\* The write of createSandbox keeps the index.
LEMMA CreatePutIndex ==
  ASSUME IndexInv, NEW p \in Requests, CreatePut(p)
  PROVE  SessionsKeepNames' /\ SessionIndexConsistent'
<1> DEFINE row(b) == [status |-> "running", session |-> p, snapshot |-> None, persistent |-> b]
<1>1. name[p] \in Names /\ UNCHANGED name /\ \A q \in Requests : rec'[q] \in {rec[q], None}
  BY Held DEF CreatePut, ReturnUnlocked, Return, IndexInv, TypeOK, RequestsOK
<1>2. PICK b \in Persistence : PutSandbox(name[p], row(b))
  BY DEF CreatePut
<1>3. row(b) \in Records /\ row(b).session = p
  BY PersistenceIsBoolean DEF Records, Statuses, SnapshotIds
<1> HIDE DEF row
<1> QED
  BY <1>1, <1>2, <1>3, PutStep

\* The re-read of getSandbox takes a copy of the right name.
LEMMA GetRereadIndex ==
  ASSUME IndexInv, NEW p \in Requests, GetReread(p)
  PROVE  SessionsKeepNames' /\ SessionIndexConsistent'
<1> DEFINE current == IF Exists(name[p]) THEN sandboxes[name[p]] ELSE rec[p]
<1>1. pc[p] = "get_reread" /\ UNCHANGED <<sandboxes, sessions, name>>
  BY DEF GetReread, store, ReturnUnlocked, Return, locks, locals
<1>2. current \in Records /\ name[current.session] = name[p]
  BY <1>1, HeldNames DEF Exists, IndexInv, TypeOK, StoreOK, CopyHeld, SessionsKeepNames
<1> HIDE DEF current
<1>3. CASE ReturnUnlocked(p)
  BY <1>1, <1>3, QuietStep DEF ReturnUnlocked, Return, Quiet, IndexInv, TypeOK, RequestsOK
<1>4. CASE rec' = [rec EXCEPT ![p] = current]
  BY <1>1, <1>2, <1>4, CopyStep
<1> QED
  BY <1>3, <1>4 DEF GetReread, current

\* The re-read of stopRecord takes a copy of the right name.
LEMMA StopRereadIndex ==
  ASSUME IndexInv, NEW p \in Requests, StopReread(p)
  PROVE  SessionsKeepNames' /\ SessionIndexConsistent'
<1> DEFINE current == IF Exists(name[p]) THEN sandboxes[name[p]] ELSE rec[p]
<1>1. pc[p] = "stop_reread" /\ UNCHANGED <<sandboxes, sessions, name>>
  BY DEF StopReread, store, ReturnStopped, Return, locks, locals
<1>2. current \in Records /\ name[current.session] = name[p]
  BY <1>1, HeldNames DEF Exists, IndexInv, TypeOK, StoreOK, CopyHeld, SessionsKeepNames
<1> HIDE DEF current
<1>3. CASE ReturnStopped(p)
  BY <1>1, <1>3, QuietStep DEF ReturnStopped, Return, Quiet, IndexInv, TypeOK, RequestsOK
<1>4. CASE rec' = [rec EXCEPT ![p] = current]
  BY <1>1, <1>2, <1>4, CopyStep
<1> QED
  BY <1>3, <1>4 DEF StopReread, current

\* The write of resumeSandbox moves the index to the new session.
LEMMA ResumePutIndex ==
  ASSUME IndexInv, NEW p \in Requests, ResumePut(p)
  PROVE  SessionsKeepNames' /\ SessionIndexConsistent'
<1> DEFINE r == [rec[p] EXCEPT !.session = p, !.status = "running"]
<1>1. pc[p] = "resume_put" /\ UNCHANGED name /\ \A q \in Requests : rec'[q] \in {rec[q], None}
  BY DEF ResumePut, ReturnUnlocked, Return, IndexInv, TypeOK, RequestsOK
<1>2. r \in Records /\ r.session = p /\ name[p] \in Names
  BY <1>1, HeldNames, SessionUpdate DEF CopyHeld, Statuses
<1> HIDE DEF r
<1>3. PutSandbox(name[p], r)
  BY DEF ResumePut, r
<1> QED
  BY <1>1, <1>2, <1>3, PutStep

\* The "stopping" write of stopRecord keeps the index.
LEMMA StopMarkIndex ==
  ASSUME IndexInv, NEW p \in Requests, StopMark(p)
  PROVE  SessionsKeepNames' /\ SessionIndexConsistent'
<1> DEFINE r == [rec[p] EXCEPT !.status = "stopping"]
<1>1. pc[p] = "stop_mark" /\ UNCHANGED name
  BY DEF StopMark
<1>2. r \in Records /\ name[p] \in Names /\ name[r.session] = name[p]
  BY <1>1, HeldNames, StatusUpdate DEF CopyHeld, Statuses
<1> HIDE DEF r
<1>3. (PutSandbox(name[p], r) \/ UNCHANGED store) /\ rec' = [rec EXCEPT ![p] = r]
  BY DEF StopMark, r
<1>4. \A q \in Requests : rec'[q] = rec[q] \/ (q = p /\ rec'[q] = r)
  BY <1>3 DEF IndexInv, TypeOK, RequestsOK
<1>5. CASE PutSandbox(name[p], r)
  BY <1>1, <1>2, <1>4, <1>5, PutStep
<1>6. CASE UNCHANGED store
  BY <1>1, <1>2, <1>3, <1>6, CopyStep DEF store
<1> QED
  BY <1>3, <1>5, <1>6

\* The last write of stopRecord keeps the index.
LEMMA StopPutIndex ==
  ASSUME IndexInv, NEW p \in Requests, StopPut(p)
  PROVE  SessionsKeepNames' /\ SessionIndexConsistent'
<1> DEFINE x == IF keep[p] THEN p ELSE rec[p].snapshot
           r == [rec[p] EXCEPT !.status = "stopped", !.snapshot = x]
<1>1. pc[p] = "stop_put" /\ UNCHANGED name /\ \A q \in Requests : rec'[q] \in {rec[q], None}
  BY DEF StopPut, ReturnStopped, Return, locals, IndexInv, TypeOK, RequestsOK
<1>2. rec[p] \in Records /\ name[p] \in Names /\ name[rec[p].session] = name[p]
  BY <1>1, HeldNames DEF CopyHeld
<1>3. x \in SnapshotIds
  BY <1>2 DEF Records, SnapshotIds
<1>4. r \in Records /\ r.session = rec[p].session
  <2> HIDE DEF x
  <2> QED
    BY <1>2, <1>3, SnapshotUpdate DEF Statuses
<1>5. PutSandbox(name[p], r) \/ UNCHANGED store
  BY DEF StopPut
<1> HIDE DEF r
<1>6. CASE PutSandbox(name[p], r)
  BY <1>1, <1>2, <1>4, <1>6, PutStep
<1>7. CASE UNCHANGED store
  BY <1>1, <1>7, QuietStep DEF Quiet, store
<1> QED
  BY <1>5, <1>6, <1>7

\* updateSandbox leaves the session of its copy alone.
LEMMA UpdateFieldsIndex ==
  ASSUME IndexInv, NEW p \in Requests, UpdateFields(p)
  PROVE  SessionsKeepNames' /\ SessionIndexConsistent'
<1>1. pc[p] = "update_snap" /\ UNCHANGED <<sandboxes, sessions, name>>
  BY DEF UpdateFields, store
<1>2. rec[p] \in Records /\ name[rec[p].session] = name[p]
  BY <1>1, HeldNames DEF CopyHeld
<1>3. PICK x \in SnapshotsOf(name[p]) \cup {rec[p].snapshot},
           b \in Persistence \cup {rec[p].persistent} :
         rec' = [rec EXCEPT ![p].snapshot = x, ![p].persistent = b]
  BY DEF UpdateFields
<1>4. x \in SnapshotIds /\ b \in BOOLEAN
  BY <1>2, <1>3, PersistenceIsBoolean DEF SnapshotsOf, Records, SnapshotIds
<1> DEFINE r == [rec[p] EXCEPT !.snapshot = x, !.persistent = b]
<1>5. r \in Records /\ r.session = rec[p].session
  BY <1>2, <1>4, FieldsUpdate
<1>6. rec' = [rec EXCEPT ![p] = r]
  BY <1>3 DEF IndexInv, TypeOK, RequestsOK
<1> HIDE DEF r
<1> QED
  BY <1>1, <1>2, <1>5, <1>6, CopyStep

\* Writing a stale copy back keeps the index.
LEMMA WriteBackIndex ==
  ASSUME IndexInv, NEW p \in Requests, WriteBack(p)
  PROVE  SessionsKeepNames' /\ SessionIndexConsistent'
<1>1. /\ pc[p] = "write_back" /\ UNCHANGED name
      /\ \A q \in Requests : rec'[q] \in {rec[q], None}
  BY DEF WriteBack, Return, IndexInv, TypeOK, RequestsOK
<1>2. rec[p] \in Records /\ name[p] \in Names /\ name[rec[p].session] = name[p]
  BY <1>1, HeldNames DEF CopyHeld
<1>3. CASE PutSandbox(name[p], rec[p])
  BY <1>1, <1>2, <1>3, PutStep
<1>4. CASE UNCHANGED store
  BY <1>1, <1>4, QuietStep DEF Quiet, store
<1> QED
  BY <1>3, <1>4 DEF WriteBack

\* The last write of deleteSandbox keeps the index.
LEMMA DeleteRowIndex ==
  ASSUME IndexInv, NEW p \in Requests, DeleteRow(p)
  PROVE  SessionsKeepNames' /\ SessionIndexConsistent'
<1>1. /\ name[p] \in Names /\ UNCHANGED name
      /\ \A q \in Requests : rec'[q] \in {rec[q], None}
  BY Held DEF DeleteRow, Return, IndexInv, TypeOK, RequestsOK
<1>2. CASE DeleteSandbox(name[p])
  BY <1>1, <1>2, DropStep
<1>3. CASE UNCHANGED store
  BY <1>1, <1>3, QuietStep DEF Quiet, store
<1> QED
  BY <1>2, <1>3 DEF DeleteRow

\* Reconciliation changes nothing but the status of rows.
LEMMA RestartIndex ==
  ASSUME IndexInv, Restart
  PROVE  SessionsKeepNames' /\ SessionIndexConsistent'
<1>1. UNCHANGED <<sessions, name, rec>>
  BY DEF Restart, locals
<1>2. PICK pruned \in IF Failing("list") \/ Failing("put") THEN SUBSET Dead ELSE {Dead} :
        sandboxes' = [n \in Names |->
                         IF n \in pruned THEN [sandboxes[n] EXCEPT !.status = "stopped"]
                         ELSE sandboxes[n]]
  BY DEF Restart
<1>3. ASSUME NEW n \in Names
      PROVE  (Exists(n)' <=> Exists(n)) /\ (Exists(n) => sandboxes'[n].session = sandboxes[n].session)
  <2>1. CASE n \in pruned
    <3>1. Exists(n) /\ sandboxes[n] \in Records
      BY <1>2, <2>1 DEF Dead, Exists, IndexInv, TypeOK, StoreOK
    <3> QED
      BY <1>2, <2>1, <3>1, StatusUpdate, NoneIsNoRecord DEF Exists, Statuses
  <2>2. CASE n \notin pruned
    BY <1>2, <2>2 DEF Exists
  <2> QED
    BY <2>1, <2>2
<1>4. \A s \in Requests : sessions[s] \in Names \cup {None}
  BY DEF IndexInv, TypeOK, StoreOK
<1> QED
  BY <1>1, <1>3, <1>4 DEF IndexInv, SessionsKeepNames, SessionIndexConsistent

\* Every step keeps the session index and the names of sessions.
LEMMA IndexStep ==
  ASSUME IndexInv, [Next]_vars
  PROVE  SessionsKeepNames' /\ SessionIndexConsistent'
<1> USE DEF Quiet, store, locals, locks, runtime, process
<1>1. ASSUME NEW p \in Requests, CreateStart(p) PROVE SessionsKeepNames' /\ SessionIndexConsistent'
  BY <1>1, BeginStep DEF CreateStart
<1>2. ASSUME NEW p \in Requests, GetStart(p) PROVE SessionsKeepNames' /\ SessionIndexConsistent'
  BY <1>2, BeginStep DEF GetStart, Exists
<1>3. ASSUME NEW p \in Requests, StopStart(p) PROVE SessionsKeepNames' /\ SessionIndexConsistent'
  <2>1. PICK o \in {"stop", "snapshot", "snapshot_expiring"}, s \in Requests :
          /\ sessions[s] # None
          /\ \E l \in Labels : Begin(p, o, sessions[s], sandboxes[sessions[s]], l)
    BY <1>3 DEF StopStart, Labels, LockWaits
  <2>2. sessions[s] \in Names
    BY <2>1 DEF IndexInv, TypeOK, StoreOK
  <2> QED
    BY <2>1, <2>2, BeginStep
<1>4. ASSUME NEW p \in Requests, TimeoutStart(p) PROVE SessionsKeepNames' /\ SessionIndexConsistent'
  BY <1>4, BeginStep DEF TimeoutStart, Exists
<1>5. ASSUME NEW p \in Requests, ExtendStart(p) PROVE SessionsKeepNames' /\ SessionIndexConsistent'
  <2>1. PICK o \in {"extend", "policy"}, s \in Requests :
          /\ sessions[s] # None
          /\ \E l \in Labels : Begin(p, o, sessions[s], sandboxes[sessions[s]], l)
    BY <1>5 DEF ExtendStart, Labels, LockWaits
  <2>2. sessions[s] \in Names
    BY <2>1 DEF IndexInv, TypeOK, StoreOK
  <2> QED
    BY <2>1, <2>2, BeginStep
<1>6. ASSUME NEW p \in Requests, UpdateStart(p) PROVE SessionsKeepNames' /\ SessionIndexConsistent'
  BY <1>6, BeginStep DEF UpdateStart, Exists
<1>7. ASSUME NEW p \in Requests, DeleteStart(p) PROVE SessionsKeepNames' /\ SessionIndexConsistent'
  BY <1>7, BeginStep DEF DeleteStart, Exists
<1>8. ASSUME NEW p \in Requests, DeleteSnapshotStart(p) PROVE SessionsKeepNames' /\ SessionIndexConsistent'
  BY <1>8, BeginStep DEF DeleteSnapshotStart
<1>9. ASSUME NEW p \in Requests, GcStart(p) PROVE SessionsKeepNames' /\ SessionIndexConsistent'
  BY <1>9, BeginStep DEF GcStart, Exists
<1>10. ASSUME NEW p \in Requests, AcquireName(p) PROVE SessionsKeepNames' /\ SessionIndexConsistent'
  BY <1>10, QuietStep DEF AcquireName, IndexInv, TypeOK, RequestsOK
<1>11. ASSUME NEW p \in Requests, CreateCheck(p) PROVE SessionsKeepNames' /\ SessionIndexConsistent'
  BY <1>11, QuietStep DEF CreateCheck, ReturnUnlocked, Return, IndexInv,
      TypeOK, RequestsOK
<1>12. ASSUME NEW p \in Requests, CreateQuota(p) PROVE SessionsKeepNames' /\ SessionIndexConsistent'
  BY <1>12, QuietStep DEF CreateQuota, ReturnUnlocked, Return, IndexInv,
      TypeOK, RequestsOK
<1>13. ASSUME NEW p \in Requests, CreateVm(p) PROVE SessionsKeepNames' /\ SessionIndexConsistent'
  BY <1>13, QuietStep DEF CreateVm, Spawned, ReturnUnlocked, Return, IndexInv, TypeOK, RequestsOK
<1>14. ASSUME NEW p \in Requests, CreateVmError(p) PROVE SessionsKeepNames' /\ SessionIndexConsistent'
  BY <1>14, QuietStep DEF CreateVmError, ReturnUnlocked, Return, IndexInv,
      TypeOK, RequestsOK
<1>15. ASSUME NEW p \in Requests, CreatePut(p) PROVE SessionsKeepNames' /\ SessionIndexConsistent'
  BY ONLY IndexInv, <1>15, CreatePutIndex
<1>16. ASSUME NEW p \in Requests, CreatePutError(p) PROVE SessionsKeepNames' /\ SessionIndexConsistent'
  BY <1>16, QuietStep DEF CreatePutError, IndexInv, TypeOK, RequestsOK
<1>17. ASSUME NEW p \in Requests, Undo(p) PROVE SessionsKeepNames' /\ SessionIndexConsistent'
  BY <1>17, QuietStep DEF Undo, ReturnUnlocked, Return, IndexInv, TypeOK,
      RequestsOK
<1>18. ASSUME NEW p \in Requests, GetReread(p) PROVE SessionsKeepNames' /\ SessionIndexConsistent'
  BY ONLY IndexInv, <1>18, GetRereadIndex
<1>19. ASSUME NEW p \in Requests, ResumeVm(p) PROVE SessionsKeepNames' /\ SessionIndexConsistent'
  BY <1>19, QuietStep DEF ResumeVm, Spawned, ReturnUnlocked, Return, IndexInv, TypeOK, RequestsOK
<1>20. ASSUME NEW p \in Requests, ResumeVmError(p) PROVE SessionsKeepNames' /\ SessionIndexConsistent'
  BY <1>20, QuietStep DEF ResumeVmError, ReturnUnlocked, Return, IndexInv,
      TypeOK, RequestsOK
<1>21. ASSUME NEW p \in Requests, ResumePut(p) PROVE SessionsKeepNames' /\ SessionIndexConsistent'
  BY ONLY IndexInv, <1>21, ResumePutIndex
<1>22. ASSUME NEW p \in Requests, ResumePutError(p) PROVE SessionsKeepNames' /\ SessionIndexConsistent'
  BY <1>22, QuietStep DEF ResumePutError, ReturnUnlocked, Return, IndexInv,
      TypeOK, RequestsOK
<1>23. ASSUME NEW p \in Requests, AcquireLifecycle(p) PROVE SessionsKeepNames' /\ SessionIndexConsistent'
  BY <1>23, QuietStep DEF AcquireLifecycle, IndexInv, TypeOK, RequestsOK
<1>24. ASSUME NEW p \in Requests, StopReread(p) PROVE SessionsKeepNames' /\ SessionIndexConsistent'
  BY ONLY IndexInv, <1>24, StopRereadIndex
<1>25. ASSUME NEW p \in Requests, StopMark(p) PROVE SessionsKeepNames' /\ SessionIndexConsistent'
  BY ONLY IndexInv, <1>25, StopMarkIndex
<1>26. ASSUME NEW p \in Requests, StopVm(p) PROVE SessionsKeepNames' /\ SessionIndexConsistent'
  BY <1>26, QuietStep DEF StopVm, ReturnStopped, Return, IndexInv, TypeOK,
      RequestsOK
<1>27. ASSUME NEW p \in Requests, StopVmError(p) PROVE SessionsKeepNames' /\ SessionIndexConsistent'
  BY <1>27, QuietStep DEF StopVmError, ReturnStopped, Return, IndexInv,
      TypeOK, RequestsOK
<1>28. ASSUME NEW p \in Requests, StopSnap(p) PROVE SessionsKeepNames' /\ SessionIndexConsistent'
  BY <1>28, QuietStep DEF StopSnap, PutSnapshot, ReturnStopped, Return,
      IndexInv, TypeOK, RequestsOK
<1>29. ASSUME NEW p \in Requests, StopPut(p) PROVE SessionsKeepNames' /\ SessionIndexConsistent'
  BY ONLY IndexInv, <1>29, StopPutIndex
<1>30. ASSUME NEW p \in Requests, ExpireRead(p) PROVE SessionsKeepNames' /\ SessionIndexConsistent'
  BY <1>30, QuietStep DEF ExpireRead, IndexInv, TypeOK, RequestsOK
<1>31. ASSUME NEW p \in Requests, ExpirePut(p) PROVE SessionsKeepNames' /\ SessionIndexConsistent'
  BY <1>31, QuietStep DEF ExpirePut, PutSnapshot, Return, IndexInv, TypeOK,
      RequestsOK
<1>32. ASSUME NEW p \in Requests, UpdateFields(p) PROVE SessionsKeepNames' /\ SessionIndexConsistent'
  BY ONLY IndexInv, <1>32, UpdateFieldsIndex
<1>33. ASSUME NEW p \in Requests, PolicyVm(p) PROVE SessionsKeepNames' /\ SessionIndexConsistent'
  BY <1>33, QuietStep DEF PolicyVm, Return, IndexInv, TypeOK, RequestsOK
<1>34. ASSUME NEW p \in Requests, WriteBack(p) PROVE SessionsKeepNames' /\ SessionIndexConsistent'
  BY ONLY IndexInv, <1>34, WriteBackIndex
<1>35. ASSUME NEW p \in Requests, DeleteVm(p) PROVE SessionsKeepNames' /\ SessionIndexConsistent'
  BY <1>35, QuietStep DEF DeleteVm, Return, IndexInv, TypeOK, RequestsOK
<1>36. ASSUME NEW p \in Requests, DeleteList(p) PROVE SessionsKeepNames' /\ SessionIndexConsistent'
  BY <1>36, QuietStep DEF DeleteList, IndexInv, TypeOK, RequestsOK
<1>37. ASSUME NEW p \in Requests, DeleteImage(p) PROVE SessionsKeepNames' /\ SessionIndexConsistent'
  BY <1>37, QuietStep DEF DeleteImage, TakeUp, IndexInv, TypeOK, RequestsOK
<1>38. ASSUME NEW p \in Requests, DeleteRecord(p) PROVE SessionsKeepNames' /\ SessionIndexConsistent'
  BY <1>38, QuietStep DEF DeleteRecord, DeleteSnapshot, IndexInv, TypeOK,
      RequestsOK
<1>39. ASSUME NEW p \in Requests, DeleteRow(p) PROVE SessionsKeepNames' /\ SessionIndexConsistent'
  BY ONLY IndexInv, <1>39, DeleteRowIndex
<1>40. ASSUME NEW p \in Requests, DeleteSnapshotImage(p) PROVE SessionsKeepNames' /\ SessionIndexConsistent'
  BY <1>40, QuietStep DEF DeleteSnapshotImage, Return, IndexInv, TypeOK,
      RequestsOK
<1>41. ASSUME NEW p \in Requests, DeleteSnapshotRecord(p) PROVE SessionsKeepNames' /\ SessionIndexConsistent'
  BY <1>41, QuietStep DEF DeleteSnapshotRecord, DeleteSnapshot, Return,
      IndexInv, TypeOK, RequestsOK
<1>42. ASSUME NEW p \in Requests, GcList(p) PROVE SessionsKeepNames' /\ SessionIndexConsistent'
  BY <1>42, GcListIs, QuietStep DEF Return, IndexInv, TypeOK, RequestsOK
<1>43. ASSUME NEW p \in Requests, GcImage(p) PROVE SessionsKeepNames' /\ SessionIndexConsistent'
  BY <1>43, QuietStep DEF GcImage, TakeUp, IndexInv, TypeOK, RequestsOK
<1>44. ASSUME NEW p \in Requests, GcRecord(p) PROVE SessionsKeepNames' /\ SessionIndexConsistent'
  BY <1>44, QuietStep DEF GcRecord, DeleteSnapshot, IndexInv, TypeOK,
      RequestsOK
<1>45. ASSUME NEW p \in Requests, GcDone(p) PROVE SessionsKeepNames' /\ SessionIndexConsistent'
  BY <1>45, QuietStep DEF GcDone, Return, IndexInv, TypeOK, RequestsOK
<1>46. CASE Crash
  BY <1>46, QuietStep DEF Crash
<1>47. CASE Restart
  BY <1>47, RestartIndex
<1>48. CASE Idle \/ UNCHANGED vars
  BY <1>48, QuietStep DEF Idle, vars
<1> QED
  BY <1>1, <1>2, <1>3, <1>4, <1>5, <1>6, <1>7, <1>8, <1>9, <1>10, <1>11,
      <1>12, <1>13, <1>14, <1>15, <1>16, <1>17, <1>18, <1>19, <1>20, <1>21,
      <1>22, <1>23, <1>24, <1>25, <1>26, <1>27, <1>28, <1>29, <1>30, <1>31,
      <1>32, <1>33, <1>34, <1>35, <1>36, <1>37, <1>38, <1>39, <1>40, <1>41,
      <1>42, <1>43, <1>44, <1>45, <1>46, <1>47, <1>48 DEF Next, Start, Step

-----------------------------------------------------------------------------
\* The initial states satisfy the inductive invariant.
LEMMA InitIndexInv == Init => IndexInv
<1> SUFFICES ASSUME Init PROVE IndexInv
  OBVIOUS
<1>1. TypeOK
  BY LimitsAreNat, SMT DEF Init, TypeOK, StoreOK, RuntimeOK, LocksOK, RequestsOK, ProcessOK, SnapshotIds,
     Labels, Finished
<1>2. LocalsOK
  BY DEF Init, LocalsOK, CopyHeld, SnapshotHeld
<1>3. SessionsKeepNames /\ SessionIndexConsistent
  BY DEF Init, SessionsKeepNames, SessionIndexConsistent, Exists
<1> QED
  BY <1>1, <1>2, <1>3 DEF IndexInv

\* The inductive invariant holds in every reachable state, for any number of
\* requests and names, any operations and any faults.
THEOREM IndexInvariant == Spec => []IndexInv
<1>1. ASSUME IndexInv, [Next]_vars PROVE IndexInv'
  <2>1. TypeOK /\ LocalsOK
    BY <1>1 DEF IndexInv
  <2>2. TypeOK' /\ LocalsOK'
    BY <1>1, <2>1, TypeStep
  <2>3. SessionsKeepNames' /\ SessionIndexConsistent'
    BY <1>1, IndexStep
  <2> QED
    BY <2>2, <2>3 DEF IndexInv
<1> QED
  BY <1>1, InitIndexInv, PTL DEF Spec

\* The state is always well formed.
THEOREM TypeCorrect == Spec => []TypeOK
<1>1. IndexInv => TypeOK
  BY DEF IndexInv
<1> QED
  BY <1>1, IndexInvariant, PTL

\* Rows and session index name each other in every reachable state, whatever
\* stale copies the handlers write back and whenever the process dies.
THEOREM IndexCorrect == Spec => []SessionIndexConsistent
<1>1. IndexInv => SessionIndexConsistent
  BY DEF IndexInv
<1> QED
  BY <1>1, IndexInvariant, PTL

\* A record that exists is well formed and its session was created for it.
LEMMA RowOf ==
  ASSUME IndexInv, NEW n \in Names, Exists(n)
  PROVE  /\ sandboxes[n] \in Records
         /\ sandboxes[n].session \in Requests
         /\ sandboxes[n].snapshot \in SnapshotIds
         /\ sandboxes[n].status \in Statuses
         /\ name[sandboxes[n].session] = n
<1>1. sandboxes[n] \in Records
  BY DEF IndexInv, TypeOK, StoreOK, Exists
<1> QED
  BY <1>1 DEF IndexInv, SessionsKeepNames, Records

\* A handler that has begun has the name of a sandbox.
LEMMA NamedOf ==
  ASSUME IndexInv, NEW p \in Requests, pc[p] # "idle"
  PROVE  name[p] \in Names
  BY Held DEF IndexInv, TypeOK

-----------------------------------------------------------------------------
(* Sessions that have stopped: with the process dying, records deleted under *)
(* the handlers and writes failing, but no copy written back without a lock. *)

\* A row or a copy that exists belongs to a session that is over.
LEMMA OverOf ==
  ASSUME IndexInv, StopsInv
  PROVE  /\ \A n \in Names : Exists(n) => /\ sandboxes[n] \in Records
                                          /\ sandboxes[n].session \in Requests
                                          /\ pc[sandboxes[n].session] = "done"
         /\ \A p \in Requests : rec[p] # None => /\ rec[p] \in Records
                                                 /\ rec[p].session \in Requests
                                                 /\ pc[rec[p].session] = "done"
  BY DEF IndexInv, TypeOK, StoreOK, RequestsOK, StopsInv, SessionsOver, Exists, Records

(* A step of p keeps the invariant if it writes no row, removes one, or      *)
(* writes one of its own session or of its copy's, and writes "stopped" only *)
(* under the lifecycle lock.                                                 *)
LEMMA StopsFrame ==
  ASSUME IndexInv, StopsInv, NEW p \in Requests, pc[p] # "done", up, up' = up,
         \A q \in Requests : q # p => pc'[q] = pc[q] /\ rec'[q] = rec[q],
         lifecycle' # lifecycle => lifecycle \in {None, p},
         pc'[p] \notin {"update_snap", "policy_vm", "write_back"},
         pc'[p] \in StopHolding => lifecycle' = p,
         pc'[p] = "stop_mark" =>
             \A n \in Names : sandboxes'[n] # None /\ sandboxes'[n].session = rec'[p].session
                              => sandboxes'[n].status # "stopped",
         rec'[p] # None =>
             rec'[p].session \in Requests /\ pc[rec'[p].session] = "done",
         \/ UNCHANGED sandboxes
         \/ \E n \in Names : sandboxes' = [sandboxes EXCEPT ![n] = None]
         \/ \E n \in Names, r \in Records :
                /\ sandboxes' = [sandboxes EXCEPT ![n] = r]
                /\ \/ r.session = p /\ pc'[p] = "done"
                   \/ /\ rec[p] # None /\ r.session = rec[p].session
                      /\ r.status # "stopped" \/ lifecycle = p
  PROVE  StopsInv'
<1>1. ASSUME NEW n \in Names, sandboxes'[n] # None
      PROVE  \/ sandboxes'[n] = sandboxes[n]
             \/ sandboxes'[n].session = p /\ pc'[p] = "done"
             \/ /\ rec[p] # None /\ sandboxes'[n].session = rec[p].session
                /\ sandboxes'[n].status # "stopped" \/ lifecycle = p
  BY <1>1 DEF IndexInv, TypeOK, StoreOK
<1>2. \A s \in Requests : pc[s] = "done" => s # p /\ pc'[s] = "done"
  OBVIOUS
<1>3. ASSUME NEW n \in Names, sandboxes'[n] # None
      PROVE  pc'[sandboxes'[n].session] = "done"
  BY <1>1, <1>2, <1>3, OverOf DEF Exists
<1>4. ASSUME NEW q \in Requests, rec'[q] # None PROVE pc'[rec'[q].session] = "done"
  BY <1>2, <1>4, OverOf
<1>5. SessionsOver'
  BY <1>3, <1>4 DEF SessionsOver, Exists
<1>6. ASSUME NEW q \in Requests
      PROVE  /\ pc'[q] \notin {"update_snap", "policy_vm", "write_back"}
             /\ pc'[q] \in StopHolding => lifecycle' = q
             /\ ~up' => pc'[q] \in Finished
  BY NoneIsFresh DEF StopsInv
<1>7. ASSUME NEW q \in Requests, pc'[q] = "stop_mark", NEW n \in Names, sandboxes'[n] # None,
             sandboxes'[n].session = rec'[q].session
      PROVE  sandboxes'[n].status # "stopped"
  <2>1. CASE q = p
    BY <1>7, <2>1
  <2>2. CASE q # p
    <3>1. pc[q] = "stop_mark" /\ rec'[q] = rec[q] /\ lifecycle = q
      BY <1>7, <2>2 DEF StopsInv, StopHolding
    <3>2. rec[q] # None
      BY <3>1 DEF IndexInv, LocalsOK, CopyHeld
    <3>3. rec[q].session # p
      BY <1>2, <3>2, OverOf
    <3>4. Exists(n) /\ sandboxes[n].session = rec[q].session => sandboxes[n].status # "stopped"
      BY <3>1 DEF StopsInv
    <3> QED
      BY <1>1, <1>7, <2>2, <3>1, <3>3, <3>4 DEF Exists
  <2> QED
    BY <2>1, <2>2
<1> QED
  BY <1>5, <1>6, <1>7 DEF StopsInv, Exists

\* Only a served request takes a step.
LEMMA ServedOf ==
  ASSUME StopsInv, NEW p \in Requests, pc[p] \notin Finished
  PROVE  up
  BY DEF StopsInv

\* A handler that returns, giving back its lock or none.
LEMMA ReturnStops ==
  ASSUME IndexInv, StopsInv, NEW p \in Requests, pc[p] \notin Finished, UNCHANGED up,
         \/ ReturnUnlocked(p)
         \/ pc[p] \in StopHolding /\ ReturnStopped(p)
         \/ Return(p) /\ UNCHANGED lifecycle,
         \/ UNCHANGED sandboxes
         \/ \E n \in Names : sandboxes' = [sandboxes EXCEPT ![n] = None]
         \/ \E n \in Names, r \in Records :
                /\ sandboxes' = [sandboxes EXCEPT ![n] = r]
                /\ r.session = p \/ /\ rec[p] # None /\ r.session = rec[p].session
                                    /\ r.status # "stopped" \/ lifecycle = p
  PROVE  StopsInv'
<1>1. /\ \A q \in Requests : q # p => pc'[q] = pc[q] /\ rec'[q] = rec[q]
      /\ pc'[p] = "done" /\ rec'[p] = None
  BY DEF ReturnUnlocked, ReturnStopped, Return, Goto, IndexInv, TypeOK, RequestsOK
<1>2. lifecycle' # lifecycle => lifecycle \in {None, p}
  BY DEF ReturnUnlocked, ReturnStopped, StopsInv
<1>3. up /\ pc[p] # "done"
  BY ServedOf DEF Finished
<1> QED
  BY <1>1, <1>2, <1>3, StopsFrame DEF StopHolding

\* A handler that goes on with its copy and its locks, past the mark.
LEMMA GoStops ==
  ASSUME IndexInv, StopsInv, NEW p \in Requests, pc[p] \notin Finished, UNCHANGED up,
         NEW l \in Labels, Goto(p, l), UNCHANGED <<rec, sandboxes>>,
         l \notin {"update_snap", "policy_vm", "write_back", "stop_mark"},
         l \in StopHolding => lifecycle' = p, lifecycle' # lifecycle => lifecycle \in {None, p}
  PROVE  StopsInv'
<1>1. /\ \A q \in Requests : q # p => pc'[q] = pc[q] /\ rec'[q] = rec[q]
      /\ pc'[p] = l /\ rec'[p] = rec[p]
  BY DEF Goto, IndexInv, TypeOK, RequestsOK
<1>2. up /\ pc[p] # "done"
  BY ServedOf DEF Finished
<1>3. rec[p] # None => rec[p].session \in Requests /\ pc[rec[p].session] = "done"
  BY OverOf
<1> QED
  BY <1>1, <1>2, <1>3, StopsFrame

\* A handler that begins on a row, or on none.
LEMMA StartStops ==
  ASSUME NoWriteBack, IndexInv, StopsInv, NEW p \in Requests, Start(p)
  PROVE  StopsInv'
<1> DEFINE Entry == {"create_lock", "get_lock", "stop_lock", "delete_vm", "delete_list",
                     "image", "gc_list"}
<1>1. ASSUME NEW o, NEW n, NEW r, NEW l \in Entry, Begin(p, o, n, r, l),
             r # None => \E m \in Names : Exists(m) /\ r = sandboxes[m]
      PROVE  StopsInv'
  <2>1. /\ \A q \in Requests : q # p => pc'[q] = pc[q] /\ rec'[q] = rec[q]
        /\ pc[p] = "idle" /\ pc'[p] = l /\ rec'[p] = r /\ up
        /\ UNCHANGED <<sandboxes, lifecycle, up>>
    BY <1>1 DEF Begin, Goto, store, locks, process, IndexInv, TypeOK, RequestsOK
  <2>2. r # None => r.session \in Requests /\ pc[r.session] = "done"
    BY <1>1, OverOf
  <2> QED
    BY <2>1, <2>2, StopsFrame DEF StopHolding
<1>2. CASE CreateStart(p) \/ DeleteSnapshotStart(p)
  BY <1>1, <1>2 DEF CreateStart, DeleteSnapshotStart
<1>3. CASE GcStart(p) \/ GetStart(p) \/ TimeoutStart(p) \/ DeleteStart(p)
  BY <1>1, <1>3 DEF GcStart, GetStart, TimeoutStart, DeleteStart
<1>4. CASE StopStart(p)
  <2>1. PICK o \in {"stop", "snapshot", "snapshot_expiring"}, s \in Requests :
          /\ sessions[s] # None /\ Exists(sessions[s])
          /\ Begin(p, o, sessions[s], sandboxes[sessions[s]], "stop_lock")
    BY <1>4 DEF StopStart
  <2>2. sessions[s] \in Names
    BY <2>1 DEF IndexInv, TypeOK, StoreOK
  <2> QED
    BY <1>1, <2>1, <2>2
<1>5. CASE ExtendStart(p) \/ UpdateStart(p)
  BY <1>5 DEF ExtendStart, UpdateStart, Begin, NoWriteBack
<1> QED
  BY <1>2, <1>3, <1>4, <1>5 DEF Start

\* The re-reads of getSandbox and stopRecord take the row, or keep the copy.
LEMMA RereadStops ==
  ASSUME IndexInv, StopsInv, NEW p \in Requests, GetReread(p) \/ StopReread(p)
  PROVE  StopsInv'
<1> DEFINE current == IF Exists(name[p]) THEN sandboxes[name[p]] ELSE rec[p]
<1>1. pc[p] \in {"get_reread", "stop_reread"} /\ UNCHANGED <<sandboxes, up>>
  BY DEF GetReread, StopReread, store, process
<1>2. up /\ name[p] \in Names /\ rec[p] # None
  BY <1>1, ServedOf, NamedOf DEF Finished, IndexInv, LocalsOK, CopyHeld
<1>3. current.session \in Requests /\ pc[current.session] = "done" /\ name[current.session] = name[p]
  BY <1>2, OverOf, RowOf DEF IndexInv, SessionsKeepNames
<1>4. \A n \in Names : Exists(n) /\ sandboxes[n].session = current.session => sandboxes[n] = current
  BY <1>2, <1>3, RowOf
<1> HIDE DEF current
<1>5. CASE ReturnUnlocked(p) \/ (pc[p] \in StopHolding /\ ReturnStopped(p))
  BY <1>1, <1>5, ReturnStops DEF Finished
<1>6. ASSUME NEW l \in {"resume_vm", "stop_mark"}, Goto(p, l), UNCHANGED lifecycle,
             rec' = [rec EXCEPT ![p] = current],
             l = "stop_mark" => pc[p] = "stop_reread" /\ current.status = "running"
      PROVE  StopsInv'
  <2>1. /\ \A q \in Requests : q # p => pc'[q] = pc[q] /\ rec'[q] = rec[q]
        /\ pc'[p] = l /\ rec'[p] = current
    BY <1>6 DEF Goto, IndexInv, TypeOK, RequestsOK
  <2>2. l = "stop_mark" => lifecycle' = p
    BY <1>6 DEF StopsInv, StopHolding
  <2>3. l = "stop_mark" =>
           \A n \in Names : sandboxes'[n] # None /\ sandboxes'[n].session = current.session
                            => sandboxes'[n].status # "stopped"
    BY <1>1, <1>4, <1>6 DEF Exists
  <2> QED
    BY <1>1, <1>2, <1>3, <1>6, <2>1, <2>2, <2>3, StopsFrame DEF StopHolding
<1>7. CASE GetReread(p)
  BY <1>5, <1>6, <1>7 DEF GetReread, current, locks
<1>8. CASE StopReread(p)
  BY <1>5, <1>6, <1>8 DEF StopReread, current, locks, StopHolding
<1> QED
  BY <1>7, <1>8

\* Recording a new or a resumed sandbox.
LEMMA RecordStops ==
  ASSUME IndexInv, StopsInv, NEW p \in Requests, CreatePut(p) \/ ResumePut(p)
  PROVE  StopsInv'
<1>1. pc[p] \in {"create_put", "resume_put"} /\ ReturnUnlocked(p) /\ UNCHANGED up
  BY DEF CreatePut, ResumePut, process
<1>2. name[p] \in Names
  BY <1>1, NamedOf
<1>3. \E r \in Records : sandboxes' = [sandboxes EXCEPT ![name[p]] = r] /\ r.session = p
  <2>1. CASE CreatePut(p)
    <3> DEFINE row(b) == [status |-> "running", session |-> p, snapshot |-> None, persistent |-> b]
    <3>1. \E b \in Persistence : sandboxes' = [sandboxes EXCEPT ![name[p]] = row(b)]
      BY <2>1 DEF CreatePut, PutSandbox
    <3>2. \A b \in Persistence : row(b) \in Records /\ row(b).session = p
      BY PersistenceIsBoolean DEF Records, Statuses, SnapshotIds
    <3> HIDE DEF row
    <3> QED
      BY <3>1, <3>2
  <2>2. CASE ResumePut(p)
    <3> DEFINE r == [rec[p] EXCEPT !.session = p, !.status = "running"]
    <3>1. sandboxes' = [sandboxes EXCEPT ![name[p]] = r]
      BY <2>2 DEF ResumePut, PutSandbox
    <3>2. rec[p] \in Records
      BY <2>2, HeldNames DEF ResumePut, CopyHeld
    <3>3. r \in Records /\ r.session = p
      BY <3>2, SessionUpdate DEF Statuses
    <3> HIDE DEF r
    <3> QED
      BY <3>1, <3>3
  <2> QED
    BY <2>1, <2>2
<1> QED
  BY <1>1, <1>2, <1>3, ReturnStops DEF Finished

\* Marking the record "stopping".
LEMMA MarkStops ==
  ASSUME IndexInv, StopsInv, NEW p \in Requests, StopMark(p)
  PROVE  StopsInv'
<1> DEFINE r == [rec[p] EXCEPT !.status = "stopping"]
<1>1. /\ pc[p] = "stop_mark" /\ Goto(p, "stop_vm") /\ rec' = [rec EXCEPT ![p] = r]
      /\ UNCHANGED <<up, lifecycle>>
      /\ sandboxes' = [sandboxes EXCEPT ![name[p]] = r] \/ UNCHANGED sandboxes
  BY DEF StopMark, PutSandbox, store, locks, process
<1>2. rec[p] \in Records /\ name[p] \in Names /\ rec[p] # None
  BY <1>1, HeldNames, NoneIsNoRecord DEF CopyHeld
<1>3. r \in Records /\ r.session = rec[p].session /\ r.status = "stopping"
  BY <1>2, StatusUpdate DEF Statuses, Records
<1> HIDE DEF r
<1>4. /\ \A q \in Requests : q # p => pc'[q] = pc[q] /\ rec'[q] = rec[q]
      /\ pc'[p] = "stop_vm" /\ rec'[p] = r
  BY <1>1 DEF Goto, IndexInv, TypeOK, RequestsOK
<1>5. up /\ lifecycle = p
  BY <1>1, ServedOf DEF Finished, StopsInv, StopHolding
<1>6. r.session \in Requests /\ pc[r.session] = "done"
  BY <1>2, <1>3, OverOf
<1> QED
  BY <1>1, <1>2, <1>3, <1>4, <1>5, <1>6, StopsFrame

\* Recording the stop.
LEMMA PutStops ==
  ASSUME IndexInv, StopsInv, NEW p \in Requests, StopPut(p)
  PROVE  StopsInv'
<1> DEFINE x == IF keep[p] THEN p ELSE rec[p].snapshot
           r == [rec[p] EXCEPT !.status = "stopped", !.snapshot = x]
<1>1. /\ pc[p] = "stop_put" /\ UNCHANGED up
      /\ sandboxes' = [sandboxes EXCEPT ![name[p]] = r] \/ UNCHANGED sandboxes
  BY DEF StopPut, PutSandbox, store, process
<1>2. rec[p] \in Records /\ name[p] \in Names /\ rec[p] # None
  BY <1>1, HeldNames, NoneIsNoRecord DEF CopyHeld
<1>3. x \in SnapshotIds
  BY <1>2 DEF Records, SnapshotIds
<1>4. r \in Records /\ r.session = rec[p].session
  <2> HIDE DEF x
  <2> QED
    BY <1>2, <1>3, SnapshotUpdate DEF Statuses
<1> HIDE DEF r
<1>5. up /\ lifecycle = p
  BY <1>1, ServedOf DEF Finished, StopsInv, StopHolding
<1>6. CASE ReturnStopped(p)
  BY <1>1, <1>2, <1>4, <1>5, <1>6, ReturnStops DEF Finished, StopHolding
<1>7. CASE Goto(p, "expire_read") /\ lifecycle' = None /\ UNCHANGED rec
  <2>1. /\ \A q \in Requests : q # p => pc'[q] = pc[q] /\ rec'[q] = rec[q]
        /\ pc'[p] = "expire_read" /\ rec'[p] = rec[p]
    BY <1>7 DEF Goto, IndexInv, TypeOK, RequestsOK
  <2>2. rec[p].session \in Requests /\ pc[rec[p].session] = "done"
    BY <1>2, OverOf
  <2> QED
    BY <1>1, <1>2, <1>4, <1>5, <1>7, <2>1, <2>2, StopsFrame DEF StopHolding
<1> QED
  BY <1>6, <1>7 DEF StopPut, locals

\* The steps that write no row and take no copy.
LEMMA PassStops ==
  ASSUME IndexInv, StopsInv, NEW p \in Requests,
         \/ AcquireName(p) \/ CreateCheck(p) \/ CreateQuota(p) \/ CreateVm(p) \/ CreateVmError(p)
         \/ CreatePutError(p) \/ Undo(p)
         \/ ResumeVm(p) \/ ResumeVmError(p) \/ ResumePutError(p)
         \/ AcquireLifecycle(p) \/ StopVm(p) \/ StopVmError(p) \/ StopSnap(p)
         \/ ExpireRead(p) \/ ExpirePut(p)
         \/ DeleteVm(p) \/ DeleteList(p) \/ DeleteImage(p) \/ DeleteRecord(p) \/ DeleteRow(p)
         \/ DeleteSnapshotImage(p) \/ DeleteSnapshotRecord(p)
         \/ GcList(p) \/ GcImage(p) \/ GcRecord(p) \/ GcDone(p)
  PROVE  StopsInv'
<1> DEFINE Free == Labels \ (StopHolding \cup Finished
                             \cup {"update_snap", "policy_vm", "write_back"})
<1>1. ASSUME NEW l \in Free, Goto(p, l), pc[p] \notin Finished,
             UNCHANGED <<rec, sandboxes, lifecycle, up>>
      PROVE  StopsInv'
  BY <1>1, GoStops DEF StopHolding
<1>2. ASSUME pc[p] \notin Finished, UNCHANGED <<sandboxes, up>>,
             \/ ReturnUnlocked(p)
             \/ pc[p] \in StopHolding /\ ReturnStopped(p)
             \/ Return(p) /\ UNCHANGED lifecycle
      PROVE  StopsInv'
  BY <1>2, ReturnStops
<1>3. ASSUME NEW l \in {"stop_snap", "stop_put"}, Goto(p, l), pc[p] \in StopHolding,
             UNCHANGED <<rec, sandboxes, lifecycle, up>>
      PROVE  StopsInv'
  <2>1. lifecycle = p
    BY <1>3 DEF StopsInv
  <2> QED
    BY <1>3, <2>1, GoStops DEF StopHolding, Finished, Labels
<1> USE DEF Labels, LockWaits, Finished, StopHolding
<1>4. CASE AcquireName(p)
  <2> DEFINE l == IF pc[p] = "create_lock" THEN "create_check" ELSE "get_reread"
  <2>1. l \in Free /\ Goto(p, l) /\ pc[p] \notin Finished /\ UNCHANGED <<rec, sandboxes, lifecycle, up>>
    BY <1>4 DEF AcquireName, store, locals, process
  <2> HIDE DEF l, Free
  <2> QED
    BY <1>1, <2>1
<1>5. CASE CreateCheck(p) \/ CreateQuota(p)
  BY <1>1, <1>2, <1>5 DEF CreateCheck, CreateQuota, store, locks, locals, process
<1>6. CASE CreateVm(p) \/ ResumeVm(p)
  BY <1>1, <1>2, <1>6 DEF CreateVm, ResumeVm, Spawned, store, locks, locals, process
<1>7. CASE CreateVmError(p) \/ ResumeVmError(p) \/ ResumePutError(p) \/ Undo(p)
  BY <1>2, <1>7 DEF CreateVmError, ResumeVmError, ResumePutError, Undo, store, process
<1>8. CASE CreatePutError(p)
  BY <1>1, <1>8 DEF CreatePutError, store, locks, locals, process
<1>9. CASE AcquireLifecycle(p)
  <2>1. /\ Goto(p, "stop_reread") /\ lifecycle = None /\ lifecycle' = p /\ pc[p] = "stop_lock"
        /\ UNCHANGED <<rec, sandboxes, up>>
    BY <1>9 DEF AcquireLifecycle, store, locals, process
  <2> QED
    BY <2>1, GoStops
<1>10. CASE StopVm(p) \/ StopVmError(p)
  BY <1>2, <1>3, <1>10 DEF StopVm, StopVmError, store, locks, locals, process
<1>11. CASE StopSnap(p)
  BY <1>2, <1>3, <1>11 DEF StopSnap, PutSnapshot, store, locks, locals, process
<1>12. CASE ExpireRead(p)
  BY <1>1, <1>12 DEF ExpireRead, store, locks, locals, process
<1>13. CASE ExpirePut(p)
  BY <1>2, <1>13 DEF ExpirePut, PutSnapshot, store, locks, process
<1>14. CASE DeleteVm(p)
  BY <1>1, <1>2, <1>14 DEF DeleteVm, store, locks, locals, process
<1>15. CASE DeleteList(p) \/ DeleteImage(p)
  BY <1>1, <1>15 DEF DeleteList, DeleteImage, TakeUp, store, locks, process
<1>16. CASE DeleteRecord(p) \/ GcRecord(p)
  BY <1>1, <1>16 DEF DeleteRecord, GcRecord, DeleteSnapshot, store, locks, locals, process
<1>17. CASE DeleteRow(p)
  <2>1. /\ pc[p] \notin Finished /\ UNCHANGED <<lifecycle, up>> /\ Return(p)
        /\ UNCHANGED sandboxes \/ sandboxes' = [sandboxes EXCEPT ![name[p]] = None]
    BY <1>17 DEF DeleteRow, DeleteSandbox, store, locks, process
  <2>2. name[p] \in Names
    BY <2>1, NamedOf
  <2> QED
    BY <2>1, <2>2, ReturnStops
<1>18. CASE DeleteSnapshotImage(p)
  BY <1>1, <1>2, <1>18 DEF DeleteSnapshotImage, store, locks, locals, process
<1>19. CASE DeleteSnapshotRecord(p)
  BY <1>2, <1>19 DEF DeleteSnapshotRecord, DeleteSnapshot, store, locks, process
<1>20. CASE GcList(p) \/ GcImage(p)
  BY <1>1, <1>2, <1>20, GcListIs, GcImageIs DEF TakeUp, store, locks, process
<1>21. CASE GcDone(p)
  BY <1>2, <1>21 DEF GcDone, store, locks, process
<1> QED
  BY <1>4, <1>5, <1>6, <1>7, <1>8, <1>9, <1>10, <1>11, <1>12, <1>13, <1>14, <1>15, <1>16,
     <1>17, <1>18, <1>19, <1>20, <1>21

\* The process dying, and reconciliation.
LEMMA ProcessStops ==
  ASSUME IndexInv, StopsInv, Crash \/ Restart
  PROVE  StopsInv'
<1>1. CASE Crash
  <2>1. /\ UNCHANGED sandboxes /\ \A p \in Requests : rec'[p] = None /\ pc'[p] \in Finished
        /\ \A p \in Requests : pc[p] = "done" => pc'[p] = "done"
    BY <1>1 DEF Crash, InFlight, Finished, store
  <2>2. \A p \in Requests : pc'[p] \notin {"update_snap", "policy_vm", "write_back", "stop_mark"}
                            /\ pc'[p] \notin StopHolding
    BY <2>1 DEF Finished, StopHolding
  <2>3. SessionsOver'
    BY <2>1, OverOf DEF SessionsOver, Exists
  <2> QED
    BY <2>1, <2>2, <2>3 DEF StopsInv
<1>2. CASE Restart
  <2>1. ~up /\ UNCHANGED <<pc, rec, lifecycle>>
    BY <1>2 DEF Restart, locks, locals
  <2>2. \A p \in Requests : pc[p] \in Finished
    BY <2>1 DEF StopsInv
  <2>3. ASSUME NEW n \in Names, sandboxes'[n] # None
        PROVE  Exists(n) /\ sandboxes'[n].session = sandboxes[n].session
    <3>1. \/ sandboxes'[n] = sandboxes[n]
          \/ n \in Dead /\ sandboxes'[n] = [sandboxes[n] EXCEPT !.status = "stopped"]
      BY <1>2 DEF Restart
    <3> QED
      BY <2>3, <3>1, OverOf DEF Dead, Exists, Records
  <2>4. SessionsOver'
    BY <2>1, <2>3, OverOf DEF SessionsOver, Exists
  <2> QED
    BY <2>1, <2>2, <2>4 DEF StopsInv, Finished, StopHolding
<1> QED
  BY <1>1, <1>2

\* Every step keeps the invariant of stops.
LEMMA StopsStep ==
  ASSUME NoWriteBack, IndexInv, StopsInv, [Next]_vars
  PROVE  StopsInv'
<1>1. ASSUME NEW p \in Requests, Step(p) PROVE StopsInv'
  <2>1. CASE GetReread(p) \/ StopReread(p) \/ CreatePut(p) \/ ResumePut(p)
             \/ StopMark(p) \/ StopPut(p)
    BY <2>1, RereadStops, RecordStops, MarkStops, PutStops
  <2>2. CASE UpdateFields(p) \/ PolicyVm(p) \/ WriteBack(p)
    BY <2>2 DEF UpdateFields, PolicyVm, WriteBack, StopsInv
  <2> QED
    BY <1>1, <2>1, <2>2, PassStops DEF Step
<1>2. CASE Idle \/ UNCHANGED vars
  <2>1. UNCHANGED <<sandboxes, lifecycle, pc, rec, up>>
    BY <1>2 DEF Idle, vars, store, locks, locals, process
  <2> QED
    BY <2>1 DEF StopsInv, SessionsOver, Exists
<1> QED
  BY <1>1, <1>2, StartStops, ProcessStops DEF Next

\* A row written over a stopped one that keeps its session says "stopped".
LEMMA WriteStops ==
  ASSUME IndexInv, StopsInv, NEW p \in Requests,
         CreatePut(p) \/ ResumePut(p) \/ StopMark(p) \/ StopPut(p),
         NEW n \in Names, Exists(n), sandboxes[n].status = "stopped",
         sandboxes'[n].session = sandboxes[n].session
  PROVE  sandboxes'[n].status = "stopped"
<1>1. pc[p] \in {"create_put", "resume_put", "stop_mark", "stop_put"} /\ name[p] \in Names
  BY NamedOf DEF CreatePut, ResumePut, StopMark, StopPut
<1>2. sandboxes[n].session # p
  BY <1>1, OverOf
<1>3. n # name[p] \/ UNCHANGED sandboxes => sandboxes'[n] = sandboxes[n]
  BY DEF CreatePut, ResumePut, StopMark, StopPut, PutSandbox, store, IndexInv, TypeOK, StoreOK
<1>4. ASSUME n = name[p], NEW r, sandboxes' = [sandboxes EXCEPT ![name[p]] = r]
      PROVE  sandboxes'[n] = r
  BY <1>4 DEF IndexInv, TypeOK, StoreOK
<1>5. CASE CreatePut(p)
  <2> DEFINE row(b) == [status |-> "running", session |-> p, snapshot |-> None, persistent |-> b]
  <2>1. \E b \in Persistence : sandboxes' = [sandboxes EXCEPT ![name[p]] = row(b)]
    BY <1>5 DEF CreatePut, PutSandbox
  <2>2. \A b \in Persistence : row(b).session = p
    OBVIOUS
  <2> HIDE DEF row
  <2> QED
    BY <1>2, <1>3, <1>4, <2>1, <2>2
<1>6. CASE ResumePut(p)
  <2> DEFINE r == [rec[p] EXCEPT !.session = p, !.status = "running"]
  <2>1. pc[p] = "resume_put" /\ sandboxes' = [sandboxes EXCEPT ![name[p]] = r]
    BY <1>6 DEF ResumePut, PutSandbox
  <2>2. r.session = p
    BY <2>1, HeldNames, SessionUpdate DEF CopyHeld, Statuses
  <2> HIDE DEF r
  <2> QED
    BY <1>2, <1>3, <1>4, <2>1, <2>2
<1>7. CASE StopMark(p)
  <2> DEFINE r == [rec[p] EXCEPT !.status = "stopping"]
  <2>1. /\ pc[p] = "stop_mark"
        /\ sandboxes' = [sandboxes EXCEPT ![name[p]] = r] \/ UNCHANGED sandboxes
    BY <1>7 DEF StopMark, PutSandbox, store
  <2>2. rec[p] \in Records
    BY <2>1, HeldNames DEF CopyHeld
  <2>3. r.session = rec[p].session
    BY <2>2, StatusUpdate DEF Statuses
  <2>4. sandboxes[n].session # rec[p].session
    BY <2>1 DEF StopsInv
  <2> HIDE DEF r
  <2> QED
    BY <1>3, <1>4, <2>1, <2>3, <2>4
<1>8. CASE StopPut(p)
  <2> DEFINE x == IF keep[p] THEN p ELSE rec[p].snapshot
             r == [rec[p] EXCEPT !.status = "stopped", !.snapshot = x]
  <2>1. /\ pc[p] = "stop_put"
        /\ sandboxes' = [sandboxes EXCEPT ![name[p]] = r] \/ UNCHANGED sandboxes
    BY <1>8 DEF StopPut, PutSandbox, store
  <2>2. rec[p] \in Records
    BY <2>1, HeldNames DEF CopyHeld
  <2>3. r.status = "stopped"
    BY <2>2 DEF Records
  <2> HIDE DEF r
  <2> QED
    BY <1>3, <1>4, <2>1, <2>3
<1> QED
  BY <1>5, <1>6, <1>7, <1>8

\* No step makes a stopped row of a session anything else.
LEMMA StoppedStep ==
  ASSUME IndexInv, StopsInv, [Next]_vars,
         NEW n \in Names, Exists(n), sandboxes[n].status = "stopped", sandboxes'[n] # None,
         sandboxes'[n].session = sandboxes[n].session
  PROVE  sandboxes'[n].status = "stopped"
<1>1. CASE UNCHANGED sandboxes
  BY <1>1
<1>2. CASE Restart
  BY <1>2 DEF Restart, Dead
<1>3. CASE Crash \/ Idle \/ UNCHANGED vars
  BY <1>1, <1>3 DEF Crash, Idle, vars, store
<1>4. ASSUME NEW p \in Requests, Start(p) PROVE UNCHANGED sandboxes
  BY <1>4 DEF Start, CreateStart, GetStart, StopStart, TimeoutStart, ExtendStart, UpdateStart,
      DeleteStart, DeleteSnapshotStart, GcStart, Begin, store
<1>5. ASSUME NEW p \in Requests, Step(p) PROVE sandboxes'[n].status = "stopped"
  <2>1. ~UpdateFields(p) /\ ~PolicyVm(p) /\ ~WriteBack(p)
    BY DEF StopsInv, UpdateFields, PolicyVm, WriteBack
  <2>2. CASE CreatePut(p) \/ ResumePut(p) \/ StopMark(p) \/ StopPut(p)
    BY <2>2, WriteStops
  <2>3. CASE AcquireName(p) \/ CreateCheck(p) \/ CreateQuota(p) \/ CreateVm(p)
             \/ CreateVmError(p) \/ CreatePutError(p) \/ Undo(p)
    BY <1>1, <2>3 DEF AcquireName, CreateCheck, CreateQuota, CreateVm, CreateVmError,
        CreatePutError, Undo, store
  <2>4. CASE GetReread(p) \/ ResumeVm(p) \/ ResumeVmError(p) \/ ResumePutError(p)
    BY <1>1, <2>4 DEF GetReread, ResumeVm, ResumeVmError, ResumePutError, store
  <2>5. CASE AcquireLifecycle(p) \/ StopReread(p) \/ StopVm(p) \/ StopVmError(p) \/ StopSnap(p)
    BY <1>1, <2>5 DEF AcquireLifecycle, StopReread, StopVm, StopVmError, StopSnap, PutSnapshot, store
  <2>6. CASE ExpireRead(p) \/ ExpirePut(p) \/ DeleteSnapshotImage(p) \/ DeleteSnapshotRecord(p)
             \/ GcList(p) \/ GcImage(p) \/ GcRecord(p) \/ GcDone(p)
    BY <1>1, <2>6 DEF ExpireRead, ExpirePut, DeleteSnapshotImage, DeleteSnapshotRecord, GcList,
        GcImage, GcRecord, GcDone, PutSnapshot, DeleteSnapshot, store
  <2>7. CASE DeleteVm(p) \/ DeleteList(p) \/ DeleteImage(p) \/ DeleteRecord(p)
    BY <1>1, <2>7 DEF DeleteVm, DeleteList, DeleteImage, DeleteRecord, DeleteSnapshot, store
  <2>8. CASE DeleteRow(p)
    <3>1. UNCHANGED sandboxes \/ sandboxes' = [sandboxes EXCEPT ![name[p]] = None]
      BY <2>8 DEF DeleteRow, DeleteSandbox, store
    <3> QED
      BY <1>1, <3>1 DEF IndexInv, TypeOK, StoreOK
  <2> QED
    BY <1>5, <2>1, <2>2, <2>3, <2>4, <2>5, <2>6, <2>7, <2>8 DEF Step
<1> QED
  BY <1>1, <1>2, <1>3, <1>4, <1>5 DEF Next

(* A session recorded as stopped is never recorded as anything else again,   *)
(* with every fault, crash and deletion there is, while no handler writes    *)
(* back a copy of the record that it read under no lock (extendTimeout,      *)
(* updateSessionPolicy and updateSandbox do: a run finds them reviving one). *)
THEOREM NoStoppedSessionReturns == ASSUME NoWriteBack PROVE Spec => StoppedForGood
<1>1. Init => StopsInv
  BY NoneIsFresh DEF Init, StopsInv, SessionsOver, Exists, StopHolding, Finished
<1>2. IndexInv /\ StopsInv /\ [Next]_vars => StopsInv'
  BY StopsStep
<1>3. IndexInv /\ StopsInv /\ [Next]_vars =>
        [\A n \in Names :
            (Exists(n) /\ sandboxes[n].status = "stopped" /\ sandboxes'[n] # None
                /\ sandboxes'[n].session = sandboxes[n].session)
            => sandboxes'[n].status = "stopped"]_vars
  BY StoppedStep
<1> QED
  BY <1>1, <1>2, <1>3, IndexInvariant, PTL DEF Spec, StoppedForGood

=============================================================================
