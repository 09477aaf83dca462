-------------------------- MODULE SandboxLifecycle --------------------------
(***************************************************************************)
(* The API service's sandbox lifecycle (cmd/api/handlers.go, main.go) over *)
(* its store (internal/store/store.go).                                    *)
(*                                                                         *)
(* A request p is one HTTP handler invocation, one record picked by the    *)
(* timeout sweep, or one record visited by the snapshot collector.  Every  *)
(* store transaction and every runtime call is a step of its own, so two   *)
(* requests interleave wherever the handlers can.  randomID draws 128-bit  *)
(* ids, so two requests never draw the same one: the session id and the    *)
(* snapshot id drawn by request p are both written p.  The sandbox that    *)
(* session s was created for is therefore name[s].                         *)
(***************************************************************************)
EXTENDS Integers, FiniteSets

CONSTANTS
    Requests,     \* request identities (also the session and snapshot ids)
    Names,        \* sandbox names of one (team, project)
    Nobody,       \* the owner of a blank snapshot record
    None,         \* absence of a record, an id or a lock holder
    Ops,          \* the operations the clients and the loops may invoke
    Faults,       \* the failures that may happen
    Persistence,  \* the values of "persistent" the clients ask for
    MaxSessions,  \* the token's concurrent session limit
    FreshMayExpire, \* whether a snapshot may expire before the collector that
                  \* was running when it was taken is through
    MaxCrashes    \* bound: crashes of the API process in a behaviour

ASSUME NoneIsFresh == None \notin Requests \cup Names \cup {Nobody} /\ Nobody \notin Names
ASSUME PersistenceIsBoolean == Persistence \subseteq BOOLEAN
ASSUME LimitsAreNat == MaxSessions \in Nat /\ MaxCrashes \in Nat
ASSUME ExpiryIsBoolean == FreshMayExpire \in BOOLEAN

VARIABLES
    sandboxes,    \* bucket "sandboxes": name -> record
    sessions,     \* bucket "sessions": session id -> name
    snapshots,    \* bucket "snapshots": snapshot id -> name of its sandbox
    before,       \* their CreatedAt: snapshot id -> those taken by then
    vms,          \* sessions the runtime holds
    boot,         \* session -> the image its disk was copied from
    images,       \* snapshot images held by the runtime
    nameLock,     \* api.nameLocks: name -> holder
    lifecycle,    \* api.lifecycle: holder
    pc,           \* where each request stands
    op,           \* the operation it performs
    name,         \* the sandbox it works on
    rec,          \* its own copy of the sandbox record
    keep,         \* stopRecord's makeSnapshot
    todo,         \* snapshots it still has to delete
    snap,         \* the snapshot it is deleting
    up,           \* the API process is serving
    crashes

store == <<sandboxes, sessions, snapshots, before>>
runtime == <<vms, boot, images>>
locks == <<nameLock, lifecycle>>
locals == <<op, name, rec, keep, todo, snap>>
process == <<up, crashes>>
vars == <<store, runtime, locks, pc, locals, process>>

Statuses == {"running", "stopping", "stopped"}
SnapshotIds == Requests \cup {None}
Records == [status: Statuses, session: Requests, snapshot: SnapshotIds,
            persistent: BOOLEAN]
ASSUME NoneIsNoRecord == None \notin Records
LockWaits == {"create_lock", "get_lock", "stop_lock"}
Finished == {"idle", "done"}
Labels == Finished \cup LockWaits \cup
    {"create_check", "create_quota", "create_vm", "create_put", "create_undo",
     "get_reread", "resume_vm", "resume_put", "resume_undo",
     "stop_reread", "stop_mark", "stop_vm", "stop_snap", "stop_put",
     "expire_read", "expire_put", "expire_blank",
     "update_snap", "policy_vm", "write_back",
     "delete_vm", "delete_list", "delete_image", "delete_record", "delete_row",
     "gc_list", "gc_image", "gc_record", "image", "image_record"}
AllOps == {"create", "fork", "get", "stop", "snapshot", "snapshot_expiring", "timeout",
           "extend", "policy", "update", "delete", "delete_snapshot", "gc"}

StoreOK ==
    /\ sandboxes \in [Names -> Records \cup {None}]
    /\ sessions \in [Requests -> Names \cup {None}]
    /\ snapshots \in [Requests -> Names \cup {Nobody, None}]
    /\ before \in [Requests -> SUBSET Requests]

RuntimeOK ==
    /\ vms \subseteq Requests
    /\ boot \in [Requests -> SnapshotIds]
    /\ images \subseteq Requests

LocksOK ==
    /\ nameLock \in [Names -> Requests \cup {None}]
    /\ lifecycle \in Requests \cup {None}

RequestsOK ==
    /\ pc \in [Requests -> Labels]
    /\ op \in [Requests -> AllOps \cup {None}]
    /\ name \in [Requests -> Names \cup {None}]
    /\ rec \in [Requests -> Records \cup {None}]
    /\ keep \in [Requests -> BOOLEAN]
    /\ todo \in [Requests -> SUBSET Requests]
    /\ snap \in [Requests -> SnapshotIds]

ProcessOK == up \in BOOLEAN /\ crashes \in 0..MaxCrashes

TypeOK == StoreOK /\ RuntimeOK /\ LocksOK /\ RequestsOK /\ ProcessOK

Init ==
    /\ sandboxes = [n \in Names |-> None]
    /\ sessions = [s \in Requests |-> None]
    /\ snapshots = [x \in Requests |-> None]
    /\ before = [x \in Requests |-> {}]
    /\ vms = {}
    /\ boot = [s \in Requests |-> None]
    /\ images = {}
    /\ nameLock = [n \in Names |-> None]
    /\ lifecycle = None
    /\ pc = [p \in Requests |-> "idle"]
    /\ op = [p \in Requests |-> None]
    /\ name = [p \in Requests |-> None]
    /\ rec = [p \in Requests |-> None]
    /\ keep = [p \in Requests |-> FALSE]
    /\ todo = [p \in Requests |-> {}]
    /\ snap = [p \in Requests |-> None]
    /\ up = TRUE
    /\ crashes = 0

-----------------------------------------------------------------------------
(* The store.  Each operator is one bbolt transaction. *)

Exists(n) == sandboxes[n] # None

\* mutant: the old session's index entry is left behind
PutSandboxKeepingEntry(n, r) ==
    /\ sandboxes' = [sandboxes EXCEPT ![n] = r]
    /\ sessions' = [sessions EXCEPT ![r.session] = n]
    /\ UNCHANGED <<snapshots, before>>

\* PutSandbox: the row, and the session index moved from the old session
PutSandbox(n, r) ==
    /\ sandboxes' = [sandboxes EXCEPT ![n] = r]
    /\ sessions' = [s \in Requests |->
                       IF s = r.session THEN n
                       ELSE IF Exists(n) /\ s = sandboxes[n].session THEN None
                       ELSE sessions[s]]
    /\ UNCHANGED <<snapshots, before>>

\* DeleteSandbox: the row and the index entry of the session it names
DeleteSandbox(n) ==
    /\ sandboxes' = [sandboxes EXCEPT ![n] = None]
    /\ sessions' = [s \in Requests |->
                       IF Exists(n) /\ s = sandboxes[n].session THEN None ELSE sessions[s]]
    /\ UNCHANGED <<snapshots, before>>

PutSnapshot(x, n) ==
    /\ snapshots' = [snapshots EXCEPT ![x] = n]
    /\ UNCHANGED <<sandboxes, sessions>>

DeleteSnapshot(x) ==
    /\ snapshots' = [snapshots EXCEPT ![x] = None]
    /\ UNCHANGED <<sandboxes, sessions, before>>

SnapshotsOf(n) == {x \in Requests : snapshots[x] = n}

\* y's CreatedAt is later than x's
Newer(y, x) == y # x /\ x \in before[y]

\* the sessions createSandbox counts against the token's limit
Counted == {n \in Names : Exists(n) /\ sandboxes[n].status = "running"}

-----------------------------------------------------------------------------
(* Bookkeeping of a request. *)

Goto(p, label) == pc' = [pc EXCEPT ![p] = label]

\* the handler returns: its locals die with it
Return(p) ==
    /\ Goto(p, "done")
    /\ rec' = [rec EXCEPT ![p] = None]
    /\ todo' = [todo EXCEPT ![p] = {}]
    /\ snap' = [snap EXCEPT ![p] = None]
    /\ keep' = [keep EXCEPT ![p] = FALSE]
    /\ op' = [op EXCEPT ![p] = None]
    /\ UNCHANGED name

\* a handler starts on sandbox n with its copy r of the record
Begin(p, o, n, r, label) ==
    /\ up /\ o \in Ops /\ pc[p] = "idle"
    /\ Goto(p, label)
    /\ op' = [op EXCEPT ![p] = o]
    /\ name' = [name EXCEPT ![p] = n]
    /\ rec' = [rec EXCEPT ![p] = r]
    /\ UNCHANGED <<store, runtime, locks, todo, process>>

\* the handler goes on with snapshot x of those it has to delete
TakeUp(p, x, label) ==
    /\ Goto(p, label)
    /\ todo' = [todo EXCEPT ![p] = @ \ {x}]
    /\ snap' = [snap EXCEPT ![p] = x]
    /\ UNCHANGED <<op, name, rec, keep>>

Unlock(n) == nameLock' = [nameLock EXCEPT ![n] = None]

\* the handler returns and releases the lock of its sandbox
ReturnUnlocked(p) == Return(p) /\ Unlock(name[p]) /\ UNCHANGED lifecycle

\* stopRecord returns: its deferred Unlock runs
ReturnStopped(p) == Return(p) /\ lifecycle' = None /\ UNCHANGED nameLock

Failing(fault) == fault \in Faults

-----------------------------------------------------------------------------
(* POST /sandboxes: createSandbox. *)

CreateStart(p) ==
    \E o \in {"create", "fork"}, n \in Names :
        Begin(p, o, n, None, "create_lock") /\ UNCHANGED <<keep, snap>>

\* mutant: the lock is taken without waiting for its holder
AcquireHeldName(p) ==
    /\ pc[p] \in {"create_lock", "get_lock"}
    /\ nameLock' = [nameLock EXCEPT ![name[p]] = p]
    /\ Goto(p, IF pc[p] = "create_lock" THEN "create_check" ELSE "get_reread")
    /\ UNCHANGED <<store, runtime, lifecycle, locals, process>>

\* lockName: the handler waits for the lock of its sandbox
AcquireName(p) ==
    /\ pc[p] \in {"create_lock", "get_lock"}
    /\ nameLock[name[p]] = None
    /\ nameLock' = [nameLock EXCEPT ![name[p]] = p]
    /\ Goto(p, IF pc[p] = "create_lock" THEN "create_check" ELSE "get_reread")
    /\ UNCHANGED <<store, runtime, lifecycle, locals, process>>

CreateCheck(p) ==
    /\ pc[p] = "create_check"
    /\ IF Exists(name[p])
         THEN ReturnUnlocked(p)
         ELSE Goto(p, "create_quota") /\ UNCHANGED <<locks, locals>>
    /\ UNCHANGED <<store, runtime, process>>

\* a listing that fails counts as an empty one: its error is ignored
CreateQuota(p) ==
    /\ pc[p] = "create_quota"
    /\ \/ /\ Cardinality(Counted) >= MaxSessions
          /\ ReturnUnlocked(p)
       \/ /\ Cardinality(Counted) < MaxSessions \/ Failing("read")
          /\ Goto(p, "create_vm") /\ UNCHANGED <<locks, locals>>
    /\ UNCHANGED <<store, runtime, process>>

\* runtime.create: a VM whose disk is a copy of image src (None: base image)
SpawnVm(p, src) ==
    /\ src \in images \cup {None}
    /\ vms' = vms \cup {p}
    /\ boot' = [boot EXCEPT ![p] = src]
    /\ UNCHANGED images

\* the handler goes on to set the session up, which may fail; or the answer is
\* lost, and the handler returns knowing nothing of the VM
Spawned(p, next, undo) ==
    \/ Goto(p, next) /\ UNCHANGED <<locks, locals>>
    \/ Failing("setup") /\ Goto(p, undo) /\ UNCHANGED <<locks, locals>>
    \/ Failing("create_lost") /\ ReturnUnlocked(p)

\* the snapshots a fork may name: any of the project
Sources(p) ==
    IF op[p] = "fork" THEN {x \in Requests : snapshots[x] \in Names} ELSE {None}

CreateVm(p) ==
    /\ pc[p] = "create_vm"
    /\ \E src \in Sources(p) : SpawnVm(p, src)
    /\ Spawned(p, "create_put", "create_undo")
    /\ UNCHANGED <<store, process>>

\* runtime.create fails, or the source snapshot or its image is missing
CreateVmError(p) ==
    /\ pc[p] = "create_vm"
    /\ \/ Failing("create")
       \/ op[p] = "fork" /\ (Sources(p) = {} \/ Sources(p) \ images # {})
    /\ ReturnUnlocked(p)
    /\ UNCHANGED <<store, runtime, process>>

\* mutant: the runtime's session id is not copied into the record
CreatePutWithoutSession(p) ==
    /\ pc[p] = "create_put"
    /\ \E persistent \in Persistence :
           PutSandbox(name[p], [status |-> "running", session |-> None, snapshot |-> None,
                                persistent |-> persistent])
    /\ ReturnUnlocked(p)
    /\ UNCHANGED <<runtime, process>>

CreatePut(p) ==
    /\ pc[p] = "create_put"
    /\ \E persistent \in Persistence :
           PutSandbox(name[p], [status |-> "running", session |-> p, snapshot |-> None,
                                persistent |-> persistent])
    /\ ReturnUnlocked(p)
    /\ UNCHANGED <<runtime, process>>

CreatePutError(p) ==
    /\ pc[p] = "create_put" /\ Failing("put")
    /\ Goto(p, "create_undo")
    /\ UNCHANGED <<store, runtime, locks, locals, process>>

\* mutant: the handler returns its error without stopping the VM
UndoForgotten(p) ==
    /\ pc[p] \in {"create_undo", "resume_undo"}
    /\ ReturnUnlocked(p)
    /\ UNCHANGED <<store, runtime, process>>

\* the rollback's runtime.stop, whose error the handlers ignore
Undo(p) ==
    /\ pc[p] \in {"create_undo", "resume_undo"}
    /\ \/ vms' = vms \ {p}
       \/ Failing("undo") /\ UNCHANGED vms
    /\ ReturnUnlocked(p)
    /\ UNCHANGED <<store, boot, images, process>>

-----------------------------------------------------------------------------
(* GET /sandboxes/{name}?resume: getSandbox and resumeSandbox.  A sandbox    *)
(* that is not stopped is only read, which changes nothing.                  *)

GetStart(p) ==
    \E n \in Names :
        /\ Exists(n) /\ sandboxes[n].status = "stopped"
        /\ Begin(p, "get", n, sandboxes[n], "get_lock") /\ UNCHANGED <<keep, snap>>

\* the record is read again under the lock; when it is gone the old copy stays
GetReread(p) ==
    LET current == IF Exists(name[p]) THEN sandboxes[name[p]] ELSE rec[p] IN
    /\ pc[p] = "get_reread"
    /\ IF current.status = "stopped" /\ current.snapshot # None
         THEN /\ Goto(p, "resume_vm")
              /\ rec' = [rec EXCEPT ![p] = current]
              /\ UNCHANGED <<locks, op, name, keep, todo, snap>>
         ELSE ReturnUnlocked(p)
    /\ UNCHANGED <<store, runtime, process>>

ResumeVm(p) ==
    /\ pc[p] = "resume_vm"
    /\ SpawnVm(p, rec[p].snapshot)
    /\ Spawned(p, "resume_put", "resume_undo")
    /\ UNCHANGED <<store, process>>

ResumeVmError(p) ==
    /\ pc[p] = "resume_vm"
    /\ Failing("create") \/ rec[p].snapshot \notin images
    /\ ReturnUnlocked(p)
    /\ UNCHANGED <<store, runtime, process>>

ResumePut(p) ==
    /\ pc[p] = "resume_put"
    /\ PutSandbox(name[p], [rec[p] EXCEPT !.session = p, !.status = "running"])
    /\ ReturnUnlocked(p)
    /\ UNCHANGED <<runtime, process>>

\* resumeSandbox returns the store's error and leaves the VM running
ResumePutError(p) ==
    /\ pc[p] = "resume_put" /\ Failing("put")
    /\ ReturnUnlocked(p)
    /\ UNCHANGED <<store, runtime, process>>

-----------------------------------------------------------------------------
(* stopSession, snapshotSession and stopExpiredSessions, through stopRecord. *)

\* by session id (a client), makeSnapshot decided on the copy just read
StopStart(p) ==
    \E o \in {"stop", "snapshot", "snapshot_expiring"}, s \in Requests :
        LET n == sessions[s] IN
        /\ n # None /\ Exists(n)
        /\ Begin(p, o, n, sandboxes[n], "stop_lock")
        /\ keep' = [keep EXCEPT ![p] = o # "stop" \/ sandboxes[n].persistent]
        /\ UNCHANGED snap

\* by name (the sweep), for a record listed as running whose time is up
TimeoutStart(p) ==
    \E n \in Names :
        /\ Exists(n) /\ sandboxes[n].status = "running"
        /\ Begin(p, "timeout", n, sandboxes[n], "stop_lock")
        /\ keep' = [keep EXCEPT ![p] = sandboxes[n].persistent]
        /\ UNCHANGED snap

AcquireLifecycle(p) ==
    /\ pc[p] = "stop_lock"
    /\ lifecycle = None
    /\ lifecycle' = p
    /\ Goto(p, "stop_reread")
    /\ UNCHANGED <<store, runtime, nameLock, locals, process>>

\* mutant: the copy read before the lock is trusted
StopStale(p) ==
    /\ pc[p] = "stop_reread"
    /\ Goto(p, "stop_mark")
    /\ UNCHANGED <<store, runtime, locks, locals, process>>

\* the record is read again by NAME: it may name another session by now
StopReread(p) ==
    LET current == IF Exists(name[p]) THEN sandboxes[name[p]] ELSE rec[p] IN
    /\ pc[p] = "stop_reread"
    /\ IF current.status = "running"
         THEN /\ Goto(p, "stop_mark")
              /\ rec' = [rec EXCEPT ![p] = current]
              /\ UNCHANGED <<locks, op, name, keep, todo, snap>>
         ELSE ReturnStopped(p)
    /\ UNCHANGED <<store, runtime, process>>

\* "stopping" is written, or not: the error is ignored
StopMark(p) ==
    LET r == [rec[p] EXCEPT !.status = "stopping"] IN
    /\ pc[p] = "stop_mark"
    /\ PutSandbox(name[p], r) \/ (Failing("put") /\ UNCHANGED store)
    /\ rec' = [rec EXCEPT ![p] = r]
    /\ Goto(p, "stop_vm")
    /\ UNCHANGED <<runtime, locks, op, name, keep, todo, snap, process>>

\* runtime.stop as sandboxd performs it: the VM ends, its disk may be kept
StopEffect(p) ==
    /\ rec[p].session \in vms
    /\ vms' = vms \ {rec[p].session}
    /\ images' = IF keep[p] THEN images \cup {p} ELSE images
    /\ UNCHANGED boot

StopVm(p) ==
    /\ pc[p] = "stop_vm"
    /\ StopEffect(p)
    /\ \/ Goto(p, IF keep[p] THEN "stop_snap" ELSE "stop_put") /\ UNCHANGED <<locks, locals>>
       \/ Failing("stop_lost") /\ ReturnStopped(p)
    /\ UNCHANGED <<store, process>>

\* mutant: the error path returns with the lifecycle lock held
StopVmErrorLocked(p) ==
    /\ pc[p] = "stop_vm"
    /\ Failing("stop") \/ rec[p].session \notin vms
    /\ Return(p)
    /\ UNCHANGED <<store, runtime, locks, process>>

\* runtime.stop fails, or the runtime does not know the session
StopVmError(p) ==
    /\ pc[p] = "stop_vm"
    /\ Failing("stop") \/ rec[p].session \notin vms
    /\ ReturnStopped(p)
    /\ UNCHANGED <<store, runtime, process>>

StopSnap(p) ==
    /\ pc[p] = "stop_snap"
    /\ \/ /\ PutSnapshot(p, name[p])
          /\ before' = [before EXCEPT ![p] = {x \in Requests : before[x] # {}} \cup {p}]
          /\ Goto(p, "stop_put") /\ UNCHANGED <<locks, locals>>
       \/ Failing("put") /\ UNCHANGED store /\ ReturnStopped(p)
    /\ UNCHANGED <<runtime, process>>

\* mutant: only a stop that took a snapshot is recorded
StopPutWithSnapshot(p) ==
    /\ pc[p] = "stop_put"
    /\ IF keep[p] THEN PutSandbox(name[p], [rec[p] EXCEPT !.status = "stopped", !.snapshot = p])
                  ELSE UNCHANGED store
    /\ ReturnStopped(p)
    /\ UNCHANGED <<runtime, process>>

\* mutant: the record keeps the snapshot it was resumed from
StopPutOldPoint(p) ==
    /\ pc[p] = "stop_put"
    /\ PutSandbox(name[p], [rec[p] EXCEPT !.status = "stopped"]) \/ UNCHANGED store
    /\ ReturnStopped(p)
    /\ UNCHANGED <<runtime, process>>

\* stopRecord's last write; a snapshot with an expiration is then re-written
StopPut(p) ==
    LET r == [rec[p] EXCEPT !.status = "stopped",
                            !.snapshot = IF keep[p] THEN p ELSE @] IN
    /\ pc[p] = "stop_put"
    /\ \/ /\ PutSandbox(name[p], r)
          /\ IF op[p] = "snapshot_expiring"
               THEN /\ Goto(p, "expire_read")
                    /\ lifecycle' = None
                    /\ UNCHANGED <<nameLock, locals>>
               ELSE ReturnStopped(p)
       \/ Failing("put") /\ UNCHANGED store /\ ReturnStopped(p)
    /\ UNCHANGED <<runtime, process>>

\* snapshotSession: the snapshot record is read again before its expiration is
\* written.  One deleted meanwhile is read as a blank record, without an owner.
ExpireRead(p) ==
    /\ pc[p] = "expire_read"
    /\ Goto(p, IF snapshots[p] = None THEN "expire_blank" ELSE "expire_put")
    /\ UNCHANGED <<store, runtime, locks, locals, process>>

ExpirePut(p) ==
    /\ pc[p] \in {"expire_put", "expire_blank"}
    /\ \/ /\ PutSnapshot(p, IF pc[p] = "expire_put" THEN name[p] ELSE Nobody)
          /\ UNCHANGED before
       \/ Failing("put") /\ UNCHANGED store
    /\ Return(p)
    /\ UNCHANGED <<runtime, locks, process>>

-----------------------------------------------------------------------------
(* extendTimeout, updateSessionPolicy and updateSandbox: the whole record is *)
(* read, changed in the handler's copy and written back, under no lock.      *)

\* by session id, refused unless the copy read says "running"
ExtendStart(p) ==
    \E o \in {"extend", "policy"}, s \in Requests :
        LET n == sessions[s] IN
        /\ n # None /\ Exists(n) /\ sandboxes[n].status = "running"
        /\ Begin(p, o, n, sandboxes[n], IF o = "extend" THEN "write_back" ELSE "policy_vm")
        /\ UNCHANGED <<keep, snap>>

UpdateStart(p) ==
    \E n \in Names :
        /\ Exists(n)
        /\ Begin(p, "update", n, sandboxes[n], "update_snap")
        /\ UNCHANGED <<keep, snap>>

\* the fields of the PATCH: "persistent", currentSnapshotId, a network policy
UpdateFields(p) ==
    /\ pc[p] = "update_snap"
    /\ \E x \in SnapshotsOf(name[p]) \cup {rec[p].snapshot},
          persistent \in Persistence \cup {rec[p].persistent} :
           rec' = [rec EXCEPT ![p].snapshot = x, ![p].persistent = persistent]
    /\ \/ Goto(p, "write_back")
       \/ rec[p].status = "running" /\ Goto(p, "policy_vm")
    /\ UNCHANGED <<store, runtime, locks, op, name, keep, todo, snap, process>>

\* runtime.updatePolicy: an error, as of an unknown session, ends the handler
PolicyVm(p) ==
    /\ pc[p] = "policy_vm"
    /\ IF rec[p].session \in vms
         THEN Goto(p, "write_back") /\ UNCHANGED locals
         ELSE Return(p)
    /\ UNCHANGED <<store, runtime, locks, process>>

WriteBack(p) ==
    /\ pc[p] = "write_back"
    /\ PutSandbox(name[p], rec[p]) \/ (Failing("put") /\ UNCHANGED store)
    /\ Return(p)
    /\ UNCHANGED <<runtime, locks, process>>

-----------------------------------------------------------------------------
(* DELETE /sandboxes/{name}: deleteSandbox, under no lock. *)

DeleteStart(p) ==
    \E n \in Names :
        /\ Exists(n)
        /\ Begin(p, "delete", n, sandboxes[n],
                 IF sandboxes[n].status = "running" THEN "delete_vm" ELSE "delete_list")
        /\ UNCHANGED <<keep, snap>>

\* runtime.stop with DeleteDisk; its error ends the handler
DeleteVm(p) ==
    /\ pc[p] = "delete_vm"
    /\ \/ /\ rec[p].session \in vms
          /\ vms' = vms \ {rec[p].session}
          /\ Goto(p, "delete_list") /\ UNCHANGED locals
       \/ /\ Failing("stop") \/ rec[p].session \notin vms
          /\ UNCHANGED vms
          /\ Return(p)
    /\ UNCHANGED <<store, boot, images, locks, process>>

\* a listing that fails counts as an empty one
DeleteList(p) ==
    /\ pc[p] = "delete_list"
    /\ \/ todo' = [todo EXCEPT ![p] = SnapshotsOf(name[p])]
       \/ Failing("read") /\ todo' = [todo EXCEPT ![p] = {}]
    /\ Goto(p, "delete_image")
    /\ UNCHANGED <<store, runtime, locks, op, name, rec, keep, snap, process>>

\* runtime.deleteSnapshot for one of the snapshots: it deletes the image, whether
\* its answer arrives or not, or fails; the handler goes on all the same
DeleteImage(p) ==
    /\ pc[p] = "delete_image"
    /\ \E x \in todo[p] :
           /\ TakeUp(p, x, "delete_record")
           /\ images' = images \ {x} \/ (Failing("image") /\ UNCHANGED images)
    /\ UNCHANGED <<store, vms, boot, locks, process>>

\* store.DeleteSnapshot, whose error is ignored
DeleteRecord(p) ==
    /\ pc[p] = "delete_record"
    /\ DeleteSnapshot(snap[p]) \/ (Failing("put") /\ UNCHANGED store)
    /\ Goto(p, "delete_image")
    /\ UNCHANGED <<runtime, locks, locals, process>>

DeleteRow(p) ==
    /\ pc[p] = "delete_image" /\ todo[p] = {}
    /\ DeleteSandbox(name[p]) \/ (Failing("put") /\ UNCHANGED store)
    /\ Return(p)
    /\ UNCHANGED <<runtime, locks, process>>

-----------------------------------------------------------------------------
(* DELETE /sandboxes/snapshots/{id}: deleteSnapshot. *)

DeleteSnapshotStart(p) ==
    \E x \in Requests :
        /\ snapshots[x] \in Names
        /\ Begin(p, "delete_snapshot", snapshots[x], None, "image")
        /\ snap' = [snap EXCEPT ![p] = x]
        /\ UNCHANGED keep

\* an image the runtime does not hold is an error, which ends the handler; so
\* does a lost answer, of a runtime that has deleted the image
DeleteSnapshotImage(p) ==
    /\ pc[p] = "image"
    /\ \/ /\ snap[p] \in images
          /\ images' = images \ {snap[p]}
          /\ \/ Goto(p, "image_record") /\ UNCHANGED locals
             \/ Failing("image_lost") /\ Return(p)
       \/ /\ Failing("image") \/ snap[p] \notin images
          /\ UNCHANGED images
          /\ Return(p)
    /\ UNCHANGED <<store, vms, boot, locks, process>>

DeleteSnapshotRecord(p) ==
    /\ pc[p] = "image_record"
    /\ DeleteSnapshot(snap[p]) \/ (Failing("put") /\ UNCHANGED store)
    /\ Return(p)
    /\ UNCHANGED <<runtime, locks, process>>

-----------------------------------------------------------------------------
(* collectGarbage, for one of the records it listed.                         *)

GcStart(p) ==
    \E n \in Names :
        /\ Exists(n)
        /\ Begin(p, "gc", n, sandboxes[n], "gc_list")
        /\ UNCHANGED <<keep, snap>>

\* the snapshots that may have expired when they are listed
Expirable(listed, current) ==
    {x \in listed : FreshMayExpire \/ x = current \/ \E y \in listed : Newer(y, x)}

\* mutant: the snapshot that fills the retention is not kept
DoomedOffByOne(listed, current, expired, count) ==
    {x \in listed \ {current} :
        \/ x \in expired
        \/ /\ count > 0
           /\ Cardinality({y \in (listed \ expired) \cup ({current} \cap listed) : Newer(y, x)})
                  >= count - 1}

\* what a pass deletes of a sandbox's snapshots: never the resume point of the
\* record it LISTED; of the others those that have expired, and those older than
\* as many kept ones as the retention counts (0: no retention)
Doomed(listed, current, expired, count) ==
    {x \in listed \ {current} :
        \/ x \in expired
        \/ /\ count > 0
           /\ Cardinality({y \in (listed \ expired) \cup ({current} \cap listed) : Newer(y, x)})
                  >= count}

\* a listing that fails skips the sandbox
GcList(p) ==
    LET listed == SnapshotsOf(name[p])
        current == rec[p].snapshot IN
    /\ pc[p] = "gc_list"
    /\ \/ /\ \E expired \in SUBSET Expirable(listed, current), count \in 0..Cardinality(Requests) :
                 todo' = [todo EXCEPT ![p] = Doomed(listed, current, expired, count)]
          /\ Goto(p, "gc_image")
          /\ UNCHANGED <<op, name, rec, keep, snap>>
       \/ Failing("read") /\ Return(p)
    /\ UNCHANGED <<store, runtime, locks, process>>

\* a failed runtime.deleteSnapshot, or one whose answer is lost, leaves the record
\* of the snapshot for a later collection
GcImage(p) ==
    /\ pc[p] = "gc_image"
    /\ \E x \in todo[p] :
           \/ /\ x \in images
              /\ images' = images \ {x}
              /\ \/ TakeUp(p, x, "gc_record")
                 \/ Failing("image_lost") /\ TakeUp(p, x, "gc_image")
           \/ /\ Failing("image") \/ x \notin images
              /\ UNCHANGED images
              /\ TakeUp(p, x, "gc_image")
    /\ UNCHANGED <<store, vms, boot, locks, process>>

GcRecord(p) ==
    /\ pc[p] = "gc_record"
    /\ DeleteSnapshot(snap[p]) \/ (Failing("put") /\ UNCHANGED store)
    /\ Goto(p, "gc_image")
    /\ UNCHANGED <<runtime, locks, locals, process>>

GcDone(p) ==
    /\ pc[p] = "gc_image" /\ todo[p] = {}
    /\ Return(p)
    /\ UNCHANGED <<store, runtime, locks, process>>

-----------------------------------------------------------------------------
(* The process: a crash loses every request, lock and copy; a reboot of the  *)
(* host also loses every VM.  Restart is reconcileActiveSessions, which runs *)
(* before anything is served.                                                *)

InFlight(p) == pc[p] \notin Finished

Crash ==
    /\ up /\ Failing("crash") /\ crashes < MaxCrashes
    /\ up' = FALSE
    /\ crashes' = crashes + 1
    /\ vms' = vms \/ vms' = {}
    /\ pc' = [p \in Requests |-> IF InFlight(p) THEN "done" ELSE pc[p]]
    /\ rec' = [p \in Requests |-> None]
    /\ keep' = [p \in Requests |-> FALSE]
    /\ todo' = [p \in Requests |-> {}]
    /\ snap' = [p \in Requests |-> None]
    /\ nameLock' = [n \in Names |-> None]
    /\ lifecycle' = None
    /\ op' = [p \in Requests |-> None]
    /\ UNCHANGED <<store, boot, images, name>>

\* the records marked running whose VM the runtime does not list
Dead == {n \in Names : Exists(n) /\ sandboxes[n].status = "running"
                                 /\ sandboxes[n].session \notin vms}

\* runtime.sessions may fail, which skips the prune, and so may each write
Restart ==
    /\ ~up
    /\ up' = TRUE
    /\ \E pruned \in IF Failing("list") \/ Failing("put") THEN SUBSET Dead ELSE {Dead} :
           sandboxes' = [n \in Names |->
                            IF n \in pruned THEN [sandboxes[n] EXCEPT !.status = "stopped"]
                            ELSE sandboxes[n]]
    /\ UNCHANGED <<sessions, snapshots, before, runtime, locks, pc, locals, crashes>>

-----------------------------------------------------------------------------

Step(p) ==
    \/ AcquireName(p) \/ CreateCheck(p) \/ CreateQuota(p) \/ CreateVm(p) \/ CreateVmError(p)
    \/ CreatePut(p) \/ CreatePutError(p) \/ Undo(p)
    \/ GetReread(p) \/ ResumeVm(p) \/ ResumeVmError(p) \/ ResumePut(p) \/ ResumePutError(p)
    \/ AcquireLifecycle(p) \/ StopReread(p) \/ StopMark(p) \/ StopVm(p) \/ StopVmError(p)
    \/ StopSnap(p) \/ StopPut(p) \/ ExpireRead(p) \/ ExpirePut(p)
    \/ UpdateFields(p) \/ PolicyVm(p) \/ WriteBack(p)
    \/ DeleteVm(p) \/ DeleteList(p) \/ DeleteImage(p) \/ DeleteRecord(p) \/ DeleteRow(p)
    \/ DeleteSnapshotImage(p) \/ DeleteSnapshotRecord(p)
    \/ GcList(p) \/ GcImage(p) \/ GcRecord(p) \/ GcDone(p)

Start(p) ==
    \/ CreateStart(p) \/ GetStart(p) \/ StopStart(p) \/ TimeoutStart(p) \/ ExtendStart(p)
    \/ UpdateStart(p) \/ DeleteStart(p) \/ DeleteSnapshotStart(p) \/ GcStart(p)

\* the service waits for a request
Idle == up /\ (\A p \in Requests : ~InFlight(p)) /\ UNCHANGED vars

Next == Crash \/ Restart \/ Idle \/ \E p \in Requests : Start(p) \/ Step(p)

\* a handler that has started runs on; a lock is granted while it is free
Fairness == WF_vars(Restart) /\ \A p \in Requests : WF_vars(Step(p))

Spec == Init /\ [][Next]_vars
FairSpec == Spec /\ Fairness

=============================================================================
