------------------------- MODULE LifecycleProperties -------------------------
(***************************************************************************)
(* What the sandbox lifecycle must keep true, and the abstract sandbox it  *)
(* implements when only the handlers that lock take part.                  *)
(***************************************************************************)
EXTENDS SandboxLifecycle

(* The session index and the sandbox rows always name each other: a row is   *)
(* found by its session id, and an index entry leads to the row that holds   *)
(* that session, whatever stale copies PutSandbox (store.go:47) is given and *)
(* whenever the process dies.                                                *)
SessionIndexConsistent ==
    /\ \A n \in Names : Exists(n) => sessions[sandboxes[n].session] = n
    /\ \A s \in Requests : sessions[s] # None =>
           Exists(sessions[s]) /\ sandboxes[sessions[s]].session = s

\* the steps at which a handler still needs its copy of the record, or the
\* snapshot it deletes
CopyHeld == {"get_lock", "get_reread", "resume_vm", "resume_put",
             "stop_lock", "stop_reread", "stop_mark", "stop_vm", "stop_snap", "stop_put",
             "update_snap", "policy_vm", "write_back", "delete_vm", "gc_list"}
SnapshotHeld == {"delete_record", "gc_record", "image", "image_record"}

LocalsOK ==
    \A p \in Requests :
        /\ pc[p] = "idle" <=> name[p] = None
        /\ pc[p] = "idle" => rec[p] = None
        /\ pc[p] \in CopyHeld => rec[p] # None
        /\ pc[p] \in SnapshotHeld => snap[p] # None

\* a session belongs to one name for good: the name of every row, and of every
\* copy of a row, is the name its session was created for
SessionsKeepNames ==
    /\ \A n \in Names : Exists(n) => name[sandboxes[n].session] = n
    /\ \A p \in Requests : rec[p] # None => name[rec[p].session] = name[p]

(* The inductive strengthening of SessionIndexConsistent: PutSandbox keeps   *)
(* the index right only because no two names are ever given one session.     *)
IndexInv == TypeOK /\ LocalsOK /\ SessionsKeepNames /\ SessionIndexConsistent

VmsOf(n) == {s \in vms : name[s] = n}

(* Concurrent requests cannot each spawn a VM for the same name: what the    *)
(* per-name lock is there for (main.go:35-37, handlers.go:52-54).            *)
OneVmPerName == \A n \in Names : \A s, t \in VmsOf(n) : s = t

\* the requests that have started a VM and not yet recorded it
Spawning == {"create_put", "create_undo", "resume_put", "resume_undo"}

(* No VM is forgotten: every live VM is the session of a running or stopping *)
(* record, or was started by a request that still holds the name's lock and  *)
(* will record it or stop it.                                                *)
NoOrphanVm ==
    \A s \in vms :
        \/ Exists(name[s]) /\ sandboxes[name[s]].session = s
                           /\ sandboxes[name[s]].status \in {"running", "stopping"}
        \/ pc[s] \in Spawning /\ nameLock[name[s]] = s

(* A session that has stopped never comes back: no write turns its record to *)
(* running or stopping again (stopRecord, handlers.go:554).                  *)
StoppedForGood ==
    [][\A n \in Names :
          (Exists(n) /\ sandboxes[n].status = "stopped" /\ sandboxes'[n] # None
              /\ sandboxes'[n].session = sandboxes[n].session)
          => sandboxes'[n].status = "stopped"]_vars

(* Every handler that starts returns: no lock is left held by a request that *)
(* is gone, and no two requests wait for each other's lock.                  *)
EveryRequestReturns == \A p \in Requests : InFlight(p) ~> ~InFlight(p)

(* A stop that the runtime has carried out is recorded, and stays so: the    *)
(* record of the session becomes "stopped" and no other stop, whose copy is  *)
(* older, leaves it "stopping" (stopRecord, handlers.go:529-533).            *)
StopsAreRecorded ==
    \A s \in Requests :
        (\E p \in Requests : pc[p] \in {"stop_snap", "stop_put"} /\ rec[p].session = s)
        ~> [](\A n \in Names : Exists(n) /\ sandboxes[n].session = s
                               => sandboxes[n].status = "stopped")

-----------------------------------------------------------------------------
(* Refinement: the VM of a name, the image under its disk, and its resume    *)
(* point, which is the snapshot just taken until the record names it.        *)

Live(n) == IF VmsOf(n) = {} THEN None ELSE CHOOSE s \in VmsOf(n) : TRUE
Disk(n) == IF Live(n) = None THEN None ELSE boot[Live(n)]

\* requests that have captured n's disk and not yet written it to the record
Captures(p) == keep[p] /\ pc[p] \in {"stop_snap", "stop_put"}
Capturing(n) == {p \in Requests : name[p] = n /\ Captures(p)}

ResumePoint(n) ==
    IF Capturing(n) # {} THEN CHOOSE p \in Capturing(n) : TRUE
    ELSE IF Exists(n) THEN sandboxes[n].snapshot
    ELSE None

Durable == INSTANCE DurableSandbox WITH
    Sessions <- Requests,
    Images <- Requests,
    live <- [n \in Names |-> Live(n)],
    disk <- [n \in Names |-> Disk(n)],
    point <- [n \in Names |-> ResumePoint(n)]

(* The collector never deletes a sandbox's resume point, which would strand  *)
(* the sandbox (main.go:246-251): the image a sandbox would be resumed from  *)
(* goes away only when a client asks for that very snapshot to be deleted,   *)
(* though a stop may have replaced the resume point since the collector      *)
(* listed the sandbox, and answers of the runtime may be lost.               *)
ResumePointsSpared ==
    [][\A n \in Names :
          ResumePoint(n) \in images \ images' =>
              \E p \in Requests : pc[p] = "image" /\ snap[p] = ResumePoint(n)]_vars

(* The lifecycle implements DurableSandbox: one VM per name, and no stop's   *)
(* work is lost to a resume from an older image.                             *)
ImplementsDurableSandbox == Durable!Spec

-----------------------------------------------------------------------------
(* The inductive invariants behind the properties of the locked handlers.    *)

\* no handler that writes a record without a lock takes part, and a step that
\* has its effect is known to have had it
Locked ==
    /\ Ops \cap {"extend", "policy", "update", "delete"} = {}
    /\ Faults \cap {"create_lost", "undo", "put", "crash"} = {}

UnlockedSteps == {"update_snap", "policy_vm", "write_back", "delete_vm", "delete_list",
                  "delete_image", "delete_record", "delete_row"}
NameHolding == {"create_check", "create_quota", "create_vm", "create_put", "create_undo",
                "get_reread", "resume_vm", "resume_put", "resume_undo"}
StopHolding == {"stop_reread", "stop_mark", "stop_vm", "stop_snap", "stop_put"}

LockHeld(p) ==
    /\ pc[p] \in NameHolding => nameLock[name[p]] = p
    /\ pc[p] \in StopHolding => lifecycle = p

\* what a handler read under its lock is still so: the record does not exist,
\* or is the handler's copy of it
CopyHolds(p, st) == Exists(name[p]) /\ rec[p] = sandboxes[name[p]] /\ rec[p].status = st

Knows(p) ==
    /\ pc[p] \notin UnlockedSteps
    /\ pc[p] \in {"create_quota", "create_vm", "create_put", "create_undo"} => ~Exists(name[p])
    /\ pc[p] \in {"get_lock", "get_reread", "stop_lock", "stop_reread"} => Exists(name[p])
    /\ pc[p] \in {"resume_vm", "resume_put", "resume_undo"} => CopyHolds(p, "stopped")
    /\ pc[p] = "stop_mark" => CopyHolds(p, "running")
    /\ pc[p] \in {"stop_vm", "stop_snap", "stop_put"} => CopyHolds(p, "stopping")
    /\ pc[p] \in {"stop_snap", "stop_put"} => rec[p].session \notin vms

\* a record's session and snapshot are those of requests that are over
Expiring == {"expire_read", "expire_put", "expire_blank"}
RecordsSettled ==
    \A n \in Names : Exists(n) =>
        /\ pc[sandboxes[n].session] = "done"
        /\ sandboxes[n].snapshot # None => pc[sandboxes[n].snapshot] \in Expiring \cup {"done"}

VmsStarted == \A s \in vms : pc[s] # "idle"

LockedInv ==
    /\ up
    /\ \A p \in Requests : LockHeld(p) /\ Knows(p)
    /\ RecordsSettled
    /\ VmsStarted
    /\ NoOrphanVm

\* a snapshot that is listed, dated or about to be deleted is one that a stop
\* has listed, under the name of its sandbox, and had the disk captured for
Recorded(x) ==
    \/ snapshots[x] # None
    \/ before[x] # {}
    \/ \E q \in Requests : x \in before[q] \cup todo[q]
SnapshotsSettled ==
    \A x \in Requests :
        /\ Recorded(x) => pc[x] \in {"stop_put", "done"} \cup Expiring
        /\ snapshots[x] \in {name[x], Nobody, None}
        /\ pc[x] = "stop_snap" => keep[x]

\* no snapshot of a sandbox is newer than its resume point, which no collector
\* has set out to delete
NewestPoint ==
    \A n \in Names : ResumePoint(n) # None =>
        /\ name[ResumePoint(n)] = n
        /\ \A p \in Requests : ResumePoint(n) \notin todo[p]
        /\ \A y \in Requests : name[y] = n => ~Newer(y, ResumePoint(n))

(* The inductive strengthening of ResumePointsSpared. *)
SparedInv == SnapshotsSettled /\ NewestPoint

\* no handler writes a copy back that it read under no lock
NoWriteBack == Ops \cap {"extend", "policy", "update"} = {}

\* the session of a record, and of a handler's copy, was set up by a request
\* that is over
SessionsOver ==
    /\ \A n \in Names : Exists(n) => pc[sandboxes[n].session] = "done"
    /\ \A p \in Requests : rec[p] # None => pc[rec[p].session] = "done"

\* the copy a stop is about to mark "stopping" has not been stopped meanwhile
StopsInv ==
    /\ \A p \in Requests :
           /\ pc[p] \notin {"update_snap", "policy_vm", "write_back"}
           /\ pc[p] \in StopHolding => lifecycle = p
           /\ ~up => pc[p] \in Finished
           /\ pc[p] = "stop_mark" =>
                  \A n \in Names : Exists(n) /\ sandboxes[n].session = rec[p].session
                                   => sandboxes[n].status # "stopped"
    /\ SessionsOver

=============================================================================
