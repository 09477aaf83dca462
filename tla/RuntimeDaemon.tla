---------------------------- MODULE RuntimeDaemon ----------------------------
(***************************************************************************)
(* sandboxd (cmd/sandboxd/main.go): the sessions it runs, the slots that   *)
(* give each VM its addresses and uid, the files it recovers from, and the *)
(* policies it registers with egressd by guest address.                    *)
(*                                                                         *)
(* A request p is one handler invocation.  d.mu is held only over the maps *)
(* (one step); everything between two critical sections interleaves.  The  *)
(* session created by request p, and the snapshot taken by request p, are  *)
(* written p.  A guest address is a function of the slot, so egressd's     *)
(* table is indexed by slot.  Every session needs the same memory, and the *)
(* refusals for the memory or disk that is free at the moment are those of *)
(* a full table.                                                           *)
(***************************************************************************)
EXTENDS Integers, FiniteSets

CONSTANTS
    Requests,    \* handler invocations (also the session and snapshot ids)
    None,
    MaxSlot,     \* slots are 1 .. MaxSlot (16382 in the code)
    MaxVms,      \* sessions the committed memory, or the vCPU ceiling, admits
    Ops,         \* the operations the API may invoke
    Faults,      \* the failures that may happen
    SerialStops, \* TRUE: the API never has two stops of a session in flight
    MaxCrashes   \* bound: crashes of sandboxd or reboots in a behaviour

Slots == 1..MaxSlot

ASSUME NoneIsNoRequest == None \notin Requests /\ None \notin Slots
ASSUME BoundsAreNat == MaxSlot \in Nat /\ MaxVms \in Nat /\ MaxCrashes \in Nat
ASSUME SerialIsBoolean == SerialStops \in BOOLEAN

VARIABLES
    sessions,  \* the keys of d.sessions
    slots,     \* d.slots: slot -> session
    slotOf,    \* Session.Slot
    files,     \* sessions with a state file
    vms,       \* sessions whose VM process lives
    runaway,   \* sessions whose cgroup could not be killed (history)
    disks,     \* sessions with an instance disk
    images,    \* snapshot images
    policies,  \* egressd: slot of the guest address -> session the policy is of
    answered,  \* sessions the API was told of
    pc,        \* where each request stands
    target,    \* the session it works on
    keep,      \* a stop with a SnapshotID
    up,        \* sandboxd is serving
    crashes

tables == <<sessions, slots, slotOf>>
machines == <<vms, runaway>>
host == <<files, machines, disks, images>>
locals == <<target, keep>>
process == <<up, crashes>>
vars == <<tables, host, policies, answered, pc, locals, process>>

Init ==
    /\ sessions = {}
    /\ slots = [i \in Slots |-> None]
    /\ slotOf = [s \in Requests |-> None]
    /\ files = {} /\ vms = {} /\ runaway = {} /\ disks = {} /\ images = {}
    /\ policies = [i \in Slots |-> None]
    /\ answered = {}
    /\ pc = [p \in Requests |-> "idle"]
    /\ target = [p \in Requests |-> None]
    /\ keep = [p \in Requests |-> FALSE]
    /\ up = TRUE
    /\ crashes = 0

Failing(fault) == fault \in Faults
Goto(p, label) == pc' = [pc EXCEPT ![p] = label]
Starting(p, o) == up /\ o \in Ops /\ pc[p] = "idle"

\* the VMs whose addresses are theirs: cleanupSession deletes the link of a VM
\* whether or not its cgroup could be killed
Reachable == vms \ runaway

\* cleanupSession kills the cgroups of the sessions; an error is logged or
\* dropped by the callers, and everything goes on as after a kill
Killed(killed) ==
    \E missed \in IF Failing("kill") THEN SUBSET (killed \cap vms) ELSE {{}} :
        /\ vms' = vms \ (killed \ missed)
        /\ runaway' = runaway \cup missed

\* egressd's DELETE: every policy of the session
Dropped(s) == [i \in Slots |-> IF policies[i] = s THEN None ELSE policies[i]]

-----------------------------------------------------------------------------
(* POST /v1/sessions: createSession. *)

\* mutant: the scan does not look at d.slots
UnusedIgnored == Slots
FreeSlots == {i \in Slots : slots[i] = None}
LowestFree == CHOOSE i \in FreeSlots : \A j \in FreeSlots : i <= j

\* mutant: no ceiling of committed memory
CreateUnadmitted(p) ==
    /\ Starting(p, "create") /\ FreeSlots # {}
    /\ sessions' = sessions \cup {p}
    /\ slots' = [slots EXCEPT ![LowestFree] = p]
    /\ slotOf' = [slotOf EXCEPT ![p] = LowestFree]
    /\ Goto(p, "disk")
    /\ target' = [target EXCEPT ![p] = p]
    /\ UNCHANGED <<host, policies, answered, keep, process>>

\* admission, the slot and the table entry, in one critical section
CreateStart(p) ==
    /\ Starting(p, "create")
    /\ IF Cardinality(sessions) < MaxVms /\ FreeSlots # {}
         THEN /\ sessions' = sessions \cup {p}
              /\ slots' = [slots EXCEPT ![LowestFree] = p]
              /\ slotOf' = [slotOf EXCEPT ![p] = LowestFree]
              /\ Goto(p, "disk")
              /\ target' = [target EXCEPT ![p] = p]
         ELSE Goto(p, "done") /\ UNCHANGED <<tables, target>>
    /\ UNCHANGED <<host, policies, answered, keep, process>>

\* prepareDisk and setupNetwork
CreateDisk(p) ==
    /\ pc[p] = "disk"
    /\ \/ disks' = disks \cup {p} /\ Goto(p, "policy")
       \/ Failing("disk") /\ disks' \in {disks, disks \cup {p}} /\ Goto(p, "undo")
    /\ UNCHANGED <<tables, files, machines, images, policies, answered, locals, process>>

\* setEgressPolicy; a request whose answer is lost may have had its effect
CreatePolicy(p) ==
    /\ pc[p] = "policy"
    /\ \/ policies' = [policies EXCEPT ![slotOf[p]] = p] /\ Goto(p, "boot")
       \/ /\ Failing("egress") /\ Goto(p, "undo")
          /\ policies' \in {policies, [policies EXCEPT ![slotOf[p]] = p]}
    /\ UNCHANGED <<tables, host, answered, locals, process>>

\* startFirecracker
CreateBoot(p) ==
    /\ pc[p] = "boot"
    /\ \/ vms' = vms \cup {p} /\ Goto(p, "agent")
       \/ Failing("boot") /\ vms' \in {vms, vms \cup {p}} /\ Goto(p, "undo")
    /\ UNCHANGED <<tables, files, runaway, disks, images, policies, answered, locals, process>>

\* waitForAgent
CreateAgent(p) ==
    /\ pc[p] = "agent"
    /\ Goto(p, "save") \/ (Failing("boot") /\ Goto(p, "undo"))
    /\ UNCHANGED <<tables, host, policies, answered, locals, process>>

CreateSave(p) ==
    /\ pc[p] = "save"
    /\ \/ /\ files' = files \cup {p}
          /\ answered' = answered \cup {p}
          /\ Goto(p, "done")
       \/ Failing("save") /\ Goto(p, "undo") /\ UNCHANGED <<files, answered>>
    /\ UNCHANGED <<tables, machines, disks, images, policies, locals, process>>

\* mutant: the failed creation is forgotten without cleanupSession
UndoWithoutCleanup(p) ==
    /\ pc[p] = "undo"
    /\ Goto(p, "release")
    /\ UNCHANGED <<tables, host, policies, answered, locals, process>>

\* cleanupSession with removeDisk; its calls' errors are ignored
UndoCleanup(p) ==
    /\ pc[p] = "undo"
    /\ Killed({p})
    /\ policies' = Dropped(p) \/ (Failing("egress") /\ UNCHANGED policies)
    /\ disks' = disks \ {p}
    /\ Goto(p, "release")
    /\ UNCHANGED <<tables, files, images, answered, locals, process>>

\* mutant: the slot is not given up with the session
ReleaseSessionOnly(p) ==
    /\ pc[p] \in {"release", "forget"}
    /\ sessions' = sessions \ {target[p]}
    /\ Goto(p, IF pc[p] = "release" THEN "done" ELSE "unpersist")
    /\ UNCHANGED <<slots, slotOf, host, policies, answered, locals, process>>

\* the session and the slot are given up, in one critical section
Release(p) ==
    /\ pc[p] \in {"release", "forget"}
    /\ sessions' = sessions \ {target[p]}
    /\ slots' = [slots EXCEPT ![slotOf[target[p]]] = None]
    /\ Goto(p, IF pc[p] = "release" THEN "done" ELSE "unpersist")
    /\ UNCHANGED <<slotOf, host, policies, answered, locals, process>>

-----------------------------------------------------------------------------
(* POST /v1/sessions/{id}/stop: stopSession and stopAndSnapshot. *)

StopsOf(s) == {p \in Requests : target[p] = s /\ p # s
                   /\ pc[p] \in {"poweroff", "kill", "capture", "remove", "forget", "unpersist"}}

\* the handler takes the session's pointer; an unknown session is a 404
StopStart(p) ==
    /\ Starting(p, "stop")
    /\ \E s \in answered, k \in BOOLEAN :
           /\ SerialStops => StopsOf(s) = {}
           /\ IF s \in sessions
                THEN /\ Goto(p, "poweroff")
                     /\ target' = [target EXCEPT ![p] = s]
                     /\ keep' = [keep EXCEPT ![p] = k]
                ELSE Goto(p, "done") /\ UNCHANGED locals
    /\ UNCHANGED <<tables, host, policies, answered, process>>

\* the guest is asked to power off, and may not
StopPowerOff(p) ==
    /\ pc[p] = "poweroff"
    /\ vms' \in {vms, vms \ {target[p]}}
    /\ Goto(p, "kill")
    /\ UNCHANGED <<tables, files, runaway, disks, images, policies, answered, locals, process>>

\* mutant: a guest that did not power off is left running
StopWithoutKill(p) ==
    /\ pc[p] = "kill"
    /\ policies' = Dropped(target[p])
    /\ Goto(p, IF keep[p] THEN "capture" ELSE "remove")
    /\ UNCHANGED <<tables, host, answered, locals, process>>

\* cleanupSession without removeDisk: the cgroup is killed, the policy and
\* the link are dropped
StopKill(p) ==
    /\ pc[p] = "kill"
    /\ Killed({target[p]})
    /\ policies' = Dropped(target[p]) \/ (Failing("egress") /\ UNCHANGED policies)
    /\ Goto(p, IF keep[p] THEN "capture" ELSE "remove")
    /\ UNCHANGED <<tables, files, disks, images, answered, locals, process>>

\* the disk is copied; on an error the session stays listed, its VM dead
StopCapture(p) ==
    /\ pc[p] = "capture"
    /\ \/ target[p] \in disks /\ images' = images \cup {p} /\ Goto(p, "remove")
       \/ Failing("copy") /\ images' \in {images, images \cup {p}} /\ Goto(p, "done")
       \/ target[p] \notin disks /\ UNCHANGED images /\ Goto(p, "done")
    /\ UNCHANGED <<tables, files, machines, disks, policies, answered, locals, process>>

StopRemove(p) ==
    /\ pc[p] = "remove"
    /\ disks' = disks \ {target[p]}
    /\ Goto(p, "forget")
    /\ UNCHANGED <<tables, files, machines, images, policies, answered, locals, process>>

StopUnpersist(p) ==
    /\ pc[p] = "unpersist"
    /\ files' = files \ {target[p]}
    /\ Goto(p, "done")
    /\ UNCHANGED <<tables, machines, disks, images, policies, answered, locals, process>>

-----------------------------------------------------------------------------
(* PUT /v1/sessions/{id}/network-policy and DELETE /v1/snapshots/{id}. *)

PolicyStart(p) ==
    /\ Starting(p, "policy")
    /\ \E s \in answered :
           IF s \in sessions
             THEN Goto(p, "policy_put") /\ target' = [target EXCEPT ![p] = s]
             ELSE Goto(p, "done") /\ UNCHANGED target
    /\ UNCHANGED <<tables, host, policies, answered, keep, process>>

\* by the address of the session whose pointer was taken
PolicyPut(p) ==
    /\ pc[p] = "policy_put"
    /\ \/ policies' = [policies EXCEPT ![slotOf[target[p]]] = target[p]] /\ Goto(p, "policy_save")
       \/ Failing("egress") /\ UNCHANGED policies /\ Goto(p, "done")
    /\ UNCHANGED <<tables, host, answered, locals, process>>

PolicySave(p) ==
    /\ pc[p] = "policy_save"
    /\ files' = files \cup {target[p]} \/ (Failing("save") /\ UNCHANGED files)
    /\ Goto(p, "done")
    /\ UNCHANGED <<tables, machines, disks, images, policies, answered, locals, process>>

DeleteSnapshot(p) ==
    /\ Starting(p, "delete_snapshot")
    /\ \E x \in images : images' = images \ {x}
    /\ Goto(p, "done")
    /\ UNCHANGED <<tables, files, machines, disks, policies, answered, locals, process>>

-----------------------------------------------------------------------------
(* The process: VMs are daemonized and outlive a crash, not a reboot, which  *)
(* also clears egressd's state.  Restart is reconcileStartup.                *)

InFlight(p) == pc[p] \notin {"idle", "done"}

Crash ==
    /\ up /\ crashes < MaxCrashes
    /\ up' = FALSE
    /\ crashes' = crashes + 1
    /\ \/ Failing("crash") /\ UNCHANGED <<vms, policies>>
       \/ Failing("reboot") /\ vms' = {} /\ policies' = [i \in Slots |-> None]
    /\ sessions' = {}
    /\ slots' = [i \in Slots |-> None]
    /\ pc' = [p \in Requests |-> IF InFlight(p) THEN "done" ELSE pc[p]]
    /\ UNCHANGED <<slotOf, files, runaway, disks, images, answered, locals>>

\* mutant: the slots of adopted sessions are not marked as used
RestartWithoutSlots ==
    /\ ~up
    /\ sessions' = files \cap vms
    /\ files' = files \cap vms
    /\ up' = TRUE
    /\ UNCHANGED <<slots, slotOf, machines, disks, images, policies, answered, pc, locals, crashes>>

\* the sessions found alive: a VM may not answer its health check in time
Answering ==
    IF Failing("health") THEN SUBSET (files \cap Reachable) ELSE {files \cap Reachable}

\* egressd's table when the dead are cleaned up and the sessions whose policy
\* has rules are registered again
Reregistered(ruled, dead) ==
    [i \in Slots |->
        IF \E s \in ruled : slotOf[s] = i THEN CHOOSE s \in ruled : slotOf[s] = i
        ELSE IF policies[i] \in dead THEN None ELSE policies[i]]

SlotShared(adopted) == \E s, t \in adopted : s # t /\ slotOf[s] = slotOf[t]

Restart ==
    /\ ~up
    /\ \E adopted \in Answering : \E ruled \in SUBSET adopted :
           LET dead == files \ adopted IN
           /\ ~SlotShared(adopted)
           /\ sessions' = adopted
           /\ slots' = [i \in Slots |->
                           IF \E s \in adopted : slotOf[s] = i
                             THEN CHOOSE s \in adopted : slotOf[s] = i ELSE None]
           /\ policies' = Reregistered(ruled, dead)
           /\ Killed(dead)
           /\ files' = adopted
    /\ up' = TRUE
    /\ UNCHANGED <<slotOf, disks, images, answered, pc, locals, crashes>>

\* the loop ends at a slot claimed twice or a policy egressd does not take, and
\* the process with it; what it did to the files before that one stays done
RestartError ==
    /\ ~up
    /\ \E adopted \in Answering :
           /\ (Failing("egress") /\ adopted # {}) \/ SlotShared(adopted)
           /\ \E ruled \in SUBSET adopted, dead \in SUBSET (files \ adopted) :
                  /\ policies' = Reregistered(ruled, dead)
                  /\ Killed(dead)
                  /\ files' = files \ dead
    /\ UNCHANGED <<tables, disks, images, answered, pc, locals, process>>

-----------------------------------------------------------------------------

Step(p) ==
    \/ CreateDisk(p) \/ CreatePolicy(p) \/ CreateBoot(p) \/ CreateAgent(p) \/ CreateSave(p)
    \/ UndoCleanup(p) \/ Release(p)
    \/ StopPowerOff(p) \/ StopKill(p) \/ StopCapture(p) \/ StopRemove(p) \/ StopUnpersist(p)
    \/ PolicyPut(p) \/ PolicySave(p)

Start(p) == CreateStart(p) \/ StopStart(p) \/ PolicyStart(p) \/ DeleteSnapshot(p)

\* the daemon waits for a request, or for an operator when it cannot start
Idle == (\A p \in Requests : ~InFlight(p)) /\ UNCHANGED vars

Next == Crash \/ Restart \/ RestartError \/ Idle \/ \E p \in Requests : Start(p) \/ Step(p)

Spec == Init /\ [][Next]_vars

=============================================================================
