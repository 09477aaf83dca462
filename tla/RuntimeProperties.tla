-------------------------- MODULE RuntimeProperties --------------------------
(***************************************************************************)
(* What sandboxd must keep true of its sessions, slots, VMs and images.    *)
(***************************************************************************)
EXTENDS RuntimeDaemon

(* d.slots and the sessions it lists agree, through every creation, undo,    *)
(* stop and restart: a listed session holds its slot, a taken slot belongs   *)
(* to a listed session (main.go:213, 221, 553, 737).                         *)
SlotTable ==
    /\ \A s \in sessions : slotOf[s] \in Slots /\ slots[slotOf[s]] = s
    /\ \A i \in Slots : slots[i] # None => slots[i] \in sessions

(* Two VMs never share a slot, which is their /30, their addresses and their *)
(* uid (SPEC.md:54, "unique netns + /30 veth per VM").  Here and below, a VM *)
(* the kernel would not kill is left out: nothing in the code looks for it.  *)
SlotsExclusive == \A s, t \in Reachable : slotOf[s] = slotOf[t] => s = t

(* While sandboxd serves, every live VM and every instance disk belongs to a *)
(* session it lists: whatever step of a creation or a stop fails, no VM runs *)
(* outside of the admission controller's sums, and no disk is left behind.   *)
NothingForgotten == up => Reachable \cup disks \subseteq sessions

(* The listed sessions, and with them the live VMs, stay within the ceiling  *)
(* of committed memory (main.go:274-284).                                    *)
CommittedMemory == Cardinality(Reachable) <= MaxVms

(* An image is taken of a disk no VM is writing (main.go:569-571).           *)
SnapshotsQuiesced ==
    [][\A p \in images' \ images : target[p] \notin Reachable]_vars

(* Startup reconciliation never finds two live sessions on one slot, which   *)
(* would keep sandboxd down (main.go:733-735).                               *)
RestartPossible ==
    ~up => \A s, t \in files \cap Reachable : slotOf[s] = slotOf[t] => s = t

-----------------------------------------------------------------------------
(* The inductive invariants behind these properties.                         *)

Creating == {"disk", "policy", "boot", "agent", "save", "undo", "release"}
Stopping == {"poweroff", "kill", "capture", "remove", "forget", "unpersist"}
\* the steps of a stop after cleanupSession has killed the VM
AfterKill == {"capture", "remove", "forget", "unpersist"}
Updating == {"policy_put", "policy_save"}
Quiet == {"idle", "done"}

DaemonTypeOK ==
    /\ sessions \subseteq Requests /\ answered \subseteq Requests
    /\ slots \in [Slots -> Requests \cup {None}]
    /\ slotOf \in [Requests -> Slots \cup {None}]
    /\ files \subseteq Requests /\ vms \subseteq Requests /\ runaway \subseteq Requests
    /\ disks \subseteq Requests /\ images \subseteq Requests
    /\ policies \in [Slots -> Requests \cup {None}]
    /\ pc \in [Requests -> Creating \cup Stopping \cup Updating \cup Quiet]
    /\ target \in [Requests -> Requests \cup {None}]
    /\ keep \in [Requests -> BOOLEAN]
    /\ up \in BOOLEAN /\ crashes \in 0..MaxCrashes

\* a session is worked on by its creation until it is answered, and only then
\* by others; a session that has begun to be stopped stays dead
HandlersOK ==
    \A p \in Requests :
        /\ pc[p] = "idle" => p \notin sessions \cup Reachable \cup disks \cup answered
        /\ pc[p] \in Creating => target[p] = p /\ p \in sessions \ answered
        /\ pc[p] \in Stopping \cup Updating => target[p] \in answered
        /\ pc[p] \in AfterKill => target[p] \notin Reachable
        /\ p \in answered => pc[p] = "done"
        /\ p \in sessions \cup answered => slotOf[p] \in Slots

\* what the daemon and the files it restarts from know of the answered sessions
AnsweredKept ==
    /\ files \subseteq answered
    /\ answered \cap Reachable \subseteq files
    /\ up => answered \cap Reachable \subseteq sessions
    /\ ~up => sessions = {} /\ \A p \in Requests : pc[p] \in Quiet

DaemonInv == DaemonTypeOK /\ HandlersOK /\ AnsweredKept

\* d.slots is the inverse of Session.Slot on the listed sessions; one stop at a
\* time holds a session that is listed until it forgets it
SlotsAgree ==
    /\ \A s \in sessions : slots[slotOf[s]] = s
    /\ \A i \in Slots : slots[i] # None => slots[i] \in sessions /\ slotOf[slots[i]] = i
StopsAlone ==
    \A p \in Requests : pc[p] \in Stopping =>
        /\ pc[p] # "unpersist" => target[p] \in sessions
        /\ \A q \in Requests : pc[q] \in Stopping /\ target[q] = target[p] => q = p

SlotInv == SlotsAgree /\ StopsAlone /\ RestartPossible

\* where the VMs are while sandboxd does not die alone, and the disks while
\* nothing dies; admission keeps what is listed within the ceiling
VmsListed ==
    /\ up => Reachable \subseteq sessions
    /\ ~up => Reachable = {}
    /\ \A p \in Requests : pc[p] = "release" => p \notin Reachable
DisksListed ==
    /\ up
    /\ disks \subseteq sessions
    /\ \A p \in Requests : pc[p] \in {"release", "forget"} => target[p] \notin disks
Admitted == IsFiniteSet(sessions) /\ Cardinality(sessions) <= MaxVms

=============================================================================
