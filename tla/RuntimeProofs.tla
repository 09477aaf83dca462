---------------------------- MODULE RuntimeProofs ----------------------------
(***************************************************************************)
(* Proofs about sandboxd, for any requests, slots, ceilings, operations    *)
(* and faults.                                                             *)
(***************************************************************************)
EXTENDS RuntimeProperties, TLAPS, FiniteSetTheorems, NaturalsInduction, WellFoundedInduction

(* The slot scan. *)

Less == {pair \in Nat \X Nat : pair[1] < pair[2]}

\* A set of numbers that is not empty has a least one.
LEMMA LeastNumber ==
  ASSUME NEW S \in SUBSET Nat, S # {}
  PROVE  \E m \in S : \A k \in S : m <= k
<1>1. IsWellFoundedOn(Less, Nat)
  BY NatLessThanWellFounded DEF OpToRel, Less
<1>2. PICK m \in S : \A k \in S : <<k, m>> \notin Less
  BY <1>1, WFMin
<1>3. ASSUME NEW k \in S
      PROVE  m <= k
  <2>1. ~(k < m)
    BY <1>2 DEF Less
  <2> QED
    BY <2>1
<1> QED
  BY <1>2, <1>3

\* The scan finds a free slot when there is one.
LEMMA LowestFreeIsFree ==
  ASSUME FreeSlots # {}
  PROVE  LowestFree \in FreeSlots
<1>1. FreeSlots \in SUBSET Nat
  BY BoundsAreNat DEF FreeSlots, Slots
<1>2. \E i \in FreeSlots : \A j \in FreeSlots : i <= j
  BY <1>1, LeastNumber
<1> QED
  BY <1>2 DEF LowestFree

-----------------------------------------------------------------------------
(* DaemonInv: types, the owner of each step, and what is kept of a session.  *)

LEMMA DaemonInit == Init => DaemonInv
  BY BoundsAreNat, NoneIsNoRequest
  DEF Init, DaemonInv, DaemonTypeOK, HandlersOK, AnsweredKept, Creating, Stopping, AfterKill,
      Updating, Quiet, Reachable

\* Every step leaves the state well formed.
LEMMA DaemonTypes ==
  ASSUME DaemonInv, Next
  PROVE  DaemonTypeOK'
<1> USE NoneIsNoRequest DEF DaemonInv, DaemonTypeOK, Goto, tables, host, machines, locals,
        process, Creating, Stopping, Updating, Quiet
<1>1. ASSUME NEW p \in Requests, CreateStart(p)
      PROVE  DaemonTypeOK'
  BY <1>1, LowestFreeIsFree DEF CreateStart, FreeSlots, Starting
<1>2. ASSUME NEW p \in Requests, CreateDisk(p)
      PROVE  DaemonTypeOK'
  BY <1>2 DEF CreateDisk
<1>3. ASSUME NEW p \in Requests, CreatePolicy(p)
      PROVE  DaemonTypeOK'
  BY <1>3 DEF CreatePolicy
<1>4. ASSUME NEW p \in Requests, CreateBoot(p)
      PROVE  DaemonTypeOK'
  BY <1>4 DEF CreateBoot
<1>5. ASSUME NEW p \in Requests, CreateAgent(p) \/ CreateSave(p)
      PROVE  DaemonTypeOK'
  BY <1>5 DEF CreateAgent, CreateSave
<1>6. ASSUME NEW p \in Requests, UndoCleanup(p)
      PROVE  DaemonTypeOK'
  BY <1>6 DEF UndoCleanup, Dropped, Killed
<1>7. ASSUME NEW p \in Requests, Release(p)
      PROVE  DaemonTypeOK'
  BY <1>7 DEF Release
<1>8. ASSUME NEW p \in Requests, StopStart(p)
      PROVE  DaemonTypeOK'
  BY <1>8 DEF StopStart, Starting
<1>9. ASSUME NEW p \in Requests, StopPowerOff(p) \/ StopRemove(p) \/ StopUnpersist(p)
      PROVE  DaemonTypeOK'
  BY <1>9 DEF StopPowerOff, StopRemove, StopUnpersist
<1>10. ASSUME NEW p \in Requests, StopKill(p)
       PROVE  DaemonTypeOK'
  BY <1>10 DEF StopKill, Dropped, Killed
<1>11. ASSUME NEW p \in Requests, StopCapture(p)
       PROVE  DaemonTypeOK'
  BY <1>11 DEF StopCapture
<1>12. ASSUME NEW p \in Requests, PolicyStart(p) \/ DeleteSnapshot(p)
       PROVE  DaemonTypeOK'
  BY <1>12 DEF PolicyStart, DeleteSnapshot, Starting
<1>13. ASSUME NEW p \in Requests, PolicyPut(p) \/ PolicySave(p)
       PROVE  DaemonTypeOK'
  BY <1>13 DEF PolicyPut, PolicySave, HandlersOK
<1>14. CASE Crash
  <2>1. crashes' \in 0..MaxCrashes
    BY <1>14, BoundsAreNat DEF Crash
  <2>2. pc' \in [Requests -> Creating \cup Stopping \cup Updating \cup Quiet]
    BY <1>14 DEF Crash
  <2>3. UNCHANGED <<slotOf, files, runaway, disks, images, answered, target, keep>>
    BY <1>14 DEF Crash
  <2>4. vms' \subseteq Requests /\ policies' \in [Slots -> Requests \cup {None}]
    BY <1>14 DEF Crash
  <2> QED
    BY <1>14, <2>1, <2>2, <2>3, <2>4 DEF Crash
<1>15. CASE Restart
  BY <1>15 DEF Restart, Answering, Reregistered, Killed, Reachable
<1>16. CASE RestartError
  BY <1>16 DEF RestartError, Answering, Reregistered, Killed, Reachable
<1>17. CASE UNCHANGED vars
  BY <1>17 DEF vars
<1> QED
  BY <1>1, <1>2, <1>3, <1>4, <1>5, <1>6, <1>7, <1>8, <1>9, <1>10, <1>11, <1>12, <1>13, <1>14,
     <1>15, <1>16, <1>17 DEF Next, Start, Step, Idle

\* Every step leaves each session to the request that works on it.
LEMMA DaemonHandlers ==
  ASSUME DaemonInv, Next
  PROVE  HandlersOK' /\ AnsweredKept'
<1> USE NoneIsNoRequest DEF DaemonInv, DaemonTypeOK, HandlersOK, AnsweredKept, Goto, tables, host,
        machines, Reachable, locals, process, Creating, Stopping, AfterKill, Updating, Quiet
<1>1. ASSUME NEW p \in Requests, CreateStart(p)
      PROVE  HandlersOK' /\ AnsweredKept'
  BY <1>1, LowestFreeIsFree DEF CreateStart, Starting, FreeSlots
<1>2. ASSUME NEW p \in Requests, CreateDisk(p)
      PROVE  HandlersOK' /\ AnsweredKept'
  BY <1>2 DEF CreateDisk
<1>3. ASSUME NEW p \in Requests, CreatePolicy(p)
      PROVE  HandlersOK' /\ AnsweredKept'
  BY <1>3 DEF CreatePolicy
<1>4. ASSUME NEW p \in Requests, CreateBoot(p)
      PROVE  HandlersOK' /\ AnsweredKept'
  BY <1>4 DEF CreateBoot
<1>5. ASSUME NEW p \in Requests, CreateAgent(p) \/ CreateSave(p)
      PROVE  HandlersOK' /\ AnsweredKept'
  BY <1>5 DEF CreateAgent, CreateSave
<1>6. ASSUME NEW p \in Requests, UndoCleanup(p)
      PROVE  HandlersOK' /\ AnsweredKept'
  BY <1>6 DEF UndoCleanup, Killed
<1>7. ASSUME NEW p \in Requests, Release(p)
      PROVE  HandlersOK' /\ AnsweredKept'
  BY <1>7 DEF Release
<1>8. ASSUME NEW p \in Requests, StopStart(p)
      PROVE  HandlersOK' /\ AnsweredKept'
  BY <1>8 DEF StopStart, Starting
<1>9. ASSUME NEW p \in Requests, StopPowerOff(p) \/ StopRemove(p) \/ StopUnpersist(p)
      PROVE  HandlersOK' /\ AnsweredKept'
  BY <1>9 DEF StopPowerOff, StopRemove, StopUnpersist
<1>10. ASSUME NEW p \in Requests, StopKill(p)
       PROVE  HandlersOK' /\ AnsweredKept'
  BY <1>10 DEF StopKill, Killed
<1>11. ASSUME NEW p \in Requests, StopCapture(p)
       PROVE  HandlersOK' /\ AnsweredKept'
  BY <1>11 DEF StopCapture
<1>12. ASSUME NEW p \in Requests, PolicyStart(p) \/ DeleteSnapshot(p)
       PROVE  HandlersOK' /\ AnsweredKept'
  BY <1>12 DEF PolicyStart, DeleteSnapshot, Starting
<1>13. ASSUME NEW p \in Requests, PolicyPut(p) \/ PolicySave(p)
       PROVE  HandlersOK' /\ AnsweredKept'
  BY <1>13 DEF PolicyPut, PolicySave
<1>14. CASE Crash
  BY <1>14 DEF Crash, InFlight
<1>15. CASE Restart
  BY <1>15 DEF Restart, Answering, Killed
<1>16. CASE RestartError
  BY <1>16 DEF RestartError, Answering, Killed
<1>17. CASE UNCHANGED vars
  BY <1>17 DEF vars
<1> QED
  BY <1>1, <1>2, <1>3, <1>4, <1>5, <1>6, <1>7, <1>8, <1>9, <1>10, <1>11, <1>12, <1>13, <1>14,
     <1>15, <1>16, <1>17 DEF Next, Start, Step, Idle

-----------------------------------------------------------------------------
(* SlotInv: the slot table, when the API never has two stops of one session. *)

\* Every step keeps the table of slots, and one stop at a time to a session.
LEMMA SlotStep ==
  ASSUME SerialStops, DaemonInv, SlotInv, Next
  PROVE  SlotInv'
<1> USE NoneIsNoRequest DEF DaemonInv, DaemonTypeOK, HandlersOK, AnsweredKept, Goto, tables, host,
        machines, Reachable, locals, process, Creating, Stopping, AfterKill, Updating, Quiet,
        SlotInv, SlotsAgree,
        StopsAlone, RestartPossible
<1>1. ASSUME NEW p \in Requests, CreateStart(p)
      PROVE  SlotInv'
  BY <1>1, LowestFreeIsFree DEF CreateStart, Starting, FreeSlots
<1>2. ASSUME NEW p \in Requests, CreateDisk(p)
      PROVE  SlotInv'
  BY <1>2 DEF CreateDisk
<1>3. ASSUME NEW p \in Requests, CreatePolicy(p)
      PROVE  SlotInv'
  BY <1>3 DEF CreatePolicy
<1>4. ASSUME NEW p \in Requests, CreateBoot(p)
      PROVE  SlotInv'
  BY <1>4 DEF CreateBoot
<1>5. ASSUME NEW p \in Requests, CreateAgent(p) \/ CreateSave(p)
      PROVE  SlotInv'
  BY <1>5 DEF CreateAgent, CreateSave
<1>6. ASSUME NEW p \in Requests, UndoCleanup(p)
      PROVE  SlotInv'
  BY <1>6 DEF UndoCleanup, Killed
<1>7. ASSUME NEW p \in Requests, Release(p)
      PROVE  SlotInv'
  BY <1>7 DEF Release
<1>8. ASSUME NEW p \in Requests, StopStart(p)
      PROVE  SlotInv'
  BY <1>8 DEF StopStart, Starting, StopsOf
<1>9. ASSUME NEW p \in Requests, StopPowerOff(p) \/ StopRemove(p) \/ StopUnpersist(p)
      PROVE  SlotInv'
  BY <1>9 DEF StopPowerOff, StopRemove, StopUnpersist
<1>10. ASSUME NEW p \in Requests, StopKill(p)
       PROVE  SlotInv'
  BY <1>10 DEF StopKill, Killed
<1>11. ASSUME NEW p \in Requests, StopCapture(p)
       PROVE  SlotInv'
  BY <1>11 DEF StopCapture
<1>12. ASSUME NEW p \in Requests, PolicyStart(p) \/ DeleteSnapshot(p)
       PROVE  SlotInv'
  BY <1>12 DEF PolicyStart, DeleteSnapshot, Starting
<1>13. ASSUME NEW p \in Requests, PolicyPut(p) \/ PolicySave(p)
       PROVE  SlotInv'
  BY <1>13 DEF PolicyPut, PolicySave
<1>14. CASE Crash
  BY <1>14 DEF Crash, InFlight
<1>15. CASE Restart
  <2>1. PICK adopted \in Answering :
             /\ ~SlotShared(adopted)
             /\ sessions' = adopted
             /\ slots' = [i \in Slots |->
                             IF \E s \in adopted : slotOf[s] = i
                               THEN CHOOSE s \in adopted : slotOf[s] = i ELSE None]
    BY <1>15 DEF Restart
  <2>2. adopted \subseteq Requests /\ slotOf' = slotOf /\ pc' = pc /\ up' /\ ~up
    BY <1>15 DEF Restart, Answering, Killed
  <2>3. \A s \in adopted : slotOf[s] \in Slots
    BY <2>1 DEF Answering
  <2>4. \A s, t \in adopted : slotOf[s] = slotOf[t] => s = t
    BY <2>1 DEF SlotShared
  <2>5. ASSUME NEW i \in Slots
        PROVE  /\ \A s \in adopted : slotOf[s] = i => slots'[i] = s
               /\ slots'[i] # None => slots'[i] \in adopted /\ slotOf[slots'[i]] = i
    <3>1. CASE \E s \in adopted : slotOf[s] = i
      <4> DEFINE found == CHOOSE s \in adopted : slotOf[s] = i
      <4>1. found \in adopted /\ slotOf[found] = i
        BY <3>1
      <4>2. slots'[i] = found
        BY <2>1, <3>1
      <4> QED
        BY <2>4, <4>1, <4>2
    <3>2. CASE ~ \E s \in adopted : slotOf[s] = i
      BY <2>1, <3>2
    <3> QED
      BY <3>1, <3>2
  <2>6. SlotsAgree'
    BY <2>1, <2>2, <2>3, <2>5
  <2> QED
    BY <2>2, <2>6
<1>16. CASE RestartError
  BY <1>16 DEF RestartError, Answering, Killed
<1>17. CASE UNCHANGED vars
  BY <1>17 DEF vars
<1> QED
  BY <1>1, <1>2, <1>3, <1>4, <1>5, <1>6, <1>7, <1>8, <1>9, <1>10, <1>11, <1>12, <1>13, <1>14,
     <1>15, <1>16, <1>17 DEF Next, Start, Step, Idle

-----------------------------------------------------------------------------
(* The VMs and disks of the host, when sandboxd does not die.                *)

\* Every step leaves the VMs to listed sessions.
LEMMA VmsStep ==
  ASSUME "crash" \notin Faults, DaemonInv, VmsListed, Next
  PROVE  VmsListed'
<1> USE NoneIsNoRequest DEF DaemonInv, DaemonTypeOK, HandlersOK, AnsweredKept, Goto, tables, host,
        machines, Reachable, locals, process, Creating, Stopping, AfterKill, Updating, Quiet,
        VmsListed
<1>1. ASSUME NEW p \in Requests, CreateStart(p)
      PROVE  VmsListed'
  BY <1>1 DEF CreateStart, Starting
<1>2. ASSUME NEW p \in Requests, CreateDisk(p)
      PROVE  VmsListed'
  BY <1>2 DEF CreateDisk
<1>3. ASSUME NEW p \in Requests, CreatePolicy(p)
      PROVE  VmsListed'
  BY <1>3 DEF CreatePolicy
<1>4. ASSUME NEW p \in Requests, CreateBoot(p)
      PROVE  VmsListed'
  BY <1>4 DEF CreateBoot
<1>5. ASSUME NEW p \in Requests, CreateAgent(p) \/ CreateSave(p)
      PROVE  VmsListed'
  BY <1>5 DEF CreateAgent, CreateSave
<1>6. ASSUME NEW p \in Requests, UndoCleanup(p)
      PROVE  VmsListed'
  BY <1>6 DEF UndoCleanup, Killed
<1>7. ASSUME NEW p \in Requests, Release(p)
      PROVE  VmsListed'
  BY <1>7 DEF Release
<1>8. ASSUME NEW p \in Requests, StopStart(p)
      PROVE  VmsListed'
  BY <1>8 DEF StopStart, Starting
<1>9. ASSUME NEW p \in Requests, StopPowerOff(p) \/ StopRemove(p) \/ StopUnpersist(p)
      PROVE  VmsListed'
  BY <1>9 DEF StopPowerOff, StopRemove, StopUnpersist
<1>10. ASSUME NEW p \in Requests, StopKill(p)
       PROVE  VmsListed'
  BY <1>10 DEF StopKill, Killed
<1>11. ASSUME NEW p \in Requests, StopCapture(p)
       PROVE  VmsListed'
  BY <1>11 DEF StopCapture
<1>12. ASSUME NEW p \in Requests, PolicyStart(p) \/ DeleteSnapshot(p)
       PROVE  VmsListed'
  BY <1>12 DEF PolicyStart, DeleteSnapshot, Starting
<1>13. ASSUME NEW p \in Requests, PolicyPut(p) \/ PolicySave(p)
       PROVE  VmsListed'
  BY <1>13 DEF PolicyPut, PolicySave
<1>14. CASE Crash
  BY <1>14 DEF Crash, InFlight, Failing
<1>15. CASE Restart
  BY <1>15 DEF Restart, Answering, Killed
<1>16. CASE RestartError
  BY <1>16 DEF RestartError, Answering, Killed
<1>17. CASE UNCHANGED vars
  BY <1>17 DEF vars
<1> QED
  BY <1>1, <1>2, <1>3, <1>4, <1>5, <1>6, <1>7, <1>8, <1>9, <1>10, <1>11, <1>12, <1>13, <1>14,
     <1>15, <1>16, <1>17 DEF Next, Start, Step, Idle

\* Every step leaves the disks to listed sessions.
LEMMA DisksStep ==
  ASSUME Faults \cap {"crash", "reboot"} = {}, DaemonInv, DisksListed, Next
  PROVE  DisksListed'
<1> USE NoneIsNoRequest DEF DaemonInv, DaemonTypeOK, HandlersOK, AnsweredKept, Goto, tables, host,
        machines, Reachable, locals, process, Creating, Stopping, AfterKill, Updating, Quiet,
        DisksListed
<1>1. ASSUME NEW p \in Requests, CreateStart(p)
      PROVE  DisksListed'
  BY <1>1 DEF CreateStart, Starting
<1>2. ASSUME NEW p \in Requests, CreateDisk(p)
      PROVE  DisksListed'
  BY <1>2 DEF CreateDisk
<1>3. ASSUME NEW p \in Requests, CreatePolicy(p)
      PROVE  DisksListed'
  BY <1>3 DEF CreatePolicy
<1>4. ASSUME NEW p \in Requests, CreateBoot(p)
      PROVE  DisksListed'
  BY <1>4 DEF CreateBoot
<1>5. ASSUME NEW p \in Requests, CreateAgent(p) \/ CreateSave(p)
      PROVE  DisksListed'
  <2>1. CASE CreateAgent(p)
    BY <2>1 DEF CreateAgent
  <2>2. CASE CreateSave(p)
    BY <2>2 DEF CreateSave
  <2> QED
    BY <1>5, <2>1, <2>2
<1>6. ASSUME NEW p \in Requests, UndoCleanup(p)
      PROVE  DisksListed'
  BY <1>6 DEF UndoCleanup, Killed
<1>7. ASSUME NEW p \in Requests, Release(p)
      PROVE  DisksListed'
  BY <1>7 DEF Release
<1>8. ASSUME NEW p \in Requests, StopStart(p)
      PROVE  DisksListed'
  BY <1>8 DEF StopStart, Starting
<1>9. ASSUME NEW p \in Requests, StopPowerOff(p) \/ StopRemove(p) \/ StopUnpersist(p)
      PROVE  DisksListed'
  <2>1. CASE StopPowerOff(p)
    BY <2>1 DEF StopPowerOff
  <2>2. CASE StopRemove(p)
    BY <2>2 DEF StopRemove
  <2>3. CASE StopUnpersist(p)
    BY <2>3 DEF StopUnpersist
  <2> QED
    BY <1>9, <2>1, <2>2, <2>3
<1>10. ASSUME NEW p \in Requests, StopKill(p)
       PROVE  DisksListed'
  BY <1>10 DEF StopKill, Killed
<1>11. ASSUME NEW p \in Requests, StopCapture(p)
       PROVE  DisksListed'
  BY <1>11 DEF StopCapture
<1>12. ASSUME NEW p \in Requests, PolicyStart(p) \/ DeleteSnapshot(p)
       PROVE  DisksListed'
  <2>1. CASE PolicyStart(p)
    BY <2>1 DEF PolicyStart, Starting
  <2>2. CASE DeleteSnapshot(p)
    BY <2>2 DEF DeleteSnapshot, Starting
  <2> QED
    BY <1>12, <2>1, <2>2
<1>13. ASSUME NEW p \in Requests, PolicyPut(p) \/ PolicySave(p)
       PROVE  DisksListed'
  <2>1. CASE PolicyPut(p)
    BY <2>1 DEF PolicyPut
  <2>2. CASE PolicySave(p)
    BY <2>2 DEF PolicySave
  <2> QED
    BY <1>13, <2>1, <2>2
<1>14. CASE Crash
  BY <1>14 DEF Crash, InFlight, Failing
<1>15. CASE Restart
  BY <1>15 DEF Restart, Answering, Killed
<1>16. CASE RestartError
  BY <1>16 DEF RestartError, Answering, Killed
<1>17. CASE UNCHANGED vars
  BY <1>17 DEF vars
<1> QED
  BY <1>1, <1>2, <1>3, <1>4, <1>5, <1>6, <1>7, <1>8, <1>9, <1>10, <1>11, <1>12, <1>13, <1>14,
     <1>15, <1>16, <1>17 DEF Next, Start, Step, Idle

\* An element more is at most one more; an element less is no more.
LEMMA OneElement ==
  ASSUME NEW S, NEW x, IsFiniteSet(S)
  PROVE  /\ Cardinality(S) \in Nat
         /\ IsFiniteSet(S \cup {x}) /\ Cardinality(S \cup {x}) \in 0..(Cardinality(S) + 1)
         /\ IsFiniteSet(S \ {x}) /\ Cardinality(S \ {x}) \in 0..Cardinality(S)
<1>1. Cardinality(S) \in Nat
  BY FS_CardinalityType
<1>2. /\ IsFiniteSet(S \cup {x})
      /\ Cardinality(S \cup {x}) = IF x \in S THEN Cardinality(S) ELSE Cardinality(S) + 1
  BY FS_AddElement
<1>3. IsFiniteSet(S \ {x}) /\ Cardinality(S \ {x}) <= Cardinality(S)
  BY FS_Subset
<1>4. Cardinality(S \ {x}) \in Nat
  BY <1>3, FS_CardinalityType
<1> QED
  BY <1>1, <1>2, <1>3, <1>4

\* Admission: only a creation adds to the sessions, and only below the ceiling.
LEMMA AdmissionStep ==
  ASSUME "crash" \notin Faults, DaemonInv, VmsListed, Admitted, Next
  PROVE  Admitted'
<1> USE DEF Admitted, tables, process
<1>1. CASE \E p \in Requests : CreateStart(p)
  <2>1. PICK p \in Requests : CreateStart(p)
    BY <1>1
  <2>2. CASE Cardinality(sessions) < MaxVms /\ FreeSlots # {}
    <3>1. sessions' = sessions \cup {p}
      BY <2>1, <2>2 DEF CreateStart
    <3> QED
      BY <2>2, <3>1, OneElement, BoundsAreNat
  <2>3. CASE ~(Cardinality(sessions) < MaxVms /\ FreeSlots # {})
    BY <2>1, <2>3 DEF CreateStart
  <2> QED
    BY <2>2, <2>3
<1>2. CASE \E p \in Requests : Release(p)
  <2>1. PICK p \in Requests : Release(p)
    BY <1>2
  <2>2. sessions' = sessions \ {target[p]}
    BY <2>1 DEF Release
  <2>3. IsFiniteSet(sessions') /\ Cardinality(sessions') \in 0..Cardinality(sessions)
    BY <2>2, OneElement
  <2>4. Cardinality(sessions) \in Nat
    BY OneElement
  <2> QED
    BY <2>3, <2>4, BoundsAreNat
<1>3. CASE Crash \/ Restart
  <2>1. sessions' = {}
    <3>1. CASE Crash
      BY <3>1 DEF Crash
    <3>2. CASE Restart
      BY <3>2 DEF Restart, Answering, VmsListed
    <3> QED
      BY <1>3, <3>1, <3>2
  <2> QED
    BY <2>1, FS_EmptySet, BoundsAreNat
<1>4. CASE UNCHANGED sessions
  BY <1>4
<1>5. ASSUME NEW p \in Requests, Start(p) \/ Step(p), ~CreateStart(p), ~Release(p)
      PROVE  UNCHANGED sessions
  BY <1>5 DEF Start, Step, CreateDisk, CreatePolicy, CreateBoot, CreateAgent, CreateSave,
     UndoCleanup, StopStart, StopPowerOff, StopKill, StopCapture, StopRemove, StopUnpersist,
     PolicyStart, PolicyPut, PolicySave, DeleteSnapshot
<1>6. ASSUME RestartError \/ Idle
      PROVE  UNCHANGED sessions
  BY <1>6 DEF RestartError, Idle, vars
<1> QED
  BY <1>1, <1>2, <1>3, <1>4, <1>5, <1>6 DEF Next

-----------------------------------------------------------------------------
(* The results. *)

(* The invariant the other results rest on: which request works on a session *)
(* and what is kept of one that the API was told of.                         *)
THEOREM DaemonInvariant == Spec => []DaemonInv
<1>1. DaemonInv /\ [Next]_vars => DaemonInv'
  <2>1. DaemonInv /\ UNCHANGED vars => DaemonInv'
    BY DEF DaemonInv, DaemonTypeOK, HandlersOK, AnsweredKept, vars, tables, host, machines,
       Reachable, locals, process
  <2> QED
    BY <2>1, DaemonTypes, DaemonHandlers DEF DaemonInv
<1> QED
  BY <1>1, DaemonInit, PTL DEF Spec

\* What holds of slots when stops of one session are serialized.
LEMMA SlotInvariant ==
  ASSUME SerialStops
  PROVE  Spec => []SlotInv
<1>1. Init => SlotInv
  BY NoneIsNoRequest DEF Init, SlotInv, SlotsAgree, StopsAlone, RestartPossible, Stopping
<1>2. DaemonInv /\ SlotInv /\ [Next]_vars => SlotInv'
  <2>1. SlotInv /\ UNCHANGED vars => SlotInv'
    BY DEF SlotInv, SlotsAgree, StopsAlone, RestartPossible, vars, tables, host, machines,
       Reachable, locals, process
  <2> QED
    BY <2>1, SlotStep
<1> QED
  BY <1>1, <1>2, DaemonInvariant, PTL DEF Spec

(* d.slots and the listed sessions agree through every creation, undo, stop, *)
(* crash and restart, when the API has one stop of a session in flight.      *)
THEOREM SlotsFollowSessions ==
  ASSUME SerialStops
  PROVE  Spec => []SlotTable
<1>1. DaemonInv /\ SlotInv => SlotTable
  BY DEF DaemonInv, HandlersOK, SlotInv, SlotsAgree, SlotTable, DaemonTypeOK
<1> QED
  BY <1>1, DaemonInvariant, SlotInvariant, PTL

(* Reconciliation never finds two live sessions on one slot, whatever died   *)
(* and whenever: nothing in the state files keeps sandboxd down.             *)
THEOREM RestartsAreClean ==
  ASSUME SerialStops
  PROVE  Spec => []RestartPossible
<1>1. SlotInv => RestartPossible
  BY DEF SlotInv
<1> QED
  BY <1>1, SlotInvariant, PTL

(* Two live VMs that the API was told of never share a slot, even when       *)
(* sandboxd dies and restarts: a VM that nobody lists can only clash with a  *)
(* session whose creation was cut short.                                     *)
THEOREM AnsweredVmsAreExclusive ==
  ASSUME SerialStops
  PROVE  Spec => [](\A s, t \in answered \cap Reachable : slotOf[s] = slotOf[t] => s = t)
<1>1. DaemonInv /\ SlotInv => \A s, t \in answered \cap Reachable : slotOf[s] = slotOf[t] => s = t
  <2> SUFFICES ASSUME DaemonInv, SlotInv, NEW s \in answered \cap Reachable,
                      NEW t \in answered \cap Reachable,
                      slotOf[s] = slotOf[t]
               PROVE  s = t
    OBVIOUS
  <2>1. CASE up
    BY <2>1 DEF DaemonInv, AnsweredKept, SlotInv, SlotsAgree
  <2>2. CASE ~up
    BY <2>2 DEF DaemonInv, AnsweredKept, SlotInv, RestartPossible
  <2> QED
    BY <2>1, <2>2
<1> QED
  BY <1>1, DaemonInvariant, SlotInvariant, PTL

(* An image is only ever taken of the disk of a dead VM, even with stops of  *)
(* one session racing each other and restarts between their steps.           *)
THEOREM ImagesAreOfQuietDisks == Spec => SnapshotsQuiesced
<1>1. DaemonInv /\ [Next]_vars => [\A p \in images' \ images : target[p] \notin Reachable]_vars
  <2> SUFFICES ASSUME DaemonInv, Next, NEW x \in images' \ images
               PROVE  target[x] \notin Reachable
    OBVIOUS
  <2>1. CASE \E p \in Requests : StopCapture(p)
    BY <2>1 DEF StopCapture, DaemonInv, HandlersOK, AfterKill
  <2>2. CASE \E p \in Requests : DeleteSnapshot(p)
    BY <2>2 DEF DeleteSnapshot
  <2>3. ASSUME NEW p \in Requests, Start(p) \/ Step(p), ~StopCapture(p), ~DeleteSnapshot(p)
        PROVE  UNCHANGED images
    BY <2>3 DEF Start, Step, host, CreateStart, CreateDisk, CreatePolicy, CreateBoot, CreateAgent,
       CreateSave, UndoCleanup, Release, StopStart, StopPowerOff, StopKill, StopRemove,
       StopUnpersist, PolicyStart, PolicyPut, PolicySave
  <2>4. ASSUME Crash \/ Restart \/ RestartError \/ Idle
        PROVE  UNCHANGED images
    BY <2>4 DEF Crash, Restart, RestartError, Idle, vars, host
  <2> QED
    BY <2>1, <2>2, <2>3, <2>4 DEF Next
<1> QED
  BY <1>1, DaemonInvariant, PTL DEF Spec, SnapshotsQuiesced

\* The VMs of the host, while sandboxd does not die without them.
LEMMA VmsInvariant ==
  ASSUME "crash" \notin Faults
  PROVE  Spec => [](VmsListed /\ Admitted)
<1>1. Init => VmsListed /\ Admitted
  BY FS_EmptySet, BoundsAreNat DEF Init, VmsListed, Admitted, Reachable
<1>2. DaemonInv /\ VmsListed /\ Admitted /\ [Next]_vars => (VmsListed /\ Admitted)'
  <2>1. VmsListed /\ Admitted /\ UNCHANGED vars => (VmsListed /\ Admitted)'
    BY DEF VmsListed, Admitted, vars, tables, host, machines, Reachable, process
  <2> QED
    BY <2>1, VmsStep, AdmissionStep
<1> QED
  BY <1>1, <1>2, DaemonInvariant, PTL DEF Spec

(* No two VMs share a slot, and so addresses and a uid, unless the API stops *)
(* a session twice at once or sandboxd dies and leaves its VMs behind.       *)
THEOREM SlotsAreExclusive ==
  ASSUME SerialStops, "crash" \notin Faults
  PROVE  Spec => []SlotsExclusive
<1>1. SlotInv /\ VmsListed => SlotsExclusive
  BY DEF SlotInv, SlotsAgree, VmsListed, SlotsExclusive
<1> QED
  BY <1>1, SlotInvariant, VmsInvariant, PTL

(* The live VMs never exceed the ceiling of committed memory, whichever step *)
(* of a creation or a stop fails.                                            *)
THEOREM MemoryStaysCommitted ==
  ASSUME "crash" \notin Faults
  PROVE  Spec => []CommittedMemory
<1>1. VmsListed /\ Admitted => CommittedMemory
  <2> SUFFICES ASSUME VmsListed, Admitted
               PROVE  Cardinality(Reachable) <= MaxVms
    BY DEF CommittedMemory
  <2>1. Reachable \subseteq sessions
    BY DEF VmsListed
  <2>2. IsFiniteSet(Reachable) /\ Cardinality(Reachable) <= Cardinality(sessions)
    BY <2>1, FS_Subset DEF Admitted
  <2> QED
    BY <2>2, FS_CardinalityType, BoundsAreNat DEF Admitted
<1> QED
  BY <1>1, VmsInvariant, PTL

(* While nothing dies, every live VM and every instance disk belongs to a    *)
(* listed session, whichever step of a creation or a stop fails.             *)
THEOREM NothingIsForgotten ==
  ASSUME Faults \cap {"crash", "reboot"} = {}
  PROVE  Spec => []NothingForgotten
<1>1. Init => DisksListed
  BY DEF Init, DisksListed
<1>2. DaemonInv /\ DisksListed /\ [Next]_vars => DisksListed'
  <2>1. DisksListed /\ UNCHANGED vars => DisksListed'
    BY DEF DisksListed, vars, tables, host, machines, Reachable, locals, process
  <2> QED
    BY <2>1, DisksStep
<1>3. VmsListed /\ DisksListed => NothingForgotten
  BY DEF VmsListed, DisksListed, NothingForgotten
<1>4. "crash" \notin Faults
  OBVIOUS
<1> QED
  BY <1>1, <1>2, <1>3, <1>4, DaemonInvariant, VmsInvariant, PTL DEF Spec

=============================================================================
