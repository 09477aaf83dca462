--------------------------- MODULE DurableSandbox ---------------------------
(***************************************************************************)
(* What the lifecycle promises to the owner of a sandbox: at most one VM   *)
(* runs under its name, and a resumed sandbox goes on from the disk that   *)
(* was captured last.                                                      *)
(***************************************************************************)
CONSTANTS Sessions, Images, Names, None

VARIABLES
    live,   \* name -> the session whose VM runs, or None
    disk,   \* name -> the image the running VM's disk was copied from
    point   \* name -> the image a resume starts from

vars == <<live, disk, point>>

TypeOK ==
    /\ live \in [Names -> Sessions \cup {None}]
    /\ disk \in [Names -> Images \cup {None}]
    /\ point \in [Names -> Images \cup {None}]

Init ==
    /\ live = [n \in Names |-> None]
    /\ disk = [n \in Names |-> None]
    /\ point = [n \in Names |-> None]

\* a VM is started for n where none runs, from n's resume point; a sandbox
\* without one starts from the base image, or from another's image (a fork)
Boot(n) ==
    /\ live[n] = None
    /\ \E s \in Sessions, x \in Images \cup {None} :
           /\ point[n] # None => x = point[n]
           /\ live' = [live EXCEPT ![n] = s]
           /\ disk' = [disk EXCEPT ![n] = x]
    /\ UNCHANGED point

\* the VM of n ends; its disk may be captured as a new resume point
Halt(n) ==
    /\ live[n] # None
    /\ live' = [live EXCEPT ![n] = None]
    /\ disk' = [disk EXCEPT ![n] = None]
    /\ \/ \E x \in Images : x # point[n] /\ point' = [point EXCEPT ![n] = x]
       \/ UNCHANGED point

Next == \E n \in Names : Boot(n) \/ Halt(n)

Spec == Init /\ [][Next]_vars

=============================================================================
