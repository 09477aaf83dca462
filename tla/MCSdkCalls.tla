----------------------------- MODULE MCSdkCalls -----------------------------
(***************************************************************************)
(* Requests and commands of the SDK, which share no state: each behaviour  *)
(* is one of one part, chosen at its start, and the other keeps to its     *)
(* initial state.                                                          *)
(***************************************************************************)
EXTENDS SdkRequests, SdkCommands

CONSTANTS Req1, Req2, User1, User2, User3

VARIABLE part

RequestMenuMC ==
  [x \in Requests |-> IF x = Req1 THEN {"make", "dir", "set"} ELSE {"remove", "add", "read"}]

UserMenuMC ==
  [x \in Users |->
    IF x = User1 THEN {"run", "detach"} ELSE {"lookup", "logs", "output", "wait", "kill"}]

Init == RequestsInit /\ CommandsInit /\ part \in {"requests", "commands"}

Next ==
  /\ UNCHANGED part
  /\ \/ part = "requests" /\ RequestsNext /\ UNCHANGED commandVars
     \/ part = "commands" /\ CommandsNext /\ UNCHANGED requestVars

Spec ==
  Init /\ [][Next]_<<requestVars, commandVars, part>> /\ RequestsFairness /\ CommandsFairness
=============================================================================
