------------------------------ MODULE MCRuntime ------------------------------
(***************************************************************************)
(* Constants for model checking sandboxd.                                  *)
(***************************************************************************)
EXTENDS RuntimeProperties, TLC

\* no policy is changed once a session has been created
CreateStopOps == {"create", "stop", "delete_snapshot"}
AllOps == CreateStopOps \cup {"policy"}
HostFaults == {"disk", "egress", "boot", "save", "copy", "kill"}
CrashFaults == {"kill", "egress", "boot", "save", "health", "crash", "reboot"}
NoFaults == {}

RequestSymmetry == Permutations(Requests)

=============================================================================
