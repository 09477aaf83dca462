---------------------------- MODULE MCSdkSandbox ----------------------------
(* Instances of SdkSandbox for TLC. *)
EXTENDS SdkSandboxProperties

CONSTANTS Box1, Box2, Call1, Call2

\* One call runs a command, the other may do anything else with the sandbox.
MenuMixed == [x \in Calls |->
  IF x = Call1
  THEN {"run"}
  ELSE {"read", "write", "session", "interactive", "snapshot", "stop", "update", "delete",
        "create", "get", "getOrCreate", "fork"}]
=============================================================================
