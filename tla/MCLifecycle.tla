----------------------------- MODULE MCLifecycle -----------------------------
(***************************************************************************)
(* Constants for model checking the lifecycle.                             *)
(***************************************************************************)
EXTENDS LifecycleProperties, TLC

\* the handlers that take a lock around the record they change
LockedOps == {"create", "fork", "get", "stop", "snapshot", "timeout"}
\* the locked handlers with the two that delete snapshots
CollectedOps == LockedOps \cup {"gc", "delete_snapshot"}
\* a client that resumes, stops and updates one sandbox
UpdateOps == {"create", "get", "stop", "update"}
\* the handlers of a client that may fail before they have an effect
CleanFaults == {"create", "setup", "stop", "stop_lost"}
\* the runtime answers, or fails before it has an effect, or after a stop or
\* the deletion of an image
AnsweredFaults == CleanFaults \cup {"image", "image_lost"}
AllFaults == {"create", "create_lost", "undo", "setup", "stop", "stop_lost", "put", "image",
              "image_lost", "read", "crash", "list"}
NoFaults == {}
Booleans == BOOLEAN
Persistent == {TRUE}

RequestSymmetry == Permutations(Requests)

=============================================================================
