------------------------------- MODULE MCGuest -------------------------------
(***************************************************************************)
(* Constants for model checking the guest agent.                           *)
(***************************************************************************)
EXTENDS GuestProperties

CONSTANTS r1, r2

\* One of two requests runs the one command there can be; the other is another
\* operation, or a run that finds the table full.
MenuMC == [p \in Requests |-> IF p = r1 THEN Runs ELSE Operations \ {"run_wait"}]
GuestFaults == {"start", "reaper", "timeout", "gone", "open"}

=============================================================================
