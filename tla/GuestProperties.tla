--------------------------- MODULE GuestProperties ---------------------------
(***************************************************************************)
(* What commands, their logs and their relays must keep true.              *)
(***************************************************************************)
EXTENDS GuestCommands

(* "Logs are retained with a configured byte ceiling" (research.md:78), the  *)
(* notice of the truncation and a failed start's message included            *)
(* (guest-agent main.go:229-251).                                            *)
LogBounded == \A c \in Requests : logBytes[c] <= MaxLog

\* from now on something may have been left out of the log of c
Full(c) == c \in truncated \/ logBytes[c] >= MaxLog

(* A command that has ended and shows its exit code has its log complete:    *)
(* every byte a copier took out of a pipe is in it, unless the ceiling kept  *)
(* it out, and nothing is still on its way (wait, main.go:259-272).          *)
SealedLog ==
    \A c \in Requests : result[c] # None /\ exit[c] # None =>
        \A s \in Streams :
            /\ held[c][s] = 0
            /\ Full(c) \/ logged[c][s] = taken[c][s]

\* the stream of a log that ended by itself, and could read the file
Streamed(p) ==
    /\ p \notin unread
    /\ \/ op[p] = "logs" /\ pc[p] = "answered"
       \/ op[p] = "run_wait" /\ pc[p] \in {"wait", "answered"} /\ offset[p] > 0

(* A stream of a log that ends by itself has served the whole log, each      *)
(* record once, also what was written between its last look at the file and  *)
(* the end of the command; nothing is added after that (main.go:337-346).    *)
(* Only a log file that does not open ends a stream before (main.go:326-329, *)
(* 340), which whoever reads it cannot tell.                                 *)
LogsServedWhole ==
    \A p \in Requests : Streamed(p) =>
        target[p] \in done /\ offset[p] = records[target[p]]

(* When the process of a command has ended, whoever follows its log or waits *)
(* for it gets to an end, even if background children hold its pipes open.   *)
EndedCommandsAnswer ==
    \A p \in Requests :
        (pc[p] \in Reading \cup {"wait"} /\ proc[target[p]] \in {"zombie", "reaped"})
        ~> pc[p] \in Ended

-----------------------------------------------------------------------------
(* What the proofs of the properties above carry along.                     *)

\* who has let go of what by the time a command has ended
CommandsInv ==
    \A c \in Requests :
        /\ exit[c] # None => copying[c] = {}
        /\ exit[c] # None /\ result[c] = None => proc[c] = "none"
        /\ result[c] # None => proc[c] = "reaped"
        /\ proc[c] = "none" => copying[c] = {}
        /\ c \in done => exit[c] # None
        /\ \A s \in Streams : s \notin copying[c] => held[c][s] = 0

\* no byte is lost between a pipe and a log that has room
AccountInv ==
    \A c \in Requests, s \in Streams :
        (exit[c] = None \/ result[c] # None) /\ ~Full(c)
        => logged[c][s] + held[c][s] = taken[c][s]

RequestsInv ==
    \A p \in Requests :
        /\ pc[p] = "idle" => proc[p] = "none" /\ exit[p] = None
        /\ pc[p] = "exec" => target[p] = p /\ proc[p] = "none" /\ exit[p] = None
        /\ pc[p] \in Reading \cup {"wait", "signal"} => target[p] \in Requests
        /\ pc[p] = "final" => target[p] \in done
        /\ pc[p] = "signal" => op[p] = "kill"
        /\ pc[p] = "wait" => op[p] # "logs"

GuestInv ==
    GuestTypeOK /\ LogBounded /\ CommandsInv /\ AccountInv /\ RequestsInv /\ LogsServedWhole

=============================================================================
