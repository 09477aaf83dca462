---------------------------- MODULE GuestCommands ----------------------------
(***************************************************************************)
(* Commands in a VM: the guest agent (cmd/guest-agent/main.go) that runs    *)
(* them as process 1 of the VM, and the API's relays of them.               *)
(*                                                                         *)
(* A request p is one handler invocation of the API on one running session, *)
(* with the agent's handlers it calls; the command that request p runs is   *)
(* written p.  For each command the agent has a process, two goroutines     *)
(* that copy its pipes into the log, and one that waits for it.  Output is  *)
(* counted in bytes; a record of the log is as long as the data it carries. *)
(***************************************************************************)
EXTENDS Integers, FiniteSets

CONSTANTS
    Requests,     \* handler invocations (also the command ids)
    None,
    MaxCommands,  \* commands of a session (256 in the code)
    MaxLog,       \* maxCommandLog (32 MiB in the code)
    Notice,       \* length of the record that says the log is truncated
    Chunk,        \* commandChunkSize: what one read of a pipe may take
    MaxOutput,    \* bound: bytes a command writes in all
    Statuses,     \* the exit statuses of processes that no signal ended
    Menu,         \* Menu[p]: the operations request p may be
    Faults        \* what may go wrong

Streams == {"stdout", "stderr"}
Runs == {"run", "run_wait"}
Operations == Runs \cup {"get", "get_wait", "logs", "kill"}
ExitCodes == {-1, 126, 127} \cup Statuses

ASSUME NoneIsNoValue == None \notin Requests /\ None \notin ExitCodes
ASSUME StatusesAreCodes == Statuses \subseteq 0..255
ASSUME SizesAreNat ==
    /\ MaxCommands \in Nat /\ MaxLog \in Nat /\ MaxOutput \in Nat
    /\ Notice \in Nat \ {0} /\ Chunk \in Nat \ {0}

VARIABLES
    commands,   \* the keys of a.commands
    proc,       \* the process of each command; "reaped": its status is taken
    kids,       \* commands with background children that hold the pipes
    status,     \* the exit status while the process is a zombie
    written,    \* bytes written to each pipe
    taken,      \* bytes the copiers have read from it
    held,       \* bytes a copier has read and not yet logged
    copying,    \* the streams whose copier still runs
    logged,     \* bytes of each stream in the log
    logBytes,   \* commandState.logBytes
    records,    \* number of records in the log
    truncated,  \* commandState.truncated
    result,     \* what cmd.Wait returned, as an exit code
    exit,       \* meta.ExitCode; the log file is closed once it is set
    done,       \* commands whose done channel is closed
    pc, op,     \* where each request stands, and what it asks for
    target,     \* the command it is about
    offset,     \* records of the log served to it
    unread,     \* history: requests whose stream ended as the log did not open
    code        \* the exit code in its answer

process == <<proc, kids, status, written>>
copiers == <<taken, held, copying>>
log == <<logged, logBytes, records, truncated>>
outcome == <<result, exit, done>>
locals == <<op, target, offset, unread, code>>
vars == <<commands, process, copiers, log, outcome, pc, locals>>

Reading == {"copy", "check", "final"}
Ended == {"answered", "failed"}
Labels == {"idle", "exec", "wait", "signal"} \cup Reading \cup Ended

ProcessesOK ==
    /\ commands \subseteq Requests
    /\ IsFiniteSet(commands) /\ Cardinality(commands) <= MaxCommands
    /\ proc \in [Requests -> {"none", "running", "zombie", "reaped"}]
    /\ kids \subseteq Requests
    /\ status \in [Requests -> ExitCodes \cup {None}]
    /\ written \in [Requests -> [Streams -> Nat]]

LogsOK ==
    /\ taken \in [Requests -> [Streams -> Nat]]
    /\ held \in [Requests -> [Streams -> Nat]]
    /\ copying \in [Requests -> SUBSET Streams]
    /\ logged \in [Requests -> [Streams -> Nat]]
    /\ logBytes \in [Requests -> Nat]
    /\ records \in [Requests -> Nat]
    /\ truncated \subseteq Requests

OutcomesOK ==
    /\ result \in [Requests -> ExitCodes \cup {None}]
    /\ exit \in [Requests -> ExitCodes \cup {None}]
    /\ done \subseteq Requests

RequestsOK ==
    /\ pc \in [Requests -> Labels]
    /\ op \in [Requests -> Operations \cup {None}]
    /\ target \in [Requests -> Requests \cup {None}]
    /\ offset \in [Requests -> Nat]
    /\ unread \subseteq Requests
    /\ code \in [Requests -> ExitCodes \cup {None}]

GuestTypeOK == ProcessesOK /\ LogsOK /\ OutcomesOK /\ RequestsOK

NoBytes == [s \in Streams |-> 0]

Init ==
    /\ commands = {} /\ kids = {} /\ truncated = {} /\ done = {} /\ unread = {}
    /\ proc = [c \in Requests |-> "none"]
    /\ status = [c \in Requests |-> None]
    /\ written = [c \in Requests |-> NoBytes]
    /\ taken = [c \in Requests |-> NoBytes]
    /\ held = [c \in Requests |-> NoBytes]
    /\ logged = [c \in Requests |-> NoBytes]
    /\ copying = [c \in Requests |-> {}]
    /\ logBytes = [c \in Requests |-> 0]
    /\ records = [c \in Requests |-> 0]
    /\ result = [c \in Requests |-> None]
    /\ exit = [c \in Requests |-> None]
    /\ pc = [p \in Requests |-> "idle"]
    /\ op = [p \in Requests |-> None]
    /\ target = [p \in Requests |-> None]
    /\ offset = [p \in Requests |-> 0]
    /\ code = [p \in Requests |-> None]

-----------------------------------------------------------------------------
(* The log.  Nothing is written to a closed file.  A record that does not   *)
(* fit is replaced by the notice, once and if the notice itself fits; what  *)
(* comes later and fits is logged again.                                    *)

Remaining(c) == MaxLog - logBytes[c]

\* mutant: the notice is written whether or not it fits
appendOversized(c, s, n) ==
    IF exit[c] = None /\ Remaining(c) > 0 /\ n > Remaining(c) /\ c \notin truncated
    THEN /\ truncated' = truncated \cup {c}
         /\ logBytes' = [logBytes EXCEPT ![c] = @ + Notice]
         /\ records' = [records EXCEPT ![c] = @ + 1]
         /\ UNCHANGED logged
    ELSE IF exit[c] # None \/ n > Remaining(c) THEN UNCHANGED log
    ELSE /\ logged' = [logged EXCEPT ![c][s] = @ + n]
         /\ logBytes' = [logBytes EXCEPT ![c] = @ + n]
         /\ records' = [records EXCEPT ![c] = @ + 1]
         /\ UNCHANGED truncated

appendLog(c, s, n) ==
    \/ /\ exit[c] # None \/ Remaining(c) <= 0 \/ (n > Remaining(c) /\ c \in truncated)
       /\ UNCHANGED log
    \/ /\ exit[c] = None /\ Remaining(c) > 0 /\ n <= Remaining(c)
       /\ logged' = [logged EXCEPT ![c][s] = @ + n]
       /\ logBytes' = [logBytes EXCEPT ![c] = @ + n]
       /\ records' = [records EXCEPT ![c] = @ + 1]
       /\ UNCHANGED truncated
    \/ /\ exit[c] = None /\ Remaining(c) > 0 /\ n > Remaining(c) /\ c \notin truncated
       /\ truncated' = truncated \cup {c}
       /\ \/ /\ Notice <= Remaining(c)
             /\ logBytes' = [logBytes EXCEPT ![c] = @ + Notice]
             /\ records' = [records EXCEPT ![c] = @ + 1]
          \/ /\ Notice > Remaining(c)
             /\ UNCHANGED <<logBytes, records>>
       /\ UNCHANGED logged

-----------------------------------------------------------------------------
(* The processes of a command: external to the agent.                       *)

Writing(c) == proc[c] = "running" \/ c \in kids

\* Wait has closed the agent's ends of the pipes
Closed(c) == result[c] # None

Emit(c, s) ==
    /\ Writing(c) /\ ~Closed(c)
    /\ written[c]["stdout"] + written[c]["stderr"] < MaxOutput
    /\ written' = [written EXCEPT ![c][s] = @ + 1]
    /\ UNCHANGED <<commands, proc, kids, status, copiers, log, outcome, pc, locals>>

\* a child is left in the background, and ends
Background(c) ==
    /\ \/ proc[c] = "running" /\ c \notin kids /\ kids' = kids \cup {c}
       \/ c \in kids /\ kids' = kids \ {c}
    /\ UNCHANGED <<commands, proc, status, written, copiers, log, outcome, pc, locals>>

Exit(c) ==
    /\ proc[c] = "running"
    /\ proc' = [proc EXCEPT ![c] = "zombie"]
    /\ \E x \in Statuses : status' = [status EXCEPT ![c] = x]
    /\ UNCHANGED <<commands, kids, written, copiers, log, outcome, pc, locals>>

-----------------------------------------------------------------------------
(* The agent's goroutines.                                                  *)

\* the reaper of process 1 takes the status of any child, also of a command
reapChildren(c) ==
    /\ "reaper" \in Faults /\ proc[c] = "zombie"
    /\ proc' = [proc EXCEPT ![c] = "reaped"]
    /\ UNCHANGED <<commands, kids, status, written, copiers, log, outcome, pc, locals>>

CopierRead(c, s) ==
    /\ s \in copying[c] /\ held[c][s] = 0 /\ ~Closed(c)
    /\ \E n \in 1..Chunk :
           /\ n <= written[c][s] - taken[c][s]
           /\ taken' = [taken EXCEPT ![c][s] = @ + n]
           /\ held' = [held EXCEPT ![c][s] = n]
    /\ UNCHANGED <<commands, process, copying, log, outcome, pc, locals>>

CopierAppend(c, s) ==
    /\ s \in copying[c] /\ held[c][s] > 0
    /\ appendLog(c, s, held[c][s])
    /\ held' = [held EXCEPT ![c][s] = 0]
    /\ UNCHANGED <<commands, process, taken, copying, outcome, pc, locals>>

\* mutant: the copiers read on to the end of the pipe, and Wait does not close it
CopierToEof(c, s) ==
    /\ s \in copying[c] /\ held[c][s] = 0
    /\ ~Writing(c)
    /\ copying' = [copying EXCEPT ![c] = @ \ {s}]
    /\ UNCHANGED <<commands, process, taken, held, log, outcome, pc, locals>>

\* a read fails: the pipe is at its end, or Wait has closed it
CopierEnd(c, s) ==
    /\ s \in copying[c] /\ held[c][s] = 0
    /\ Closed(c) \/ (~Writing(c) /\ taken[c][s] = written[c][s])
    /\ copying' = [copying EXCEPT ![c] = @ \ {s}]
    /\ UNCHANGED <<commands, process, taken, held, log, outcome, pc, locals>>

\* cmd.Wait: it does not wait for the copiers, and closes their pipes
WaitProcess(c) ==
    /\ proc[c] \in {"zombie", "reaped"} /\ result[c] = None
    /\ proc' = [proc EXCEPT ![c] = "reaped"]
    /\ result' = [result EXCEPT ![c] = IF proc[c] = "zombie" THEN status[c] ELSE 126]
    /\ UNCHANGED <<commands, kids, status, written, copiers, log, exit, done, pc, locals>>

\* mutant: the copiers are not waited for
RecordEarly(c) ==
    /\ result[c] # None /\ exit[c] = None
    /\ exit' = [exit EXCEPT ![c] = result[c]]
    /\ UNCHANGED <<commands, process, copiers, log, result, done, pc, locals>>

\* the rest of wait, under the command's mutex once the copiers have returned
Record(c) ==
    /\ result[c] # None /\ exit[c] = None /\ copying[c] = {}
    /\ exit' = [exit EXCEPT ![c] = result[c]]
    /\ UNCHANGED <<commands, process, copiers, log, result, done, pc, locals>>

CloseDone(c) ==
    /\ exit[c] # None /\ c \notin done
    /\ done' = done \cup {c}
    /\ UNCHANGED <<commands, process, copiers, log, result, exit, pc, locals>>

-----------------------------------------------------------------------------
(* Requests.                                                                *)

Go(p, l) == pc' = [pc EXCEPT ![p] = l]

\* the answer shows the command's exit code of the moment
Answer(p) ==
    /\ Go(p, "answered")
    /\ code' = [code EXCEPT ![p] = exit[target[p]]]

\* mutant: one command too many
RunOneMore(p, o) ==
    /\ pc[p] = "idle" /\ Cardinality(commands) <= MaxCommands
    /\ op' = [op EXCEPT ![p] = o]
    /\ commands' = commands \cup {p}
    /\ target' = [target EXCEPT ![p] = p]
    /\ Go(p, "exec")
    /\ UNCHANGED <<process, copiers, log, outcome, offset, unread, code>>

\* runCommand and the agent's startCommand, up to the table of commands
Run(p, o) ==
    /\ pc[p] = "idle"
    /\ op' = [op EXCEPT ![p] = o]
    /\ \/ /\ Cardinality(commands) < MaxCommands
          /\ commands' = commands \cup {p}
          /\ target' = [target EXCEPT ![p] = p]
          /\ Go(p, "exec")
       \/ /\ Cardinality(commands) >= MaxCommands
          /\ Go(p, "failed")
          /\ UNCHANGED <<commands, target>>
    /\ UNCHANGED <<process, copiers, log, outcome, offset, unread, code>>

\* the process starts, and with it the goroutines; a detached run is answered
startCommand(p) ==
    /\ pc[p] = "exec"
    /\ proc' = [proc EXCEPT ![p] = "running"]
    /\ copying' = [copying EXCEPT ![p] = Streams]
    /\ \/ op[p] = "run" /\ Answer(p)
       \/ op[p] = "run_wait" /\ Go(p, "copy") /\ UNCHANGED code
    /\ UNCHANGED <<commands, kids, status, written, taken, held, log, outcome,
                   op, target, offset, unread>>

failStart(p) ==
    /\ "start" \in Faults /\ pc[p] = "exec"
    /\ appendLog(p, "stderr", 1)
    /\ exit' = [exit EXCEPT ![p] = 127]
    /\ done' = done \cup {p}
    /\ Go(p, "failed")
    /\ UNCHANGED <<commands, process, copiers, result, locals>>

\* a command whose id a client may know
Known == {c \in commands : proc[c] # "none"}

Ask(p, o, c) ==
    /\ o \in Menu[p] /\ pc[p] = "idle" /\ c \in Known
    /\ op' = [op EXCEPT ![p] = o]
    /\ target' = [target EXCEPT ![p] = c]
    /\ UNCHANGED <<commands, process, copiers, log, outcome, offset, unread>>

getCommand(p, c) ==
    \/ /\ Ask(p, "get", c)
       /\ Go(p, "answered")
       /\ code' = [code EXCEPT ![p] = exit[c]]
    \/ Ask(p, "get_wait", c) /\ Go(p, "wait") /\ UNCHANGED code

\* select on the done channel
GetDone(p) ==
    /\ pc[p] = "wait" /\ target[p] \in done
    /\ Answer(p)
    /\ UNCHANGED <<commands, process, copiers, log, outcome, op, target, offset, unread>>

commandLogs(p, c) == Ask(p, "logs", c) /\ Go(p, "copy") /\ UNCHANGED code

\* the stream of a log has ended: runCommand goes on to wait for the command
EndLogs(p) ==
    \/ op[p] = "run_wait" /\ Go(p, "wait")
    \/ op[p] = "logs" /\ Go(p, "answered")

\* the log file does not open: the stream ends there, as if it were whole
Unread(p) ==
    /\ "open" \in Faults
    /\ unread' = unread \cup {p}
    /\ UNCHANGED offset

ServeRecords(p) ==
    /\ offset' = [offset EXCEPT ![p] = records[target[p]]]
    /\ UNCHANGED unread

LogsCopy(p) ==
    /\ pc[p] = "copy"
    /\ \/ ServeRecords(p) /\ Go(p, "check")
       \/ Unread(p) /\ EndLogs(p)
    /\ UNCHANGED <<commands, process, copiers, log, outcome, op, target, code>>

\* mutant: a command that is done has its log looked at no more
LogsCheckLast(p) ==
    /\ pc[p] = "check"
    /\ IF target[p] \in done THEN EndLogs(p) ELSE Go(p, "copy")
    /\ UNCHANGED <<commands, process, copiers, log, outcome, locals>>

LogsCheck(p) ==
    /\ pc[p] = "check"
    /\ Go(p, IF target[p] \in done THEN "final" ELSE "copy")
    /\ UNCHANGED <<commands, process, copiers, log, outcome, locals>>

LogsFinal(p) ==
    /\ pc[p] = "final"
    /\ ServeRecords(p) \/ Unread(p)
    /\ EndLogs(p)
    /\ UNCHANGED <<commands, process, copiers, log, outcome, op, target, code>>

\* killCommand looks for a live process under the mutex, and signals its group
\* after it: the group may be gone by then, or catch the signal
killCommand(p, c) ==
    /\ Ask(p, "kill", c)
    /\ \/ exit[c] = None /\ Go(p, "signal") /\ UNCHANGED code
       \/ exit[c] # None /\ Go(p, "answered") /\ code' = [code EXCEPT ![p] = exit[c]]

KillSignal(p) ==
    /\ pc[p] = "signal"
    /\ LET c == target[p] IN
       /\ \/ /\ proc[c] = "running"
             /\ proc' = [proc EXCEPT ![c] = "zombie"]
             /\ status' = [status EXCEPT ![c] = -1]
          \/ UNCHANGED <<proc, status>>
       /\ kids' \in {kids, kids \ {c}}
    /\ Answer(p)
    /\ UNCHANGED <<commands, written, copiers, log, outcome, op, target, offset, unread>>

\* ResponseHeaderTimeout: the agent sends no header before it has something to send
HeaderTimeout(p) ==
    /\ "timeout" \in Faults
    /\ \/ pc[p] \in Reading /\ offset[p] = 0
          /\ Go(p, IF op[p] = "run_wait" THEN "wait" ELSE "failed")
       \/ pc[p] = "wait" /\ Go(p, "failed")
    /\ UNCHANGED <<commands, process, copiers, log, outcome, locals>>

\* the client goes away, and its context is done
Abandon(p) ==
    /\ "gone" \in Faults
    /\ pc[p] \in {"copy", "check", "wait"}
    /\ Go(p, "failed")
    /\ UNCHANGED <<commands, process, copiers, log, outcome, locals>>

-----------------------------------------------------------------------------

Begin(p) ==
    \/ \E o \in Runs \cap Menu[p] : Run(p, o)
    \/ \E c \in Requests :
           getCommand(p, c) \/ commandLogs(p, c) \/ killCommand(p, c)

Step(p) ==
    \/ startCommand(p) \/ failStart(p)
    \/ GetDone(p) \/ LogsCopy(p) \/ LogsCheck(p) \/ LogsFinal(p) \/ KillSignal(p)

Goroutines(c) ==
    \/ WaitProcess(c) \/ Record(c) \/ CloseDone(c)
    \/ \E s \in Streams : CopierAppend(c, s) \/ CopierEnd(c, s)

Environment(c) ==
    \/ Exit(c) \/ Background(c) \/ reapChildren(c)
    \/ \E s \in Streams : Emit(c, s) \/ CopierRead(c, s)

Next == \E p \in Requests :
    \/ Begin(p) \/ Step(p) \/ HeaderTimeout(p) \/ Abandon(p)
    \/ Goroutines(p) \/ Environment(p)

Spec == Init /\ [][Next]_vars

(* A goroutine that can run does run: the agent's, one by one, and those of  *)
(* a request.  Nothing obliges a process to write or to end, a signal to     *)
(* kill it, a timeout to come before its answer.                             *)
FairSpec ==
    /\ Spec
    /\ \A p \in Requests :
        /\ WF_vars(Step(p))
        /\ WF_vars(WaitProcess(p)) /\ WF_vars(Record(p)) /\ WF_vars(CloseDone(p))
        /\ \A s \in Streams : WF_vars(CopierAppend(p, s)) /\ WF_vars(CopierEnd(p, s))

=============================================================================
