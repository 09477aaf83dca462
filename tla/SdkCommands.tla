----------------------------- MODULE SdkCommands -----------------------------
(***************************************************************************)
(* A command of a session as the SDK sees it: the streams runCommand and   *)
(* getLogs read (api-client/api-client.ts), the Command object and its     *)
(* cached output (command.ts), and Session.runCommand (session.ts).        *)
(*                                                                         *)
(* The command and its log live behind the API.  A response body is piped  *)
(* into a line parser, whose records an iterator takes; the pipe and the   *)
(* iterator are two activities, and the connection or an AbortSignal can   *)
(* end the pipe between any two records.                                   *)
(***************************************************************************)
EXTENDS Naturals, FiniteSets

CONSTANTS
  Users,      \* the calls of the program
  UserMenu,   \* UserMenu[u]: the operations call u may make
  MaxRecords, \* records the command writes
  MaxCuts     \* abort signals that fire, at most

ASSUME SdkCommandsAssumption ==
  /\ MaxRecords \in Nat /\ MaxCuts \in Nat /\ "cache" \notin Users /\ "none" \notin Users

VARIABLES
  command, \* the command behind the API
  stream,  \* the streams: one for a call, one for the cached output
  object,  \* the Command object
  user,    \* the calls
  cutUsers \* the calls whose AbortSignal has fired

commandVars == <<command, stream, object, user, cutUsers>>

Streams == Users \cup {"cache"}

\* asking: the request is under way; open: the body is piped; ended: the
\* parser's input has ended; broken: it was given an error; destroyed.  short:
\* the API no longer copies the log, which has not come to its end.
NoStream == [st |-> "none", sent |-> 0, short |-> FALSE, got |-> 0, tail |-> "none"]

\* The records an output is made of.  Whether the API cut it short is history:
\* nothing on the SDK's side can tell.
Nothing == [records |-> 0, short |-> FALSE]

NoUser == [pc |-> "idle", op |-> "none", out |-> Nothing]

\* outputCache, the call whose signal it follows, _resolvedOutput, _client.
NoObject == [made |-> FALSE, cache |-> "none", owner |-> "none", resolved |-> FALSE,
             out |-> Nothing, client |-> FALSE]

CommandsInit ==
  /\ command = [st |-> "none", written |-> 0]
  /\ stream = [x \in Streams |-> NoStream]
  /\ object = NoObject
  /\ user = [u \in Users |-> NoUser]
  /\ cutUsers = {}

Ends(u, how, out) == user' = [user EXCEPT ![u] = [@ EXCEPT !.pc = how, !.out = out]]

Asking == [NoStream EXCEPT !.st = "asking"]

-----------------------------------------------------------------------------
(***************************************************************************)
(* The command, behind the API.                                            *)
(***************************************************************************)

CommandWrites ==
  /\ command.st = "running" /\ command.written < MaxRecords
  /\ command' = [command EXCEPT !.written = @ + 1]
  /\ UNCHANGED <<stream, object, user, cutUsers>>

CommandEnds ==
  /\ command.st = "running"
  /\ command' = [command EXCEPT !.st = "ended"]
  /\ UNCHANGED <<stream, object, user, cutUsers>>

\* The signal whose firing cuts stream x.
Cuts(x) == IF x = "cache" THEN object.owner ELSE x

\* A request for a stream is answered with one.  A run starts the command.
OpenStream(x) ==
  /\ stream[x].st = "asking" /\ Cuts(x) \notin cutUsers
  /\ stream' = [stream EXCEPT ![x].st = "open"]
  /\ command' = IF x \in Users /\ user[x].op = "run" /\ command.st = "none"
                THEN [command EXCEPT !.st = "running"] ELSE command
  /\ UNCHANGED <<object, user, cutUsers>>

\* The API refuses, or answers with something that is not a stream.
RefuseStream(x) ==
  /\ stream[x].st = "asking" /\ Cuts(x) \notin cutUsers
  /\ stream' = [stream EXCEPT ![x].st = "broken"]
  /\ UNCHANGED <<command, object, user, cutUsers>>

OfRun(x) == x \in Users /\ user[x].op = "run"

\* All the API copies of the log has been sent.
LogOver(x) == stream[x].short \/ (stream[x].sent = command.written /\ command.st = "ended")

\* Another record of the log comes through.
PipeRecord(x) ==
  /\ ~stream[x].short /\ stream[x].sent < command.written
  /\ stream' = [stream EXCEPT ![x].sent = @ + 1]

\* mutant: the parser's input is not ended
PipeToNowhere(x) ==
  /\ stream[x].st = "open" /\ Cuts(x) \notin cutUsers
  /\ \/ PipeRecord(x)
     \/ LogOver(x) /\ command.st = "ended" /\ UNCHANGED stream
  /\ UNCHANGED <<command, object, user, cutUsers>>

\* pipe: another record comes through, and at the end of the body the parser's
\* input is ended.  Of a run the API asks for the command once the log is over,
\* whatever became of it, and the last record shows it finished.
Pipe(x) ==
  /\ stream[x].st = "open" /\ Cuts(x) \notin cutUsers
  /\ \/ PipeRecord(x)
     \/ /\ LogOver(x) /\ command.st = "ended"
        /\ stream' = [stream EXCEPT ![x].st = "ended",
                                    ![x].tail = IF OfRun(x) THEN "command" ELSE "end"]
  /\ UNCHANGED <<command, object, user, cutUsers>>

\* The guest's log breaks off, or cannot be had, and the API ignores it: a log
\* ends there as it would at its end, and a run goes on to the finished command.
CutLog(x) ==
  /\ stream[x].st = "open" /\ Cuts(x) \notin cutUsers /\ ~LogOver(x)
  /\ stream' = [stream EXCEPT ![x].short = TRUE,
                              ![x].st = IF OfRun(x) THEN "open" ELSE "ended",
                              ![x].tail = IF OfRun(x) THEN "none" ELSE "end"]
  /\ UNCHANGED <<command, object, user, cutUsers>>

\* A run ends with a record of the error if the command cannot be had once the
\* log is over; the SDK is also ready for a body that ends with neither.
EndEarly(x) ==
  /\ stream[x].st = "open" /\ Cuts(x) \notin cutUsers /\ OfRun(x)
  /\ \E tail \in {"end"} \cup (IF LogOver(x) THEN {"error"} ELSE {}) :
       stream' = [stream EXCEPT ![x].st = "ended", ![x].tail = tail]
  /\ UNCHANGED <<command, object, user, cutUsers>>

\* reader.read() rejects: the parser is given the error.
BreakPipe(x) ==
  /\ stream[x].st = "open" /\ Cuts(x) \notin cutUsers
  /\ stream' = [stream EXCEPT ![x].st = "broken"]
  /\ UNCHANGED <<command, object, user, cutUsers>>

\* onAbort: the reader is cancelled and the parser destroyed; a request under
\* way rejects.
AbortPipe(x) ==
  /\ stream[x].st \in {"asking", "open"} /\ Cuts(x) \in cutUsers
  /\ stream' = [stream EXCEPT ![x].st = "destroyed"]
  /\ UNCHANGED <<command, object, user, cutUsers>>

\* A signal fires, or a log is closed or disposed of (mergeSignals).
CutUser(u) ==
  /\ u \notin cutUsers /\ user[u].pc \in {"idle", "run", "logs", "output", "wait"}
  /\ Cardinality(cutUsers) < MaxCuts
  /\ cutUsers' = cutUsers \cup {u}
  /\ UNCHANGED <<command, stream, object, user>>

\* What the iterator of stream x meets next: a record, the end, or an error,
\* which may overtake the records the parser still holds.
More(x) == stream[x].st # "destroyed" /\ stream[x].got < stream[x].sent
Clean(x, tail) == stream[x].st = "ended" /\ stream[x].got = stream[x].sent /\ stream[x].tail = tail
Fails(x) ==
  \/ stream[x].st \in {"broken", "destroyed"}
  \/ Clean(x, "error")

Take(x) == stream' = [stream EXCEPT ![x].got = @ + 1]
Leave(x) == stream' = [stream EXCEPT ![x] = NoStream]

\* What the iterator of stream x has brought.
Shown(x) == [records |-> stream[x].got, short |-> stream[x].short]

-----------------------------------------------------------------------------
(***************************************************************************)
(* Session.runCommand and getCommand.                                      *)
(***************************************************************************)

May(u, op) == user[u].pc = "idle" /\ op \in UserMenu[u]

Begins(u, pc, op) == user' = [user EXCEPT ![u] = [NoUser EXCEPT !.pc = pc, !.op = op]]

\* runCommand, waiting.
RunWaiting(u) ==
  /\ May(u, "run") /\ command.st = "none" /\ u \notin cutUsers
  /\ \A v \in Users : user[v].op # "run"
  /\ Begins(u, "run", "run")
  /\ stream' = [stream EXCEPT ![u] = Asking]
  /\ UNCHANGED <<command, object, cutUsers>>

\* onLog: a record of the output.
RunRecord(u) ==
  /\ user[u].pc = "run" /\ More(u)
  /\ Take(u)
  /\ UNCHANGED <<command, object, user, cutUsers>>

\* The record of the finished command: a CommandFinished with its output.
RunEnd(u) ==
  /\ user[u].pc = "run" /\ Clean(u, "command")
  /\ Ends(u, "ok", Shown(u))
  /\ Leave(u)
  /\ UNCHANGED <<command, object, cutUsers>>

\* A StreamError for an error record and for an end that comes too early.
RunFail(u) ==
  /\ user[u].pc = "run" /\ (Fails(u) \/ Clean(u, "end"))
  /\ Ends(u, "error", Nothing)
  /\ Leave(u)
  /\ UNCHANGED <<command, object, cutUsers>>

\* runCommand, detached: a Command object, and with a stdout or a stderr to
\* write to, a log that is piped to it in the background.
RunDetached(u) ==
  /\ May(u, "detach") /\ command.st = "none" /\ u \notin cutUsers
  /\ \A v \in Users : user[v].op # "run"
  /\ command' = [command EXCEPT !.st = "running"]
  /\ object' = [NoObject EXCEPT !.made = TRUE, !.client = TRUE]
  /\ \/ Begins(u, "ok", "detach") /\ UNCHANGED stream
     \/ Begins(u, "logs", "detach") /\ stream' = [stream EXCEPT ![u] = Asking]
  /\ UNCHANGED cutUsers

\* getCommand: another Command object for a command that was started before.
GetCommandObject(u) ==
  /\ May(u, "lookup") /\ command.st # "none" /\ ~object.made
  /\ object' = [NoObject EXCEPT !.made = TRUE, !.client = TRUE]
  /\ Begins(u, "ok", "lookup")
  /\ UNCHANGED <<command, stream, cutUsers>>

-----------------------------------------------------------------------------
(***************************************************************************)
(* Command.                                                                *)
(***************************************************************************)

\* logs() throws without a client.
Logs(u) ==
  /\ May(u, "logs") /\ object.made /\ u \notin cutUsers
  /\ IF object.client
     THEN Begins(u, "logs", "logs") /\ stream' = [stream EXCEPT ![u] = Asking]
     ELSE Begins(u, "error", "logs") /\ UNCHANGED stream
  /\ UNCHANGED <<command, object, cutUsers>>

LogsRecord(u) ==
  /\ user[u].pc = "logs" /\ More(u)
  /\ Take(u)
  /\ UNCHANGED <<command, object, user, cutUsers>>

\* The log ends; of a background pipe, an error that is not an abort goes to
\* the stream the program gave.
LogsEnd(u) ==
  /\ user[u].pc = "logs"
  /\ \/ Clean(u, "end") /\ Ends(u, "ok", Shown(u))
     \/ Fails(u) /\ Ends(u, IF user[u].op = "detach" /\ u \in cutUsers THEN "quiet" ELSE "error", Nothing)
  /\ Leave(u)
  /\ UNCHANGED <<command, object, cutUsers>>

\* wait(): a request that is answered when the command has ended, or fails.
Wait(u) ==
  /\ May(u, "wait") /\ object.made
  /\ Begins(u, IF u \in cutUsers THEN "error" ELSE "wait", "wait")
  /\ object' = [object EXCEPT !.client = TRUE]
  /\ UNCHANGED <<command, stream, cutUsers>>

WaitAnswered(u) ==
  /\ user[u].pc = "wait"
  /\ \/ command.st = "ended" /\ u \notin cutUsers /\ Ends(u, "ok", Nothing)
     \/ Ends(u, "error", Nothing)
  /\ UNCHANGED <<command, stream, object, cutUsers>>

\* kill(): what the signal does to the command is the command's matter.
Kill(u) ==
  /\ May(u, "kill") /\ object.made /\ u \notin cutUsers
  /\ Begins(u, "ok", "kill")
  /\ object' = [object EXCEPT !.client = TRUE]
  /\ command' = IF command.st = "running" THEN [command EXCEPT !.st = "ended"] ELSE command
  /\ UNCHANGED <<stream, cutUsers>>

\* output(), stdout() and stderr() share one fetch, which follows the signal of
\* the call that began it.  With a signal that has fired already it rejects
\* before the promise is kept, which the catch clause was to undo.
Output(u) ==
  /\ May(u, "output") /\ object.made
  /\ Begins(u, "output", "output")
  /\ IF object.cache # "none" THEN UNCHANGED <<object, stream>>
     ELSE IF u \in cutUsers
     THEN object' = [object EXCEPT !.cache = "rejected"] /\ UNCHANGED stream
     ELSE /\ object' = [object EXCEPT !.cache = "fetching", !.owner = u, !.client = TRUE]
          /\ stream' = [stream EXCEPT !["cache"] = Asking]
  /\ UNCHANGED <<command, cutUsers>>

OutputRecord ==
  /\ object.cache = "fetching" /\ More("cache")
  /\ Take("cache")
  /\ UNCHANGED <<command, object, user, cutUsers>>

Awaiting == {u \in Users : user[u].pc = "output"}

Settle(how, out) ==
  user' = [u \in Users |->
    IF u \in Awaiting THEN [user[u] EXCEPT !.pc = how, !.out = out] ELSE user[u]]

\* mutant: what a log that breaks has brought is kept
OutputKeepsParts ==
  /\ object.cache = "fetching" /\ (Clean("cache", "end") \/ Fails("cache"))
  /\ object' = [object EXCEPT !.cache = "done", !.owner = "none", !.resolved = TRUE,
                              !.out = Shown("cache")]
  /\ Settle("ok", Shown("cache"))
  /\ Leave("cache")
  /\ UNCHANGED <<command, cutUsers>>

\* The log has ended: it is kept, and whoever awaits it has it.
OutputDone ==
  /\ object.cache = "fetching" /\ Clean("cache", "end")
  /\ object' = [object EXCEPT !.cache = "done", !.owner = "none", !.resolved = TRUE,
                              !.out = Shown("cache")]
  /\ Settle("ok", Shown("cache"))
  /\ Leave("cache")
  /\ UNCHANGED <<command, cutUsers>>

\* The fetch fails: the promise is cleared, and whoever awaits it fails.
OutputFails ==
  /\ object.cache = "fetching" /\ Fails("cache")
  /\ object' = [object EXCEPT !.cache = "none", !.owner = "none"]
  /\ Settle("error", Nothing)
  /\ Leave("cache")
  /\ UNCHANGED <<command, cutUsers>>

\* The promise is settled: kept, or rejected for good.
OutputKnown(u) ==
  /\ user[u].pc = "output" /\ object.cache \in {"done", "rejected"}
  /\ IF object.cache = "done" THEN Ends(u, "ok", object.out) ELSE Ends(u, "error", Nothing)
  /\ UNCHANGED <<command, stream, object, cutUsers>>

\* Serialized, and deserialized in another workflow step: the output comes
\* along if it was there, the client does not.
DeserializeCommand ==
  /\ object.made /\ \A u \in Users : user[u].pc \notin {"logs", "output", "wait"}
  /\ object' = IF object.resolved
               THEN [NoObject EXCEPT !.made = TRUE, !.cache = "done", !.resolved = TRUE,
                                     !.out = object.out]
               ELSE [NoObject EXCEPT !.made = TRUE]
  /\ UNCHANGED <<command, stream, user, cutUsers>>

-----------------------------------------------------------------------------

StartUser(u) ==
  \/ RunWaiting(u) \/ RunDetached(u) \/ GetCommandObject(u)
  \/ Logs(u) \/ Wait(u) \/ Kill(u) \/ Output(u)

StreamStep(x) == OpenStream(x) \/ RefuseStream(x) \/ Pipe(x) \/ AbortPipe(x)

UserStep(u) ==
  \/ RunRecord(u) \/ RunEnd(u) \/ RunFail(u) \/ LogsRecord(u) \/ LogsEnd(u)
  \/ WaitAnswered(u) \/ OutputKnown(u)

CacheStep == OutputRecord \/ OutputDone \/ OutputFails

CommandsNext ==
  \/ CommandWrites \/ CommandEnds \/ CacheStep \/ DeserializeCommand
  \/ \E x \in Streams : StreamStep(x) \/ CutLog(x) \/ EndEarly(x) \/ BreakPipe(x)
  \/ \E u \in Users : StartUser(u) \/ UserStep(u) \/ CutUser(u)

\* Bodies are read, records taken and continuations run; a command need not end.
CommandsFairness ==
  /\ \A x \in Streams : WF_commandVars(StreamStep(x))
  /\ \A u \in Users : WF_commandVars(UserStep(u))
  /\ WF_commandVars(CacheStep)

CommandsSpec == CommandsInit /\ [][CommandsNext]_commandVars /\ CommandsFairness

-----------------------------------------------------------------------------
(***************************************************************************)
(* What the streams and the Command object promise.                        *)
(***************************************************************************)

\* o is all the command has written, unless the API cut it short.
Brought(o) ==
  /\ o.records <= command.written
  /\ ~o.short => command.st = "ended" /\ o.records = command.written

\* What a finished run, a log followed to its end, output() and a serialized
\* command show is all an ended command has written, unless the API ended the
\* log as if it were whole: a body that breaks, a signal, a record of an error
\* and an end without the finished command never pass for the end of a log.  A
\* run is finished only if its command is.
OutputWholeUnlessCut ==
  /\ \A u \in Users :
       user[u].pc = "ok" /\ user[u].op \in {"run", "logs", "output"} => Brought(user[u].out)
  /\ \A u \in Users : user[u].pc = "ok" /\ user[u].op = "run" => command.st = "ended"
  /\ object.resolved => Brought(object.out)
  /\ object.cache = "fetching" <=> object.owner # "none"

\* Once the command has ended, every call on it ends: the shared fetch of its
\* output leaves nobody behind.
CommandCallsEnd ==
  \A u \in Users : (user[u].pc # "idle" /\ command.st = "ended") ~>
                     user[u].pc \in {"ok", "error", "quiet"}

\* A fetch of the output that failed is tried again by a later call.
OutputRetries ==
  [][\A u \in Users : OutputKnown(u) /\ user'[u].pc = "error" => u \in cutUsers]_commandVars

=============================================================================
