---------------------------- MODULE SdkToolsProofs ----------------------------
(***************************************************************************)
(* Proofs about the commands, the lists and the files of the SDK, for any  *)
(* number of calls, records, items and files.                              *)
(***************************************************************************)
EXTENDS SdkCommands, SdkPages, SdkFiles, FiniteSetTheorems, NaturalsInduction,
        WellFoundedInduction, TLAPS

-----------------------------------------------------------------------------
(* Commands: what a stream has brought.                                     *)

Outputs == [records : Nat, short : BOOLEAN]
UserRecords == [pc : {"idle", "run", "logs", "output", "wait", "ok", "error", "quiet"},
                op : {"none", "run", "detach", "lookup", "logs", "wait", "kill", "output"},
                out : Outputs]
StreamRecords == [st : {"none", "asking", "open", "ended", "broken", "destroyed"},
                  sent : Nat, short : BOOLEAN, got : Nat, tail : {"none", "command", "end", "error"}]
ObjectRecords == [made : BOOLEAN, cache : {"none", "fetching", "done", "rejected"},
                  owner : Users \cup {"none"}, resolved : BOOLEAN, out : Outputs,
                  client : BOOLEAN]

CommandTypes ==
  /\ command \in [st : {"none", "running", "ended"}, written : Nat]
  /\ stream \in [Streams -> StreamRecords]
  /\ object \in ObjectRecords
  /\ user \in [Users -> UserRecords]

\* Brought of the next state, of an output o of this one.
BroughtNext(o) ==
  /\ o.records <= command'.written
  /\ ~o.short => command'.st = "ended" /\ o.records = command'.written

\* What stream t has sent.
SentOf(t) == [records |-> t.sent, short |-> t.short]

(* A stream that ended as such streams end has brought all that the API sent, *)
(* which is the whole log unless it was cut short; a call is what its state   *)
(* says, and streams nothing before it begins.                                *)
StreamInv(x) ==
  /\ stream[x].sent <= command.written
  /\ stream[x].st = "ended" /\ stream[x].tail = "command" =>
       command.st = "ended" /\ Brought(SentOf(stream[x]))
  /\ stream[x].st = "ended" /\ stream[x].tail = "end" /\ ~OfRun(x) => Brought(SentOf(stream[x]))
UserInv(u) ==
  /\ user[u].pc = "idle" => user[u].op = "none" /\ stream[u].st = "none"
  /\ user[u].pc = "run" => user[u].op = "run"
  /\ user[u].pc = "logs" => user[u].op \in {"logs", "detach"}
  /\ user[u].pc \in {"output", "wait"} => user[u].op = user[u].pc
  /\ user[u].pc = "ok" /\ user[u].op \in {"run", "logs", "output"} => Brought(user[u].out)
  /\ user[u].pc = "ok" /\ user[u].op = "run" => command.st = "ended"
ObjectInv ==
  /\ object.resolved => Brought(object.out)
  /\ object.cache = "done" => object.resolved
  /\ object.cache = "fetching" <=> object.owner # "none"

CommandsInv ==
  /\ CommandTypes /\ ObjectInv
  /\ \A x \in Streams : StreamInv(x)
  /\ \A u \in Users : UserInv(u)

LEMMA CommandsInitial == ASSUME CommandsInit PROVE CommandsInv
<1>1. /\ command = [st |-> "none", written |-> 0] /\ stream = [x \in Streams |-> NoStream]
      /\ object = NoObject /\ user = [u \in Users |-> NoUser]
  BY DEF CommandsInit
<1>2. NoStream \in StreamRecords /\ NoStream.st = "none" /\ NoStream.sent = 0
  BY DEF NoStream, StreamRecords
<1>0. Nothing \in Outputs
  BY DEF Nothing, Outputs
<1>3. NoObject \in ObjectRecords /\ NoObject.resolved = FALSE /\ NoObject.cache = "none"
      /\ NoObject.owner = "none"
  BY <1>0 DEF NoObject, ObjectRecords
<1>4. NoUser \in UserRecords /\ NoUser.pc = "idle" /\ NoUser.op = "none"
  BY <1>0 DEF NoUser, UserRecords
<1>5. CommandTypes
  BY <1>1, <1>2, <1>3, <1>4 DEF CommandTypes
<1>6. command.written = 0 /\ \A x \in Streams : stream[x].st = "none" /\ stream[x].sent = 0
  BY <1>1, <1>2
<1>7. \A u \in Users : user[u].pc = "idle" /\ user[u].op = "none" /\ u \in Streams
  BY <1>1, <1>4 DEF Streams
<1> QED
  BY <1>1, <1>3, <1>5, <1>6, <1>7 DEF CommandsInv, ObjectInv, StreamInv, UserInv

(* The command goes on: it has not ended before, or nothing changes of it.   *)
CommandGrows ==
  /\ command' \in [st : {"none", "running", "ended"}, written : Nat]
  /\ command.written <= command'.written
  /\ command.st = "ended" => UNCHANGED command

\* Stream x becomes t.
StreamBecomes(x, t) ==
  /\ t \in StreamRecords
  /\ stream' = [stream EXCEPT ![x] = t]

LEMMA BroughtStays ==
  ASSUME CommandsInv, CommandGrows
  PROVE  /\ \A o \in Outputs : Brought(o) => BroughtNext(o)
         /\ \A x \in Streams : stream[x].sent <= command.written =>
                               stream[x].sent <= command'.written
         /\ \A x \in Streams : SentOf(stream[x]) \in Outputs
         /\ \A u \in Users : user[u].out \in Outputs
         /\ object.out \in Outputs
<1>1. command.written \in Nat /\ command'.written \in Nat
  BY DEF CommandsInv, CommandTypes, CommandGrows
<1>2. \A o \in Outputs : Brought(o) => BroughtNext(o)
  BY <1>1 DEF CommandGrows, Brought, BroughtNext, Outputs
<1>3. \A x \in Streams : stream[x] \in StreamRecords
  BY DEF CommandsInv, CommandTypes
<1>4. \A x \in Streams : stream[x].sent \in Nat /\ SentOf(stream[x]) \in Outputs
  BY <1>3 DEF StreamRecords, SentOf, Outputs
<1>5. \A u \in Users : user[u].out \in Outputs
  BY DEF CommandsInv, CommandTypes, UserRecords
<1>6. object.out \in Outputs
  BY DEF CommandsInv, CommandTypes, ObjectRecords
<1>7. \A x \in Streams : stream[x].sent <= command.written =>
                         stream[x].sent <= command'.written
  BY <1>1, <1>4 DEF CommandGrows
<1> QED
  BY <1>2, <1>4, <1>5, <1>6, <1>7

\* Steps that change the command only.
LEMMA CommandStep ==
  ASSUME CommandsInv, CommandGrows, UNCHANGED <<stream, object, user>>
  PROVE  CommandsInv'
<1>1. CommandTypes'
  BY DEF CommandsInv, CommandTypes, CommandGrows
<1>2. ObjectInv'
  BY BroughtStays DEF CommandsInv, ObjectInv, Brought, BroughtNext
<1>3. \A x \in Streams : StreamInv(x)'
  BY BroughtStays DEF CommandsInv, StreamInv, OfRun, CommandGrows, Brought, BroughtNext, SentOf
<1>4. \A u \in Users : UserInv(u)'
  BY BroughtStays DEF CommandsInv, UserInv, CommandGrows, Brought, BroughtNext
<1> QED
  BY <1>1, <1>2, <1>3, <1>4 DEF CommandsInv

\* Steps that change one stream, and perhaps the command.
LEMMA StreamChange ==
  ASSUME CommandsInv, CommandGrows, NEW x \in Streams, NEW t, StreamBecomes(x, t),
         UNCHANGED <<object, user>>,
         stream[x].st = "none" => t.st = "none",
         t.sent <= command'.written,
         t.st = "ended" /\ t.tail = "command" =>
           command'.st = "ended" /\ BroughtNext(SentOf(t)),
         t.st = "ended" /\ t.tail = "end" /\ ~OfRun(x) => BroughtNext(SentOf(t))
  PROVE  CommandsInv'
<1>1. stream'[x] = t /\ \A y \in Streams : y # x => stream'[y] = stream[y]
  BY DEF CommandsInv, CommandTypes, StreamBecomes
<1>2. CommandTypes'
  BY DEF CommandsInv, CommandTypes, CommandGrows, StreamBecomes
<1>3. ObjectInv'
  BY BroughtStays DEF CommandsInv, ObjectInv, Brought, BroughtNext
<1>4. ASSUME NEW y \in Streams PROVE StreamInv(y)'
  <2>1. CASE y = x
    BY <1>1, <2>1 DEF StreamInv, OfRun, Brought, BroughtNext, SentOf
  <2>2. CASE y # x
    BY <1>1, <2>2, BroughtStays
    DEF CommandsInv, StreamInv, OfRun, CommandGrows, Brought, BroughtNext, SentOf
  <2> QED
    BY <2>1, <2>2
<1>5. ASSUME NEW u \in Users PROVE UserInv(u)'
  <2>1. user[u].pc = "idle" => stream'[u].st = "none"
    BY <1>1 DEF CommandsInv, UserInv, Streams
  <2> QED
    BY <2>1, BroughtStays DEF CommandsInv, UserInv, CommandGrows, Brought, BroughtNext
<1> QED
  BY <1>2, <1>3, <1>4, <1>5 DEF CommandsInv

\* Call u becomes r, and its stream or that of the cache is left or asked for.
LEMMA UserChange ==
  ASSUME CommandsInv, CommandGrows, NEW u \in Users, NEW r \in UserRecords,
         user' = [user EXCEPT ![u] = r], r.pc # "idle",
         r.op = user[u].op \/ user[u].pc = "idle",
         r.pc = "run" => r.op = "run",
         r.pc = "logs" => r.op \in {"logs", "detach"},
         r.pc \in {"output", "wait"} => r.op = r.pc,
         r.pc = "ok" /\ r.op \in {"run", "logs", "output"} => BroughtNext(r.out),
         r.pc = "ok" /\ r.op = "run" => command'.st = "ended",
         \/ UNCHANGED stream
         \/ \E x \in {u, "cache"}, t \in {NoStream, Asking} : stream' = [stream EXCEPT ![x] = t],
         object' \in ObjectRecords, ObjectInv'
  PROVE  CommandsInv'
<1>1. user'[u] = r /\ \A v \in Users : v # u => user'[v] = user[v]
  BY DEF CommandsInv, CommandTypes
<1>2. \A t \in {NoStream, Asking} : t \in StreamRecords /\ t.st \in {"none", "asking"} /\ t.sent = 0
  <2>1. NoStream \in StreamRecords /\ NoStream.st = "none" /\ NoStream.sent = 0
    BY DEF NoStream, StreamRecords
  <2>2. Asking \in StreamRecords /\ Asking.st = "asking" /\ Asking.sent = 0
    BY <2>1 DEF Asking, StreamRecords
  <2> QED
    BY <2>1, <2>2
<1>3. \A x \in Streams : stream'[x] = stream[x] \/ stream'[x] \in {NoStream, Asking}
  BY DEF CommandsInv, CommandTypes
<1>0. command'.written \in Nat
  BY DEF CommandGrows
<1>4. CommandTypes'
  <2>1. stream' \in [Streams -> StreamRecords]
    BY <1>2 DEF CommandsInv, CommandTypes
  <2>2. user' \in [Users -> UserRecords]
    BY DEF CommandsInv, CommandTypes
  <2> QED
    BY <2>1, <2>2 DEF CommandTypes, CommandGrows
<1>5. ASSUME NEW x \in Streams PROVE StreamInv(x)'
  <2>1. CASE stream'[x] \in {NoStream, Asking}
    BY <1>0, <1>2, <2>1 DEF StreamInv
  <2>2. CASE stream'[x] = stream[x] /\ stream[x].st = "ended"
    <3>1. x \in Users => user'[x].op = user[x].op
      <4>1. x \in Users => user[x].pc # "idle"
        BY <2>2 DEF CommandsInv, UserInv
      <4> QED
        BY <1>1, <4>1
    <3> QED
      BY <2>2, <3>1, BroughtStays
      DEF CommandsInv, StreamInv, OfRun, CommandGrows, Brought, BroughtNext, SentOf
  <2>3. CASE stream'[x] = stream[x] /\ stream[x].st # "ended"
    BY <2>3, BroughtStays DEF CommandsInv, StreamInv
  <2> QED
    BY <1>3, <2>1, <2>2, <2>3
<1>6. ASSUME NEW v \in Users PROVE UserInv(v)'
  <2>1. CASE v = u
    BY <1>1, <2>1 DEF UserInv, Brought, BroughtNext
  <2>2. CASE v # u
    <3>1. stream'[v] = stream[v]
      BY <2>2, SdkCommandsAssumption DEF CommandsInv, CommandTypes, Streams
    <3> QED
      BY <1>1, <2>2, <3>1, BroughtStays
      DEF CommandsInv, UserInv, CommandGrows, Brought, BroughtNext
  <2> QED
    BY <2>1, <2>2
<1> QED
  BY <1>4, <1>5, <1>6 DEF CommandsInv

\* What stays of the Command object while the command goes on.
LEMMA ObjectStays ==
  ASSUME CommandsInv, CommandGrows, UNCHANGED object
  PROVE  object' \in ObjectRecords /\ ObjectInv'
  BY BroughtStays DEF CommandsInv, CommandTypes, ObjectInv, Brought, BroughtNext

LEMMA SameCommand == ASSUME CommandsInv, UNCHANGED command PROVE CommandGrows
  BY DEF CommandsInv, CommandTypes, CommandGrows

\* The behaviour of streams.
LEMMA StreamStepInv ==
  ASSUME CommandsInv, NEW x \in Streams, StreamStep(x) \/ CutLog(x) \/ EndEarly(x) \/ BreakPipe(x)
  PROVE  CommandsInv'
<1> DEFINE s == stream[x]
<1>1. s \in StreamRecords /\ command \in [st : {"none", "running", "ended"}, written : Nat]
  BY DEF CommandsInv, CommandTypes
<1>0. s.sent \in Nat /\ s.sent <= command.written
  BY <1>1 DEF CommandsInv, StreamInv, StreamRecords
<1>2. CASE OpenStream(x)
  <2> DEFINE t == [s EXCEPT !.st = "open"]
  <2>1. t \in StreamRecords /\ t.st = "open" /\ s.st = "asking" /\ t.sent = s.sent
    BY <1>1, <1>2 DEF OpenStream, StreamRecords
  <2>2. CommandGrows
    BY <1>1, <1>2 DEF OpenStream, CommandGrows
  <2>4. t.sent <= command'.written
    BY <1>0, <2>1, <2>2, <1>1 DEF CommandGrows
  <2>3. stream' = [stream EXCEPT ![x] = t]
    BY <1>2 DEF OpenStream, CommandsInv, CommandTypes
  <2> HIDE DEF t
  <2> QED
    BY <1>2, <2>1, <2>2, <2>3, <2>4, StreamChange DEF StreamBecomes, OpenStream
<1>3. CASE RefuseStream(x) \/ BreakPipe(x) \/ AbortPipe(x)
  <2>1. PICK p \in {"broken", "destroyed"} : stream' = [stream EXCEPT ![x].st = p]
    BY <1>3 DEF RefuseStream, BreakPipe, AbortPipe
  <2>2. s.st \in {"asking", "open"} /\ UNCHANGED <<command, object, user>>
    BY <1>3 DEF RefuseStream, BreakPipe, AbortPipe
  <2> DEFINE t == [s EXCEPT !.st = p]
  <2>3. t \in StreamRecords /\ t.st = p /\ t.sent <= command'.written
    BY <1>0, <1>1, <2>2 DEF StreamRecords
  <2>4. stream' = [stream EXCEPT ![x] = t]
    BY <2>1 DEF CommandsInv, CommandTypes
  <2> HIDE DEF t
  <2> QED
    BY <2>2, <2>3, <2>4, SameCommand, StreamChange DEF StreamBecomes
<1>4. CASE Pipe(x)
  <2>1. s.st = "open" /\ UNCHANGED <<command, object, user>>
    BY <1>4 DEF Pipe
  <2>2. CASE PipeRecord(x)
    <3> DEFINE t == [s EXCEPT !.sent = s.sent + 1]
    <3>1. t \in StreamRecords /\ t.st = "open" /\ t.sent <= command'.written
      BY <1>0, <1>1, <2>1, <2>2 DEF StreamRecords, PipeRecord
    <3>2. stream' = [stream EXCEPT ![x] = t]
      BY <2>2 DEF PipeRecord, CommandsInv, CommandTypes
    <3> HIDE DEF t
    <3> QED
      BY <2>1, <3>1, <3>2, SameCommand, StreamChange DEF StreamBecomes
  <2>3. CASE /\ LogOver(x) /\ command.st = "ended"
             /\ stream' = [stream EXCEPT ![x].st = "ended",
                                         ![x].tail = IF OfRun(x) THEN "command" ELSE "end"]
    <3> DEFINE e == IF OfRun(x) THEN "command" ELSE "end"
               t == [s EXCEPT !.st = "ended", !.tail = e]
    <3>1. e \in {"command", "end"}
      OBVIOUS
    <3>2. stream' = [stream EXCEPT ![x] = t]
      BY <2>3 DEF CommandsInv, CommandTypes
    <3> HIDE DEF e
    <3>3. t \in StreamRecords /\ t.st = "ended" /\ t.sent = s.sent /\ t.short = s.short
      BY <1>1, <3>1 DEF StreamRecords
    <3> HIDE DEF t
    <3>4. /\ t.sent <= command'.written /\ command'.st = "ended"
          /\ BroughtNext(SentOf(t))
      BY <1>0, <2>1, <2>3, <3>3 DEF BroughtNext, SentOf, LogOver
    <3> QED
      BY <2>1, <3>2, <3>3, <3>4, SameCommand, StreamChange DEF StreamBecomes
  <2> QED
    BY <1>4, <2>2, <2>3 DEF Pipe
<1>6. CASE CutLog(x)
  <2>1. s.st = "open" /\ UNCHANGED <<command, object, user>>
    BY <1>6 DEF CutLog
  <2> DEFINE p == IF OfRun(x) THEN "open" ELSE "ended"
             e == IF OfRun(x) THEN "none" ELSE "end"
             t == [s EXCEPT !.short = TRUE, !.st = p, !.tail = e]
  <2>2. p \in {"open", "ended"} /\ e \in {"none", "end"}
    OBVIOUS
  <2>3. stream' = [stream EXCEPT ![x] = t]
    BY <1>6 DEF CutLog, CommandsInv, CommandTypes
  <2> HIDE DEF p, e
  <2>4. t \in StreamRecords /\ t.st = p /\ t.sent = s.sent /\ t.short /\ t.tail = e
    BY <1>1, <2>2 DEF StreamRecords
  <2> HIDE DEF t
  <2>5. t.sent <= command'.written /\ BroughtNext(SentOf(t))
    BY <1>0, <2>1, <2>4 DEF BroughtNext, SentOf
  <2> QED
    BY <2>1, <2>2, <2>3, <2>4, <2>5, SameCommand, StreamChange DEF StreamBecomes
<1>5. CASE EndEarly(x)
  <2>1. s.st = "open" /\ UNCHANGED <<command, object, user>> /\ OfRun(x)
    BY <1>5 DEF EndEarly
  <2>2. PICK e \in {"error", "end"} :
          stream' = [stream EXCEPT ![x].st = "ended", ![x].tail = e]
    BY <1>5 DEF EndEarly
  <2> DEFINE t == [s EXCEPT !.st = "ended", !.tail = e]
  <2>3. t \in StreamRecords /\ t.st = "ended" /\ t.tail = e /\ t.sent <= command'.written
    BY <1>0, <1>1, <2>1 DEF StreamRecords
  <2>4. stream' = [stream EXCEPT ![x] = t]
    BY <2>2 DEF CommandsInv, CommandTypes
  <2> HIDE DEF t
  <2> QED
    BY <2>1, <2>2, <2>3, <2>4, SameCommand, StreamChange DEF StreamBecomes
<1> QED
  BY <1>2, <1>3, <1>4, <1>5, <1>6 DEF StreamStep

\* An iterator takes a record.
LEMMA TakeStep ==
  ASSUME CommandsInv, NEW x \in Streams, Take(x), UNCHANGED <<command, object, user>>
  PROVE  CommandsInv'
<1> DEFINE s == stream[x]
           t == [s EXCEPT !.got = s.got + 1]
<1>1. s \in StreamRecords
  BY DEF CommandsInv, CommandTypes
<1>2. /\ t \in StreamRecords /\ t.st = s.st /\ t.sent = s.sent /\ t.short = s.short
     /\ t.tail = s.tail
  BY <1>1 DEF StreamRecords
<1>3. stream' = [stream EXCEPT ![x] = t]
  BY DEF Take, CommandsInv, CommandTypes
<1> HIDE DEF t
<1>4. StreamInv(x)
  BY DEF CommandsInv
<1>5. /\ t.sent <= command'.written
      /\ t.st = "ended" /\ t.tail = "command" => command'.st = "ended" /\ BroughtNext(SentOf(t))
      /\ t.st = "ended" /\ t.tail = "end" /\ ~OfRun(x) => BroughtNext(SentOf(t))
  BY <1>2, <1>4 DEF StreamInv, Brought, BroughtNext, SentOf
<1> QED
  BY <1>2, <1>3, <1>5, SameCommand, StreamChange DEF StreamBecomes

-----------------------------------------------------------------------------
(* Commands: what the calls do.                                             *)

LEMMA NothingTypes == Nothing \in Outputs
  BY DEF Nothing, Outputs

LEMMA ShownTypes == ASSUME CommandsInv, NEW x \in Streams PROVE Shown(x) \in Outputs
  BY DEF CommandsInv, CommandTypes, StreamRecords, Shown, Outputs

\* At the end of a stream its iterator has brought what was sent.
LEMMA CleanShown ==
  ASSUME NEW x, NEW tail, Clean(x, tail)
  PROVE  Shown(x) = SentOf(stream[x])
  BY DEF Clean, Shown, SentOf

\* A stream of call u, or that of the output, is left or asked for.
StreamTurn(u) ==
  \/ UNCHANGED stream
  \/ \E x \in {u, "cache"}, t \in {NoStream, Asking} : stream' = [stream EXCEPT ![x] = t]

\* A call begins; one that is answered at once shows nothing of the log.
LEMMA BeginsChange ==
  ASSUME CommandsInv, CommandGrows, NEW u \in Users, user[u].pc = "idle",
         NEW pc \in {"run", "logs", "output", "wait", "ok", "error"},
         NEW op \in {"run", "detach", "lookup", "logs", "wait", "kill", "output"},
         Begins(u, pc, op),
         pc = "run" => op = "run",
         pc = "logs" => op \in {"logs", "detach"},
         pc \in {"output", "wait"} => op = pc,
         pc = "ok" => op \in {"detach", "lookup", "kill"},
         StreamTurn(u), object' \in ObjectRecords, ObjectInv'
  PROVE  CommandsInv'
<1> DEFINE r == [NoUser EXCEPT !.pc = pc, !.op = op]
<1>1. r \in UserRecords /\ r.pc = pc /\ r.op = op
  BY NothingTypes DEF NoUser, UserRecords
<1>2. user' = [user EXCEPT ![u] = r]
  BY DEF Begins
<1> HIDE DEF r
<1> QED
  BY <1>1, <1>2, UserChange DEF StreamTurn

\* A call ends.
LEMMA EndsChange ==
  ASSUME CommandsInv, UNCHANGED <<command, object>>, NEW u \in Users, user[u].pc # "idle",
         NEW how \in {"ok", "error", "quiet"}, NEW out \in Outputs, Ends(u, how, out),
         how = "ok" /\ user[u].op \in {"run", "logs", "output"} => Brought(out),
         how = "ok" /\ user[u].op = "run" => command.st = "ended",
         StreamTurn(u)
  PROVE  CommandsInv'
<1> DEFINE r == [user[u] EXCEPT !.pc = how, !.out = out]
<1>1. user[u] \in UserRecords
  BY DEF CommandsInv, CommandTypes
<1>2. r \in UserRecords /\ r.pc = how /\ r.op = user[u].op /\ r.out = out
  BY <1>1 DEF UserRecords
<1>3. user' = [user EXCEPT ![u] = r]
  BY DEF Ends, CommandsInv, CommandTypes
<1> HIDE DEF r
<1>4. /\ r.pc = "ok" /\ r.op \in {"run", "logs", "output"} => BroughtNext(r.out)
      /\ r.pc = "ok" /\ r.op = "run" => command'.st = "ended"
  BY <1>2 DEF Brought, BroughtNext
<1>5. CommandGrows /\ object' \in ObjectRecords /\ ObjectInv'
  BY SameCommand, ObjectStays
<1> QED
  BY <1>2, <1>3, <1>4, <1>5, UserChange DEF StreamTurn

\* A fetch of the output is over, and so are the calls that await it.
LEMMA SettleChange ==
  ASSUME CommandsInv, UNCHANGED command, NEW how \in {"ok", "error"}, NEW out \in Outputs,
         Settle(how, out), how = "ok" => Brought(out),
         Leave("cache"), object' \in ObjectRecords, ObjectInv'
  PROVE  CommandsInv'
<1>1. \A u \in Users : user[u] \in UserRecords
  BY DEF CommandsInv, CommandTypes
<1>2. \A u \in Users : u \in Awaiting =>
        /\ user'[u] \in UserRecords /\ user'[u].pc = how
        /\ user'[u].op = user[u].op /\ user'[u].out = out
  BY <1>1 DEF Settle, UserRecords
<1>3. \A u \in Users : u \notin Awaiting => user'[u] = user[u]
  BY DEF Settle
<1>4. NoStream \in StreamRecords /\ NoStream.st = "none" /\ NoStream.sent = 0
  BY DEF NoStream, StreamRecords
<1>5. /\ stream' \in [Streams -> StreamRecords] /\ stream'["cache"] = NoStream
      /\ \A u \in Users : stream'[u] = stream[u]
  BY <1>4, SdkCommandsAssumption DEF Leave, CommandsInv, CommandTypes, Streams
<1>6. CommandTypes'
  <2>1. user' \in [Users -> UserRecords]
    BY <1>1, <1>2, <1>3 DEF Settle
  <2> QED
    BY <1>5, <2>1 DEF CommandsInv, CommandTypes
<1>7. \A u \in Users : user'[u].op = user[u].op
  BY <1>2, <1>3
<1>8. ASSUME NEW x \in Streams PROVE StreamInv(x)'
  <2>1. CASE x = "cache"
    <3>1. command'.written \in Nat
      BY DEF CommandsInv, CommandTypes
    <3> QED
      BY <1>4, <1>5, <2>1, <3>1 DEF StreamInv
  <2>2. CASE x \in Users
    BY <1>5, <1>7, <2>2 DEF CommandsInv, StreamInv, OfRun, Brought, SentOf
  <2> QED
    BY <2>1, <2>2 DEF Streams
<1>9. ASSUME NEW u \in Users PROVE UserInv(u)'
  <2>1. CASE u \in Awaiting
    BY <1>2, <2>1 DEF CommandsInv, UserInv, Awaiting, Brought
  <2>2. CASE u \notin Awaiting
    BY <1>3, <1>5, <2>2 DEF CommandsInv, UserInv, Brought
  <2> QED
    BY <2>1, <2>2
<1> QED
  BY <1>6, <1>8, <1>9 DEF CommandsInv

\* A call is made: what it asks for, and what it changes of the Command object.
LEMMA StartStep ==
  ASSUME CommandsInv, NEW u \in Users, StartUser(u)
  PROVE  CommandsInv'
<1>1. object \in ObjectRecords /\ command \in [st : {"none", "running", "ended"}, written : Nat]
      /\ ObjectInv
  BY DEF CommandsInv, CommandTypes
<1>2. NoObject \in ObjectRecords /\ ~NoObject.resolved /\ NoObject.cache = "none"
      /\ NoObject.owner = "none"
  BY NothingTypes DEF NoObject, ObjectRecords
<1> DEFINE new == [NoObject EXCEPT !.made = TRUE, !.client = TRUE]
<1>3. /\ new \in ObjectRecords /\ ~new.resolved /\ new.cache = "none" /\ new.owner = "none"
  BY NothingTypes DEF NoObject, ObjectRecords
<1> HIDE DEF new
<1> DEFINE known == [object EXCEPT !.client = TRUE]
<1>4. /\ known \in ObjectRecords /\ known.resolved = object.resolved /\ known.out = object.out
      /\ known.cache = object.cache /\ known.owner = object.owner
  BY <1>1 DEF ObjectRecords
<1> HIDE DEF known
<1>5. CASE RunWaiting(u)
  <2>1. CommandGrows /\ object' \in ObjectRecords /\ ObjectInv' /\ StreamTurn(u)
    BY <1>5, SameCommand, ObjectStays DEF RunWaiting, StreamTurn
  <2> QED
    BY <1>5, <2>1, BeginsChange DEF RunWaiting, May
<1>6. CASE RunDetached(u)
  <2>1. CommandGrows
    BY <1>1, <1>6 DEF RunDetached, CommandGrows
  <2>2. object' = new
    BY <1>6 DEF RunDetached, new
  <2>3. object' \in ObjectRecords /\ ObjectInv'
    BY <1>3, <2>2 DEF ObjectInv
  <2>4. StreamTurn(u)
    BY <1>6 DEF RunDetached, StreamTurn
  <2> QED
    BY <1>6, <2>1, <2>3, <2>4, BeginsChange DEF RunDetached, May
<1>7. CASE GetCommandObject(u)
  <2>1. object' = new
    BY <1>7 DEF GetCommandObject, new
  <2>2. object' \in ObjectRecords /\ ObjectInv'
    BY <1>3, <2>1 DEF ObjectInv
  <2>3. CommandGrows /\ StreamTurn(u)
    BY <1>7, SameCommand DEF GetCommandObject, StreamTurn
  <2> QED
    BY <1>7, <2>2, <2>3, BeginsChange DEF GetCommandObject, May
<1>8. CASE Logs(u)
  <2>1. CommandGrows /\ object' \in ObjectRecords /\ ObjectInv' /\ StreamTurn(u)
    BY <1>8, SameCommand, ObjectStays DEF Logs, StreamTurn
  <2> QED
    BY <1>8, <2>1, BeginsChange DEF Logs, May
<1>9. CASE Wait(u)
  <2>1. object' = known
    BY <1>9 DEF Wait, known
  <2>2. object' \in ObjectRecords /\ ObjectInv'
    BY <1>1, <1>4, <1>9, <2>1 DEF ObjectInv, Brought, Wait
  <2>3. CommandGrows /\ StreamTurn(u)
    BY <1>9, SameCommand DEF Wait, StreamTurn
  <2> QED
    BY <1>9, <2>2, <2>3, BeginsChange DEF Wait, May
<1>10. CASE Kill(u)
  <2>1. object' = known
    BY <1>10 DEF Kill, known
  <2>2. CommandGrows
    BY <1>1, <1>10 DEF Kill, CommandGrows
  <2>3. object' \in ObjectRecords /\ ObjectInv'
    BY <1>1, <1>4, <2>1, <2>2, BroughtStays DEF ObjectInv, Brought, BroughtNext
  <2>4. StreamTurn(u)
    BY <1>10 DEF Kill, StreamTurn
  <2> QED
    BY <1>10, <2>2, <2>3, <2>4, BeginsChange DEF Kill, May
<1>11. CASE Output(u)
  <2>1. CommandGrows
    BY <1>11, SameCommand DEF Output
  <2>2. Begins(u, "output", "output") /\ user[u].pc = "idle"
    BY <1>11 DEF Output, May
  <2>3. CASE object.cache # "none"
    <3>1. object' \in ObjectRecords /\ ObjectInv' /\ StreamTurn(u)
      BY <1>11, <2>1, <2>3, ObjectStays DEF Output, StreamTurn
    <3> QED
      BY <2>1, <2>2, <3>1, BeginsChange
  <2>4. CASE object.cache = "none" /\ u \in cutUsers
    <3> DEFINE o == [object EXCEPT !.cache = "rejected"]
    <3>1. /\ o \in ObjectRecords /\ o.cache = "rejected" /\ o.owner = object.owner
          /\ o.resolved = object.resolved /\ o.out = object.out
      BY <1>1 DEF ObjectRecords
    <3>2. object' = o /\ UNCHANGED <<stream, command>>
      BY <1>11, <2>4 DEF Output
    <3> HIDE DEF o
    <3>3. object' \in ObjectRecords /\ ObjectInv' /\ StreamTurn(u)
      BY <1>1, <2>4, <3>1, <3>2 DEF ObjectInv, Brought, StreamTurn
    <3> QED
      BY <2>1, <2>2, <3>3, BeginsChange
  <2>5. CASE object.cache = "none" /\ u \notin cutUsers
    <3> DEFINE o == [object EXCEPT !.cache = "fetching", !.owner = u, !.client = TRUE]
    <3>1. /\ o \in ObjectRecords /\ o.cache = "fetching" /\ o.owner = u
          /\ o.resolved = object.resolved /\ o.out = object.out
      BY <1>1 DEF ObjectRecords
    <3>2. object' = o /\ UNCHANGED command /\ stream' = [stream EXCEPT !["cache"] = Asking]
      BY <1>11, <2>5 DEF Output
    <3> HIDE DEF o
    <3>3. object' \in ObjectRecords /\ ObjectInv' /\ StreamTurn(u)
      BY <1>1, <2>5, <3>1, <3>2, SdkCommandsAssumption DEF ObjectInv, Brought, StreamTurn
    <3> QED
      BY <2>1, <2>2, <3>3, BeginsChange
  <2> QED
    BY <2>3, <2>4, <2>5
<1> QED
  BY <1>5, <1>6, <1>7, <1>8, <1>9, <1>10, <1>11 DEF StartUser

\* A call goes on or ends.
LEMMA UserStepInv ==
  ASSUME CommandsInv, NEW u \in Users, UserStep(u)
  PROVE  CommandsInv'
<1>1. u \in Streams /\ StreamInv(u) /\ UserInv(u) /\ object.out \in Outputs /\ ObjectInv
      /\ Shown(u) \in Outputs
  BY ShownTypes DEF CommandsInv, CommandTypes, Streams, ObjectRecords
<1>2. CASE RunRecord(u) \/ LogsRecord(u)
  BY <1>1, <1>2, TakeStep DEF RunRecord, LogsRecord
<1>3. CASE RunEnd(u)
  <2>1. Brought(Shown(u)) /\ command.st = "ended"
    BY <1>1, <1>3, CleanShown DEF RunEnd, Clean, StreamInv
  <2>2. user[u].pc # "idle" /\ Ends(u, "ok", Shown(u)) /\ UNCHANGED <<command, object>>
    BY <1>3 DEF RunEnd
  <2>3. StreamTurn(u)
    BY <1>3 DEF RunEnd, Leave, StreamTurn
  <2> QED
    BY <1>1, <2>1, <2>2, <2>3, EndsChange
<1>4. CASE RunFail(u)
  <2>1. user[u].pc # "idle" /\ Ends(u, "error", Nothing) /\ UNCHANGED <<command, object>>
    BY <1>4 DEF RunFail
  <2>2. StreamTurn(u)
    BY <1>4 DEF RunFail, Leave, StreamTurn
  <2> QED
    BY <2>1, <2>2, NothingTypes, EndsChange
<1>5. CASE LogsEnd(u)
  <2>1. user[u].pc = "logs" /\ UNCHANGED <<command, object>> /\ StreamTurn(u)
        /\ user[u].op # "run"
    BY <1>1, <1>5 DEF LogsEnd, Leave, StreamTurn, UserInv
  <2>2. CASE Clean(u, "end") /\ Ends(u, "ok", Shown(u))
    <3>1. Brought(Shown(u))
      BY <1>1, <2>1, <2>2, CleanShown DEF Clean, StreamInv, OfRun
    <3> QED
      BY <1>1, <2>1, <2>2, <3>1, EndsChange
  <2>3. CASE \E how \in {"quiet", "error"} : Ends(u, how, Nothing)
    BY <2>1, <2>3, NothingTypes, EndsChange
  <2> QED
    BY <1>5, <2>2, <2>3 DEF LogsEnd
<1>6. CASE WaitAnswered(u)
  <2>1. user[u].pc = "wait" /\ UNCHANGED <<command, object>> /\ StreamTurn(u)
        /\ user[u].op = "wait"
    BY <1>1, <1>6 DEF WaitAnswered, StreamTurn, UserInv
  <2>2. \E how \in {"ok", "error"} : Ends(u, how, Nothing)
    BY <1>6 DEF WaitAnswered
  <2> QED
    BY <2>1, <2>2, NothingTypes, EndsChange
<1>7. CASE OutputKnown(u)
  <2>1. user[u].pc = "output" /\ UNCHANGED <<command, object>> /\ StreamTurn(u)
        /\ user[u].op # "run"
    BY <1>1, <1>7 DEF OutputKnown, StreamTurn, UserInv
  <2>2. CASE object.cache = "done" /\ Ends(u, "ok", object.out)
    <3>1. Brought(object.out)
      BY <1>1, <2>2 DEF ObjectInv
    <3> QED
      BY <1>1, <2>1, <2>2, <3>1, EndsChange
  <2>3. CASE Ends(u, "error", Nothing)
    BY <2>1, <2>3, NothingTypes, EndsChange
  <2> QED
    BY <1>7, <2>2, <2>3 DEF OutputKnown
<1> QED
  BY <1>2, <1>3, <1>4, <1>5, <1>6, <1>7 DEF UserStep

\* The fetch of the output goes on or is over.
LEMMA CacheStepInv ==
  ASSUME CommandsInv, CacheStep
  PROVE  CommandsInv'
<1>1. "cache" \in Streams /\ StreamInv("cache") /\ ~OfRun("cache") /\ Shown("cache") \in Outputs
  BY SdkCommandsAssumption, ShownTypes DEF CommandsInv, Streams, OfRun
<1>2. object \in ObjectRecords /\ ObjectInv
  BY DEF CommandsInv, CommandTypes
<1>3. CASE OutputRecord
  BY <1>1, <1>3, TakeStep DEF OutputRecord
<1>4. CASE OutputDone
  <2> DEFINE n == Shown("cache")
             o == [object EXCEPT !.cache = "done", !.owner = "none", !.resolved = TRUE, !.out = n]
  <2>1. Brought(n)
    BY <1>1, <1>4, CleanShown DEF OutputDone, Clean, StreamInv
  <2>2. /\ o \in ObjectRecords /\ o.cache = "done" /\ o.owner = "none"
        /\ o.resolved /\ o.out = n
    BY <1>1, <1>2 DEF ObjectRecords
  <2>3. object' = o /\ UNCHANGED command
    BY <1>4 DEF OutputDone
  <2> HIDE DEF o
  <2>4. object' \in ObjectRecords /\ ObjectInv'
    BY <2>1, <2>2, <2>3 DEF ObjectInv, Brought
  <2> HIDE DEF n
  <2>5. Settle("ok", n) /\ Leave("cache") /\ n \in Outputs
    BY <1>1, <1>4 DEF OutputDone, n
  <2> QED
    BY <2>1, <2>3, <2>4, <2>5, SettleChange
<1>5. CASE OutputFails
  <2> DEFINE o == [object EXCEPT !.cache = "none", !.owner = "none"]
  <2>1. /\ o \in ObjectRecords /\ o.cache = "none" /\ o.owner = "none"
        /\ o.resolved = object.resolved /\ o.out = object.out
    BY <1>2 DEF ObjectRecords
  <2>2. object' = o /\ UNCHANGED command
    BY <1>5 DEF OutputFails
  <2> HIDE DEF o
  <2>3. object' \in ObjectRecords /\ ObjectInv'
    BY <1>2, <2>1, <2>2 DEF ObjectInv, Brought
  <2>4. Settle("error", Nothing) /\ Leave("cache")
    BY <1>5 DEF OutputFails
  <2> QED
    BY <2>2, <2>3, <2>4, NothingTypes, SettleChange
<1> QED
  BY <1>3, <1>4, <1>5 DEF CacheStep

\* The Command object of another workflow step.
LEMMA DeserializeStep ==
  ASSUME CommandsInv, DeserializeCommand
  PROVE  CommandsInv'
<1>1. object \in ObjectRecords /\ ObjectInv /\ UNCHANGED <<command, stream, user>>
  BY DEF CommandsInv, CommandTypes, DeserializeCommand
<1>2. object' \in ObjectRecords /\ ObjectInv'
  <2>1. CASE object.resolved
    BY <1>1, <2>1 DEF DeserializeCommand, NoObject, ObjectRecords, ObjectInv, Brought
  <2>2. CASE ~object.resolved
    BY <1>1, <2>2, NothingTypes DEF DeserializeCommand, NoObject, ObjectRecords, ObjectInv
  <2> QED
    BY <2>1, <2>2
<1>3. CommandTypes'
  BY <1>1, <1>2 DEF CommandsInv, CommandTypes
<1>4. \A x \in Streams : StreamInv(x)'
  BY <1>1 DEF CommandsInv, StreamInv, OfRun, Brought, SentOf
<1>5. \A u \in Users : UserInv(u)'
  BY <1>1 DEF CommandsInv, UserInv, Brought
<1> QED
  BY <1>2, <1>3, <1>4, <1>5 DEF CommandsInv

(* Whatever the calls, the streams and the command do, the state is as       *)
(* CommandsInv says.                                                         *)
THEOREM CommandsInvariant == CommandsSpec => []CommandsInv
<1>1. CommandsInit => CommandsInv
  BY CommandsInitial
<1>2. CommandsInv /\ [CommandsNext]_commandVars => CommandsInv'
  <2> SUFFICES ASSUME CommandsInv, [CommandsNext]_commandVars PROVE CommandsInv'
    OBVIOUS
  <2>1. CASE CommandWrites \/ CommandEnds
    <3>1. CommandGrows /\ UNCHANGED <<stream, object, user>>
      BY <2>1 DEF CommandsInv, CommandTypes, CommandWrites, CommandEnds, CommandGrows
    <3> QED
      BY <3>1, CommandStep
  <2>2. CASE CacheStep
    BY <2>2, CacheStepInv
  <2>3. CASE DeserializeCommand
    BY <2>3, DeserializeStep
  <2>4. CASE \E x \in Streams : StreamStep(x) \/ CutLog(x) \/ EndEarly(x) \/ BreakPipe(x)
    BY <2>4, StreamStepInv
  <2>5. CASE \E u \in Users : StartUser(u)
    BY <2>5, StartStep
  <2>6. CASE \E u \in Users : UserStep(u)
    BY <2>6, UserStepInv
  <2>7. CASE (\E u \in Users : CutUser(u)) \/ UNCHANGED commandVars
    <3>1. UNCHANGED <<command, stream, object, user>>
      BY <2>7 DEF CutUser, commandVars
    <3> QED
      BY <3>1, SameCommand, CommandStep
  <2> QED
    BY <2>1, <2>2, <2>3, <2>4, <2>5, <2>6, <2>7 DEF CommandsNext
<1> QED
  BY <1>1, <1>2, PTL DEF CommandsSpec

(* Whatever a finished run, a log followed to its end, output() or a         *)
(* serialized command shows is all the command has written, unless the API   *)
(* itself ended the log as if it were whole, for any calls, however the      *)
(* streams break off and the signals fire; a finished run has an ended       *)
(* command even then.                                                        *)
THEOREM OutputsAreWholeUnlessCut == CommandsSpec => []OutputWholeUnlessCut
<1>1. CommandsInv => OutputWholeUnlessCut
  BY DEF CommandsInv, UserInv, ObjectInv, OutputWholeUnlessCut
<1> QED
  BY <1>1, CommandsInvariant, PTL

-----------------------------------------------------------------------------
(* Lists: numbers and pages.                                                *)

Less == {pair \in Nat \X Nat : pair[1] < pair[2]}

\* A set of numbers that is not empty has a least one.
LEMMA LeastNumber ==
  ASSUME NEW S \in SUBSET Nat, S # {}
  PROVE  \E m \in S : \A k \in S : m <= k
<1>1. IsWellFoundedOn(Less, Nat)
  BY NatLessThanWellFounded DEF OpToRel, Less
<1>2. PICK m \in S : \A k \in S : <<k, m>> \notin Less
  BY <1>1, WFMin
<1>3. ASSUME NEW k \in S
      PROVE  m <= k
  <2>1. ~(k < m)
    BY <1>2 DEF Less
  <2> QED
    BY <2>1
<1> QED
  BY <1>2, <1>3

\* Among numbers up to MaxItem there is a greatest one.
LEMMA GreatestItem ==
  ASSUME NEW S \in SUBSET Items, S # {}
  PROVE  \E m \in S : \A k \in S : k <= m
<1> DEFINE T == {MaxItem - i : i \in S}
<1>1. MaxItem \in Nat /\ \A i \in S : i \in Nat /\ i <= MaxItem
  BY SdkPagesAssumption DEF Items
<1>2. T \in SUBSET Nat /\ T # {}
  BY <1>1
<1> HIDE DEF T
<1>3. PICK d \in T : \A e \in T : d <= e
  BY <1>2, LeastNumber
<1>4. PICK m \in S : d = MaxItem - m
  BY DEF T
<1>5. ASSUME NEW k \in S PROVE k <= m
  <2>1. d <= MaxItem - k
    BY <1>3 DEF T
  <2> QED
    BY <1>1, <1>4, <2>1
<1> QED
  BY <1>5

\* The items before a foremost one are foremost, and of any items one is.
LEMMA ForemostItems ==
  ASSUME NEW s \in SUBSET Items, NEW n \in Nat \ {0}
  PROVE  /\ Foremost(s, n) \subseteq s
         /\ \A i \in s \ Foremost(s, n), j \in Foremost(s, n) : j < i
         /\ s # {} => Foremost(s, n) # {}
<1>1. IsFiniteSet(s) /\ s \subseteq Nat
  <2>1. MaxItem \in Int /\ 1 \in Int /\ s \subseteq 1..MaxItem
    BY SdkPagesAssumption DEF Items
  <2>2. IsFiniteSet(1..MaxItem)
    BY <2>1, FS_Interval
  <2>3. IsFiniteSet(s)
    BY <2>1, <2>2, FS_Subset
  <2> QED
    BY <2>1, <2>3
<1>2. Foremost(s, n) \subseteq s
  BY DEF Foremost
<1>3. ASSUME NEW i \in s \ Foremost(s, n), NEW j \in Foremost(s, n) PROVE j < i
  <2>1. i \in Nat /\ j \in Nat /\ j \in s /\ i # j
    BY <1>1, <1>2
  <2>2. SUFFICES ASSUME i < j PROVE FALSE
    BY <2>1
  <2> DEFINE I == {k \in s : k < i}
             J == {k \in s : k < j}
  <2>3. \A k \in s : k < i => k < j
    BY <1>1, <2>1, <2>2
  <2>4. I \subseteq J
    BY <2>3
  <2>5. IsFiniteSet(I) /\ IsFiniteSet(J)
    BY <1>1, FS_Subset
  <2>6. Cardinality(I) \in Nat /\ Cardinality(J) \in Nat /\ Cardinality(I) <= Cardinality(J)
    BY <2>4, <2>5, FS_Subset, FS_CardinalityType
  <2>7. Cardinality(J) < n /\ ~(Cardinality(I) < n)
    BY <2>1 DEF Foremost
  <2> QED
    BY <2>6, <2>7
<1>4. ASSUME s # {} PROVE Foremost(s, n) # {}
  <2>1. PICK m \in s : \A k \in s : m <= k
    BY <1>1, <1>4, LeastNumber
  <2>2. \A k \in s : ~(k < m)
    BY <1>1, <2>1
  <2>3. {k \in s : k < m} = {}
    BY <2>2
  <2>4. Cardinality({k \in s : k < m}) = 0
    BY <2>3, FS_EmptySet
  <2> QED
    BY <2>4 DEF Foremost
<1> QED
  BY <1>2, <1>3, <1>4

PageRecords == [items : SUBSET Items, next : Nat, known : BOOLEAN]

\* A page holds items behind its cursor, and leaves out only items behind it.
LEMMA PageIsNext ==
  ASSUME listed \subseteq Items, NEW cursor \in Nat, NEW page, page = PageAfter(cursor)
  PROVE  /\ page \in PageRecords /\ page.known
         /\ \A i \in page.items : i > cursor
         /\ \A i \in listed : i > cursor =>
              i \in page.items \/ (page.next # 0 /\ i > page.next)
         /\ page.next # 0 => page.next > cursor /\ \A i \in page.items : i <= page.next
<1> DEFINE rest == {i \in listed : i > cursor}
           items == Foremost(rest, PageSize)
           last == CHOOSE i \in items : \A j \in items : j <= i
<1>1. page.items = items /\ page.known = TRUE /\ page.next = (IF items = rest THEN 0 ELSE last)
      /\ page = [items |-> items, known |-> TRUE, next |-> IF items = rest THEN 0 ELSE last]
  BY DEF PageAfter
<1>2. rest \in SUBSET Items /\ PageSize \in Nat \ {0}
  BY SdkPagesAssumption
<1>3. Items \subseteq Nat \ {0}
  BY SdkPagesAssumption DEF Items
<1>4. rest \subseteq Nat /\ \A i \in rest : i > cursor
  BY <1>2, <1>3
<1> HIDE DEF rest
<1>5. /\ items \subseteq rest
      /\ \A i \in rest \ items, j \in items : j < i
      /\ rest # {} => items # {}
  BY <1>2, ForemostItems
<1> HIDE DEF items
<1>6. CASE items = rest
  BY <1>1, <1>2, <1>4, <1>6 DEF PageRecords, rest
<1>7. CASE items # rest
  <2>1. items \in SUBSET Items /\ items # {}
    BY <1>2, <1>5, <1>7
  <2>2. \E i \in items : \A j \in items : j <= i
    BY <2>1, GreatestItem
  <2>3. last \in items /\ \A j \in items : j <= last
    BY <2>2
  <2> HIDE DEF last
  <2>4. last \in Nat \ {0} /\ last > cursor
    BY <1>3, <1>4, <1>5, <2>1, <2>3
  <2>5. \A i \in rest : i \in items \/ i > last
    BY <1>3, <1>4, <1>5, <2>3, <2>4
  <2>6. \A i \in listed : i > cursor => i \in rest
    BY DEF rest
  <2>7. page.next = last
    BY <1>1, <1>7
  <2> QED
    BY <1>1, <1>4, <1>5, <1>7, <2>1, <2>3, <2>4, <2>5, <2>6, <2>7 DEF PageRecords
<1> QED
  BY <1>6, <1>7

-----------------------------------------------------------------------------
(* Lists: what a walk has not missed.                                       *)

WalkRecords == [pc : {"idle", "items", "done", "error"}, page : PageRecords,
                left : SUBSET Items, got : SUBSET Items, last : Nat]

\* What was there all the time is in s or behind the cursor of the next page.
Reached(page, s) ==
  /\ \A i \in lasting : i \in s \/ (page.next # 0 /\ i > page.next)
  /\ page.next # 0 => \A i \in page.items : i <= page.next

\* A walk that goes on has all before the cursor, or has it yet to yield; it
\* has not gone past the cursor.
WalkInv(w) ==
  /\ walk[w].pc = "idle" => walk[w] = NoWalk
  /\ walk[w].pc = "items" => Reached(walk[w].page, walk[w].got \cup walk[w].left)
  /\ walk[w].pc = "items" /\ walk[w].page.next # 0 =>
       walk[w].last <= walk[w].page.next /\ \A i \in walk[w].left : i <= walk[w].page.next
  /\ walk[w].pc = "done" => lasting \subseteq walk[w].got
  /\ \A i \in walk[w].left : i > walk[w].last

PagesInv ==
  /\ lasting \subseteq listed /\ listed \subseteq Items
  /\ firstPage \in PageRecords /\ walk \in [Walks -> WalkRecords]
  /\ firstPage.known => Reached(firstPage, firstPage.items)
  /\ \A w \in Walks : WalkInv(w)

\* The record of one walk changes.
LEMMA WalkChange ==
  ASSUME PagesInv, UNCHANGED <<listed, lasting, firstPage>>, NEW w \in Walks, NEW r \in WalkRecords,
         walk' = [walk EXCEPT ![w] = r], WalkInv(w)'
  PROVE  PagesInv'
<1>1. \A v \in Walks : v # w => walk'[v] = walk[v]
  BY DEF PagesInv
<1>2. \A v \in Walks : WalkInv(v)'
  BY <1>1 DEF PagesInv, WalkInv, Reached
<1>3. walk' \in [Walks -> WalkRecords]
  BY DEF PagesInv
<1>4. firstPage'.known => Reached(firstPage, firstPage.items)'
  BY DEF PagesInv, Reached
<1> QED
  BY <1>2, <1>3, <1>4 DEF PagesInv

LEMMA PagesInitial == PagesInit => PagesInv
<1>1. NoPage \in PageRecords /\ NoPage.known = FALSE
  BY DEF NoPage, PageRecords
<1>2. /\ NoWalk \in WalkRecords /\ NoWalk.pc = "idle" /\ NoWalk.left = {}
  BY <1>1 DEF NoWalk, WalkRecords
<1> QED
  BY <1>1, <1>2 DEF PagesInit, PagesInv, WalkInv

LEMMA EditStep ==
  ASSUME PagesInv, NEW i \in Items, Edit(i)
  PROVE  PagesInv'
<1>1. lasting' \subseteq lasting /\ lasting' \subseteq listed' /\ listed' \subseteq Items
  BY DEF PagesInv, Edit
<1>2. UNCHANGED <<firstPage, walk>>
  BY DEF Edit
<1>3. \A page, s : Reached(page, s) =>
        /\ \A j \in lasting' : j \in s \/ (page.next # 0 /\ j > page.next)
        /\ page.next # 0 => \A j \in page.items : j <= page.next
  BY <1>1 DEF Reached
<1>4. firstPage'.known => Reached(firstPage, firstPage.items)'
  BY <1>2, <1>3 DEF PagesInv, Reached
<1>5. \A w \in Walks : WalkInv(w)'
  BY <1>1, <1>2, <1>3 DEF PagesInv, WalkInv, Reached
<1> QED
  BY <1>1, <1>2, <1>4, <1>5 DEF PagesInv

LEMMA FetchFirstStep ==
  ASSUME PagesInv, FetchFirst
  PROVE  PagesInv'
<1> DEFINE page == PageAfter(0)
<1>1. firstPage' = page /\ UNCHANGED <<listed, lasting, walk>>
  BY DEF FetchFirst
<1>2. /\ page \in PageRecords
      /\ \A i \in listed : i > 0 => i \in page.items \/ (page.next # 0 /\ i > page.next)
      /\ page.next # 0 => \A i \in page.items : i <= page.next
  BY PageIsNext DEF PagesInv
<1> HIDE DEF page
<1>3. \A i \in lasting : i \in listed /\ i > 0
  BY SdkPagesAssumption DEF PagesInv, Items
<1>4. Reached(firstPage, firstPage.items)'
  BY <1>1, <1>2, <1>3 DEF Reached
<1>5. \A w \in Walks : WalkInv(w)'
  BY <1>1 DEF PagesInv, WalkInv, Reached
<1> QED
  BY <1>1, <1>2, <1>4, <1>5 DEF PagesInv

\* The walk begins with the page that was fetched, however long ago.
LEMMA IterateStep ==
  ASSUME PagesInv, NEW w \in Walks, IterateItems(w)
  PROVE  PagesInv'
<1>1. walk[w] = NoWalk /\ walk[w] \in WalkRecords /\ firstPage \in PageRecords
  BY DEF PagesInv, WalkInv, IterateItems
<1>2. firstPage.known /\ UNCHANGED <<listed, lasting, firstPage>>
  BY DEF IterateItems
<1>3. CASE stopped
  <2> DEFINE r == [walk[w] EXCEPT !.pc = "error"]
  <2>1. r \in WalkRecords /\ r.pc = "error" /\ r.left = {}
    BY <1>1 DEF WalkRecords, NoWalk
  <2>2. walk' = [walk EXCEPT ![w] = r]
    BY <1>3 DEF IterateItems, Thrown, PagesInv
  <2> HIDE DEF r
  <2>3. WalkInv(w)'
    BY <2>1, <2>2 DEF WalkInv, PagesInv
  <2> QED
    BY <1>2, <2>1, <2>2, <2>3, WalkChange
<1>4. CASE ~stopped
  <2> DEFINE r == [walk[w] EXCEPT !.pc = "items", !.page = firstPage, !.left = firstPage.items]
  <2>1. /\ r \in WalkRecords /\ r.pc = "items" /\ r.page = firstPage
        /\ r.left = firstPage.items /\ r.got = {} /\ r.last = 0
    <3>1. walk[w].got = {} /\ walk[w].last = 0
      BY <1>1 DEF NoWalk
    <3>2. firstPage.items \in SUBSET Items
      BY <1>1 DEF PageRecords
    <3> QED
      BY <1>1, <3>1, <3>2 DEF WalkRecords
  <2>2. walk' = [walk EXCEPT ![w] = r]
    BY <1>4 DEF IterateItems, PagesInv
  <2> HIDE DEF r
  <2>3. Reached(firstPage, firstPage.items) /\ firstPage.items \subseteq Items /\ firstPage.next \in Nat
    BY <1>1, <1>2 DEF PagesInv, PageRecords
  <2>4. \A i \in Items : i > 0
    BY SdkPagesAssumption DEF Items
  <2>5. walk'[w] = r
    BY <2>2 DEF PagesInv
  <2>6. WalkInv(w)'
    BY <1>2, <2>1, <2>3, <2>4, <2>5 DEF WalkInv, Reached
  <2> QED
    BY <1>2, <2>1, <2>2, <2>6, WalkChange
<1> QED
  BY <1>3, <1>4

\* Only the pc of a walk changes: it breaks off, or has come to the end.
LEMMA WalkOver ==
  ASSUME PagesInv, NEW w \in Walks, NEW pc \in {"done", "error"},
         walk' = [walk EXCEPT ![w].pc = pc], UNCHANGED <<listed, lasting, firstPage>>,
         pc = "done" => walk[w].pc = "items" /\ walk[w].left = {} /\ walk[w].page.next = 0
  PROVE  PagesInv'
<1> DEFINE r == [walk[w] EXCEPT !.pc = pc]
<1>1. walk[w] \in WalkRecords /\ WalkInv(w)
  BY DEF PagesInv
<1>2. r \in WalkRecords /\ r.pc = pc /\ r.left = walk[w].left /\ r.got = walk[w].got
      /\ r.last = walk[w].last
  BY <1>1 DEF WalkRecords
<1>3. walk' = [walk EXCEPT ![w] = r]
  BY DEF PagesInv
<1> HIDE DEF r
<1>4. pc = "done" => lasting \subseteq walk[w].got
  BY <1>1 DEF WalkInv, Reached
<1>5. WalkInv(w)'
  BY <1>1, <1>2, <1>3, <1>4 DEF WalkInv, PagesInv
<1> QED
  BY <1>2, <1>3, <1>5, WalkChange

LEMMA YieldStep ==
  ASSUME PagesInv, NEW w \in Walks, YieldItem(w)
  PROVE  PagesInv'
<1>1. walk[w] \in WalkRecords /\ WalkInv(w) /\ walk[w].pc = "items" /\ walk[w].left # {}
      /\ UNCHANGED <<listed, lasting, firstPage>>
  BY DEF PagesInv, YieldItem
<1>2. CASE stopped
  BY <1>1, <1>2, WalkOver DEF YieldItem, Thrown
<1>3. CASE ~stopped
  <2> DEFINE i == CHOOSE i \in walk[w].left : \A j \in walk[w].left : i <= j
             r == [walk[w] EXCEPT !.left = walk[w].left \ {i}, !.got = walk[w].got \cup {i},
                                  !.last = i]
  <2>1. walk[w].left \in SUBSET Items /\ Items \subseteq Nat
    BY <1>1, SdkPagesAssumption DEF WalkRecords, Items
  <2>2. \E m \in walk[w].left : \A k \in walk[w].left : m <= k
    BY <1>1, <2>1, LeastNumber
  <2>3. i \in walk[w].left /\ \A j \in walk[w].left : i <= j
    BY <2>2
  <2>4. walk' = [walk EXCEPT ![w] = r]
    BY <1>3 DEF YieldItem, PagesInv
  <2> HIDE DEF i
  <2>5. /\ r \in WalkRecords /\ r.pc = "items" /\ r.page = walk[w].page /\ r.last = i
        /\ r.left = walk[w].left \ {i} /\ r.got = walk[w].got \cup {i}
    BY <1>1, <2>1, <2>3 DEF WalkRecords
  <2> HIDE DEF r
  <2>6. r.got \cup r.left = walk[w].got \cup walk[w].left
    BY <2>3, <2>5
  <2>7. \A j \in r.left : j > r.last
    <3>1. \A j \in walk[w].left : j \in Nat /\ i \in Nat /\ i <= j
      BY <2>1, <2>3
    <3>2. \A j \in walk[w].left : j # i => j > i
      BY <3>1
    <3> QED
      BY <2>5, <3>2
  <2>8. walk'[w] = r
    BY <2>4 DEF PagesInv
  <2>9. WalkInv(w)'
    BY <1>1, <2>3, <2>5, <2>6, <2>7, <2>8 DEF WalkInv, Reached
  <2> QED
    BY <1>1, <2>4, <2>5, <2>9, WalkChange
<1> QED
  BY <1>2, <1>3

LEMMA NextPageStep ==
  ASSUME PagesInv, NEW w \in Walks, NextPage(w)
  PROVE  PagesInv'
<1>1. walk[w] \in WalkRecords /\ WalkInv(w) /\ walk[w].pc = "items" /\ walk[w].left = {}
      /\ UNCHANGED <<listed, lasting, firstPage>>
  BY DEF PagesInv, NextPage
<1>2. CASE walk[w].page.next = 0 /\ Walked(w)
  BY <1>1, <1>2, WalkOver DEF Walked
<1>3. CASE Thrown(w)
  BY <1>1, <1>3, WalkOver DEF Thrown
<1>4. CASE /\ walk[w].page.next # 0
           /\ LET page == PageAfter(walk[w].page.next)
              IN walk' = [walk EXCEPT ![w].page = page, ![w].left = page.items]
  <2> DEFINE cursor == walk[w].page.next
             page == PageAfter(cursor)
             r == [walk[w] EXCEPT !.page = page, !.left = page.items]
  <2>1. cursor \in Nat /\ cursor # 0 /\ walk[w].last <= cursor /\ walk[w].last \in Nat
    BY <1>1, <1>4 DEF WalkRecords, PageRecords, WalkInv
  <2>2. walk' = [walk EXCEPT ![w] = r]
    BY <1>4 DEF PagesInv
  <2>3. \A j \in lasting : j \in walk[w].got \/ j > cursor
    BY <1>1, <2>1 DEF WalkInv, Reached
  <2> HIDE DEF cursor
  <2>4. /\ page \in PageRecords /\ \A j \in page.items : j > cursor
        /\ \A j \in listed : j > cursor =>
             j \in page.items \/ (page.next # 0 /\ j > page.next)
        /\ page.next # 0 => page.next > cursor /\ \A j \in page.items : j <= page.next
    BY <2>1, PageIsNext DEF PagesInv
  <2> HIDE DEF page
  <2>5. /\ r \in WalkRecords /\ r.pc = "items" /\ r.page = page /\ r.left = page.items
        /\ r.got = walk[w].got /\ r.last = walk[w].last
    BY <1>1, <2>4 DEF WalkRecords, PageRecords
  <2> HIDE DEF r
  <2>6. page.next \in Nat /\ page.items \subseteq Nat
    BY <2>4, SdkPagesAssumption DEF PageRecords, Items
  <2>7. walk'[w] = r
    BY <2>2 DEF PagesInv
  <2>8. \A j \in lasting : j \in walk[w].got \cup page.items \/ (page.next # 0 /\ j > page.next)
    BY <2>3, <2>4 DEF PagesInv
  <2>9. \A j \in page.items : j > r.last
    BY <2>1, <2>4, <2>5, <2>6
  <2>10. page.next # 0 => r.last <= page.next
    BY <2>1, <2>4, <2>5, <2>6
  <2>11. WalkInv(w)'
    BY <1>1, <2>4, <2>5, <2>7, <2>8, <2>9, <2>10 DEF WalkInv, Reached
  <2> QED
    BY <1>1, <2>2, <2>5, <2>11, WalkChange
<1> QED
  BY <1>2, <1>3, <1>4 DEF NextPage

THEOREM PagesInvariant == PagesSpec => []PagesInv
<1>1. PagesInv /\ [PagesNext]_pagesVars => PagesInv'
  <2> SUFFICES ASSUME PagesInv, [PagesNext]_pagesVars PROVE PagesInv'
    OBVIOUS
  <2>1. CASE \E i \in Items : Edit(i)
    BY <2>1, EditStep
  <2>2. CASE FetchFirst
    BY <2>2, FetchFirstStep
  <2>3. CASE StopPages \/ UNCHANGED pagesVars
    <3>1. UNCHANGED <<listed, lasting, firstPage, walk>>
      BY <2>3 DEF StopPages, pagesVars
    <3> QED
      BY <3>1 DEF PagesInv, WalkInv, Reached
  <2>4. CASE \E w \in Walks : IterateItems(w) \/ YieldItem(w) \/ NextPage(w)
    BY <2>4, IterateStep, YieldStep, NextPageStep
  <2> QED
    BY <2>1, <2>2, <2>3, <2>4
    DEF PagesNext, ListSandboxes, ListSessions, ListSnapshots, SnapshotList, SnapshotTree
<1> QED
  BY PagesInitial, <1>1, PTL DEF PagesSpec

(* A walk to the end of a list has missed nothing that was there all the     *)
(* time, and yields in the order of the list, whatever comes and goes.       *)
THEOREM WalksAreComplete == PagesSpec => []PagesComplete
<1>1. PagesInv => PagesComplete
  BY DEF PagesInv, WalkInv, PagesComplete
<1> QED
  BY <1>1, PagesInvariant, PTL

-----------------------------------------------------------------------------
(* Files: the ways to look at a path.                                       *)

LEMMA PathForms ==
  ASSUME NEW p \in Paths
  PROVE  /\ \/ Len(p) = 1 /\ p[1] \in Entries /\ p = <<p[1]>> /\ p \in Tops
            \/ Len(p) = 2 /\ p[1] \in Entries /\ p[2] \in Entries /\ p = <<p[1], p[2]>> /\ p \notin Tops
         /\ p # <<>>
<1>1. CASE p \in Tops
  <2>1. PICK n \in Entries : p = <<n>>
    BY <1>1 DEF Tops
  <2> QED
    BY <1>1, <2>1
<1>2. CASE p \in {<<n, m>> : n, m \in Entries}
  <2>1. PICK n \in Entries, m \in Entries : p = <<n, m>>
    BY <1>2
  <2>2. \A k : p # <<k>>
    BY <2>1
  <2>3. p \notin Tops
    BY <2>2 DEF Tops
  <2> QED
    BY <2>1, <2>3
<1> QED
  BY <1>1, <1>2 DEF Paths

\* A path that lstat finds has an entry, and it is not absent.
LEMMA LstatFinds ==
  ASSUME NEW t, NEW p \in Paths, ShellLstat(t, p) = ""
  PROVE  Enter(t, p) = "" /\ Place(t, p) # Nowhere /\ t[Place(t, p)].kind # "none"
<1>1. Enter(t, p) = "" /\ t[Place(t, p)].kind # "none"
  BY DEF ShellLstat, NoSuchFile
<1>2. CASE Len(p) = 1
  <2>1. Place(t, p) = p
    BY <1>2 DEF Place
  <2>2. p # Nowhere
    BY PathForms DEF Nowhere
  <2> QED
    BY <1>1, <2>1, <2>2
<1>3. CASE Len(p) # 1
  BY <1>1, <1>3 DEF Enter, Loop, NoSuchFile, NotADir
<1> QED
  BY <1>1, <1>2, <1>3

\* What is not a link is where the path leads.
LEMMA NoLinkToFollow ==
  ASSUME NEW t, NEW p \in Paths, ShellLstat(t, p) = "", t[Place(t, p)].kind # "link"
  PROVE  Follow(t, p) = Place(t, p) /\ Kind(t, p) = t[Place(t, p)].kind
BY LstatFinds DEF Follow, Kind

LEMMA ToldOk ==
  ASSUME NEW say
  PROVE  /\ Told(say) = "ok" <=> say = ""
         /\ Told(say) = "ENOENT" <=> say = NoSuchFile
BY DEF Told, NoSuchFile

LEMMA ViewsOfATree ==
  ASSUME NEW t, NEW p \in Paths
  PROVE  /\ FsExists(t, p) <=> FsAccess(t, p) = "ok"
         /\ FsExists(t, p) <=> FsStat(t, p) = "ok"
         /\ FsReadFile(t, p) = "ENOENT" <=> FsStat(t, p) = "ENOENT"
         /\ FsStat(t, p) = "ok" => FsLstat(t, p) = "ok" /\ FsRealpath(t, p) = "ok"
         /\ FsLstat(t, p) = "ok" /\ FsReadlink(t, p) # "ok" => FsStat(t, p) = "ok"
         /\ FsLstat(t, p) = "ok" /\ t[Place(t, p)].kind = "dir" =>
              FsReaddir(t, p).names = FsReaddirTyped(t, p).names \ Hidden
<1>1. FsExists(t, p) <=> FsAccess(t, p) = "ok"
  BY DEF FsExists, FsAccess
<1>2. FsExists(t, p) <=> FsStat(t, p) = "ok"
  BY ToldOk DEF FsExists, FsStat
<1>3. FsReadFile(t, p) = "ENOENT" <=> FsStat(t, p) = "ENOENT"
  <2>1. GuestRead(t, p) = "null" <=> ShellStat(t, p) = NoSuchFile
    BY DEF GuestRead
  <2>2. GuestRead(t, p) # "ENOENT"
    BY DEF GuestRead
  <2> QED
    BY <2>1, <2>2, ToldOk DEF FsReadFile, FsStat
<1>4. ASSUME FsStat(t, p) = "ok" PROVE FsLstat(t, p) = "ok" /\ FsRealpath(t, p) = "ok"
  <2>1. ShellStat(t, p) = ""
    BY <1>4, ToldOk DEF FsStat
  <2>2. ShellLstat(t, p) = "" /\ Follow(t, p) # Nowhere
    BY <2>1 DEF ShellStat, Loop
  <2>3. Enter(t, p) = ""
    BY <2>2, LstatFinds
  <2>4. ShellRealpath(t, p) = ""
    BY <2>2, <2>3 DEF ShellRealpath
  <2> QED
    BY <2>2, <2>4, ToldOk DEF FsLstat, FsRealpath
<1>5. ASSUME FsLstat(t, p) = "ok", FsReadlink(t, p) # "ok" PROVE FsStat(t, p) = "ok"
  <2>1. ShellLstat(t, p) = ""
    BY <1>5, ToldOk DEF FsLstat
  <2>2. t[Place(t, p)].kind # "link"
    <3> SUFFICES ASSUME t[Place(t, p)].kind = "link" PROVE FALSE
      OBVIOUS
    <3>1. ShellReadlink(t, p) = ""
      BY <2>1 DEF ShellReadlink
    <3>2. "" # NoSuchFile
      BY DEF NoSuchFile
    <3>3. FsReadlink(t, p) = "ok"
      BY <3>1, <3>2 DEF FsReadlink
    <3> QED
      BY <1>5, <3>3
  <2>3. Follow(t, p) = Place(t, p) /\ Place(t, p) # Nowhere /\ Kind(t, p) # "none"
    BY <2>1, <2>2, NoLinkToFollow, LstatFinds
  <2>4. ShellStat(t, p) = ""
    BY <2>1, <2>3 DEF ShellStat
  <2> QED
    BY <2>4, ToldOk DEF FsStat
<1>6. ASSUME FsLstat(t, p) = "ok", t[Place(t, p)].kind = "dir"
      PROVE  FsReaddir(t, p).names = FsReaddirTyped(t, p).names \ Hidden
  <2>1. ShellLstat(t, p) = ""
    BY <1>6, ToldOk DEF FsLstat
  <2>2. Follow(t, p) = Place(t, p) /\ Kind(t, p) = "dir"
    BY <1>6, <2>1, NoLinkToFollow
  <2> QED
    BY <2>2 DEF FsReaddir, FsReaddirTyped
<1> QED
  BY <1>1, <1>2, <1>3, <1>4, <1>5, <1>6

(* The ways to look at a path agree, for any tree of files and directories   *)
(* and of links that lead anywhere, however it came about.                   *)
THEOREM ViewsAlwaysAgree == FilesSpec => []ViewsAgree
<1>1. ViewsAgree
  BY ViewsOfATree DEF ViewsAgree
<1> QED
  BY <1>1, PTL

-----------------------------------------------------------------------------
(* Files: where links and paths lead.                                       *)

Nodes == {r \in [kind : {"none", "dir", "file", "link"}, to : Tops \cup {Nowhere},
                 data : SUBSET Writers] : r.kind = "link" => r.to \in Tops}

Trees == [Paths -> Nodes]

\* The links of the root point into the root.
RootOK(t) == \A q \in Tops : t[q].kind = "link" => t[q].to \in Tops

\* The places a walk along the links of the root comes to.
IsWalk(f, t, p, n) == f = [i \in 0..n |-> IF i = 0 THEN p ELSE Hop(t, f[i - 1])]

LEMMA TreeRoot ==
  ASSUME NEW t \in Trees
  PROVE  RootOK(t) /\ Tops \subseteq Paths /\ \A x \in Paths : t[x] \in Nodes
BY DEF Trees, Nodes, RootOK, Paths

\* A walk of any length exists.
LEMMA WalkExists ==
  ASSUME NEW t, NEW p, NEW n \in Nat
  PROVE  \E f : IsWalk(f, t, p, n)
<1> DEFINE Bad == {k \in Nat : ~\E f : IsWalk(f, t, p, k)}
<1>1. SUFFICES ASSUME Bad # {} PROVE FALSE
  OBVIOUS
<1>2. PICK m \in Bad : \A k \in Bad : m <= k
  BY <1>1, LeastNumber
<1>3. m # 0
  <2> DEFINE f == [i \in 0..0 |-> p]
  <2>1. IsWalk(f, t, p, 0)
    BY DEF IsWalk
  <2> QED
    BY <2>1
<1>4. m \in Nat /\ m - 1 \in Nat /\ m - 1 \notin Bad
  BY <1>2, <1>3
<1>5. PICK f : IsWalk(f, t, p, m - 1)
  BY <1>4
<1> DEFINE g == [i \in 0..m |-> IF i = m THEN Hop(t, f[m - 1]) ELSE f[i]]
<1>6. \A i \in 0..(m - 1) : f[i] = IF i = 0 THEN p ELSE Hop(t, f[i - 1])
  BY <1>5 DEF IsWalk
<1>7. \A i \in 0..m : g[i] = IF i = 0 THEN p ELSE Hop(t, g[i - 1])
  <2> SUFFICES ASSUME NEW i \in 0..m PROVE g[i] = IF i = 0 THEN p ELSE Hop(t, g[i - 1])
    OBVIOUS
  <2>1. CASE i = m
    BY <1>3, <1>4, <2>1
  <2>2. CASE i # m
    BY <1>4, <1>6, <2>2
  <2> QED
    BY <2>1, <2>2
<1>8. IsWalk(g, t, p, m)
  BY <1>7 DEF IsWalk
<1> QED
  BY <1>2, <1>8

\* A walk in the root stays there.
LEMMA WalkInRoot ==
  ASSUME NEW t, RootOK(t), NEW p \in Tops, NEW n \in Nat, NEW f, IsWalk(f, t, p, n)
  PROVE  \A i \in 0..n : f[i] \in Tops
<1> DEFINE Bad == {k \in Nat : k <= n /\ f[k] \notin Tops}
<1>1. SUFFICES ASSUME Bad # {} PROVE FALSE
  OBVIOUS
<1>2. PICK m \in Bad : \A k \in Bad : m <= k
  BY <1>1, LeastNumber
<1>3. \A i \in 0..n : f[i] = IF i = 0 THEN p ELSE Hop(t, f[i - 1])
  BY DEF IsWalk
<1>4. m # 0 /\ m \in 0..n
  BY <1>2, <1>3
<1>5. m - 1 \in 0..n /\ m - 1 \notin Bad
  BY <1>2, <1>4
<1>6. f[m - 1] \in Tops
  BY <1>5
<1>7. f[m] = Hop(t, f[m - 1])
  BY <1>3, <1>4
<1> QED
  BY <1>2, <1>6, <1>7 DEF Hop, RootOK

LEMMA HopsIsWalk ==
  ASSUME NEW t, NEW p
  PROVE  /\ Cardinality(Entries) \in Nat
         /\ IsWalk(Hops(t, p), t, p, Cardinality(Entries))
<1> DEFINE P(f) == IsWalk(f, t, p, Cardinality(Entries))
<1>1. Cardinality(Entries) \in Nat
  BY SdkFilesAssumption, FS_CardinalityType
<1>2. \E f : P(f)
  BY <1>1, WalkExists
<1>3. Hops(t, p) = CHOOSE f : P(f)
  BY DEF Hops, IsWalk
<1>4. P(CHOOSE f : P(f))
  <2> HIDE DEF P
  <2> QED
    BY <1>2
<1> QED
  BY <1>1, <1>3, <1>4

\* The links of the root lead to an entry of the root that is none, or nowhere.
LEMMA TopFollowIn ==
  ASSUME NEW t, RootOK(t), NEW p \in Tops
  PROVE  \/ TopFollow(t, p) = Nowhere
         \/ TopFollow(t, p) \in Tops /\ t[TopFollow(t, p)].kind # "link"
<1>1. Hops(t, p)[Cardinality(Entries)] \in Tops
  BY HopsIsWalk, WalkInRoot
<1> QED
  BY <1>1 DEF TopFollow

\* Where they lead depends on the root only.
LEMMA SameRoot ==
  ASSUME NEW s, NEW t, RootOK(s), \A q \in Tops : s[q] = t[q], NEW p \in Tops
  PROVE  TopFollow(s, p) = TopFollow(t, p)
<1> DEFINE n == Cardinality(Entries)
<1>1. n \in Nat /\ RootOK(t)
  BY HopsIsWalk DEF RootOK
<1>2. ASSUME NEW f, NEW u, NEW v, RootOK(u), \A q \in Tops : u[q] = v[q], IsWalk(f, u, p, n)
      PROVE  IsWalk(f, v, p, n)
  <2>1. \A i \in 0..n : f[i] \in Tops
    BY <1>1, <1>2, WalkInRoot
  <2>2. \A i \in 0..n : i # 0 => Hop(u, f[i - 1]) = Hop(v, f[i - 1])
    BY <1>1, <1>2, <2>1 DEF Hop
  <2> QED
    BY <1>2, <2>2 DEF IsWalk
<1>3. \A f : IsWalk(f, s, p, n) <=> IsWalk(f, t, p, n)
  BY <1>1, <1>2
<1>4. Hops(s, p) = Hops(t, p)
  BY <1>3 DEF Hops, IsWalk
<1>5. Hops(s, p)[n] \in Tops
  BY <1>1, HopsIsWalk, WalkInRoot
<1> QED
  BY <1>4, <1>5 DEF TopFollow

\* The entry a path names.
LEMMA PlaceIn ==
  ASSUME NEW t, RootOK(t), NEW p \in Paths
  PROVE  /\ Len(p) = 1 => Place(t, p) = p /\ p \in Tops
         /\ Len(p) = 2 => <<p[1]>> \in Tops /\
              \/ Place(t, p) = Nowhere
              \/ /\ TopFollow(t, <<p[1]>>) \in Tops /\ t[TopFollow(t, <<p[1]>>)].kind = "dir"
                 /\ Place(t, p) = <<TopFollow(t, <<p[1]>>)[1], p[2]>>
                 /\ Place(t, p) \in Paths \ Tops
         /\ Place(t, p) \in Paths \cup {Nowhere}
<1>1. CASE Len(p) = 1
  BY <1>1, PathForms DEF Place
<1>2. CASE Len(p) # 1
  <2>1. Len(p) = 2 /\ p[1] \in Entries /\ p[2] \in Entries
    BY <1>2, PathForms
  <2> DEFINE d == TopFollow(t, <<p[1]>>)
  <2>2. <<p[1]>> \in Tops
    BY <2>1 DEF Tops
  <2>3. d = Nowhere \/ d \in Tops
    BY <2>2, TopFollowIn
  <2>4. Place(t, p) = IF d # Nowhere /\ t[d].kind = "dir" THEN <<d[1], p[2]>> ELSE Nowhere
    BY <1>2 DEF Place
  <2> HIDE DEF d
  <2>5. ASSUME d # Nowhere, t[d].kind = "dir" PROVE d \in Tops /\ <<d[1], p[2]>> \in Paths \ Tops
    <3>1. PICK n \in Entries : d = <<n>>
      BY <2>3, <2>5 DEF Tops
    <3>2. <<d[1], p[2]>> \in Paths /\ Len(<<d[1], p[2]>>) = 2
      BY <2>1, <3>1 DEF Paths
    <3> QED
      BY <2>3, <2>5, <3>2, PathForms
  <2> QED
    BY <2>1, <2>2, <2>4, <2>5 DEF d
<1> QED
  BY <1>1, <1>2, PathForms

LEMMA FollowIn ==
  ASSUME NEW t \in Trees, NEW p \in Paths
  PROVE  Follow(t, p) \in Paths \cup {Nowhere}
<1>1. Place(t, p) \in Paths \cup {Nowhere} /\ RootOK(t)
  BY TreeRoot, PlaceIn
<1>2. CASE Place(t, p) # Nowhere /\ t[Place(t, p)].kind = "link"
  <2>1. t[Place(t, p)].to \in Tops
    BY <1>1, <1>2 DEF Trees, Nodes
  <2> QED
    BY <1>1, <1>2, <2>1, TopFollowIn, TreeRoot DEF Follow
<1> QED
  BY <1>1, <1>2 DEF Follow

-----------------------------------------------------------------------------
(* Files: what the commands make of a tree is a tree.                       *)

LEMMA NodesAre ==
  /\ Absent \in Nodes /\ Dir \in Nodes /\ Dir.kind = "dir"
  /\ \A q \in Tops : Link(q) \in Nodes
  /\ \A s \in SUBSET Writers : File(s) \in Nodes /\ File(s).kind = "file" /\ File(s).data = s
BY DEF Absent, Dir, Link, File, Nodes, Nowhere

LEMMA PutIn ==
  ASSUME NEW t \in Trees, NEW e, NEW node \in Nodes
  PROVE  Put(t, e, node).tree \in Trees /\ Put(t, e, node).say = ""
BY DEF Trees, Put

\* A command that fails, puts one entry into the tree, or makes a tree of it.
LEMMA FailOrPut ==
  ASSUME NEW t \in Trees, NEW r,
         \/ \E say : r = Fail(t, say)
         \/ \E e : \E node \in Nodes : r = Put(t, e, node)
         \/ \E u \in Trees : r = [say |-> "", tree |-> u]
  PROVE  r.tree \in Trees
<1>1. CASE \E say : r = Fail(t, say)
  <2>1. PICK say : r = Fail(t, say)
    BY <1>1
  <2>2. Fail(t, say).tree = t
    BY DEF Fail
  <2> QED
    BY <2>1, <2>2
<1>2. CASE \E e : \E node \in Nodes : r = Put(t, e, node)
  BY <1>2, PutIn
<1>3. CASE \E u \in Trees : r = [say |-> "", tree |-> u]
  <2>1. PICK u \in Trees : r = [say |-> "", tree |-> u]
    BY <1>3
  <2>2. [say |-> "", tree |-> u].tree = u
    OBVIOUS
  <2> QED
    BY <2>1, <2>2
<1> QED
  BY <1>1, <1>2, <1>3

LEMMA RmIn ==
  ASSUME NEW t \in Trees, NEW p \in Paths, NEW recursive, NEW force
  PROVE  ShellRm(t, p, recursive, force).tree \in Trees
<1> DEFINE e == Place(t, p)
           s == [x \in Paths |->
                  IF x = e \/ (t[e].kind = "dir" /\ x \in Children(t, e)) THEN Absent ELSE t[x]]
<1>1. s \in Trees
  BY NodesAre DEF Trees
<1>2. \/ \E say : ShellRm(t, p, recursive, force) = Fail(t, say)
      \/ ShellRm(t, p, recursive, force) = [say |-> "", tree |-> s]
  BY DEF ShellRm
<1> HIDE DEF s
<1> QED
  BY <1>1, <1>2, FailOrPut

LEMMA RmdirIn ==
  ASSUME NEW t \in Trees, NEW p \in Paths
  PROVE  ShellRmdir(t, p).tree \in Trees
<1>1. \/ \E say : ShellRmdir(t, p) = Fail(t, say)
      \/ \E e : ShellRmdir(t, p) = Put(t, e, Absent)
  BY DEF ShellRmdir
<1>2. Absent \in Nodes
  BY NodesAre
<1> QED
  BY <1>1, <1>2, FailOrPut

LEMMA MkdirIn ==
  ASSUME NEW t \in Trees, NEW p \in Paths, NEW parents \in BOOLEAN
  PROVE  ShellMkdir(t, p, parents).tree \in Trees
<1> DEFINE top == <<p[1]>>
           s == IF parents /\ Len(p) = 2 /\ t[top].kind = "none" THEN Put(t, top, Dir).tree ELSE t
<1>1. s \in Trees
  BY PutIn, NodesAre
<1>2. \/ \E say : ShellMkdir(t, p, parents) = Fail(t, say)
      \/ \E say : ShellMkdir(t, p, parents) = Fail(s, say)
      \/ \E e : ShellMkdir(t, p, parents) = Put(s, e, Dir)
  <2> DEFINE e == Place(s, p)
  <2>1. CASE e # Nowhere /\ s[e].kind = "none"
    <3>1. Kind(s, p) # "dir"
      BY <2>1 DEF Kind, Follow
    <3>2. ShellMkdir(t, p, parents) = Put(s, e, Dir)
      BY <2>1, <3>1 DEF ShellMkdir
    <3> QED
      BY <3>2
  <2>2. CASE ~(e # Nowhere /\ s[e].kind = "none")
    <3>1. CASE parents /\ Kind(s, p) = "dir"
      <4>1. ShellMkdir(t, p, parents) = Fail(s, "")
        BY <2>2, <3>1 DEF ShellMkdir
      <4> QED
        BY <4>1
    <3>2. CASE ~(parents /\ Kind(s, p) = "dir")
      <4>1. ShellMkdir(t, p, parents) = Fail(t, Other)
        BY <2>2, <3>2 DEF ShellMkdir
      <4> QED
        BY <4>1
    <3> QED
      BY <3>1, <3>2
  <2> QED
    BY <2>1, <2>2
<1>3. Dir \in Nodes
  BY NodesAre
<1> HIDE DEF s
<1> QED
  BY <1>1, <1>2, <1>3, FailOrPut

\* A path that lstat finds is one of the tree.
LEMMA LstatPlace ==
  ASSUME NEW t \in Trees, NEW p \in Paths, ShellLstat(t, p) = ""
  PROVE  Place(t, p) \in Paths
<1>1. Place(t, p) # Nowhere /\ RootOK(t)
  BY LstatFinds, TreeRoot
<1> QED
  BY <1>1, PlaceIn

LEMMA MvIn ==
  ASSUME NEW t \in Trees, NEW p \in Paths, NEW q \in Paths
  PROVE  ShellMv(t, p, q).tree \in Trees
<1> DEFINE from == Place(t, p)
           to   == Place(t, Aim(t, p, q))
           moved(x) == CASE x = to   -> t[from]
                         [] x = from -> Absent
                         [] x \in Children(t, from) /\ t[from].kind = "dir" -> Absent
                         [] OTHER -> IF t[from].kind = "dir" /\ Len(x) = 2 /\ x[1] = to[1]
                                     THEN t[<<from[1], x[2]>>] ELSE t[x]
           s == [x \in Paths |-> moved(x)]
<1>1. \/ \E say : ShellMv(t, p, q) = Fail(t, say)
      \/ ShellLstat(t, p) = "" /\ ShellMv(t, p, q) = [say |-> "", tree |-> s]
  BY DEF ShellMv
<1>2. ASSUME ShellLstat(t, p) = "" PROVE s \in Trees
  <2>1. from \in Paths
    BY <1>2, LstatPlace
  <2> HIDE DEF from, to
  <2>2. ASSUME NEW x \in Paths, Len(x) = 2 PROVE <<from[1], x[2]>> \in Paths
    <3>1. from[1] \in Entries /\ x[2] \in Entries
      BY <2>1, <2>2, PathForms
    <3> QED
      BY <3>1 DEF Paths
  <2>3. ASSUME NEW x \in Paths PROVE moved(x) \in Nodes
    BY <2>1, <2>2, TreeRoot, NodesAre
  <2> QED
    BY <2>3 DEF Trees
<1> HIDE DEF s
<1> QED
  BY <1>1, <1>2, FailOrPut

LEMMA CpIn ==
  ASSUME NEW t \in Trees, NEW p \in Paths, NEW q \in Paths
  PROVE  ShellCp(t, p, q).tree \in Trees
<1>1. \/ \E say : ShellCp(t, p, q) = Fail(t, say)
      \/ Kind(t, p) = "file" /\ \E to : ShellCp(t, p, q) = Put(t, to, t[Follow(t, p)])
  BY DEF ShellCp
<1>2. ASSUME Kind(t, p) = "file" PROVE t[Follow(t, p)] \in Nodes
  BY <1>2, FollowIn, TreeRoot DEF Kind
<1> QED
  BY <1>1, <1>2, FailOrPut

LEMMA LnIn ==
  ASSUME NEW t \in Trees, NEW target \in Tops, NEW p \in Paths
  PROVE  ShellLn(t, target, p).tree \in Trees
<1>1. \/ \E say : ShellLn(t, target, p) = Fail(t, say)
      \/ \E e : ShellLn(t, target, p) = Put(t, e, Link(target))
  BY DEF ShellLn
<1>2. Link(target) \in Nodes
  BY NodesAre
<1> QED
  BY <1>1, <1>2, FailOrPut

LEMMA TruncateIn ==
  ASSUME NEW t \in Trees, NEW p \in Paths
  PROVE  ShellTruncate(t, p).tree \in Trees
<1>1. \/ \E say : ShellTruncate(t, p) = Fail(t, say)
      \/ \E e : ShellTruncate(t, p) = Put(t, e, File({}))
  BY DEF ShellTruncate
<1>2. File({}) \in Nodes
  BY NodesAre
<1> QED
  BY <1>1, <1>2, FailOrPut

\* A write makes a tree, and when it succeeds the path leads to what it wrote.
LEMMA WriteIn ==
  ASSUME NEW t \in Trees, NEW p \in Paths, NEW data \in SUBSET Writers
  PROVE  /\ GuestWrite(t, p, data).tree \in Trees
         /\ GuestWrite(t, p, data).say = "" => Content(GuestWrite(t, p, data).tree, p) = data
<1> DEFINE s == IF Len(p) = 2 THEN ShellMkdir(t, <<p[1]>>, TRUE).tree ELSE t
           e == Place(s, p)
           u == Put(s, e, File(data)).tree
<1>1. s \in Trees
  <2>1. Len(p) = 2 => <<p[1]>> \in Paths
    BY TreeRoot, PlaceIn
  <2> QED
    BY <2>1, MkdirIn
<1>2. \/ GuestWrite(t, p, data) = Fail(s, Other)
      \/ /\ e # Nowhere /\ s[e].kind \notin {"dir", "link"}
         /\ GuestWrite(t, p, data) = Put(s, e, File(data))
  BY DEF GuestWrite
<1> HIDE DEF s
<1>3. u \in Trees
  BY <1>1, PutIn, NodesAre
<1>4. ASSUME e # Nowhere, s[e].kind # "dir" PROVE Content(u, p) = data
  <2>1. e \in Paths /\ RootOK(s)
    BY <1>1, <1>4, PlaceIn, TreeRoot
  <2>2. /\ u[e] = File(data) /\ \A x \in Paths : x # e => u[x] = s[x]
    BY <1>1, <2>1 DEF Put, Trees
  <2>3. Place(u, p) = e
    <3>1. CASE Len(p) = 1
      BY <3>1 DEF Place
    <3>2. CASE Len(p) = 2
      <4> DEFINE d == TopFollow(s, <<p[1]>>)
      <4>1. <<p[1]>> \in Tops /\ d \in Tops /\ s[d].kind = "dir" /\ e = <<d[1], p[2]>> /\ e \notin Tops
        BY <1>4, <2>1, <3>2, PlaceIn
      <4>2. \A x \in Tops : s[x] = u[x]
        BY <1>1, <2>2, <4>1, TreeRoot
      <4>3. TopFollow(u, <<p[1]>>) = d
        BY <2>1, <4>1, <4>2, SameRoot
      <4>4. u[d].kind = "dir" /\ d # Nowhere
        BY <1>1, <4>1, <4>2, TreeRoot, PathForms DEF Nowhere
      <4> QED
        BY <3>2, <4>1, <4>3, <4>4 DEF Place
    <3> QED
      BY <3>1, <3>2, PathForms
  <2> HIDE DEF e, u
  <2>4. u[e].kind = "file" /\ u[e].data = data
    BY <2>2, NodesAre
  <2>5. Follow(u, p) = e
    BY <1>4, <2>3, <2>4 DEF Follow
  <2> QED
    BY <1>4, <2>4, <2>5 DEF Content, Kind
<1>5. Fail(s, Other).tree \in Trees /\ Fail(s, Other).say # ""
  BY <1>1 DEF Fail, Other
<1> QED
  BY <1>2, <1>3, <1>4, <1>5

-----------------------------------------------------------------------------
(* Files: what an append found is there still, unless the file has changed. *)

Codes == {"none", "ok", "error", "null", "ENOENT", "ENOTEMPTY", "EACCES", "EEXIST"}

WriterRecords == [pc : {"idle", "append", "copy"}, path : Paths \cup {<<>>},
                  found : SUBSET Writers, late : BOOLEAN, res : Codes]

\* A call that is to append has read its file, and answered nothing yet.
AppendInv(c) ==
  writer[c].pc = "append" =>
    /\ writer[c].path \in Paths /\ writer[c].res = "none"
    /\ ~writer[c].late => writer[c].found = Content(tree, writer[c].path)

FilesInv ==
  /\ tree \in Trees /\ writer \in [Writers -> WriterRecords]
  /\ \A c \in Writers : AppendInv(c)

LEMMA ReturnedIs ==
  ASSUME NEW code \in Codes
  PROVE  Returned(code) \in WriterRecords /\ Returned(code).pc = "idle" /\ Returned(code).res = code
BY DEF Returned, NoWriter, WriterRecords

LEMMA FilesInitial == FilesInit => FilesInv
<1> SUFFICES ASSUME FilesInit PROVE FilesInv
  OBVIOUS
<1>1. tree \in Trees
  BY NodesAre DEF FilesInit, Trees
<1>2. NoWriter \in WriterRecords /\ NoWriter.pc = "idle"
  BY DEF NoWriter, WriterRecords, Codes
<1> QED
  BY <1>1, <1>2 DEF FilesInit, FilesInv, AppendInv

\* A command of call c is over: the others have been overtaken, or have not.
LEMMA EffectStep ==
  ASSUME FilesInv, NEW c \in Writers, NEW r, r.tree \in Trees, NEW code \in Codes,
         Effect(c, r, code)
  PROVE  /\ FilesInv'
         /\ writer'[c].pc = "idle" /\ writer'[c].res = code
         /\ \A d \in Writers : d # c => writer'[d].res = writer[d].res
<1> DEFINE calls == [writer EXCEPT ![c] = Returned(code)]
           over(d) == calls[d].pc = "append"
                        /\ Content(tree, calls[d].path) # Content(r.tree, calls[d].path)
<1>1. tree' = r.tree /\ writer' = Overtakes(r.tree, calls)
  BY DEF Effect
<1>2. /\ calls \in [Writers -> WriterRecords] /\ calls[c] = Returned(code)
      /\ \A d \in Writers : d # c => calls[d] = writer[d]
  BY ReturnedIs DEF FilesInv
<1> HIDE DEF calls
<1>3. writer' = [d \in Writers |-> IF over(d) THEN [calls[d] EXCEPT !.late = TRUE] ELSE calls[d]]
  BY <1>1 DEF Overtakes
<1>4. ASSUME NEW d \in Writers
      PROVE  /\ writer'[d] \in WriterRecords
             /\ writer'[d].pc = calls[d].pc /\ writer'[d].path = calls[d].path
             /\ writer'[d].res = calls[d].res /\ writer'[d].found = calls[d].found
             /\ ~writer'[d].late => ~calls[d].late /\ ~over(d)
  <2>1. calls[d] \in WriterRecords
    BY <1>2
  <2> HIDE DEF over
  <2>2. writer'[d] = IF over(d) THEN [calls[d] EXCEPT !.late = TRUE] ELSE calls[d]
    BY <1>3
  <2> QED
    BY <2>1, <2>2 DEF WriterRecords
<1>5. writer' \in [Writers -> WriterRecords]
  BY <1>3, <1>4
<1>6. ASSUME NEW d \in Writers PROVE AppendInv(d)'
  <2>1. CASE d = c
    BY <1>2, <1>4, <2>1, ReturnedIs DEF AppendInv
  <2>2. CASE d # c
    BY <1>1, <1>2, <1>4, <2>2 DEF FilesInv, AppendInv
  <2> QED
    BY <2>1, <2>2
<1>7. writer'[c].pc = "idle" /\ writer'[c].res = code
  BY <1>2, <1>4, ReturnedIs
<1>8. \A d \in Writers : d # c => writer'[d].res = writer[d].res
  BY <1>2, <1>4
<1> QED
  BY <1>1, <1>5, <1>6, <1>7, <1>8 DEF FilesInv

\* The record of one call changes, and no file.
LEMMA WriterChange ==
  ASSUME FilesInv, NEW c \in Writers, NEW r \in WriterRecords,
         writer' = [writer EXCEPT ![c] = r], UNCHANGED tree,
         r.pc = "append" => /\ r.path \in Paths /\ r.res = "none"
                            /\ r.found = Content(tree, r.path)
  PROVE  FilesInv'
<1>1. writer' \in [Writers -> WriterRecords]
  BY DEF FilesInv
<1>2. writer'[c] = r /\ \A d \in Writers : d # c => writer'[d] = writer[d]
  BY DEF FilesInv
<1>3. ASSUME NEW d \in Writers PROVE AppendInv(d)'
  BY <1>2 DEF FilesInv, AppendInv
<1> QED
  BY <1>1, <1>3 DEF FilesInv

LEMMA CodesAre ==
  ASSUME NEW say
  PROVE  /\ Told(say) \in Codes /\ Raised(say) \in Codes
         /\ ToldNone(say) \in Codes /\ ToldExists(say) \in Codes
BY DEF Told, Raised, ToldNone, ToldExists, Codes

LEMMA ContentIn ==
  ASSUME NEW t \in Trees, NEW p \in Paths
  PROVE  Content(t, p) \in SUBSET Writers
<1>1. CASE Kind(t, p) = "file"
  <2>1. Follow(t, p) \in Paths
    BY <1>1, FollowIn DEF Kind
  <2> QED
    BY <1>1, <2>1 DEF Content, Trees, Nodes
<1>2. CASE Kind(t, p) # "file"
  BY <1>2 DEF Content
<1> QED
  BY <1>1, <1>2

\* The commands: each is one of the shell or of the guest, and its code.
LEMMA CommandEffect ==
  ASSUME FilesInv, NEW c \in Writers, NEW p \in Named, NEW q \in Named,
         \/ FsWriteFile(c, p) \/ FsMkdir(c, p) \/ FsMkdtemp(c, p) \/ FsUnlink(c, p) \/ FsRm(c, p)
         \/ FsRmdir(c, p) \/ FsTruncate(c, p) \/ FsChmod(c, p) \/ FsChown(c, p)
         \/ FsRename(c, p, q) \/ FsCopyFile(c, p, q) \/ FsSymlink(c, q, p)
  PROVE  /\ writer[c].pc = "idle"
         /\ \E r, code : r.tree \in Trees /\ code \in Codes /\ Effect(c, r, code)
<1>1. p \in Paths /\ q \in Paths /\ tree \in Trees
  BY SdkFilesAssumption DEF FilesInv
<1>2. CASE FsWriteFile(c, p)
  BY <1>1, <1>2, WriteIn, CodesAre DEF FsWriteFile, Written, Can
<1>3. CASE FsMkdir(c, p) \/ FsMkdtemp(c, p)
  BY <1>1, <1>3, MkdirIn, CodesAre DEF FsMkdir, FsMkdtemp, Can
<1>4. CASE FsUnlink(c, p) \/ FsRm(c, p)
  BY <1>1, <1>4, RmIn, CodesAre DEF FsUnlink, FsRm, Command, Can
<1>5. CASE FsRmdir(c, p)
  BY <1>1, <1>5, RmdirIn, CodesAre DEF FsRmdir, Command, Can
<1>6. CASE FsTruncate(c, p)
  BY <1>1, <1>6, TruncateIn, CodesAre DEF FsTruncate, Command, Can
<1>7. CASE FsChmod(c, p) \/ FsChown(c, p)
  BY <1>1, <1>7, CodesAre DEF FsChmod, FsChown, Command, Can, Fail
<1>8. CASE FsRename(c, p, q)
  BY <1>1, <1>8, MvIn, CodesAre DEF FsRename, Command, Can
<1>9. CASE FsCopyFile(c, p, q)
  BY <1>1, <1>9, CpIn, CodesAre DEF FsCopyFile, Command, Can
<1>10. CASE FsSymlink(c, q, p)
  BY <1>1, <1>10, LnIn, CodesAre DEF FsSymlink, Can
<1> QED
  BY <1>2, <1>3, <1>4, <1>5, <1>6, <1>7, <1>8, <1>9, <1>10

\* What the property says of one step and one call.
Appends(c) ==
  LET p == writer[c].path IN
  writer[c].pc = "append" /\ ~writer[c].late /\ writer'[c].res = "ok"
    => Content(tree', p) = Content(tree, p) \cup {c}

\* A command of a call that was idle, whatever it does to the files.
LEMMA CommandStepInv ==
  ASSUME FilesInv, NEW c \in Writers, NEW p \in Named, NEW q \in Named,
         \/ FsWriteFile(c, p) \/ FsMkdir(c, p) \/ FsMkdtemp(c, p) \/ FsUnlink(c, p) \/ FsRm(c, p)
         \/ FsRmdir(c, p) \/ FsTruncate(c, p) \/ FsChmod(c, p) \/ FsChown(c, p)
         \/ FsRename(c, p, q) \/ FsCopyFile(c, p, q) \/ FsSymlink(c, q, p)
  PROVE  FilesInv' /\ \A d \in Writers : Appends(d)
<1>1. writer[c].pc = "idle"
  BY CommandEffect
<1>2. PICK r, code : r.tree \in Trees /\ code \in Codes /\ Effect(c, r, code)
  BY CommandEffect
<1>3. FilesInv' /\ \A d \in Writers : d # c => writer'[d].res = writer[d].res
  BY <1>2, EffectStep
<1>4. \A d \in Writers : writer[d].pc = "append" => writer[d].res = "none" /\ d # c
  BY <1>1 DEF FilesInv, AppendInv
<1> QED
  BY <1>3, <1>4 DEF Appends

LEMMA AppendReadStep ==
  ASSUME FilesInv, NEW c \in Writers, NEW p \in Named, FsAppendRead(c, p)
  PROVE  FilesInv' /\ \A d \in Writers : Appends(d)
<1>1. p \in Paths /\ Content(tree, p) \in SUBSET Writers /\ UNCHANGED tree /\ writer[c].pc = "idle"
  BY SdkFilesAssumption, ContentIn DEF FilesInv, FsAppendRead, Can
<1> DEFINE r == IF GuestRead(tree, p) = "error" THEN Returned("error")
                ELSE [NoWriter EXCEPT !.pc = "append", !.path = p, !.found = Content(tree, p)]
<1>2. /\ r \in WriterRecords /\ r.res \in {"none", "error"}
      /\ r.pc = "append" => r.path = p /\ r.res = "none" /\ r.found = Content(tree, p)
  <2>1. CASE GuestRead(tree, p) = "error"
    BY <2>1, ReturnedIs DEF Codes
  <2>2. CASE GuestRead(tree, p) # "error"
    BY <1>1, <2>2 DEF NoWriter, WriterRecords, Codes
  <2> QED
    BY <2>1, <2>2
<1>3. writer' = [writer EXCEPT ![c] = r]
  BY DEF FsAppendRead
<1> HIDE DEF r
<1>4. FilesInv'
  BY <1>1, <1>2, <1>3, WriterChange
<1>5. \A d \in Writers : d # c => writer'[d] = writer[d]
  BY <1>3 DEF FilesInv
<1> QED
  BY <1>1, <1>4, <1>5 DEF Appends, FilesInv, AppendInv

\* The write of an append puts what the read has found, and its own data.
LEMMA AppendWriteStep ==
  ASSUME FilesInv, NEW c \in Writers, FsAppendWrite(c)
  PROVE  FilesInv' /\ \A d \in Writers : Appends(d)
<1> DEFINE p == writer[c].path
           data == writer[c].found \cup {c}
           r == GuestWrite(tree, p, data)
<1>1. /\ p \in Paths /\ data \in SUBSET Writers /\ tree \in Trees
      /\ ~writer[c].late => data = Content(tree, p) \cup {c}
  BY DEF FilesInv, AppendInv, FsAppendWrite, WriterRecords
<1>2. Effect(c, r, Raised(r.say))
  BY DEF FsAppendWrite, Written
<1> HIDE DEF p, data
<1>3. /\ r.tree \in Trees /\ Raised(r.say) \in Codes
      /\ r.say = "" => Content(r.tree, p) = data
  BY <1>1, WriteIn, CodesAre
<1> HIDE DEF r
<1>4. /\ FilesInv' /\ writer'[c].res = Raised(r.say) /\ tree' = r.tree
      /\ \A d \in Writers : d # c => writer'[d].res = writer[d].res
  BY <1>2, <1>3, EffectStep DEF Effect
<1>5. Appends(c)
  <2>1. Raised(r.say) = "ok" => r.say = ""
    BY DEF Raised
  <2> QED
    BY <1>1, <1>3, <1>4, <2>1 DEF Appends, p
<1>6. ASSUME NEW d \in Writers, d # c PROVE Appends(d)
  BY <1>4, <1>6 DEF Appends, FilesInv, AppendInv
<1> QED
  BY <1>4, <1>5, <1>6

LEMMA DownloadStep ==
  ASSUME FilesInv, NEW c \in Writers, (\E p \in Named : Download(c, p)) \/ DownloadEnd(c)
  PROVE  FilesInv' /\ \A d \in Writers : Appends(d)
<1>1. \A p : GuestRead(tree, p) \in Codes
  BY DEF GuestRead, Codes
<1>2. UNCHANGED tree /\ writer[c].pc \in {"idle", "copy"}
  BY DEF Download, DownloadEnd, Can
<1>3. PICK r : /\ writer' = [writer EXCEPT ![c] = r]
               /\ r = [NoWriter EXCEPT !.pc = "copy"] \/ \E code \in Codes : r = Returned(code)
  <2>1. CASE DownloadEnd(c)
    BY <2>1 DEF DownloadEnd, Codes
  <2>2. CASE \E p \in Named : Download(c, p)
    <3>1. PICK p \in Named : Download(c, p)
      BY <2>2
    <3>2. \A res \in {GuestRead(tree, p), "error"} : res \in Codes
      BY <1>1 DEF Codes
    <3> QED
      BY <3>1, <3>2 DEF Download
  <2> QED
    BY <2>1, <2>2
<1>4. r \in WriterRecords /\ r.pc # "append"
  <2>1. CASE r = [NoWriter EXCEPT !.pc = "copy"]
    BY <2>1 DEF NoWriter, WriterRecords, Codes
  <2>2. CASE \E code \in Codes : r = Returned(code)
    BY <2>2, ReturnedIs
  <2> QED
    BY <1>3, <2>1, <2>2
<1>5. FilesInv'
  BY <1>2, <1>3, <1>4, WriterChange
<1>6. \A d \in Writers : d # c => writer'[d] = writer[d]
  BY <1>3 DEF FilesInv
<1> QED
  BY <1>2, <1>5, <1>6 DEF Appends, FilesInv, AppendInv

LEMMA FilesStep ==
  ASSUME FilesInv, FilesNext
  PROVE  FilesInv' /\ \A d \in Writers : Appends(d)
<1>1. PICK c \in Writers :
        \/ \E p \in Named :
             \/ FsWriteFile(c, p) \/ FsMkdir(c, p) \/ FsMkdtemp(c, p) \/ FsUnlink(c, p)
             \/ FsRm(c, p) \/ FsRmdir(c, p) \/ FsTruncate(c, p) \/ FsChmod(c, p)
             \/ FsChown(c, p) \/ FsAppendRead(c, p) \/ Download(c, p)
             \/ \E q \in Named : FsRename(c, p, q) \/ FsCopyFile(c, p, q) \/ FsSymlink(c, q, p)
        \/ FsAppendWrite(c) \/ DownloadEnd(c)
  BY DEF FilesNext
<1>2. CASE FsAppendWrite(c) \/ DownloadEnd(c) \/ \E p \in Named : FsAppendRead(c, p) \/ Download(c, p)
  BY <1>2, AppendWriteStep, DownloadStep, AppendReadStep
<1>3. CASE \E p \in Named :
             \/ FsWriteFile(c, p) \/ FsMkdir(c, p) \/ FsMkdtemp(c, p) \/ FsUnlink(c, p)
             \/ FsRm(c, p) \/ FsRmdir(c, p) \/ FsTruncate(c, p) \/ FsChmod(c, p)
             \/ FsChown(c, p)
             \/ \E q \in Named : FsRename(c, p, q) \/ FsCopyFile(c, p, q) \/ FsSymlink(c, q, p)
  BY <1>3, CommandStepInv
<1> QED
  BY <1>1, <1>2, <1>3

(* The tree stays one, and an append that nothing has overtaken has found    *)
(* what its file holds, for any names, links and calls.                      *)
THEOREM FilesInvariant == FilesSpec => []FilesInv
<1>1. FilesInv /\ [FilesNext]_filesVars => FilesInv'
  <2>1. CASE UNCHANGED filesVars
    BY <2>1 DEF filesVars, FilesInv, AppendInv
  <2> QED
    BY <2>1, FilesStep
<1> QED
  BY FilesInitial, <1>1, PTL DEF FilesSpec

(* An append loses nothing of a file that did not change between its read    *)
(* and its write, wherever the path and the links lead.                      *)
THEOREM AppendsAreKept == FilesSpec => AppendsKept
<1>1. FilesInv /\ [FilesNext]_filesVars => [\A c \in Writers : Appends(c)]_filesVars
  BY FilesStep
<1> QED
  BY <1>1, FilesInvariant, PTL DEF FilesSpec, AppendsKept, Appends

=============================================================================
