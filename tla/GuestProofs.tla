----------------------------- MODULE GuestProofs -----------------------------
(***************************************************************************)
(* Proofs about the guest agent, for any requests, sizes, limits, exit     *)
(* statuses, operations and faults.                                        *)
(***************************************************************************)
EXTENDS GuestProperties, TLAPS, FiniteSetTheorems

-----------------------------------------------------------------------------
(* The log.                                                                 *)

\* the types of the log's variables, which are a part of LogsOK
LogTypes ==
    /\ logged \in [Requests -> [Streams -> Nat]]
    /\ logBytes \in [Requests -> Nat]
    /\ records \in [Requests -> Nat]
    /\ truncated \subseteq Requests

(* What appendLog does to the log of c leaves it within its ceiling.         *)
LEMMA AppendKeepsLog ==
    ASSUME LogTypes, LogBounded, NEW c \in Requests, NEW s \in Streams,
           NEW n \in Nat, appendLog(c, s, n)
    PROVE  LogTypes' /\ LogBounded'
<1>1. Remaining(c) = MaxLog - logBytes[c] /\ MaxLog \in Nat /\ Notice \in Nat
  BY SizesAreNat DEF Remaining
<1>2. LogTypes'
  <2>1. CASE UNCHANGED log
    BY <2>1 DEF LogTypes, log
  <2>2. CASE /\ logged' = [logged EXCEPT ![c][s] = @ + n]
             /\ logBytes' = [logBytes EXCEPT ![c] = @ + n]
             /\ records' = [records EXCEPT ![c] = @ + 1]
             /\ UNCHANGED truncated
    <3>1. logged[c][s] + n \in Nat /\ logged[c] \in [Streams -> Nat]
      BY DEF LogTypes
    <3>2. [logged[c] EXCEPT ![s] = @ + n] \in [Streams -> Nat]
      BY <3>1
    <3>3. logged' \in [Requests -> [Streams -> Nat]]
      BY <2>2, <3>2 DEF LogTypes
    <3>. QED
      BY <2>2, <3>3 DEF LogTypes
  <2>3. CASE /\ truncated' = truncated \cup {c}
             /\ \/ /\ logBytes' = [logBytes EXCEPT ![c] = @ + Notice]
                   /\ records' = [records EXCEPT ![c] = @ + 1]
                \/ UNCHANGED <<logBytes, records>>
             /\ UNCHANGED logged
    <3>1. logBytes' \in [Requests -> Nat] /\ records' \in [Requests -> Nat]
      BY <1>1, <2>3 DEF LogTypes
    <3>2. logged' \in [Requests -> [Streams -> Nat]] /\ truncated' \subseteq Requests
      BY <2>3 DEF LogTypes
    <3>. QED
      BY <3>1, <3>2 DEF LogTypes
  <2>. QED
    BY <2>1, <2>2, <2>3 DEF appendLog
<1>3. \A d \in Requests : d # c => logBytes'[d] = logBytes[d]
  BY DEF appendLog, LogTypes, log
<1>4. logBytes'[c] <= MaxLog
  BY <1>1 DEF appendLog, LogTypes, LogBounded, log
<1>. QED
  BY <1>2, <1>3, <1>4 DEF LogBounded

(* It adds the whole chunk, or the log is full from then on.                 *)
LEMMA AppendLogsOrFills ==
    ASSUME LogTypes, LogBounded, NEW c \in Requests, NEW s \in Streams,
           NEW n \in Nat, appendLog(c, s, n), exit[c] = None
    PROVE  /\ Full(c)' \/ logged' = [logged EXCEPT ![c][s] = @ + n]
           /\ \A d \in Requests : Full(d) => Full(d)'
           /\ \A d \in Requests : d # c => logged'[d] = logged[d] /\ records'[d] = records[d]
<1>1. Remaining(c) = MaxLog - logBytes[c] /\ MaxLog \in Nat /\ Notice \in Nat
  BY SizesAreNat DEF Remaining
<1>2. Full(c)' \/ logged' = [logged EXCEPT ![c][s] = @ + n]
  BY <1>1 DEF appendLog, LogTypes, Full, log
<1>3. \A d \in Requests : logBytes'[d] >= logBytes[d]
  BY <1>1 DEF appendLog, LogTypes, log
<1>4. truncated \subseteq truncated' /\ logBytes' \in [Requests -> Nat]
  BY <1>1 DEF appendLog, LogTypes, log
<1>5. \A d \in Requests : Full(d) => Full(d)'
  BY <1>1, <1>3, <1>4 DEF LogTypes, Full
<1>6. \A d \in Requests : d # c => logged'[d] = logged[d] /\ records'[d] = records[d]
  BY DEF appendLog, LogTypes, log
<1>. QED
  BY <1>2, <1>5, <1>6

(* A log that is sealed, or that is of another command, is not touched.      *)
LEMMA AppendKeepsSealed ==
    ASSUME LogTypes, NEW c \in Requests, NEW s \in Streams, NEW n \in Nat,
           appendLog(c, s, n)
    PROVE  \A d \in Requests : exit[d] # None => records'[d] = records[d]
  BY DEF appendLog, LogTypes, log

-----------------------------------------------------------------------------
(* Init.                                                                    *)

LEMMA GuestInit == Init => GuestInv
<1>1. SUFFICES ASSUME Init PROVE GuestInv
  OBVIOUS
<1>2. ProcessesOK
  BY <1>1, FS_EmptySet, SizesAreNat DEF Init, ProcessesOK, NoBytes
<1>3. LogsOK /\ LogBounded
  BY <1>1, SizesAreNat DEF Init, LogsOK, LogBounded, NoBytes
<1>4. OutcomesOK /\ RequestsOK
  BY <1>1 DEF Init, OutcomesOK, RequestsOK, Labels
<1>5. CommandsInv
  BY <1>1 DEF Init, CommandsInv, NoBytes
<1>6. AccountInv
  BY <1>1 DEF Init, AccountInv, NoBytes
<1>7. RequestsInv /\ LogsServedWhole
  BY <1>1 DEF Init, RequestsInv, LogsServedWhole, Streamed, Reading
<1>. QED
  BY <1>2, <1>3, <1>4, <1>5, <1>6, <1>7 DEF GuestInv, GuestTypeOK

-----------------------------------------------------------------------------
(* The processes of a command.                                              *)

LEMMA EmitKeeps ==
    ASSUME GuestInv, NEW c \in Requests, NEW s \in Streams, Emit(c, s)
    PROVE  GuestInv'
<1>1. /\ UNCHANGED <<commands, proc, kids, status, copiers, log, outcome, pc, locals>>
      /\ written' = [written EXCEPT ![c][s] = @ + 1]
  BY DEF Emit
<1>2. written' \in [Requests -> [Streams -> Nat]]
  <2>1. written[c] \in [Streams -> Nat]
    BY DEF GuestInv, GuestTypeOK, ProcessesOK
  <2>2. [written[c] EXCEPT ![s] = @ + 1] \in [Streams -> Nat]
    BY <2>1
  <2>. QED
    BY <1>1, <2>2 DEF GuestInv, GuestTypeOK, ProcessesOK
<1>3. GuestTypeOK'
  BY <1>1, <1>2 DEF GuestInv, GuestTypeOK, ProcessesOK, LogsOK, OutcomesOK, RequestsOK,
     copiers, log, outcome, locals
<1>4. LogBounded' /\ CommandsInv' /\ AccountInv'
  BY <1>1 DEF GuestInv, LogBounded, CommandsInv, AccountInv, Full, copiers, log, outcome
<1>5. RequestsInv' /\ LogsServedWhole'
  BY <1>1 DEF GuestInv, RequestsInv, LogsServedWhole, Streamed, log, outcome, locals
<1>. QED
  BY <1>3, <1>4, <1>5 DEF GuestInv

\* a process that does not start or stop being "none", and does not come back
LEMMA ProcessKeeps ==
    ASSUME GuestInv, NEW c \in Requests, Background(c) \/ Exit(c) \/ reapChildren(c)
    PROVE  GuestInv'
<1>1. UNCHANGED <<commands, written, copiers, log, outcome, pc, locals>>
  BY DEF Background, Exit, reapChildren
<1>2. ProcessesOK'
  BY <1>1 DEF Background, Exit, reapChildren, GuestInv, GuestTypeOK, ProcessesOK, ExitCodes
<1>3. \A d \in Requests : /\ proc'[d] = "none" <=> proc[d] = "none"
                          /\ proc[d] = "reaped" => proc'[d] = "reaped"
  BY DEF Background, Exit, reapChildren, GuestInv, GuestTypeOK, ProcessesOK
<1>4. GuestTypeOK'
  BY <1>1, <1>2 DEF GuestInv, GuestTypeOK, LogsOK, OutcomesOK, RequestsOK,
     copiers, log, outcome, locals
<1>5. LogBounded' /\ CommandsInv' /\ AccountInv'
  BY <1>1, <1>3 DEF GuestInv, LogBounded, CommandsInv, AccountInv, Full, copiers, log, outcome
<1>6. RequestsInv' /\ LogsServedWhole'
  BY <1>1, <1>3 DEF GuestInv, RequestsInv, LogsServedWhole, Streamed, log, outcome, locals
<1>. QED
  BY <1>4, <1>5, <1>6 DEF GuestInv

-----------------------------------------------------------------------------
(* The agent's goroutines.                                                  *)

LEMMA CopierReadKeeps ==
    ASSUME GuestInv, NEW c \in Requests, NEW s \in Streams, CopierRead(c, s)
    PROVE  GuestInv'
<1>1. UNCHANGED <<commands, process, copying, log, outcome, pc, locals>>
  BY DEF CopierRead
<1>2. PICK n \in 1..Chunk : /\ taken' = [taken EXCEPT ![c][s] = @ + n]
                            /\ held' = [held EXCEPT ![c][s] = n]
  BY DEF CopierRead
<1>3. n \in Nat /\ s \in copying[c] /\ held[c][s] = 0
  BY <1>2, SizesAreNat DEF CopierRead
<1>4. taken[c] \in [Streams -> Nat] /\ held[c] \in [Streams -> Nat]
  BY DEF GuestInv, GuestTypeOK, LogsOK
<1>5. /\ [taken[c] EXCEPT ![s] = @ + n] \in [Streams -> Nat]
      /\ [held[c] EXCEPT ![s] = n] \in [Streams -> Nat]
  BY <1>3, <1>4
<1>6. GuestTypeOK'
  BY <1>1, <1>2, <1>5 DEF GuestInv, GuestTypeOK, ProcessesOK, LogsOK, OutcomesOK,
     RequestsOK, process, log, outcome, locals
<1>7. \A d \in Requests, r \in Streams :
         /\ d # c \/ r # s => taken'[d][r] = taken[d][r] /\ held'[d][r] = held[d][r]
         /\ taken'[c][s] = taken[c][s] + n /\ held'[c][s] = n
  BY <1>2 DEF GuestInv, GuestTypeOK, LogsOK
<1>8. LogBounded' /\ CommandsInv'
  BY <1>1, <1>3, <1>7 DEF GuestInv, LogBounded, CommandsInv, process, log, outcome
<1>9. AccountInv'
  <2>1. SUFFICES ASSUME NEW d \in Requests, NEW r \in Streams,
                        exit[d] = None \/ result[d] # None, ~Full(d)
                 PROVE  logged[d][r] + held'[d][r] = taken'[d][r]
    BY <1>1 DEF AccountInv, Full, log, outcome
  <2>2. logged[d][r] + held[d][r] = taken[d][r] /\ logged[d][r] \in Nat /\ taken[d][r] \in Nat
    BY <2>1 DEF GuestInv, AccountInv, GuestTypeOK, LogsOK
  <2>. QED
    BY <1>3, <1>7, <2>2
<1>10. RequestsInv' /\ LogsServedWhole'
  BY <1>1 DEF GuestInv, RequestsInv, LogsServedWhole, Streamed, process, log, outcome, locals
<1>. QED
  BY <1>6, <1>8, <1>9, <1>10 DEF GuestInv

LEMMA CopierAppendKeeps ==
    ASSUME GuestInv, NEW c \in Requests, NEW s \in Streams, CopierAppend(c, s)
    PROVE  GuestInv'
<1>1. /\ UNCHANGED <<commands, process, taken, copying, outcome, pc, locals>>
      /\ appendLog(c, s, held[c][s]) /\ held' = [held EXCEPT ![c][s] = 0]
  BY DEF CopierAppend
<1>2. exit[c] = None
  BY DEF CopierAppend, GuestInv, CommandsInv
<1>3. LogTypes /\ LogBounded /\ held[c][s] \in Nat /\ held[c] \in [Streams -> Nat]
  BY DEF GuestInv, GuestTypeOK, LogsOK, LogTypes
<1>4. LogTypes' /\ LogBounded'
  BY <1>1, <1>3, AppendKeepsLog
<1>5. [held[c] EXCEPT ![s] = 0] \in [Streams -> Nat]
  BY <1>3
<1>6. held' \in [Requests -> [Streams -> Nat]]
  BY <1>1, <1>5 DEF GuestInv, GuestTypeOK, LogsOK
<1>7. GuestTypeOK'
  BY <1>1, <1>4, <1>6 DEF GuestInv, GuestTypeOK, ProcessesOK, LogsOK, LogTypes, OutcomesOK,
     RequestsOK, process, outcome, locals
<1>8. \A d \in Requests, r \in Streams :
         /\ d # c \/ r # s => held'[d][r] = held[d][r]
         /\ held'[c][s] = 0
  BY <1>1 DEF GuestInv, GuestTypeOK, LogsOK
<1>9. CommandsInv'
  BY <1>1, <1>8 DEF GuestInv, CommandsInv, process, outcome
<1>10. AccountInv'
  <2>1. SUFFICES ASSUME NEW d \in Requests, NEW r \in Streams,
                        exit[d] = None \/ result[d] # None, ~Full(d)'
                 PROVE  logged'[d][r] + held'[d][r] = taken[d][r]
    BY <1>1 DEF AccountInv, outcome
  <2>2. /\ Full(c)' \/ logged' = [logged EXCEPT ![c][s] = @ + held[c][s]]
        /\ Full(d) => Full(d)'
        /\ d # c => logged'[d] = logged[d]
    BY <1>1, <1>2, <1>3, AppendLogsOrFills
  <2>3. logged[d][r] + held[d][r] = taken[d][r] /\ logged[d][r] \in Nat /\ held[d][r] \in Nat
    BY <2>1, <2>2 DEF GuestInv, AccountInv, GuestTypeOK, LogsOK
  <2>4. CASE d = c /\ r = s
    BY <1>8, <2>1, <2>2, <2>3, <2>4 DEF GuestInv, GuestTypeOK, LogsOK
  <2>5. CASE d = c /\ r # s
    BY <1>8, <2>1, <2>2, <2>3, <2>5 DEF GuestInv, GuestTypeOK, LogsOK
  <2>6. CASE d # c
    BY <1>8, <2>2, <2>3, <2>6
  <2>. QED
    BY <2>4, <2>5, <2>6
<1>11. RequestsInv'
  BY <1>1 DEF GuestInv, RequestsInv, process, outcome, locals
<1>12. \A d \in done : d \in Requests /\ records'[d] = records[d]
  BY <1>1, <1>3, AppendKeepsSealed DEF GuestInv, CommandsInv, GuestTypeOK, OutcomesOK
<1>13. LogsServedWhole'
  BY <1>1, <1>12 DEF GuestInv, LogsServedWhole, Streamed, outcome, locals
<1>. QED
  BY <1>4, <1>7, <1>9, <1>10, <1>11, <1>13 DEF GuestInv

LEMMA EndKeeps ==
    ASSUME GuestInv, NEW c \in Requests,
           \/ \E s \in Streams : CopierEnd(c, s)
           \/ WaitProcess(c) \/ Record(c) \/ CloseDone(c)
    PROVE  GuestInv'
<1>1. UNCHANGED <<commands, kids, status, written, taken, held, log, pc, locals>>
  BY DEF CopierEnd, WaitProcess, Record, CloseDone, process, copiers, outcome
<1>2. ProcessesOK' /\ RequestsOK'
  BY <1>1 DEF GuestInv, GuestTypeOK, CopierEnd, WaitProcess, Record, CloseDone,
     ProcessesOK, RequestsOK, process, locals
<1>3. LogsOK' /\ OutcomesOK'
  <2>1. CASE \E s \in Streams : CopierEnd(c, s)
    BY <1>1, <2>1 DEF CopierEnd, GuestInv, GuestTypeOK, LogsOK, OutcomesOK, outcome, log
  <2>2. CASE WaitProcess(c)
    BY <1>1, <2>2 DEF WaitProcess, GuestInv, GuestTypeOK, ProcessesOK, LogsOK, OutcomesOK,
       ExitCodes, copiers, log
  <2>3. CASE Record(c)
    BY <1>1, <2>3 DEF Record, GuestInv, GuestTypeOK, LogsOK, OutcomesOK, copiers, log
  <2>4. CASE CloseDone(c)
    BY <1>1, <2>4 DEF CloseDone, GuestInv, GuestTypeOK, LogsOK, OutcomesOK, copiers, log
  <2>. QED
    BY <2>1, <2>2, <2>3, <2>4
<1>4. CommandsInv'
  <2>1. CASE \E s \in Streams : CopierEnd(c, s)
    BY <1>1, <2>1 DEF CopierEnd, GuestInv, GuestTypeOK, LogsOK, CommandsInv, process, outcome
  <2>2. CASE WaitProcess(c)
    BY <1>1, <2>2 DEF WaitProcess, GuestInv, GuestTypeOK, ProcessesOK, OutcomesOK,
       CommandsInv, copiers
  <2>3. CASE Record(c)
    BY <1>1, <2>3 DEF Record, GuestInv, GuestTypeOK, OutcomesOK, CommandsInv, process, copiers
  <2>4. CASE CloseDone(c)
    BY <1>1, <2>4 DEF CloseDone, GuestInv, CommandsInv, process, copiers
  <2>. QED
    BY <2>1, <2>2, <2>3, <2>4
<1>5. \A d \in Requests : exit'[d] = None \/ result'[d] # None
                          => exit[d] = None \/ result[d] # None
  <2>1. CASE WaitProcess(c)
    <3>1. exit[c] = None /\ UNCHANGED exit
      BY <2>1 DEF WaitProcess, GuestInv, CommandsInv
    <3>2. \A d \in Requests : d # c => result'[d] = result[d]
      BY <2>1 DEF WaitProcess, GuestInv, GuestTypeOK, OutcomesOK
    <3>. QED
      BY <3>1, <3>2
  <2>2. CASE Record(c)
    BY <2>2 DEF Record, GuestInv, GuestTypeOK, OutcomesOK
  <2>3. CASE CloseDone(c) \/ \E s \in Streams : CopierEnd(c, s)
    BY <2>3 DEF CloseDone, CopierEnd, outcome
  <2>. QED
    BY <2>1, <2>2, <2>3
<1>6. LogBounded' /\ AccountInv'
  BY <1>1, <1>5 DEF GuestInv, LogBounded, AccountInv, Full, log
<1>7. \A d \in Requests : (proc'[d] = "none" <=> proc[d] = "none") /\ (d \in done => d \in done')
  BY DEF CopierEnd, WaitProcess, Record, CloseDone, GuestInv, GuestTypeOK, ProcessesOK,
     process, outcome
<1>8. \A d \in Requests : proc[d] = "none" => exit'[d] = exit[d]
  BY DEF CopierEnd, WaitProcess, Record, CloseDone, GuestInv, GuestTypeOK, OutcomesOK,
     CommandsInv, outcome
<1>9. RequestsInv'
  BY <1>1, <1>7, <1>8 DEF GuestInv, GuestTypeOK, OutcomesOK, RequestsInv, locals
<1>10. LogsServedWhole'
  BY <1>1, <1>7 DEF GuestInv, GuestTypeOK, OutcomesOK, LogsServedWhole, Streamed, locals, log
<1>. QED
  BY <1>2, <1>3, <1>4, <1>6, <1>9, <1>10 DEF GuestInv, GuestTypeOK

-----------------------------------------------------------------------------
(* Requests.                                                                *)

LEMMA RunKeeps ==
    ASSUME GuestInv, NEW p \in Requests, NEW o \in Runs, Run(p, o)
    PROVE  GuestInv'
<1>1. UNCHANGED <<process, copiers, log, outcome, offset, unread, code>> /\ pc[p] = "idle"
  BY DEF Run
<1>2. ProcessesOK'
  <2>1. \/ commands' = commands
        \/ commands' = commands \cup {p} /\ Cardinality(commands) < MaxCommands
    BY DEF Run
  <2>2. /\ IsFiniteSet(commands)
        /\ Cardinality(commands) \in Nat /\ Cardinality(commands) <= MaxCommands
    BY FS_CardinalityType DEF GuestInv, GuestTypeOK, ProcessesOK
  <2>3. IsFiniteSet(commands') /\ Cardinality(commands') <= MaxCommands
    <3>1. CASE commands' = commands
      BY <2>2, <3>1
    <3>2. CASE commands' = commands \cup {p} /\ Cardinality(commands) < MaxCommands
      <4>1. /\ IsFiniteSet(commands \cup {p})
            /\ \/ Cardinality(commands \cup {p}) = Cardinality(commands)
               \/ Cardinality(commands \cup {p}) = Cardinality(commands) + 1
        BY <2>2, FS_AddElement
      <4>. QED
        BY <2>2, <3>2, <4>1, SizesAreNat
    <3>. QED
      BY <2>1, <3>1, <3>2
  <2>. QED
    BY <1>1, <2>1, <2>3 DEF GuestInv, GuestTypeOK, ProcessesOK, process
<1>3. LogsOK' /\ OutcomesOK'
  BY <1>1 DEF GuestInv, GuestTypeOK, LogsOK, OutcomesOK, copiers, log, outcome
<1>4. RequestsOK'
  BY <1>1 DEF Run, Go, GuestInv, GuestTypeOK, RequestsOK, Labels, Ended, Runs, Operations
<1>5. LogBounded' /\ CommandsInv' /\ AccountInv'
  BY <1>1 DEF GuestInv, LogBounded, CommandsInv, AccountInv, Full, process, copiers, log, outcome
<1>6. RequestsInv'
  BY <1>1 DEF Run, Go, GuestInv, GuestTypeOK, RequestsOK, RequestsInv, Reading, process, outcome
<1>7. LogsServedWhole'
  BY <1>1 DEF Run, Go, GuestInv, GuestTypeOK, RequestsOK, LogsServedWhole, Streamed, log, outcome
<1>. QED
  BY <1>2, <1>3, <1>4, <1>5, <1>6, <1>7 DEF GuestInv, GuestTypeOK

LEMMA StartKeeps ==
    ASSUME GuestInv, NEW p \in Requests, startCommand(p)
    PROVE  GuestInv'
<1>1. /\ UNCHANGED <<commands, kids, status, written, taken, held, log, outcome,
                     op, target, offset, unread>>
      /\ pc[p] = "exec" /\ target[p] = p /\ proc[p] = "none" /\ exit[p] = None
      /\ proc' = [proc EXCEPT ![p] = "running"]
      /\ copying' = [copying EXCEPT ![p] = Streams]
  BY DEF startCommand, GuestInv, RequestsInv
<1>2. ProcessesOK' /\ LogsOK' /\ OutcomesOK'
  BY <1>1 DEF GuestInv, GuestTypeOK, ProcessesOK, LogsOK, OutcomesOK, log, outcome
<1>3. RequestsOK'
  BY <1>1 DEF startCommand, Go, Answer, GuestInv, GuestTypeOK, RequestsOK, OutcomesOK,
     Labels, Ended, Reading
<1>4. LogBounded' /\ AccountInv'
  BY <1>1 DEF GuestInv, LogBounded, AccountInv, Full, log, outcome
<1>5. CommandsInv'
  BY <1>1 DEF GuestInv, GuestTypeOK, ProcessesOK, LogsOK, CommandsInv, outcome
<1>6. \A q \in Requests :
         /\ q # p => pc'[q] = pc[q] /\ proc'[q] = proc[q]
         /\ pc'[p] = "copy" \/ (pc'[p] = "answered" /\ op[p] = "run")
  BY <1>1 DEF startCommand, Go, Answer, GuestInv, GuestTypeOK, RequestsOK, ProcessesOK
<1>7. RequestsInv'
  BY <1>1, <1>6 DEF GuestInv, RequestsInv, Reading, outcome
<1>8. LogsServedWhole'
  BY <1>1, <1>6 DEF GuestInv, LogsServedWhole, Streamed, log, outcome
<1>. QED
  BY <1>2, <1>3, <1>4, <1>5, <1>7, <1>8 DEF GuestInv, GuestTypeOK

LEMMA FailStartKeeps ==
    ASSUME GuestInv, NEW p \in Requests, failStart(p)
    PROVE  GuestInv'
<1>1. /\ UNCHANGED <<commands, process, copiers, result, locals>>
      /\ exit' = [exit EXCEPT ![p] = 127] /\ done' = done \cup {p}
      /\ appendLog(p, "stderr", 1) /\ pc' = [pc EXCEPT ![p] = "failed"]
      /\ target[p] = p /\ proc[p] = "none" /\ exit[p] = None
  BY DEF failStart, Go, GuestInv, RequestsInv
<1>2. "stderr" \in Streams /\ 1 \in Nat /\ LogTypes /\ LogBounded
  BY DEF Streams, GuestInv, GuestTypeOK, LogsOK, LogTypes
<1>3. LogTypes' /\ LogBounded'
  BY <1>1, <1>2, AppendKeepsLog
<1>4. GuestTypeOK'
  BY <1>1, <1>3 DEF GuestInv, GuestTypeOK, ProcessesOK, LogsOK, LogTypes, OutcomesOK,
     RequestsOK, ExitCodes, Labels, Ended, process, copiers, locals
<1>5. copying[p] = {} /\ result[p] = None /\ 127 # None
  BY <1>1, NoneIsNoValue DEF GuestInv, CommandsInv, ExitCodes
<1>6. \A d \in Requests : d # p => exit'[d] = exit[d] /\ pc'[d] = pc[d]
  BY <1>1 DEF GuestInv, GuestTypeOK, OutcomesOK, RequestsOK
<1>7. exit'[p] = 127 /\ pc'[p] = "failed"
  BY <1>1 DEF GuestInv, GuestTypeOK, OutcomesOK, RequestsOK
<1>8. CommandsInv'
  BY <1>1, <1>5, <1>6, <1>7 DEF GuestInv, CommandsInv, process, copiers
<1>9. AccountInv'
  <2>1. SUFFICES ASSUME NEW d \in Requests, NEW r \in Streams,
                        exit'[d] = None \/ result[d] # None, ~Full(d)'
                 PROVE  logged'[d][r] + held[d][r] = taken[d][r]
    BY <1>1 DEF AccountInv, copiers
  <2>2. d # p
    BY <1>5, <1>7, <2>1
  <2>3. /\ Full(d) => Full(d)'
        /\ logged'[d] = logged[d]
    BY <1>1, <1>2, <2>2, AppendLogsOrFills
  <2>. QED
    BY <1>6, <2>1, <2>2, <2>3 DEF GuestInv, AccountInv
<1>10. RequestsInv'
  BY <1>1, <1>6, <1>7 DEF GuestInv, RequestsInv, Reading, process, locals
<1>11. \A d \in done : d \in Requests /\ records'[d] = records[d]
  BY <1>1, <1>2, AppendKeepsSealed DEF GuestInv, CommandsInv, GuestTypeOK, OutcomesOK
<1>12. LogsServedWhole'
  BY <1>1, <1>6, <1>7, <1>11 DEF GuestInv, LogsServedWhole, Streamed, locals
<1>. QED
  BY <1>3, <1>4, <1>8, <1>9, <1>10, <1>12 DEF GuestInv

LEMMA AskKeeps ==
    ASSUME GuestInv, NEW p \in Requests, NEW c \in Requests,
           getCommand(p, c) \/ commandLogs(p, c) \/ killCommand(p, c)
    PROVE  GuestInv'
<1>1. /\ UNCHANGED <<commands, process, copiers, log, outcome, offset, unread>>
      /\ target' = [target EXCEPT ![p] = c]
      /\ pc[p] = "idle"
  BY DEF getCommand, commandLogs, killCommand, Ask
<1>2. PICK o \in Operations, l \in {"answered", "wait", "copy", "signal"} :
         /\ op' = [op EXCEPT ![p] = o] /\ pc' = [pc EXCEPT ![p] = l]
         /\ o # "run_wait" /\ (o = "logs" => l = "copy") /\ (l = "signal" => o = "kill")
  BY DEF getCommand, commandLogs, killCommand, Ask, Go, Operations
<1>4. code' = code \/ code' = [code EXCEPT ![p] = exit[c]]
  BY DEF getCommand, commandLogs, killCommand
<1>5. RequestsOK'
  BY <1>1, <1>2, <1>4 DEF GuestInv, GuestTypeOK, OutcomesOK, RequestsOK,
     Labels, Ended, Reading
<1>6. ProcessesOK' /\ LogsOK' /\ OutcomesOK'
  BY <1>1 DEF GuestInv, GuestTypeOK, ProcessesOK, LogsOK, OutcomesOK,
     process, copiers, log, outcome
<1>7. LogBounded' /\ CommandsInv' /\ AccountInv'
  BY <1>1 DEF GuestInv, LogBounded, CommandsInv, AccountInv, Full, process, copiers, log, outcome
<1>8. RequestsInv'
  BY <1>1, <1>2 DEF GuestInv, GuestTypeOK, RequestsOK, RequestsInv, Reading, process, outcome
<1>9. LogsServedWhole'
  BY <1>1, <1>2 DEF GuestInv, GuestTypeOK, RequestsOK, LogsServedWhole, Streamed,
     log, outcome
<1>. QED
  BY <1>5, <1>6, <1>7, <1>8, <1>9 DEF GuestInv, GuestTypeOK

\* the steps of a request that only look at its command
Looking(p) ==
    GetDone(p) \/ LogsCopy(p) \/ LogsCheck(p) \/ LogsFinal(p) \/ HeaderTimeout(p) \/ Abandon(p)

LEMMA LookKeeps ==
    ASSUME GuestInv, NEW p \in Requests, Looking(p)
    PROVE  GuestInv'
<1>1. /\ UNCHANGED <<commands, process, copiers, log, outcome, op, target>>
      /\ pc[p] \in Reading \cup {"wait"} /\ target[p] \in Requests
  BY DEF Looking, GetDone, LogsCopy, LogsCheck, LogsFinal, HeaderTimeout, Abandon, Unread,
     ServeRecords, locals,
     Reading, GuestInv, RequestsInv
<1>2. ProcessesOK' /\ LogsOK' /\ OutcomesOK'
  BY <1>1 DEF GuestInv, GuestTypeOK, ProcessesOK, LogsOK, OutcomesOK,
     process, copiers, log, outcome
<1>3. exit[target[p]] \in ExitCodes \cup {None} /\ records[target[p]] \in Nat
  BY <1>1 DEF GuestInv, GuestTypeOK, LogsOK, OutcomesOK
<1>4. RequestsOK'
  BY <1>1, <1>3 DEF Looking, GetDone, LogsCopy, LogsCheck, LogsFinal, HeaderTimeout, Abandon,
     Unread, ServeRecords, Go, Answer, EndLogs, GuestInv, GuestTypeOK, RequestsOK, Labels,
     Ended, Reading, locals
<1>5. LogBounded' /\ CommandsInv' /\ AccountInv'
  BY <1>1 DEF GuestInv, LogBounded, CommandsInv, AccountInv, Full, process, copiers, log, outcome
<1>6. RequestsInv'
  <2>1. \A q \in Requests : q # p => pc'[q] = pc[q]
    BY DEF Looking, GetDone, LogsCopy, LogsCheck, LogsFinal, HeaderTimeout, Abandon,
       Unread, ServeRecords, Go, Answer, EndLogs, GuestInv, GuestTypeOK, RequestsOK
  <2>2. pc'[p] \in {"wait", "answered", "failed"} \cup Reading
    BY DEF Looking, GetDone, LogsCopy, LogsCheck, LogsFinal, HeaderTimeout, Abandon,
       Unread, ServeRecords, Go, Answer, EndLogs, GuestInv, GuestTypeOK, RequestsOK, Reading
  <2>3. pc'[p] = "final" => target[p] \in done
    BY DEF Looking, GetDone, LogsCopy, LogsCheck, LogsFinal, HeaderTimeout, Abandon,
       Unread, ServeRecords, Go, Answer, EndLogs, GuestInv, GuestTypeOK, RequestsOK, RequestsInv
  <2>4. pc'[p] = "wait" => op[p] # "logs"
    BY DEF Looking, GetDone, LogsCopy, LogsCheck, LogsFinal, HeaderTimeout, Abandon,
       Unread, ServeRecords, Go, Answer, EndLogs, GuestInv, GuestTypeOK, RequestsOK, RequestsInv
  <2>. QED
    BY <1>1, <2>1, <2>2, <2>3, <2>4 DEF GuestInv, RequestsInv, Reading, process, outcome
<1>7. \A q \in Requests :
         q # p => /\ pc'[q] = pc[q] /\ offset'[q] = offset[q]
                  /\ q \in unread' <=> q \in unread
  BY DEF Looking, GetDone, LogsCopy, LogsCheck, LogsFinal, HeaderTimeout, Abandon,
     Unread, ServeRecords, Go, Answer, EndLogs, GuestInv, GuestTypeOK, RequestsOK, locals
<1>8. Streamed(p)' => target[p] \in done /\ offset'[p] = records[target[p]]
  <2>1. CASE GetDone(p)
    BY <2>1 DEF GetDone, Go, Answer, Streamed, GuestInv, GuestTypeOK, RequestsOK, RequestsInv,
       LogsServedWhole
  <2>2. CASE LogsCopy(p) \/ LogsCheck(p) \/ Abandon(p)
    BY <2>2 DEF LogsCopy, Unread, ServeRecords, EndLogs, LogsCheck, Abandon, Go, Streamed,
       GuestInv, GuestTypeOK,
       RequestsOK, locals
  <2>3. CASE LogsFinal(p)
    BY <2>3 DEF LogsFinal, Unread, ServeRecords, Streamed, GuestInv, GuestTypeOK, RequestsOK,
       RequestsInv
  <2>4. CASE HeaderTimeout(p)
    BY <2>4 DEF HeaderTimeout, Go, Streamed, GuestInv, GuestTypeOK, RequestsOK, locals
  <2>. QED
    BY <2>1, <2>2, <2>3, <2>4 DEF Looking
<1>9. LogsServedWhole'
  <2>1. ASSUME NEW q \in Requests, q # p, Streamed(q)'
        PROVE  target[q] \in done /\ offset'[q] = records[target[q]]
    <3>1. pc'[q] = pc[q] /\ offset'[q] = offset[q]
      BY <1>7, <2>1
    <3>2. q \in unread' <=> q \in unread
      BY <1>7, <2>1
    <3>3. op' = op
      BY <1>1
    <3>4. Streamed(q)
      BY <2>1, <3>1, <3>2, <3>3 DEF Streamed
    <3>. QED
      BY <3>1, <3>4 DEF GuestInv, LogsServedWhole
  <2>. QED
    BY <1>1, <1>8, <2>1 DEF LogsServedWhole, log, outcome
<1>. QED
  BY <1>2, <1>4, <1>5, <1>6, <1>9 DEF GuestInv, GuestTypeOK

LEMMA SignalKeeps ==
    ASSUME GuestInv, NEW p \in Requests, KillSignal(p)
    PROVE  GuestInv'
<1>1. /\ UNCHANGED <<commands, written, copiers, log, outcome, op, target, offset, unread>>
      /\ pc[p] = "signal" /\ target[p] \in Requests
      /\ pc' = [pc EXCEPT ![p] = "answered"]
      /\ code' = [code EXCEPT ![p] = exit[target[p]]]
  BY DEF KillSignal, Answer, Go, GuestInv, RequestsInv
<1>2. \A d \in Requests : /\ proc'[d] = "none" <=> proc[d] = "none"
                          /\ proc[d] = "reaped" => proc'[d] = "reaped"
  BY <1>1 DEF KillSignal, GuestInv, GuestTypeOK, ProcessesOK
<1>3. ProcessesOK'
  BY <1>1 DEF KillSignal, GuestInv, GuestTypeOK, ProcessesOK, ExitCodes
<1>4. LogsOK' /\ OutcomesOK' /\ RequestsOK'
  BY <1>1 DEF GuestInv, GuestTypeOK, LogsOK, OutcomesOK, RequestsOK, Labels, Ended,
     copiers, log, outcome
<1>5. LogBounded' /\ CommandsInv' /\ AccountInv'
  BY <1>1, <1>2 DEF GuestInv, LogBounded, CommandsInv, AccountInv, Full, copiers, log, outcome
<1>6. RequestsInv'
  BY <1>1, <1>2 DEF GuestInv, GuestTypeOK, RequestsOK, RequestsInv, Reading, outcome
<1>7. ASSUME NEW q \in Requests, Streamed(q)'
      PROVE  target[q] \in done /\ offset[q] = records[target[q]]
  BY <1>1, <1>7 DEF GuestInv, GuestTypeOK, RequestsOK, RequestsInv, LogsServedWhole, Streamed
<1>8. LogsServedWhole'
  BY <1>1, <1>7 DEF LogsServedWhole, log, outcome
<1>. QED
  BY <1>3, <1>4, <1>5, <1>6, <1>8 DEF GuestInv, GuestTypeOK

-----------------------------------------------------------------------------
(* The specification.                                                       *)

LEMMA GuestStep ==
    ASSUME GuestInv, [Next]_vars
    PROVE  GuestInv'
<1>1. CASE UNCHANGED vars
  BY <1>1 DEF vars, process, copiers, log, outcome, locals, GuestInv, GuestTypeOK,
     ProcessesOK, LogsOK, OutcomesOK, RequestsOK, LogBounded, CommandsInv, AccountInv, Full,
     RequestsInv, LogsServedWhole, Streamed
<1>2. ASSUME NEW p \in Requests, Begin(p)
      PROVE  GuestInv'
  BY <1>2, RunKeeps, AskKeeps DEF Begin
<1>3. ASSUME NEW p \in Requests, Step(p) \/ HeaderTimeout(p) \/ Abandon(p)
      PROVE  GuestInv'
  BY <1>3, StartKeeps, FailStartKeeps, LookKeeps, SignalKeeps DEF Step, Looking
<1>4. ASSUME NEW c \in Requests, Goroutines(c)
      PROVE  GuestInv'
  BY <1>4, EndKeeps, CopierAppendKeeps DEF Goroutines
<1>5. ASSUME NEW c \in Requests, Environment(c)
      PROVE  GuestInv'
  BY <1>5, ProcessKeeps, EmitKeeps, CopierReadKeeps DEF Environment
<1>. QED
  BY <1>1, <1>2, <1>3, <1>4, <1>5 DEF Next

(* Every reachable state satisfies the invariant.                            *)
THEOREM GuestInvariant == Spec => []GuestInv
<1>1. Init => GuestInv
  BY GuestInit
<1>2. GuestInv /\ [Next]_vars => GuestInv'
  BY GuestStep
<1>. QED
  BY <1>1, <1>2, PTL DEF Spec

(* The types hold, and no session has more commands than the limit.          *)
THEOREM GuestTypeCorrect == Spec => []GuestTypeOK
<1>1. GuestInv => GuestTypeOK
  BY DEF GuestInv
<1>. QED
  BY <1>1, GuestInvariant, PTL

(* The log never exceeds its ceiling (guest-agent main.go:229-251).          *)
THEOREM LogStaysBounded == Spec => []LogBounded
<1>1. GuestInv => LogBounded
  BY DEF GuestInv
<1>. QED
  BY <1>1, GuestInvariant, PTL

(* An exit code is only seen with a complete log (main.go:259-272).          *)
THEOREM LogIsSealed == Spec => []SealedLog
<1>1. GuestInv => SealedLog
  <2>1. SUFFICES ASSUME GuestInv, NEW c \in Requests, NEW s \in Streams,
                        result[c] # None, exit[c] # None
                 PROVE  held[c][s] = 0 /\ (Full(c) \/ logged[c][s] = taken[c][s])
    BY DEF SealedLog
  <2>2. held[c][s] = 0
    BY <2>1 DEF GuestInv, CommandsInv
  <2>3. ~Full(c) => logged[c][s] + held[c][s] = taken[c][s]
    BY <2>1 DEF GuestInv, AccountInv
  <2>. QED
    BY <2>1, <2>2, <2>3 DEF GuestInv, GuestTypeOK, LogsOK
<1>. QED
  BY <1>1, GuestInvariant, PTL

(* A stream that ends by itself has served the whole log (main.go:337-346).  *)
THEOREM StreamsAreWhole == Spec => []LogsServedWhole
<1>1. GuestInv => LogsServedWhole
  BY DEF GuestInv
<1>. QED
  BY <1>1, GuestInvariant, PTL

=============================================================================
