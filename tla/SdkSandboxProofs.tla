-------------------------- MODULE SdkSandboxProofs --------------------------
(***************************************************************************)
(* Proofs about the Sandbox and Session objects of the SDK, for any number *)
(* of handles, calls, sessions and stops: first what is sent again and     *)
(* which hooks run, then that the handles do not go back to old sessions.  *)
(***************************************************************************)
EXTENDS SdkSandboxProperties, TLAPS

-----------------------------------------------------------------------------
(* Types.  The API has given the sessions 1..n.                             *)

Codes == {"ok", "missing", "conflict", "gone", "stopping", "unavailable", "snapshotGone",
          "noFile", "failed", "invalid"}
Kinds == {"none", "hook", "run", "interactive", "read", "write", "session", "snapshot", "stop",
          "update", "delete", "create", "get", "getOrCreate", "fork"}
Phases == {"idle", "send", "wire", "join", "poll", "queued", "stopping", "done"}
InFlight == {"send", "wire", "queued", "stopping"}
Served == {"use", "read", "write", "session", "policy", "interactive", "getSession", "get",
           "peek", "create", "patch", "delete", "drop", "clone"}
Asked == Served \cup {"stop", "snapshot"}

Boxes(n) == [st : {"none", "running", "stopping", "stopped"}, id : 0..n, snap : BOOLEAN,
             file : BOOLEAN]
Answers(n) == [code : Codes, id : 0..n, stopping : BOOLEAN, resumed : BOOLEAN]
Sessions(n) == [id : 0..n, stopping : BOOLEAN] \cup {None}
HandleRecords(n) == [made : BOOLEAN, by : Calls \cup {None}, hook : BOOLEAN, session : Sessions(n)]
ResumeRecords(n) == [pc : {"none", "send", "wire", "hook"}, owner : All \cup {None},
                     ans : Answers(n) \cup {None}]
CallRecords(n) == [kind : Kinds, h : Handles \cup {None}, pc : Phases,
                   op : Resumable \cup {"none"}, req : Asked \cup {"none"}, id : 0..n,
                   obj : BOOLEAN, retried : BOOLEAN, effects : Nat, lost : Nat,
                   ans : Answers(n) \cup {None}, res : {"none", "ok", "null", "error"}]

\* The requests made for an operation that goes through withResume.
Tied == Resumable \cup {"getSession"}

(* Every answer to an operation that the guest carried out was lost.         *)
Untold(r) == r.effects <= r.lost

(* What is known of a call: an effect whose answer is not lost has an answer *)
(* that withResume does not try again.                                       *)
Sound(r, n) ==
  /\ r \in CallRecords(n)
  /\ r.pc = "wire" => r.ans \in Answers(n)
  /\ r.pc \in InFlight => r.req # "none"
  /\ r.pc \in {"join", "poll"} => r.op # "none"
  /\ r.op # "none" \/ r.req \notin {"none", "peek", "clone"} => r.h \in Handles
  /\ r.req \in Tied => r.op # "none"
  /\ \/ Untold(r)
     \/ /\ r.effects = r.lost + 1 /\ r.pc = "wire" /\ r.ans.code \in {"ok", "failed"}
        /\ r.req \in {"use", "write", "session"}

ApiTypes == last \in Nat /\ box \in Boxes(last) /\ crossed \in BOOLEAN
HandleTypes == handle \in [Handles -> HandleRecords(last)]
ResumeTypes ==
  /\ resume \in [Handles -> ResumeRecords(last)]
  /\ \A h \in Handles : resume[h].pc = "wire" => resume[h].ans \in Answers(last)
CallTypes == DOMAIN call = All /\ \A c \in All : Sound(call[c], last)
HookTypes == hooks \subseteq (0..last) \X Handles

SandboxTypes == ApiTypes /\ HandleTypes /\ ResumeTypes /\ CallTypes /\ HookTypes

-----------------------------------------------------------------------------
(* The records of the calls.                                                *)

LEMMA NoCallSound == ASSUME NEW n \in Nat PROVE Sound(Idle, n)
<1>1. Idle \in CallRecords(n)
  BY DEF Idle, CallRecords, Phases, Kinds
<1> QED
  BY <1>1 DEF Idle, Sound, Tied, Resumable, InFlight, Untold

(* The call t is call r with one thing changed: what is left of r, and what  *)
(* a request q on session s, an awaited resume and an end make of it.        *)
Kept(t, r) == t.kind = r.kind /\ t.h = r.h /\ t.op = r.op /\ t.effects = r.effects
              /\ t.lost = r.lost /\ t.retried = r.retried
AskedOf(t, r, q, s, n) ==
  /\ t \in CallRecords(n) /\ Kept(t, r)
  /\ t.pc = "send" /\ t.req = q /\ q # "none" /\ t.obj = TRUE
  /\ t.id = IF s = None THEN 0 ELSE s.id
JoinedOf(t, r, n) ==
  /\ t \in CallRecords(n) /\ Kept(t, r)
  /\ t.pc = "join" /\ t.req = r.req /\ t.id = r.id
DoneOf(t, res, n) ==
  /\ t \in CallRecords(n)
  /\ t.kind = "none" /\ t.h = None
  /\ t.pc = "done" /\ t.op = "none" /\ t.req = "none" /\ Untold(t) /\ t.id = 0
  /\ t.res = "ok" <=> res = "ok"

LEMMA AskFields ==
  ASSUME NEW n \in Nat, NEW r \in CallRecords(n), NEW q \in Asked, NEW s \in Sessions(n)
  PROVE  AskedOf(Ask(r, q, s), r, q, s, n)
<1> DEFINE i == IF s = None THEN 0 ELSE s.id
<1>1. i \in 0..n
  BY DEF Sessions
<1>2. Ask(r, q, s) = [r EXCEPT !.pc = "send", !.req = q, !.ans = None, !.obj = TRUE, !.id = i]
  BY DEF Ask
<1> HIDE DEF i
<1> DEFINE t == [r EXCEPT !.pc = "send", !.req = q, !.ans = None, !.obj = TRUE, !.id = i]
<1>3. t \in CallRecords(n)
  BY <1>1 DEF CallRecords, Phases
<1>4. Kept(t, r) /\ t.pc = "send" /\ t.req = q /\ t.obj = TRUE /\ t.id = i
  BY DEF CallRecords, Kept
<1>5. q # "none"
  BY DEF Asked, Served
<1> HIDE DEF t
<1> QED
  BY <1>2, <1>3, <1>4, <1>5 DEF AskedOf, t, i

LEMMA AskSound ==
  ASSUME NEW n \in Nat, NEW r, Sound(r, n), Untold(r), NEW q \in Asked,
         NEW s \in Sessions(n), r.h \in Handles \/ (r.op = "none" /\ q \in {"peek", "clone"}),
         q \in Tied => r.op # "none"
  PROVE  Sound(Ask(r, q, s), n)
<1> DEFINE t == Ask(r, q, s)
<1>1. AskedOf(t, r, q, s, n)
  BY AskFields DEF Sound
<1> HIDE DEF t
<1>2. Sound(t, n)
  BY <1>1 DEF AskedOf, Kept, Sound, InFlight, Untold
<1> QED
  BY <1>2 DEF t

LEMMA DoneFields == ASSUME NEW n \in Nat, NEW res PROVE DoneOf(Done(res), res, n)
<1> DEFINE x == IF res \in {"ok", "null"} THEN res ELSE "error"
<1>1. x \in {"ok", "null", "error"} /\ (x = "ok" <=> res = "ok")
  OBVIOUS
<1>2. Done(res) = [Idle EXCEPT !.pc = "done", !.res = x]
  BY DEF Done
<1>3. Idle \in CallRecords(n)
  BY NoCallSound DEF Sound
<1>4. /\ Idle.kind = "none" /\ Idle.h = None
      /\ Idle.op = "none" /\ Idle.req = "none" /\ Idle.effects = 0 /\ Idle.lost = 0
      /\ Idle.id = 0
  BY DEF Idle
<1> HIDE DEF x
<1> DEFINE t == [Idle EXCEPT !.pc = "done", !.res = x]
<1>5. /\ t \in CallRecords(n) /\ t.kind = "none" /\ t.h = None /\ t.pc = "done"
      /\ t.op = "none" /\ t.req = "none" /\ t.effects = 0 /\ t.lost = 0 /\ t.id = 0
      /\ t.res = x
  BY <1>1, <1>3, <1>4 DEF CallRecords, Phases
<1> HIDE DEF t
<1>6. Untold(t)
  BY <1>5 DEF Untold
<1> QED
  BY <1>1, <1>2, <1>5, <1>6 DEF DoneOf, t

LEMMA DoneSound == ASSUME NEW n \in Nat, NEW res PROVE Sound(Done(res), n)
<1> DEFINE t == Done(res)
<1>1. DoneOf(t, res, n)
  BY DoneFields
<1> HIDE DEF t
<1>2. Sound(t, n)
  BY <1>1 DEF DoneOf, Sound, Tied, Resumable, InFlight, Untold
<1> QED
  BY <1>2 DEF t

LEMMA JoinedFields ==
  ASSUME NEW n \in Nat, NEW r \in CallRecords(n)
  PROVE  JoinedOf(Joined(r), r, n)
  BY DEF Joined, CallRecords, Phases, JoinedOf, Kept

LEMMA JoinedSound ==
  ASSUME NEW n \in Nat, NEW r, Sound(r, n), Untold(r), r.op # "none"
  PROVE  Sound(Joined(r), n)
<1> DEFINE t == Joined(r)
<1>1. JoinedOf(t, r, n)
  BY JoinedFields DEF Sound
<1> HIDE DEF t
<1>2. Sound(t, n)
  BY <1>1 DEF JoinedOf, Kept, Sound, InFlight, Untold
<1> QED
  BY <1>2 DEF t

(* An operation o of a handle begins on the session s the handle has.        *)
BegunOf(t, r, o, s, n) ==
  /\ Sound(t, n)
  /\ Untold(t) /\ t.retried = FALSE /\ t.h = r.h /\ t.kind = r.kind /\ t.op = o
  /\ s = None => t.pc = "join" /\ t.req = r.req /\ t.id = r.id
  /\ s # None => t.pc = "send" /\ t.id = s.id /\ t.req = o /\ t.obj = TRUE

LEMMA BeginSound ==
  ASSUME NEW n \in Nat, NEW r, Sound(r, n), r.h \in Handles, NEW o \in Resumable,
         NEW s \in Sessions(n)
  PROVE  BegunOf(Begin(r, o, s), r, o, s, n)
<1> DEFINE u == [r EXCEPT !.op = o, !.retried = FALSE, !.effects = 0, !.lost = 0]
<1>1. u \in CallRecords(n)
  BY DEF Sound, CallRecords, Resumable
<1>2. /\ u.op = o /\ u.retried = FALSE /\ Untold(u)
      /\ u.h = r.h /\ u.kind = r.kind /\ u.req = r.req /\ u.id = r.id
  BY DEF Sound, CallRecords, Untold
<1>3. o \in Asked /\ o # "none"
  BY DEF Resumable, Asked, Served
<1> HIDE DEF u
<1>4. CASE s = None
  <2> DEFINE t == Joined(u)
  <2>1. Begin(r, o, s) = t
    BY <1>4 DEF Begin, u
  <2>2. JoinedOf(t, u, n)
    BY <1>1, JoinedFields
  <2> HIDE DEF t
  <2> QED
    BY <1>2, <1>3, <1>4, <2>1, <2>2 DEF JoinedOf, Kept, BegunOf, Sound, InFlight, Untold
<1>5. CASE s # None
  <2> DEFINE t == Ask(u, o, s)
  <2>1. Begin(r, o, s) = t
    BY <1>5 DEF Begin, u
  <2>2. AskedOf(t, u, o, s, n)
    BY <1>1, <1>3, AskFields
  <2> HIDE DEF t
  <2> QED
    BY <1>2, <1>3, <1>5, <2>1, <2>2 DEF AskedOf, Kept, BegunOf, Sound, InFlight, Untold
<1> QED
  BY <1>4, <1>5

(* The operation of call r has ended with res: so has the call, unless       *)
(* getOrCreate goes on to make the sandbox.                                  *)
AfterOf(t, r, res, n) ==
  /\ Sound(t, n) /\ Untold(t)
  /\ \/ DoneOf(t, res, n)
     \/ /\ Tried(r) /\ t.pc = "send" /\ t.op = "none" /\ t.req \in {"create", "drop"}
        /\ t.h = r.h /\ t.kind = r.kind /\ t.id = 0

LEMMA AfterSound ==
  ASSUME NEW n \in Nat, NEW r, Sound(r, n), r.h \in Handles, NEW res,
         Untold(r) \/ res \notin {"missing", "snapshotGone"}
  PROVE  AfterOf(After(r, res), r, res, n)
<1>1. CASE Tried(r) /\ res \in {"missing", "snapshotGone"}
  <2> DEFINE u == [r EXCEPT !.op = "none"]
             q == IF res = "missing" THEN "create" ELSE "drop"
             t == Ask(u, q, None)
  <2>1. u \in CallRecords(n) /\ u.h = r.h /\ Untold(u) /\ u.op = "none" /\ u.kind = r.kind
    BY <1>1 DEF Sound, CallRecords, Untold
  <2>2. q \in {"create", "drop"} /\ q \in Asked /\ None \in Sessions(n)
    BY DEF Asked, Served, Sessions
  <2>3. After(r, res) = t
    BY <1>1 DEF After
  <2> HIDE DEF u, q
  <2>4. AskedOf(t, u, q, None, n)
    BY <2>1, <2>2, AskFields
  <2> HIDE DEF t
  <2> QED
    BY <1>1, <2>1, <2>2, <2>3, <2>4 DEF AskedOf, Kept, AfterOf, Sound, Tied, Resumable, InFlight, Untold
<1>2. CASE ~(Tried(r) /\ res \in {"missing", "snapshotGone"})
  <2> DEFINE t == Done(res)
  <2>1. After(r, res) = t
    BY <1>2 DEF After
  <2>2. Sound(t, n) /\ DoneOf(t, res, n)
    BY DoneSound, DoneFields
  <2> HIDE DEF t
  <2> QED
    BY <2>1, <2>2 DEF AfterOf, DoneOf
<1> QED
  BY <1>1, <1>2

\* A call of which the Session object is no longer the handle's.
Outdated(t, r, n) ==
  /\ t \in CallRecords(n) /\ Kept(t, r)
  /\ t.pc = r.pc /\ t.req = r.req /\ t.id = r.id /\ t.ans = r.ans /\ t.res = r.res /\ t.obj = FALSE

LEMMA ForgetCalls ==
  ASSUME NEW n \in Nat, NEW calls, DOMAIN calls = All, \A c \in All : Sound(calls[c], n), NEW h
  PROVE  /\ DOMAIN Forget(calls, h) = All
         /\ \A c \in All :
              LET t == Forget(calls, h)[c]
                  r == calls[c] IN
              /\ Sound(t, n)
              /\ t = r \/ Outdated(t, r, n)
              /\ t = r \/ /\ r.h = h /\ r.pc \in {"send", "wire", "queued", "stopping"}
                          /\ r.req \in Refreshing
              /\ r.h = h /\ r.pc \in {"send", "wire", "queued", "stopping"}
                   /\ r.req \in Refreshing => t.obj = FALSE
<1>1. DOMAIN Forget(calls, h) = All
  BY DEF Forget
<1>2. ASSUME NEW r, Sound(r, n) PROVE Outdated([r EXCEPT !.obj = FALSE], r, n)
  BY <1>2 DEF Sound, CallRecords, Outdated, Kept
<1>3. ASSUME NEW t, NEW r, Sound(r, n), Outdated(t, r, n) PROVE Sound(t, n)
  BY <1>3 DEF Sound, Outdated, Kept, InFlight, Untold
<1>4. ASSUME NEW c \in All
      PROVE  LET t == Forget(calls, h)[c]
                 r == calls[c]
                 old == /\ r.h = h /\ r.pc \in {"send", "wire", "queued", "stopping"}
                        /\ r.req \in Refreshing
             IN t = IF old THEN [r EXCEPT !.obj = FALSE] ELSE r
  BY DEF Forget
<1>5. ASSUME NEW c \in All
      PROVE  LET t == Forget(calls, h)[c]
                 r == calls[c] IN
             /\ Sound(t, n)
             /\ t = r \/ Outdated(t, r, n)
             /\ t = r \/ /\ r.h = h /\ r.pc \in {"send", "wire", "queued", "stopping"}
                         /\ r.req \in Refreshing
             /\ r.h = h /\ r.pc \in {"send", "wire", "queued", "stopping"}
                  /\ r.req \in Refreshing => t.obj = FALSE
  <2> DEFINE t == Forget(calls, h)[c]
             r == calls[c]
             old == /\ r.h = h /\ r.pc \in {"send", "wire", "queued", "stopping"}
                    /\ r.req \in Refreshing
  <2>1. Sound(r, n) /\ t = IF old THEN [r EXCEPT !.obj = FALSE] ELSE r
    BY <1>4
  <2>2. CASE old
    <3>1. Outdated(t, r, n)
      BY <1>2, <2>1, <2>2
    <3> HIDE DEF t, r
    <3>2. Sound(t, n) /\ t.obj = FALSE
      BY <1>3, <2>1, <3>1 DEF Outdated
    <3> QED
      BY <2>2, <3>1, <3>2 DEF t, r
  <2>3. CASE ~old
    <3>1. t = r
      BY <2>1, <2>3
    <3> QED
      BY <2>1, <2>3, <3>1
  <2> QED
    BY <2>2, <2>3
<1> QED
  BY <1>1, <1>5

\* A resume of h has ended with res: those who awaited it go on.
SettledOf(t, r, h, s, res, n) ==
  /\ Sound(t, n)
  /\ res = "ok" => AskedOf(t, r, r.op, s, n)
  /\ res # "ok" => AfterOf(t, r, res, n)

LEMMA SettledCalls ==
  ASSUME NEW n \in Nat, NEW calls, DOMAIN calls = All, \A c \in All : Sound(calls[c], n),
         \A c \in All : call[c].pc = "join" => calls[c] = call[c],
         NEW h \in Handles, NEW s \in Sessions(n), NEW res
  PROVE  LET new == Settled(calls, h, s, res) IN
         /\ DOMAIN new = All
         /\ \A c \in All :
              /\ Sound(new[c], n)
              /\ c \notin Joiners(h) => new[c] = calls[c]
              /\ c \in Joiners(h) => SettledOf(new[c], call[c], h, s, res, n)
<1> DEFINE new == Settled(calls, h, s, res)
<1>1. DOMAIN new = All
  BY DEF Settled
<1>2. ASSUME NEW c \in All, c \notin Joiners(h) PROVE new[c] = calls[c]
  BY <1>2 DEF Settled
<1>3. ASSUME NEW c \in All, c \in Joiners(h) PROVE SettledOf(new[c], call[c], h, s, res, n)
  <2> DEFINE r == call[c]
  <2>1. calls[c] = r /\ Sound(r, n) /\ r.h = h /\ r.pc = "join"
    BY <1>3 DEF Joiners
  <2>2. new[c] = IF res = "ok" THEN Ask(r, r.op, s) ELSE After(r, res)
    BY <1>3, <2>1 DEF Settled
  <2> HIDE DEF new, r
  <2>3. r \in CallRecords(n) /\ Untold(r) /\ r.op \in Resumable /\ r.op \in Asked
    BY <2>1 DEF Sound, CallRecords, Resumable, Asked, Served
  <2>4. AskedOf(Ask(r, r.op, s), r, r.op, s, n) /\ Sound(Ask(r, r.op, s), n)
    BY <2>1, <2>3, AskFields, AskSound DEF Tied, Resumable
  <2>5. AfterOf(After(r, res), r, res, n)
    BY <2>1, <2>3, AfterSound
  <2>6. Sound(After(r, res), n)
    BY <2>5 DEF AfterOf
  <2> QED
    BY <2>2, <2>4, <2>5, <2>6 DEF SettledOf, r
<1>4. ASSUME NEW c \in All PROVE Sound(new[c], n)
  BY <1>2, <1>3, <1>4 DEF SettledOf
<1> HIDE DEF new
<1> QED
  BY <1>1, <1>2, <1>3, <1>4 DEF new

-----------------------------------------------------------------------------
(* The API.                                                                 *)

(* An answer o to request req on session id: either the API gives a new      *)
(* session, or it shows one it has given before, and none that it resumed.   *)
NewSession(o, req) ==
  /\ o.box \in Boxes(last + 1) /\ o.ans \in Answers(last + 1)
  /\ o.box.id = last + 1 /\ o.ans.id = last + 1 /\ o.ans.code = "ok" /\ o.box.st = "running"
  /\ req \in {"get", "create"} /\ (o.ans.resumed => req = "get")
OldSession(o, req, id) ==
  /\ o.box \in Boxes(last) /\ o.ans \in Answers(last) /\ o.ans.resumed = FALSE
  /\ o.box.st # "none" => o.box.id = box.id /\ box.st # "none"
  /\ o.ans.code = "ok" /\ req \in {"use", "read", "write", "session", "policy", "getSession"}
       => o.ans.id = id
  /\ o.ans.code = "ok" /\ req \in {"get", "create"} => o.box.st # "none" /\ o.ans.id = box.id

LEMMA AnswerTypes ==
  ASSUME NEW n \in Nat
  PROVE  /\ \A k \in Codes : Says(k) \in Answers(n) /\ Says(k).resumed = FALSE /\ Says(k).code = k
         /\ \A b \in Boxes(n), t \in BOOLEAN :
              /\ Shows(b, t) \in Answers(n)
              /\ Shows(b, t).id = b.id /\ Shows(b, t).resumed = t /\ Shows(b, t).code = "ok"
  BY DEF Says, Shows, Answers, Boxes, Codes

LEMMA ShownTypes ==
  ASSUME ApiTypes
  PROVE  /\ Shows(box, FALSE) \in Answers(last)
         /\ Shows(box, FALSE).id = box.id /\ Shows(box, FALSE).resumed = FALSE
         /\ Shows(box, FALSE).code = "ok"
  BY AnswerTypes DEF ApiTypes

LEMMA OutcomeTypes ==
  ASSUME ApiTypes, NEW req \in Served, NEW id, NEW o \in Outcomes(req, id)
  PROVE  NewSession(o, req) \/ OldSession(o, req, id)
<1>0. last \in Nat /\ box \in Boxes(last)
  BY DEF ApiTypes
<1>1. ASSUME NEW codes, codes \subseteq Codes \ {"ok"}, o \in Keep(codes)
      PROVE  OldSession(o, req, id)
  <2>1. PICK k \in codes : o = [box |-> box, ans |-> Says(k)]
    BY <1>1 DEF Keep
  <2>2. k \in Codes /\ k # "ok"
    BY <1>1
  <2>3. o.box = box /\ o.ans = Says(k)
    BY <2>1
  <2>4. Says(k) \in Answers(last) /\ Says(k).resumed = FALSE /\ Says(k).code = k
    BY <1>0, <2>2, AnswerTypes
  <2> QED
    BY <1>0, <2>2, <2>3, <2>4 DEF OldSession
<1>2. ASSUME o = [box |-> box, ans |-> Shows(box, FALSE)],
             req \in {"get", "create"} => box.st # "none",
             req \in {"use", "read", "write", "session", "policy", "getSession"} => box.id = id
      PROVE  OldSession(o, req, id)
  BY <1>0, <1>2, AnswerTypes DEF OldSession
<1>3. Expired \subseteq Codes \ {"ok"} /\ Busy \subseteq Codes \ {"ok"}
  BY SdkSandboxAssumption DEF Codes
<1>4. Refusals(id) = {} => Known(id)
  BY DEF Refusals
<1>5. Refusals(id) \subseteq Codes \ {"ok"}
  BY <1>3 DEF Refusals, Codes
<1>6. CASE req \in {"use", "read", "write", "session", "policy", "interactive"}
  <2>1. o \in UseSession(req, id)
    BY <1>6 DEF Outcomes
  <2>2. CASE Refusals(id) # {}
    BY <1>1, <1>5, <2>1, <2>2 DEF UseSession
  <2>3. CASE Refusals(id) = {}
    <3>1. box.id = id
      BY <1>4, <2>3 DEF Known
    <3>2. {"failed"} \subseteq Codes \ {"ok"} /\ {"noFile"} \subseteq Codes \ {"ok"}
      BY DEF Codes
    <3>3. CASE req = "use"
      <4>1. o = [box |-> box, ans |-> Shows(box, FALSE)] \/ o \in Keep({"failed"})
        BY <2>1, <2>3, <3>3 DEF UseSession, Keep
      <4> QED
        BY <1>1, <1>2, <3>1, <3>2, <3>3, <4>1
    <3>4. CASE req = "write"
      <4> DEFINE b == [box EXCEPT !.file = TRUE]
      <4>1. o = [box |-> b, ans |-> Shows(box, FALSE)] \/ o = [box |-> b, ans |-> Says("failed")]
        BY <2>1, <2>3, <3>4 DEF UseSession
      <4>2. b \in Boxes(last) /\ b.id = box.id /\ b.st = box.st
        BY <1>0 DEF Boxes
      <4> HIDE DEF b
      <4>3. CASE o = [box |-> b, ans |-> Shows(box, FALSE)]
        <5>1. o.box = b /\ o.ans = Shows(box, FALSE)
          BY <4>3
        <5> QED
          BY <1>0, <3>1, <3>4, <4>2, <5>1, ShownTypes DEF OldSession
      <4>4. CASE o = [box |-> b, ans |-> Says("failed")]
        <5>1. o.box = b /\ o.ans = Says("failed")
          BY <4>4
        <5>2. /\ Says("failed") \in Answers(last) /\ Says("failed").resumed = FALSE
              /\ Says("failed").code = "failed"
          BY <1>0, <3>2, AnswerTypes
        <5> QED
          BY <1>0, <3>4, <4>2, <5>1, <5>2 DEF OldSession
      <4> QED
        BY <4>1, <4>3, <4>4
    <3>5. CASE req = "read"
      <4>1. o = [box |-> box, ans |-> Shows(box, FALSE)] \/ o \in Keep({"noFile"})
        BY <2>1, <2>3, <3>5 DEF UseSession
      <4> QED
        BY <1>1, <1>2, <3>1, <3>2, <3>5, <4>1
    <3>6. CASE req = "interactive"
      BY <1>1, <2>1, <2>3, <3>2, <3>6 DEF UseSession
    <3>7. CASE req \in {"session", "policy"}
      <4>1. o = [box |-> box, ans |-> Shows(box, FALSE)]
        BY <2>1, <2>3, <3>7 DEF UseSession
      <4> QED
        BY <1>2, <3>1, <3>7, <4>1
    <3> QED
      BY <1>6, <3>3, <3>4, <3>5, <3>6, <3>7
  <2> QED
    BY <2>2, <2>3
<1>7. CASE req = "getSession"
  <2>1. \/ Known(id) /\ o = [box |-> box, ans |-> Shows(box, FALSE)]
        \/ o \in Keep({"missing"})
    BY <1>7 DEF Outcomes
  <2> QED
    BY <1>1, <1>2, <1>7, <2>1 DEF Known, Codes
<1>8. ASSUME NEW b, b \in Boxes(last + 1), b.id = last + 1, b.st = "running", NEW t \in BOOLEAN,
             o = [box |-> b, ans |-> Shows(b, t)], req \in {"get", "create"}, t => req = "get"
      PROVE  NewSession(o, req)
  <2>1. o.box = b /\ o.ans = Shows(b, t) /\ last + 1 \in Nat
    BY <1>0, <1>8
  <2>2. /\ Shows(b, t) \in Answers(last + 1)
        /\ Shows(b, t).id = b.id /\ Shows(b, t).resumed = t /\ Shows(b, t).code = "ok"
    BY <1>8, <2>1, AnswerTypes
  <2> QED
    BY <1>8, <2>1, <2>2 DEF NewSession
<1>9. CASE req = "get" \/ req = "peek"
  <2> DEFINE b == [box EXCEPT !.st = "running", !.id = last + 1]
  <2>1. \/ o \in Keep({"missing"}) \/ o \in Keep(Expired)
        \/ box.st # "none" /\ o = [box |-> box, ans |-> Shows(box, FALSE)]
        \/ req = "get" /\ o = [box |-> b, ans |-> Shows(b, TRUE)]
    BY <1>9 DEF Outcomes, GetSandbox
  <2>2. b \in Boxes(last + 1) /\ b.id = last + 1 /\ b.st = "running"
    <3>1. last + 1 \in 0..(last + 1)
      BY <1>0
    <3> QED
      BY <1>0, <3>1 DEF Boxes
  <2> HIDE DEF b
  <2> QED
    BY <1>1, <1>2, <1>3, <1>8, <1>9, <2>1, <2>2 DEF Codes
<1>10. CASE req = "create"
  <2> DEFINE b == [st |-> "running", id |-> last + 1, snap |-> FALSE, file |-> FALSE]
  <2>1. o \in Keep({"conflict"}) \/ o = [box |-> b, ans |-> Shows(b, FALSE)]
    BY <1>10 DEF Outcomes, CreateSandbox
  <2>2. b \in Boxes(last + 1) /\ b.id = last + 1 /\ b.st = "running"
    BY <1>0 DEF Boxes
  <2> HIDE DEF b
  <2> QED
    BY <1>1, <1>8, <1>10, <2>1, <2>2 DEF Codes
<1>11. CASE req = "patch"
  <2>1. o \in Keep({"missing"}) \/ o = [box |-> box, ans |-> Shows(box, FALSE)]
    BY <1>11 DEF Outcomes
  <2> QED
    BY <1>1, <1>2, <1>11, <2>1 DEF Codes
<1>12. CASE req \in {"delete", "drop"}
  <2>1. o \in Keep({"missing"}) \/ o = [box |-> NoBox, ans |-> Shows(box, FALSE)]
    BY <1>12 DEF Outcomes, DeleteSandbox
  <2>2. NoBox \in Boxes(last) /\ NoBox.st = "none"
    BY <1>0 DEF NoBox, Boxes
  <2>3. CASE o = [box |-> NoBox, ans |-> Shows(box, FALSE)]
    <3>1. o.box = NoBox /\ o.ans = Shows(box, FALSE)
      BY <2>3
    <3> QED
      BY <1>0, <1>12, <2>2, <3>1, ShownTypes DEF OldSession
  <2> QED
    BY <1>1, <2>1, <2>3 DEF Codes
<1>13. CASE req = "clone"
  <2>1. o \in Keep({"ok", "missing"})
    BY <1>13 DEF Outcomes
  <2>2. PICK k \in {"ok", "missing"} : o = [box |-> box, ans |-> Says(k)]
    BY <2>1 DEF Keep
  <2>3. o.box = box /\ o.ans = Says(k) /\ k \in Codes
    BY <2>2 DEF Codes
  <2>4. Says(k) \in Answers(last) /\ Says(k).resumed = FALSE
    BY <1>0, <2>3, AnswerTypes
  <2> QED
    BY <1>0, <1>13, <2>3, <2>4 DEF OldSession
<1> QED
  BY <1>6, <1>7, <1>9, <1>10, <1>11, <1>12, <1>13 DEF Served

-----------------------------------------------------------------------------
(* The hooks, and the calls that are sent again after a resume.             *)

Resumed(h) == resume[h].pc = "wire" /\ resume[h].ans.resumed
Getting(c) == call[c].pc = "wire" /\ call[c].ans.resumed
Again(r) == r.pc \in InFlight /\ r.req = r.op /\ r.retried

\* Call r is under way and goes on as t, with the same request.
Onward(t, r) ==
  /\ r.pc \in InFlight
  /\ t.h = r.h /\ t.id = r.id /\ t.req = r.req /\ t.op = r.op /\ t.retried = r.retried

(* An answer that says a session was resumed is the only one of its session, *)
(* and no hook has run for it yet.                                           *)
HooksInv ==
  /\ OneHookPerSession
  /\ \A h \in Handles : Resumed(h) =>
       /\ \A a \in hooks : a[1] # resume[h].ans.id
       /\ \A g \in Handles : Resumed(g) /\ resume[g].ans.id = resume[h].ans.id => g = h
       /\ \A c \in All : Getting(c) => call[c].ans.id # resume[h].ans.id
  /\ \A c \in All : Getting(c) =>
       /\ \A a \in hooks : a[1] # call[c].ans.id
       /\ \A d \in All : Getting(d) /\ call[d].ans.id = call[c].ans.id => d = c

(* A call sent again names a session from before the resume under way.       *)
RetryInv ==
  \A c \in All : Again(call[c]) =>
    LET h == call[c].h IN
    /\ Resumed(h) => call[c].id < resume[h].ans.id
    /\ resume[h].pc = "hook" => \E a \in hooks : a[2] = h /\ call[c].id < a[1]

SandboxInv == SandboxTypes /\ HooksInv /\ RetryInv

LEMMA SoundGrows ==
  ASSUME NEW m \in Nat, NEW n \in Nat, m <= n, NEW r, Sound(r, m)
  PROVE  Sound(r, n)
<1>1. 0..m \subseteq 0..n
  OBVIOUS
<1>2. Answers(m) \subseteq Answers(n)
  BY <1>1 DEF Answers
<1>3. CallRecords(m) \subseteq CallRecords(n)
  BY <1>1, <1>2 DEF CallRecords
<1> QED
  BY <1>2, <1>3 DEF Sound

LEMMA OneCall ==
  ASSUME CallTypes, NEW c \in All, NEW r, call' = [call EXCEPT ![c] = r]
  PROVE  /\ DOMAIN call' = All /\ call'[c] = r /\ \A d \in All : d # c => call'[d] = call[d]
         /\ UNCHANGED last /\ Sound(r, last) => CallTypes'
  BY DEF CallTypes

\* A call changes so that no new hook, and no hook under way, has to do with it.
Plain(d) ==
  \/ call'[d] = call[d]
  \/ Outdated(call'[d], call[d], last)
  \/ /\ call'[d].pc = "wire" => ~call'[d].ans.resumed
     /\ Onward(call'[d], call[d])
  \/ /\ call'[d].pc = "wire" => ~call'[d].ans.resumed
     /\ Again(call'[d]) => resume'[call'[d].h].pc \in {"none", "send"}

\* No new hook has to do with the resume of h.
PlainResume(h) ==
  \/ resume'[h] = resume[h]
  \/ resume'[h].pc \in {"none", "send"}
  \/ resume'[h].pc = "wire" /\ ~resume'[h].ans.resumed

LEMMA PlainStep ==
  ASSUME HooksInv, RetryInv, UNCHANGED hooks, \A d \in All : Plain(d),
         \A h \in Handles : PlainResume(h),
         \A d \in All : Again(call[d]) => call[d].h \in Handles
  PROVE  HooksInv' /\ RetryInv'
<1>1. ASSUME NEW h \in Handles, Resumed(h)' PROVE Resumed(h) /\ resume'[h] = resume[h]
  BY <1>1 DEF Resumed, PlainResume
<1>2. ASSUME NEW c \in All, Getting(c)' PROVE Getting(c) /\ call'[c].ans = call[c].ans
  BY <1>2 DEF Getting, Plain, Outdated
<1>3. OneHookPerSession'
  BY DEF HooksInv, OneHookPerSession
<1>4. HooksInv'
  BY <1>1, <1>2, <1>3 DEF HooksInv
<1>5. ASSUME NEW c \in All, Again(call'[c]),
             LET x == resume'[call'[c].h] IN x.pc = "hook" \/ (x.pc = "wire" /\ x.ans.resumed)
      PROVE  /\ Again(call[c]) /\ call'[c].h = call[c].h /\ call'[c].id = call[c].id
             /\ call[c].h \in Handles
  BY <1>5 DEF Plain, Outdated, Kept, Again, InFlight, Onward, Resumed
<1>6. RetryInv'
  BY <1>1, <1>5 DEF RetryInv, Resumed, PlainResume
<1> QED
  BY <1>4, <1>6

-----------------------------------------------------------------------------
(* Steps of one call.                                                       *)

LEMMA CallKnown ==
  ASSUME SandboxTypes, NEW c \in All
  PROVE  /\ last \in Nat /\ Sound(call[c], last) /\ call[c] \in CallRecords(last)
         /\ call[c].pc = "wire" => call[c].ans \in Answers(last)
         /\ Again(call[c]) => call[c].h \in Handles
  BY DEF SandboxTypes, ApiTypes, CallTypes, Sound, Again, InFlight

\* What must hold of the other variables for call c to become t.
QuietStep ==
  /\ ApiTypes' /\ UNCHANGED <<last, hooks>>
  /\ HandleTypes' /\ ResumeTypes'
  /\ \A h \in Handles : PlainResume(h)

LEMMA CallStep ==
  ASSUME SandboxInv, QuietStep, NEW c \in All, NEW t, call' = [call EXCEPT ![c] = t],
         Sound(t, last), t.pc = "wire" => t.ans.resumed = FALSE,
         ~Again(t) \/ Onward(t, call[c])
  PROVE  SandboxInv'
<1>1. /\ DOMAIN call' = All /\ call'[c] = t /\ \A d \in All : d # c => call'[d] = call[d]
      /\ CallTypes'
  BY OneCall DEF SandboxInv, SandboxTypes, QuietStep
<1>2. \A d \in All : Plain(d)
  BY <1>1 DEF Plain
<1>3. \A d \in All : Again(call[d]) => call[d].h \in Handles
  BY CallKnown DEF SandboxInv
<1>4. HooksInv' /\ RetryInv'
  BY <1>2, <1>3, PlainStep DEF SandboxInv, QuietStep
<1>5. HookTypes'
  BY DEF SandboxInv, SandboxTypes, HookTypes, QuietStep
<1> QED
  BY <1>1, <1>4, <1>5 DEF SandboxInv, SandboxTypes, QuietStep

LEMMA UnchangedTypes ==
  ASSUME SandboxTypes
  PROVE  /\ UNCHANGED <<box, last, crossed>> => ApiTypes'
         /\ UNCHANGED <<last, handle>> => HandleTypes'
         /\ UNCHANGED <<last, resume>> => ResumeTypes'
         /\ UNCHANGED <<last, hooks>> => HookTypes'
         /\ UNCHANGED <<last, call>> => CallTypes'
  BY DEF SandboxTypes, ApiTypes, HandleTypes, ResumeTypes, HookTypes, CallTypes

LEMMA ResumeByStep ==
  ASSUME SandboxTypes, UNCHANGED last, NEW c \in All, NEW h \in Handles, resume' = ResumeBy(c, h)
  PROVE  /\ ResumeTypes'
         /\ \A g \in Handles : resume'[g] = resume[g] \/ resume'[g].pc \in {"none", "send"}
<1> DEFINE r == [pc |-> "send", owner |-> c, ans |-> None]
<1>1. r \in ResumeRecords(last) /\ r.pc = "send"
  BY DEF ResumeRecords
<1> HIDE DEF r
<1>2. resume' = resume \/ resume' = [resume EXCEPT ![h] = r]
  BY DEF ResumeBy, r
<1> QED
  BY <1>1, <1>2 DEF SandboxTypes, ResumeTypes

LEMMA SessionStep ==
  ASSUME SandboxTypes, UNCHANGED last, NEW h \in Handles, NEW s \in Sessions(last),
         handle' = [handle EXCEPT ![h].session = s]
  PROVE  HandleTypes'
<1> DEFINE r == [handle[h] EXCEPT !.session = s]
<1>1. r \in HandleRecords(last)
  BY DEF SandboxTypes, HandleTypes, HandleRecords
<1>2. handle' = [handle EXCEPT ![h] = r]
  BY DEF SandboxTypes, HandleTypes
<1> HIDE DEF r
<1> QED
  BY <1>1, <1>2 DEF SandboxTypes, HandleTypes

LEMMA SeenTypes ==
  ASSUME NEW n \in Nat, NEW a \in Answers(n)
  PROVE  Seen(a) \in Sessions(n) /\ Seen(a).id = a.id
<1>1. Seen(a) \in [id : 0..n, stopping : BOOLEAN] /\ Seen(a).id = a.id
  BY DEF Seen, Answers
<1> QED
  BY <1>1 DEF Sessions

LEMMA RefreshStep ==
  ASSUME SandboxTypes, UNCHANGED last, NEW c \in All, call[c].pc = "wire", call[c].h \in Handles,
         handle' = Refresh(c) \/ UNCHANGED handle
  PROVE  HandleTypes'
<1>1. Seen(call[c].ans) \in Sessions(last)
  BY CallKnown, SeenTypes
<1>2. CASE handle' = [handle EXCEPT ![call[c].h].session = Seen(call[c].ans)]
  BY <1>1, <1>2, SessionStep
<1>3. CASE UNCHANGED handle
  BY <1>3, UnchangedTypes
<1> QED
  BY <1>2, <1>3 DEF Refresh

-----------------------------------------------------------------------------
(* The operations of the program.                                           *)

LEMMA FreshCall ==
  ASSUME NEW n \in Nat, NEW k \in Kinds, NEW h \in Handles
  PROVE  LET r == [Idle EXCEPT !.kind = k, !.h = h] IN
         Sound(r, n) /\ r.h = h /\ r.op = "none" /\ Untold(r) /\ r.retried = FALSE
<1> DEFINE r == [Idle EXCEPT !.kind = k, !.h = h]
<1>1. r \in CallRecords(n) /\ r.pc = "idle" /\ r.req = "none"
      /\ r.h = h /\ r.op = "none" /\ r.effects = 0 /\ r.lost = 0 /\ r.retried = FALSE
  <2>1. Idle \in CallRecords(n)
    BY NoCallSound DEF Sound
  <2>2. Idle.pc = "idle" /\ Idle.req = "none" /\ Idle.op = "none"
        /\ Idle.effects = 0 /\ Idle.lost = 0 /\ Idle.retried = FALSE
    BY DEF Idle
  <2> QED
    BY <2>1, <2>2 DEF CallRecords
<1> HIDE DEF r
<1>2. Sound(r, n) /\ Untold(r)
  BY <1>1 DEF Sound, Tied, Resumable, InFlight, Untold
<1> QED
  BY <1>1, <1>2 DEF r

LEMMA WithResumeStep ==
  ASSUME SandboxInv, NEW c \in Calls, NEW h \in Handles, NEW k \in Kinds, NEW op \in Resumable,
         WithResume(c, h, k, op)
  PROVE  SandboxInv'
<1> DEFINE r == [Idle EXCEPT !.kind = k, !.h = h]
           t == Begin(r, op, handle[h].session)
<1>1. /\ call' = [call EXCEPT ![c] = t]
      /\ resume' = ResumeBy(c, h) \/ UNCHANGED resume
      /\ UNCHANGED <<box, last, crossed, handle, hooks>>
  BY DEF WithResume, api
<1>2. c \in All /\ last \in Nat /\ handle[h].session \in Sessions(last) /\ SandboxTypes
  BY DEF All, SandboxInv, SandboxTypes, ApiTypes, HandleTypes, HandleRecords
<1>3. Sound(r, last) /\ r.h = h
  BY <1>2, FreshCall
<1> HIDE DEF r
<1>4. BegunOf(t, r, op, handle[h].session, last)
  BY <1>2, <1>3, BeginSound
<1> HIDE DEF t
<1>5. /\ Sound(t, last) /\ ~Again(t)
      /\ t.pc # "wire"
  BY <1>4 DEF BegunOf, Again, InFlight
<1>6. QuietStep
  BY <1>1, <1>2, ResumeByStep, UnchangedTypes DEF QuietStep, PlainResume
<1> QED
  BY <1>1, <1>2, <1>5, <1>6, CallStep

LEMMA AskStep ==
  ASSUME SandboxInv, QuietStep, NEW c \in All, NEW r, Sound(r, last), Untold(r),
         NEW q \in Asked, NEW s \in Sessions(last),
         r.h \in Handles \/ (r.op = "none" /\ q \in {"peek", "clone"}),
         q # r.op \/ r.retried = FALSE, q \in Tied => r.op # "none",
         call' = [call EXCEPT ![c] = Ask(r, q, s)]
  PROVE  SandboxInv'
<1> DEFINE t == Ask(r, q, s)
<1>1. last \in Nat
  BY DEF SandboxInv, SandboxTypes, ApiTypes
<1>2. Sound(t, last) /\ AskedOf(t, r, q, s, last)
  BY <1>1, AskSound, AskFields DEF Sound
<1> HIDE DEF t
<1>3. ~Again(t) /\ t.pc # "wire"
  BY <1>2 DEF AskedOf, Kept, Again, InFlight
<1> QED
  BY <1>2, <1>3, CallStep DEF t

LEMMA DirectStep ==
  ASSUME SandboxInv, NEW c \in Calls, NEW h \in Handles, NEW k \in Kinds,
         NEW q \in Asked \ Tied, Direct(c, h, k, q)
  PROVE  SandboxInv'
<1> DEFINE r == [Idle EXCEPT !.kind = k, !.h = h]
<1>1. /\ call' = [call EXCEPT ![c] = Ask(r, q, handle[h].session)]
      /\ UNCHANGED <<box, last, crossed, handle, resume, hooks>>
  BY DEF Direct, api
<1>2. c \in All /\ last \in Nat /\ handle[h].session \in Sessions(last)
  BY DEF All, SandboxInv, SandboxTypes, ApiTypes, HandleTypes, HandleRecords
<1>3. Sound(r, last) /\ r.h = h /\ Untold(r) /\ r.retried = FALSE
  BY <1>2, FreshCall
<1> HIDE DEF r
<1>4. QuietStep
  BY <1>1, <1>2, UnchangedTypes DEF QuietStep, PlainResume, SandboxInv
<1> QED
  BY <1>1, <1>2, <1>3, <1>4, AskStep

LEMMA StaticStep ==
  ASSUME SandboxInv, NEW c \in Calls, NEW h \in Handles, NEW k \in Kinds,
         NEW q \in Asked \ Tied, Static(c, h, k, q)
  PROVE  SandboxInv'
<1> DEFINE r == [Idle EXCEPT !.kind = k, !.h = h]
<1>1. PICK b \in BOOLEAN :
        /\ handle' = [handle EXCEPT ![h] = [NoHandle EXCEPT !.made = TRUE, !.by = c, !.hook = b]]
        /\ call' = [call EXCEPT ![c] = Ask(r, q, None)]
  BY DEF Static
<1>2. UNCHANGED <<box, last, crossed, resume, hooks>>
  BY DEF Static, api
<1>3. c \in All /\ last \in Nat /\ None \in Sessions(last) /\ SandboxTypes
  BY DEF All, SandboxInv, SandboxTypes, ApiTypes, Sessions
<1>4. Sound(r, last) /\ r.h = h /\ Untold(r) /\ r.retried = FALSE
  BY <1>3, FreshCall
<1> HIDE DEF r
<1>5. HandleTypes'
  <2> DEFINE x == [NoHandle EXCEPT !.made = TRUE, !.by = c, !.hook = b]
  <2>1. x \in HandleRecords(last)
    BY <1>3 DEF NoHandle, HandleRecords
  <2> HIDE DEF x
  <2>2. handle' = [handle EXCEPT ![h] = x]
    BY <1>1 DEF x
  <2> QED
    BY <1>2, <1>3, <2>1, <2>2 DEF SandboxTypes, HandleTypes
<1>6. QuietStep
  BY <1>2, <1>3, <1>5, UnchangedTypes DEF QuietStep, PlainResume
<1> QED
  BY <1>1, <1>3, <1>4, <1>6, AskStep

LEMMA ForkStep ==
  ASSUME SandboxInv, NEW c \in Calls, Fork(c)
  PROVE  SandboxInv'
<1> DEFINE r == [Idle EXCEPT !.kind = "fork"]
<1>1. /\ call' = [call EXCEPT ![c] = Ask(r, "peek", None)]
      /\ UNCHANGED <<box, last, crossed, handle, resume, hooks>>
  BY DEF Fork, api
<1>2. c \in All /\ last \in Nat /\ None \in Sessions(last) /\ "peek" \in Asked
  BY DEF All, SandboxInv, SandboxTypes, ApiTypes, Sessions, Asked, Served
<1>3. Sound(r, last) /\ r.op = "none" /\ Untold(r) /\ r.retried = FALSE
  <2>1. r \in CallRecords(last) /\ r.pc = "idle" /\ r.req = "none"
        /\ r.op = "none" /\ Untold(r) /\ r.retried = FALSE
    <3>1. Idle \in CallRecords(last)
      BY <1>2, NoCallSound DEF Sound
    <3>2. Idle.pc = "idle" /\ Idle.req = "none" /\ Idle.op = "none"
          /\ Idle.effects = 0 /\ Idle.lost = 0 /\ Idle.retried = FALSE
      BY DEF Idle
    <3> QED
      BY <3>1, <3>2 DEF CallRecords, Kinds, Untold
  <2> HIDE DEF r
  <2> QED
    BY <2>1 DEF Sound, Tied, Resumable, InFlight, Untold
<1> HIDE DEF r
<1>4. QuietStep
  BY <1>1, <1>2, UnchangedTypes DEF QuietStep, PlainResume, SandboxInv
<1> QED
  BY <1>1, <1>2, <1>3, <1>4, AskStep DEF Tied, Resumable

\* No call changes.
LEMMA StillCalls ==
  ASSUME SandboxInv, UNCHANGED <<last, resume, call, hooks>>, ApiTypes', HandleTypes'
  PROVE  SandboxInv'
<1>1. \A d \in All : Plain(d)
  BY DEF Plain
<1>2. \A d \in All : Again(call[d]) => call[d].h \in Handles
  BY CallKnown DEF SandboxInv
<1>3. HooksInv' /\ RetryInv'
  BY <1>1, <1>2, PlainStep DEF SandboxInv, PlainResume
<1>4. ResumeTypes' /\ CallTypes' /\ HookTypes'
  BY UnchangedTypes DEF SandboxInv
<1> QED
  BY <1>3, <1>4 DEF SandboxInv, SandboxTypes

LEMMA DeserializeStep ==
  ASSUME SandboxInv, NEW h \in Handles, NEW g \in Handles, Deserialize(h, g)
  PROVE  SandboxInv'
<1> DEFINE x == [NoHandle EXCEPT !.made = TRUE, !.session = handle[h].session]
<1>1. handle' = [handle EXCEPT ![g] = x] /\ UNCHANGED <<box, last, crossed, resume, call, hooks>>
  BY DEF Deserialize, api
<1>2. handle[h].session \in Sessions(last)
  BY DEF SandboxInv, SandboxTypes, HandleTypes, HandleRecords
<1>3. x \in HandleRecords(last)
  BY <1>2 DEF NoHandle, HandleRecords
<1> HIDE DEF x
<1>4. HandleTypes'
  BY <1>1, <1>3 DEF SandboxInv, SandboxTypes, HandleTypes
<1> QED
  BY <1>1, <1>4, StillCalls, UnchangedTypes DEF SandboxInv

LEMMA StartStep ==
  ASSUME SandboxInv, NEW c \in Calls, Start(c)
  PROVE  SandboxInv'
<1> USE DEF Kinds, Resumable, Tied, Asked, Served
<1>1. CASE \E h \in Handles :
             \/ RunCommand(c, h) \/ GetCommand(c, h) \/ MkDir(c, h) \/ OpenInteractive(c, h)
             \/ ReadFile(c, h) \/ ReadFileToBuffer(c, h) \/ DownloadFile(c, h) \/ WriteFiles(c, h)
             \/ UpdateNetworkPolicy(c, h) \/ ExtendTimeout(c, h) \/ TakeSnapshot(c, h)
  BY <1>1, WithResumeStep
     DEF RunCommand, GetCommand, MkDir, OpenInteractive, ReadFile, ReadFileToBuffer, DownloadFile,
         WriteFiles, UpdateNetworkPolicy, ExtendTimeout, TakeSnapshot
<1>2. CASE \E h \in Handles : Stop(c, h) \/ Update(c, h) \/ Delete(c, h)
  BY <1>2, DirectStep DEF Stop, Update, Delete
<1>3. CASE \E h \in Handles : Create(c, h) \/ Get(c, h) \/ GetOrCreate(c, h)
  BY <1>3, StaticStep DEF Create, Get, GetOrCreate
<1>4. CASE Fork(c)
  BY <1>4, ForkStep
<1>5. CASE Abort(c)
  BY <1>5, StillCalls, UnchangedTypes DEF Abort, api, SandboxInv
<1> QED
  BY <1>1, <1>2, <1>3, <1>4, <1>5 DEF Start

-----------------------------------------------------------------------------
(* The API answers.                                                         *)

\* The answer a to call c, which has no effect that is not lost.
LEMMA AnsweredSound ==
  ASSUME NEW n \in Nat, NEW r, Sound(r, n), Untold(r), r.pc \in InFlight,
         NEW a \in Answers(n)
  PROVE  LET t == [r EXCEPT !.pc = "wire", !.ans = a] IN
         Sound(t, n) /\ t.pc = "wire" /\ t.ans = a /\ Onward(t, r)
<1> DEFINE t == [r EXCEPT !.pc = "wire", !.ans = a]
<1>1. t \in CallRecords(n) /\ t.pc = "wire" /\ t.ans = a /\ t.h = r.h /\ t.op = r.op
      /\ t.req = r.req /\ t.id = r.id /\ t.retried = r.retried /\ Untold(t)
  BY DEF Sound, CallRecords, Phases, Untold
<1> HIDE DEF t
<1>2. Sound(t, n)
  BY <1>1 DEF Sound
<1> QED
  BY <1>1, <1>2 DEF t, Onward

LEMMA AnswerStep ==
  ASSUME SandboxInv, QuietStep, NEW c \in All, call[c].pc \in InFlight,
         Untold(call[c]), NEW a \in Answers(last),
         a.resumed = FALSE, call' = [call EXCEPT ![c].pc = "wire", ![c].ans = a]
  PROVE  SandboxInv'
<1> DEFINE r == call[c]
           t == [r EXCEPT !.pc = "wire", !.ans = a]
<1>1. last \in Nat /\ Sound(r, last) /\ DOMAIN call = All
  BY CallKnown DEF SandboxInv, SandboxTypes, CallTypes
<1>2. Sound(t, last) /\ t.pc = "wire" /\ t.ans = a /\ Onward(t, r)
  BY <1>1, AnsweredSound
<1>3. call' = [call EXCEPT ![c] = t]
  BY <1>1
<1> HIDE DEF t
<1> QED
  BY <1>2, <1>3, CallStep

\* A call waits for the stop it asked for, or for its turn.
LEMMA MovedStep ==
  ASSUME SandboxInv, QuietStep, NEW c \in All, call[c].pc \in {"send", "queued"},
         NEW p \in {"queued", "stopping"}, call' = [call EXCEPT ![c].pc = p]
  PROVE  SandboxInv'
<1> DEFINE r == call[c]
           t == [r EXCEPT !.pc = p]
<1>1. Sound(r, last) /\ DOMAIN call = All
  BY CallKnown DEF SandboxInv, SandboxTypes, CallTypes
<1>2. t \in CallRecords(last) /\ t.pc = p /\ t.h = r.h /\ t.op = r.op
      /\ t.req = r.req /\ t.effects = r.effects /\ t.lost = r.lost
      /\ t.id = r.id /\ t.retried = r.retried
  BY <1>1 DEF Sound, CallRecords, Phases
<1>3. call' = [call EXCEPT ![c] = t]
  BY <1>1
<1> HIDE DEF t
<1>4. Sound(t, last) /\ Onward(t, r)
  BY <1>1, <1>2 DEF Sound, Onward, InFlight, Untold
<1> QED
  BY <1>2, <1>3, <1>4, CallStep

LEMMA BoxStep ==
  ASSUME SandboxTypes, UNCHANGED last, crossed' \in BOOLEAN,
         \/ UNCHANGED box
         \/ \E x \in {"stopping", "stopped"} : box' = [box EXCEPT !.st = x]
         \/ \E b \in BOOLEAN : box' = [box EXCEPT !.snap = b]
         \/ box' = [box EXCEPT !.st = "stopped", !.snap = TRUE]
  PROVE  ApiTypes'
<1>1. box \in Boxes(last)
  BY DEF SandboxTypes, ApiTypes
<1>2. box' \in Boxes(last)
  BY <1>1 DEF Boxes
<1> QED
  BY <1>2 DEF SandboxTypes, ApiTypes

LEMMA ServeStopStep ==
  ASSUME SandboxInv, NEW c \in All, ServeStop(c)
  PROVE  SandboxInv'
<1>1. /\ UNCHANGED <<box, last, crossed, handle, resume, hooks>> /\ SandboxTypes
      /\ call[c].pc = "send" /\ Untold(call[c]) /\ last \in Nat
  BY CallKnown DEF ServeStop, api, SandboxInv, Sound
<1>2. QuietStep
  BY <1>1, UnchangedTypes DEF QuietStep, PlainResume
<1>3. Says("missing") \in Answers(last) /\ Says("missing").resumed = FALSE
  BY <1>1, AnswerTypes DEF Codes
<1>4. \/ call' = [call EXCEPT ![c].pc = "queued"]
      \/ call' = [call EXCEPT ![c].pc = "wire", ![c].ans = Says("missing")]
  BY DEF ServeStop
<1> QED
  BY <1>1, <1>2, <1>3, <1>4, MovedStep, AnswerStep DEF InFlight

LEMMA BeginStopStep ==
  ASSUME SandboxInv, NEW c \in All, BeginStop(c)
  PROVE  SandboxInv'
<1>1. /\ UNCHANGED <<last, handle, resume, hooks>> /\ SandboxTypes /\ ApiTypes
      /\ call[c].pc = "queued" /\ Untold(call[c]) /\ last \in Nat
  BY CallKnown DEF BeginStop, SandboxInv, SandboxTypes, Sound
<1>2. crossed' \in BOOLEAN
  BY <1>1 DEF BeginStop, ApiTypes
<1>3. UNCHANGED box \/ box' = [box EXCEPT !.st = "stopping"]
  BY DEF BeginStop
<1>4. ApiTypes'
  BY <1>1, <1>2, <1>3, BoxStep
<1>5. QuietStep
  BY <1>1, <1>4, UnchangedTypes DEF QuietStep, PlainResume
<1>6. Says("invalid") \in Answers(last) /\ Says("invalid").resumed = FALSE
  BY <1>1, AnswerTypes DEF Codes
<1>7. Shows(box, FALSE) \in Answers(last) /\ Shows(box, FALSE).resumed = FALSE
  BY <1>1, ShownTypes
<1>8. \/ call' = [call EXCEPT ![c].pc = "stopping"]
      \/ call' = [call EXCEPT ![c].pc = "wire", ![c].ans = Shows(box, FALSE)]
      \/ call' = [call EXCEPT ![c].pc = "wire", ![c].ans = Says("invalid")]
  BY DEF BeginStop
<1> QED
  BY <1>1, <1>5, <1>6, <1>7, <1>8, MovedStep, AnswerStep DEF InFlight

LEMMA OtherStopStep == ASSUME SandboxInv, OtherStop PROVE SandboxInv'
<1>1. /\ UNCHANGED <<last, crossed, handle, resume, call, hooks>> /\ SandboxTypes
      /\ box' = [box EXCEPT !.st = "stopping"]
  BY DEF OtherStop, SandboxInv
<1>2. ApiTypes'
  BY <1>1, BoxStep DEF SandboxTypes, ApiTypes
<1> QED
  BY <1>1, <1>2, StillCalls, UnchangedTypes

LEMMA ExpireStep == ASSUME SandboxInv, Expire PROVE SandboxInv'
<1>1. /\ UNCHANGED <<last, crossed, handle, resume, call, hooks>> /\ SandboxTypes
      /\ box' = [box EXCEPT !.snap = FALSE]
  BY DEF Expire, SandboxInv
<1>2. ApiTypes'
  BY <1>1, BoxStep DEF SandboxTypes, ApiTypes
<1> QED
  BY <1>1, <1>2, StillCalls, UnchangedTypes

LEMMA EndStopStep == ASSUME SandboxInv, EndStop PROVE SandboxInv'
<1>1. /\ UNCHANGED <<last, crossed, handle, resume, hooks>> /\ SandboxTypes /\ last \in Nat
  BY DEF EndStop, SandboxInv, SandboxTypes, ApiTypes
<1>2. UNCHANGED box \/ box' = [box EXCEPT !.st = "stopped", !.snap = TRUE]
  BY DEF EndStop
<1>3. ApiTypes'
  BY <1>1, <1>2, BoxStep DEF SandboxTypes, ApiTypes
<1>4. QuietStep
  BY <1>1, <1>3, UnchangedTypes DEF QuietStep, PlainResume
<1>5. Says("failed") \in Answers(last) /\ Says("failed").resumed = FALSE
  BY <1>1, AnswerTypes DEF Codes
<1>6. Shows(box', FALSE) \in Answers(last) /\ Shows(box', FALSE).resumed = FALSE
  <2>1. box' \in Boxes(last)
    BY <1>1, <1>3 DEF ApiTypes
  <2> QED
    BY <1>1, <2>1, AnswerTypes
<1>7. PICK ok \in BOOLEAN :
        call' = IF stopper \in All /\ call[stopper].pc = "stopping"
                THEN [call EXCEPT ![stopper].pc = "wire",
                        ![stopper].ans = IF ok THEN Shows(box', FALSE) ELSE Says("failed")]
                ELSE call
  BY DEF EndStop
<1> DEFINE a == IF ok THEN Shows(box', FALSE) ELSE Says("failed")
<1>8. a \in Answers(last) /\ a.resumed = FALSE
  BY <1>5, <1>6
<1>9. CASE stopper \in All /\ call[stopper].pc = "stopping"
  <2>1. call' = [call EXCEPT ![stopper].pc = "wire", ![stopper].ans = a]
    BY <1>7, <1>9
  <2>2. Untold(call[stopper])
    BY <1>1, <1>9, CallKnown DEF Sound
  <2> HIDE DEF a
  <2> QED
    BY <1>4, <1>8, <1>9, <2>1, <2>2, AnswerStep DEF InFlight
<1>10. CASE UNCHANGED call
  BY <1>1, <1>3, <1>10, StillCalls, UnchangedTypes
<1> QED
  BY <1>7, <1>9, <1>10

LEMMA TypesGrow ==
  ASSUME SandboxTypes, last' \in Nat, last <= last'
  PROVE  /\ UNCHANGED handle => HandleTypes'
         /\ UNCHANGED resume => ResumeTypes'
         /\ UNCHANGED hooks => HookTypes'
         /\ \A c \in All : Sound(call[c], last')
         /\ UNCHANGED call => CallTypes'
<1>1. last \in Nat /\ 0..last \subseteq 0..last'
  BY DEF SandboxTypes, ApiTypes
<1>2. Answers(last) \subseteq Answers(last')
  BY <1>1 DEF Answers
<1>3. HandleRecords(last) \subseteq HandleRecords(last')
  <2>1. Sessions(last) \subseteq Sessions(last')
    BY <1>1 DEF Sessions
  <2> QED
    BY <2>1 DEF HandleRecords
<1>4. ResumeRecords(last) \subseteq ResumeRecords(last')
  BY <1>2 DEF ResumeRecords
<1>5. \A c \in All : Sound(call[c], last')
  BY <1>1, SoundGrows DEF SandboxTypes, CallTypes
<1>6. UNCHANGED handle => HandleTypes'
  BY <1>3 DEF SandboxTypes, HandleTypes
<1>7. UNCHANGED resume => ResumeTypes'
  BY <1>2, <1>4 DEF SandboxTypes, ResumeTypes
<1>8. UNCHANGED hooks => HookTypes'
  BY <1>1 DEF SandboxTypes, HookTypes
<1>9. UNCHANGED call => CallTypes'
  BY <1>5 DEF SandboxTypes, CallTypes
<1> QED
  BY <1>5, <1>6, <1>7, <1>8, <1>9

\* The answers and hooks of before name sessions of before.
LEMMA KnownIds ==
  ASSUME SandboxTypes
  PROVE  /\ \A h \in Handles : Resumed(h) => resume[h].ans.id \in 0..last
         /\ \A c \in All : Getting(c) => call[c].ans.id \in 0..last
         /\ \A a \in hooks : a[1] \in 0..last
         /\ \A c \in All : call[c].id \in 0..last
<1>1. \A h \in Handles : Resumed(h) => resume[h].ans.id \in 0..last
  BY DEF SandboxTypes, ResumeTypes, Resumed, Answers
<1>2. \A c \in All : Getting(c) => call[c].ans.id \in 0..last
  BY DEF SandboxTypes, CallTypes, Sound, Getting, Answers
<1>3. \A a \in hooks : a[1] \in 0..last
  BY DEF SandboxTypes, HookTypes
<1>4. \A c \in All : call[c].id \in 0..last
  BY DEF SandboxTypes, CallTypes, Sound, CallRecords
<1> QED
  BY <1>1, <1>2, <1>3, <1>4

\* The answer a to call c and whether it has had its effect.
ServedOf(t, r, a, e) ==
  /\ t.pc = "wire" /\ t.ans = a /\ t.effects = e
  /\ t.kind = r.kind /\ t.h = r.h /\ t.op = r.op /\ t.req = r.req /\ t.id = r.id /\ t.obj = r.obj
  /\ t.retried = r.retried /\ t.lost = r.lost

LEMMA ServedSound ==
  ASSUME NEW n \in Nat, NEW r, Sound(r, n), r.pc = "send", NEW a \in Answers(n), NEW e \in Nat,
         \/ e <= r.lost
         \/ /\ e = r.lost + 1
            /\ a.code \in {"ok", "failed"} /\ r.req \in {"use", "write", "session"}
  PROVE  LET t == [r EXCEPT !.pc = "wire", !.ans = a, !.effects = e] IN
         Sound(t, n) /\ ServedOf(t, r, a, e)
<1> DEFINE t == [r EXCEPT !.pc = "wire", !.ans = a, !.effects = e]
<1>1. r \in CallRecords(n) /\ e \in Nat
  BY DEF Sound
<1>2. ServedOf(t, r, a, e)
  BY <1>1 DEF CallRecords, ServedOf
<1>3. t \in CallRecords(n)
  BY <1>1 DEF CallRecords, Phases
<1> HIDE DEF t
<1>4. Sound(t, n)
  BY <1>2, <1>3 DEF Sound, ServedOf, InFlight, Untold
<1> QED
  BY <1>2, <1>4 DEF t

LEMMA ServeStep ==
  ASSUME SandboxInv, NEW c \in All, Serve(c)
  PROVE  SandboxInv'
<1> DEFINE r == call[c]
<1>1. /\ SandboxTypes /\ ApiTypes /\ last \in Nat /\ Sound(r, last) /\ DOMAIN call = All
      /\ UNCHANGED <<crossed, handle, resume, hooks>>
      /\ r.pc = "send" /\ Untold(r) /\ r.req \in Served
  BY CallKnown DEF Serve, SandboxInv, SandboxTypes, ApiTypes, CallTypes, Sound, CallRecords, Asked, InFlight, Untold
<1>2. PICK o \in Outcomes(r.req, r.id) :
        /\ box' = o.box
        /\ last' = IF o.box.id > last THEN o.box.id ELSE last
        /\ call' = [call EXCEPT ![c].pc = "wire", ![c].ans = o.ans,
                                ![c].effects = IF HasEffect(r.req, o.ans.code) THEN @ + 1 ELSE @]
  BY DEF Serve
<1> DEFINE e == IF HasEffect(r.req, o.ans.code) THEN r.effects + 1 ELSE r.effects
           t == [r EXCEPT !.pc = "wire", !.ans = o.ans, !.effects = e]
<1>3. call' = [call EXCEPT ![c] = t]
  BY <1>1, <1>2
<1>4. /\ e \in Nat
      /\ \/ e <= r.lost
         \/ /\ e = r.lost + 1
            /\ o.ans.code \in {"ok", "failed"} /\ r.req \in {"use", "write", "session"}
  BY <1>1 DEF HasEffect, Sound, CallRecords, Untold
<1> HIDE DEF e
<1>5. \A n \in Nat : Sound(r, n) /\ o.ans \in Answers(n) => Sound(t, n) /\ ServedOf(t, r, o.ans, e)
  <2> SUFFICES ASSUME NEW n \in Nat, Sound(r, n), o.ans \in Answers(n)
               PROVE  Sound(t, n) /\ ServedOf(t, r, o.ans, e)
    OBVIOUS
  <2> HIDE DEF r
  <2>1. Sound(t, n) /\ ServedOf(t, r, o.ans, e)
    BY ONLY <1>1, <1>4, ServedSound, Sound(r, n), o.ans \in Answers(n), n \in Nat
  <2> QED
    BY <2>1
<1> HIDE DEF t
<1>6. NewSession(o, r.req) \/ OldSession(o, r.req, r.id)
  BY <1>1, OutcomeTypes
<1>7. CASE OldSession(o, r.req, r.id)
  <2>1. last' = last /\ ApiTypes'
    <3>1. o.box \in Boxes(last) /\ o.box.id \in 0..last
      BY <1>7 DEF OldSession, Boxes
    <3> QED
      BY <1>1, <1>2, <3>1 DEF ApiTypes
  <2>2. QuietStep
    BY <1>1, <2>1, UnchangedTypes DEF QuietStep, PlainResume
  <2>3. Sound(t, last) /\ t.pc = "wire" /\ t.ans = o.ans /\ o.ans.resumed = FALSE
        /\ Onward(t, r)
    BY <1>1, <1>5, <1>7 DEF OldSession, ServedOf, Onward, InFlight
  <2> QED
    BY <1>3, <2>2, <2>3, CallStep
<1>8. CASE NewSession(o, r.req)
  <2>1. last' = last + 1 /\ last' \in Nat /\ last <= last' /\ ApiTypes'
    BY <1>1, <1>2, <1>8 DEF NewSession, ApiTypes
  <2>2. HandleTypes' /\ ResumeTypes' /\ HookTypes' /\ \A d \in All : Sound(call[d], last')
    BY <1>1, <2>1, TypesGrow
  <2>3. Sound(t, last') /\ t.pc = "wire" /\ t.ans = o.ans /\ o.ans.id = last + 1
    BY <1>5, <1>8, <2>1, <2>2 DEF NewSession, ServedOf
  <2>4. DOMAIN call' = All /\ call'[c] = t /\ \A d \in All : d # c => call'[d] = call[d]
    BY <1>1, <1>3
  <2>5. CallTypes'
    BY <2>2, <2>3, <2>4 DEF CallTypes
  <2>6. \A d \in All : Getting(d)' => \/ d = c /\ call'[d].ans.id = last + 1
                                      \/ d # c /\ Getting(d) /\ call'[d] = call[d]
    BY <2>3, <2>4 DEF Getting
  <2>7. \A h \in Handles : Resumed(h)' <=> Resumed(h)
    BY <1>1 DEF Resumed
  <2>8. HooksInv'
    <3>1. OneHookPerSession'
      BY <1>1 DEF SandboxInv, HooksInv, OneHookPerSession
    <3>2. \A h \in Handles : Resumed(h) => resume[h].ans.id # last + 1
      BY <1>1, KnownIds
    <3>3. \A d \in All : Getting(d) => call[d].ans.id # last + 1
      BY <1>1, KnownIds
    <3>4. \A a \in hooks : a[1] # last + 1
      BY <1>1, KnownIds
    <3> QED
      BY <1>1, <2>6, <2>7, <3>1, <3>2, <3>3, <3>4 DEF SandboxInv, HooksInv
  <2>9. \A d \in All : Again(call'[d]) => d # c
    <3>1. t.req \in {"get", "create"} /\ t.op \in Resumable \cup {"none"}
      BY <1>1, <1>5, <1>8, <2>1, <2>2 DEF NewSession, ServedOf, Sound, CallRecords
    <3> QED
      BY <2>4, <3>1 DEF Again, InFlight, Resumable
  <2>10. RetryInv'
    <3>1. ASSUME NEW d \in All, Again(call'[d]) PROVE call'[d] = call[d] /\ Again(call[d])
                                                      /\ call[d].h \in Handles
      BY <1>1, <2>4, <2>9, <3>1, CallKnown
    <3> QED
      BY <1>1, <2>7, <3>1 DEF SandboxInv, RetryInv
  <2> QED
    BY <2>1, <2>2, <2>5, <2>8, <2>10 DEF SandboxInv, SandboxTypes
<1> QED
  BY <1>6, <1>7, <1>8

\* t is the call r after its answer was lost: under way again, or given up.
UnansweredOf(t, r, n) ==
  /\ Sound(t, n) /\ Onward(t, r) /\ t.kind = r.kind /\ t.obj = r.obj
  /\ t.pc \in {"send", "wire"}
  /\ t.pc = "wire" => t.ans.resumed = FALSE /\ t.ans.code = "failed"

\* What is sent again carries no effect of which the answer is not lost.
LEMMA UnansweredSound ==
  ASSUME NEW n \in Nat, NEW r, Sound(r, n), r.pc = "wire", NEW t \in Unanswered(r)
  PROVE  UnansweredOf(t, r, n)
<1>1. r \in CallRecords(n)
  BY DEF Sound
<1>2. CASE t = [r EXCEPT !.pc = "send", !.ans = None, !.lost = r.effects]
  <2>1. /\ t \in CallRecords(n) /\ t.pc = "send" /\ t.effects = t.lost
        /\ t.kind = r.kind /\ t.h = r.h /\ t.op = r.op /\ t.req = r.req /\ t.id = r.id
        /\ t.obj = r.obj /\ t.retried = r.retried /\ t.effects \in Nat
    BY <1>1, <1>2 DEF CallRecords, Phases
  <2> QED
    BY <2>1 DEF UnansweredOf, Sound, Onward, InFlight, Untold
<1>3. CASE t = [r EXCEPT !.ans = Says("failed")]
  <2>1. Says("failed") \in Answers(n) /\ Says("failed").resumed = FALSE /\ Says("failed").code = "failed"
    BY AnswerTypes DEF Codes
  <2>2. /\ t \in CallRecords(n) /\ t.pc = "wire" /\ t.ans = Says("failed")
        /\ t.effects = r.effects /\ t.lost = r.lost
        /\ t.kind = r.kind /\ t.h = r.h /\ t.op = r.op /\ t.req = r.req /\ t.id = r.id
        /\ t.obj = r.obj /\ t.retried = r.retried
    BY <1>1, <1>3, <2>1 DEF CallRecords
  <2> QED
    BY <2>1, <2>2 DEF UnansweredOf, Sound, Onward, InFlight, Untold
<1> QED
  BY <1>2, <1>3 DEF Unanswered

LEMMA LoseAnswerStep ==
  ASSUME SandboxInv, NEW c \in All, LoseAnswer(c)
  PROVE  SandboxInv'
<1>1. PICK t \in Unanswered(call[c]) : call' = [call EXCEPT ![c] = t]
  BY DEF LoseAnswer
<1>2. /\ SandboxTypes /\ last \in Nat /\ Sound(call[c], last) /\ call[c].pc = "wire"
      /\ UNCHANGED <<box, last, crossed, handle, resume, hooks>>
  BY CallKnown DEF LoseAnswer, SandboxInv, api
<1>3. Sound(t, last) /\ Onward(t, call[c]) /\ (t.pc = "wire" => t.ans.resumed = FALSE)
  <2>1. UnansweredOf(t, call[c], last)
    BY <1>2, UnansweredSound
  <2> QED
    BY <2>1 DEF UnansweredOf
<1>4. QuietStep
  BY <1>2, UnchangedTypes DEF QuietStep, PlainResume
<1> QED
  BY <1>1, <1>3, <1>4, CallStep

-----------------------------------------------------------------------------
(* The calls go on with an answer.                                          *)

LEMMA DoneStep ==
  ASSUME SandboxInv, QuietStep, NEW c \in All, NEW res, call' = [call EXCEPT ![c] = Done(res)]
  PROVE  SandboxInv'
<1> DEFINE t == Done(res)
<1>1. last \in Nat
  BY DEF SandboxInv, SandboxTypes, ApiTypes
<1>2. Sound(t, last) /\ DoneOf(t, res, last)
  BY <1>1, DoneSound, DoneFields
<1> HIDE DEF t
<1>3. ~Again(t) /\ t.pc # "wire"
  BY <1>2 DEF DoneOf, Again, InFlight
<1> QED
  BY <1>2, <1>3, CallStep DEF t

LEMMA AfterStep ==
  ASSUME SandboxInv, QuietStep, NEW c \in All, NEW res, call[c].h \in Handles,
         Untold(call[c]) \/ res \notin {"missing", "snapshotGone"},
         call' = [call EXCEPT ![c] = After(call[c], res)]
  PROVE  SandboxInv'
<1> DEFINE t == After(call[c], res)
<1>1. last \in Nat /\ Sound(call[c], last)
  BY CallKnown DEF SandboxInv
<1>2. AfterOf(t, call[c], res, last)
  BY <1>1, AfterSound
<1> HIDE DEF t
<1>3. Sound(t, last) /\ ~Again(t) /\ t.pc # "wire"
  BY <1>2 DEF AfterOf, DoneOf, Again, InFlight
<1> QED
  BY <1>3, CallStep DEF t

LEMMA JoinStep ==
  ASSUME SandboxInv, QuietStep, NEW c \in All, NEW r, Sound(r, last), Untold(r),
         r.op # "none", call' = [call EXCEPT ![c] = Joined(r)]
  PROVE  SandboxInv'
<1> DEFINE t == Joined(r)
<1>1. last \in Nat
  BY DEF SandboxInv, SandboxTypes, ApiTypes
<1>2. Sound(t, last) /\ JoinedOf(t, r, last)
  BY <1>1, JoinedSound, JoinedFields DEF Sound
<1> HIDE DEF t
<1>3. ~Again(t) /\ t.pc # "wire"
  BY <1>2 DEF JoinedOf, Again, InFlight
<1> QED
  BY <1>2, <1>3, CallStep DEF t

LEMMA BegunStep ==
  ASSUME SandboxInv, QuietStep, NEW c \in All, call[c].h \in Handles, NEW op \in Resumable,
         NEW s \in Sessions(last), call' = [call EXCEPT ![c] = Begin(call[c], op, s)]
  PROVE  SandboxInv'
<1> DEFINE t == Begin(call[c], op, s)
<1>1. last \in Nat /\ Sound(call[c], last)
  BY CallKnown DEF SandboxInv
<1>2. BegunOf(t, call[c], op, s, last)
  BY <1>1, BeginSound
<1> HIDE DEF t
<1>3. Sound(t, last) /\ ~Again(t) /\ t.pc # "wire"
  BY <1>2 DEF BegunOf, Again, InFlight
<1> QED
  BY <1>3, CallStep DEF t

\* What is known of a call with an answer.
LEMMA ReceivingCall ==
  ASSUME SandboxInv, NEW c \in All, NEW reqs, Receiving(c, reqs)
  PROVE  /\ SandboxTypes /\ last \in Nat /\ DOMAIN call = All
         /\ Sound(call[c], last) /\ call[c] \in CallRecords(last)
         /\ call[c].pc = "wire" /\ call[c].ans \in Answers(last) /\ call[c].req \in reqs
         /\ call[c].req \notin {"none", "peek", "clone"} => call[c].h \in Handles
         /\ Seen(call[c].ans) \in Sessions(last)
<1>1. /\ SandboxTypes /\ last \in Nat /\ DOMAIN call = All /\ Sound(call[c], last)
      /\ call[c] \in CallRecords(last) /\ call[c].pc = "wire" /\ call[c].ans \in Answers(last)
      /\ call[c].req \in reqs
  BY CallKnown DEF SandboxInv, SandboxTypes, CallTypes, Receiving
<1> QED
  BY <1>1, SeenTypes DEF Sound

LEMMA ReturnAnswerStep ==
  ASSUME SandboxInv, NEW c \in All, ReturnAnswer(c)
  PROVE  SandboxInv'
<1> DEFINE r == call[c]
           res == IF r.req = "read" /\ r.ans.code \in {"missing", "noFile"} THEN "null"
                                                                        ELSE r.ans.code
<1>1. /\ SandboxTypes /\ last \in Nat /\ DOMAIN call = All /\ Sound(r, last)
      /\ r.pc = "wire" /\ r.req \in Resumable /\ r.h \in Handles
  BY ReceivingCall DEF ReturnAnswer, Resumable
<1>2. /\ call' = [call EXCEPT ![c] = After(r, res)]
      /\ handle' = Refresh(c) \/ UNCHANGED handle
      /\ UNCHANGED <<box, last, crossed, resume, hooks>>
  BY <1>1 DEF ReturnAnswer, api
<1>3. QuietStep
  BY <1>1, <1>2, RefreshStep, UnchangedTypes DEF QuietStep, PlainResume
<1>4. Untold(r) \/ res \notin {"missing", "snapshotGone"}
  BY <1>1 DEF Sound
<1> HIDE DEF res
<1> QED
  BY <1>1, <1>2, <1>3, <1>4, AfterStep

\* A call that is to be tried again has had no effect.
LEMMA RetriedCall ==
  ASSUME SandboxInv, NEW c \in All, Receiving(c, Resumable), Retries(call[c])
  PROVE  LET r == [call[c] EXCEPT !.retried = TRUE] IN
         /\ Sound(r, last) /\ Untold(r) /\ r.op # "none" /\ r.pc = "wire"
         /\ call[c].h \in Handles /\ Untold(call[c]) /\ call[c].op # "none"
<1> DEFINE s == call[c]
           r == [s EXCEPT !.retried = TRUE]
<1>1. /\ Sound(s, last) /\ s \in CallRecords(last) /\ s.pc = "wire" /\ s.req \in Resumable
      /\ s.h \in Handles
  BY ReceivingCall DEF Resumable
<1>2. Untold(s) /\ s.op # "none"
  BY <1>1 DEF Sound, Retries, Tied
<1>3. /\ r \in CallRecords(last) /\ r.pc = s.pc /\ r.req = s.req /\ r.ans = s.ans
      /\ r.h = s.h /\ r.op = s.op /\ r.effects = s.effects /\ r.lost = s.lost
  BY <1>1 DEF CallRecords
<1> HIDE DEF r, s
<1>4. Sound(r, last)
  BY <1>1, <1>2, <1>3 DEF Sound, InFlight, Untold
<1> QED
  BY <1>1, <1>2, <1>3, <1>4 DEF r, s, Untold

LEMMA ResumeStoppedStep ==
  ASSUME SandboxInv, NEW c \in All, ResumeStopped(c)
  PROVE  SandboxInv'
<1> DEFINE r == [call[c] EXCEPT !.retried = TRUE]
<1>1. /\ SandboxTypes /\ last \in Nat /\ DOMAIN call = All
      /\ call' = [call EXCEPT ![c] = Joined(r)] /\ resume' = ResumeBy(c, call[c].h)
      /\ UNCHANGED <<box, last, crossed, handle, hooks>>
  BY ReceivingCall DEF ResumeStopped, api
<1>2. Sound(r, last) /\ Untold(r) /\ r.op # "none" /\ call[c].h \in Handles
  BY RetriedCall DEF ResumeStopped
<1> HIDE DEF r
<1>3. QuietStep
  BY <1>1, <1>2, ResumeByStep, UnchangedTypes DEF QuietStep, PlainResume
<1> QED
  BY <1>1, <1>2, <1>3, JoinStep

\* A call waits for the next poll.
LEMMA PollSound ==
  ASSUME NEW n, NEW r, Sound(r, n), Untold(r), r.op # "none", NEW b \in BOOLEAN
  PROVE  LET t == [r EXCEPT !.pc = "poll", !.ans = None, !.retried = b] IN
         Sound(t, n) /\ t.pc = "poll"
<1> DEFINE t == [r EXCEPT !.pc = "poll", !.ans = None, !.retried = b]
<1>1. t \in CallRecords(n) /\ t.pc = "poll" /\ t.h = r.h /\ t.op = r.op /\ t.req = r.req
      /\ Untold(t)
  BY DEF Sound, CallRecords, Phases, Untold
<1> HIDE DEF t
<1>2. Sound(t, n)
  BY <1>1 DEF Sound, InFlight, Untold
<1> QED
  BY <1>1, <1>2 DEF t

LEMMA WaitForStopStep ==
  ASSUME SandboxInv, NEW c \in All, WaitForStop(c)
  PROVE  SandboxInv'
<1> DEFINE r == [call[c] EXCEPT !.retried = TRUE]
           t == [call[c] EXCEPT !.pc = "poll", !.ans = None, !.retried = TRUE]
<1>1. /\ SandboxTypes /\ last \in Nat /\ DOMAIN call = All /\ Sound(call[c], last)
      /\ UNCHANGED <<box, last, crossed, handle, hooks>>
  BY ReceivingCall DEF WaitForStop, api
<1>2. /\ Sound(r, last) /\ Untold(r) /\ r.op # "none" /\ call[c].h \in Handles
      /\ Untold(call[c]) /\ call[c].op # "none"
  BY RetriedCall DEF WaitForStop
<1>3. Sound(t, last) /\ t.pc = "poll"
  BY <1>1, <1>2, PollSound
<1>4. \/ call' = [call EXCEPT ![c] = t] /\ UNCHANGED resume
      \/ call' = [call EXCEPT ![c] = Joined(r)] /\ resume' = ResumeBy(c, call[c].h)
  BY <1>1 DEF WaitForStop
<1> HIDE DEF r, t
<1>5. QuietStep
  BY <1>1, <1>2, <1>4, ResumeByStep, UnchangedTypes DEF QuietStep, PlainResume
<1>6. CASE call' = [call EXCEPT ![c] = t]
  BY <1>3, <1>5, <1>6, CallStep DEF Again, InFlight
<1>7. CASE call' = [call EXCEPT ![c] = Joined(r)]
  BY <1>2, <1>5, <1>7, JoinStep
<1> QED
  BY <1>4, <1>6, <1>7

LEMMA PollStep ==
  ASSUME SandboxInv, NEW c \in All, Poll(c)
  PROVE  SandboxInv'
<1> DEFINE r == call[c]
<1>1. /\ SandboxTypes /\ last \in Nat /\ Sound(r, last) /\ r \in CallRecords(last)
      /\ DOMAIN call = All /\ r.pc = "poll"
  BY CallKnown DEF SandboxInv, SandboxTypes, CallTypes, Poll
<1>2. Untold(r) /\ r.op # "none" /\ r.op # "getSession" /\ r.h \in Handles
  BY <1>1 DEF Sound, CallRecords, Resumable
<1>3. /\ call' = [call EXCEPT ![c] = Ask(r, "getSession", handle[r.h].session)]
      /\ UNCHANGED <<box, last, crossed, handle, resume, hooks>>
  BY <1>1 DEF Poll, api
<1>4. handle[r.h].session \in Sessions(last) /\ "getSession" \in Asked
  BY <1>1, <1>2 DEF SandboxTypes, HandleTypes, HandleRecords, Asked, Served
<1> HIDE DEF r
<1>5. QuietStep
  BY <1>1, <1>3, UnchangedTypes DEF QuietStep, PlainResume
<1> QED
  BY <1>1, <1>2, <1>3, <1>4, <1>5, AskStep

LEMMA ReceivePollStep ==
  ASSUME SandboxInv, NEW c \in All, ReceivePoll(c)
  PROVE  SandboxInv'
<1> DEFINE r == call[c]
           h == call[c].h
<1>1. /\ SandboxTypes /\ last \in Nat /\ DOMAIN call = All /\ Sound(r, last)
      /\ r.pc = "wire" /\ r.req = "getSession" /\ h \in Handles /\ Seen(r.ans) \in Sessions(last)
      /\ UNCHANGED <<box, last, crossed, hooks>>
  BY ReceivingCall DEF ReceivePoll, api
<1>2. Untold(r) /\ r.op # "none"
  BY <1>1 DEF Sound, Tied
<1>3. CASE r.ans.code # "ok"
  <2> DEFINE res == r.ans.code
  <2>1. call' = [call EXCEPT ![c] = After(r, res)] /\ UNCHANGED <<handle, resume>>
    BY <1>1, <1>3 DEF ReceivePoll
  <2> HIDE DEF res
  <2>2. QuietStep
    BY <1>1, <2>1, UnchangedTypes DEF QuietStep, PlainResume
  <2> QED
    BY <1>1, <1>2, <2>1, <2>2, AfterStep
<1>4. CASE r.ans.code = "ok"
  <2> DEFINE t == IF r.ans.stopping THEN [r EXCEPT !.pc = "poll", !.ans = None] ELSE Joined(r)
             calls == [call EXCEPT ![c] = t]
  <2>1. /\ handle' = [handle EXCEPT ![h].session = Seen(r.ans)]
        /\ call' = Forget(calls, h)
        /\ resume' = ResumeBy(c, h) \/ UNCHANGED resume
    BY <1>1, <1>4 DEF ReceivePoll
  <2>2. Sound(t, last) /\ t.pc \in {"poll", "join"}
    <3> DEFINE u == [r EXCEPT !.pc = "poll", !.ans = None]
    <3>1. u \in CallRecords(last) /\ u.pc = "poll" /\ u.h = r.h /\ u.op = r.op /\ u.req = r.req
          /\ Untold(u)
      BY <1>1, <1>2 DEF Sound, CallRecords, Phases, Untold
    <3> HIDE DEF u
    <3>2. Sound(u, last)
      BY <1>1, <1>2, <3>1 DEF Sound
    <3>3. Sound(Joined(r), last) /\ JoinedOf(Joined(r), r, last)
      BY <1>1, <1>2, JoinedSound, JoinedFields DEF Sound
    <3> QED
      BY <3>1, <3>2, <3>3 DEF JoinedOf, u
  <2> HIDE DEF t, r
  <2>3. /\ DOMAIN calls = All /\ calls[c] = t /\ \A d \in All : d # c => calls[d] = call[d]
        /\ \A d \in All : Sound(calls[d], last)
    BY <1>1, <2>2 DEF SandboxTypes, CallTypes
  <2> HIDE DEF calls, h
  <2>4. /\ DOMAIN call' = All
        /\ \A d \in All :
             /\ Sound(call'[d], last)
             /\ call'[d] = calls[d] \/ Outdated(call'[d], calls[d], last)
    BY <1>1, <2>1, <2>3, ForgetCalls
  <2>5. CallTypes'
    BY <1>1, <2>4 DEF CallTypes
  <2>6. HandleTypes'
    BY <1>1, <2>1, SessionStep
  <2>7. QuietStep
    BY <1>1, <2>1, <2>6, ResumeByStep, UnchangedTypes DEF QuietStep, PlainResume
  <2>8. \A d \in All : Plain(d)
    BY <2>2, <2>3, <2>4 DEF Plain, Outdated, Again, InFlight
  <2>9. \A d \in All : Again(call[d]) => call[d].h \in Handles
    BY <1>1, CallKnown
  <2>10. HooksInv' /\ RetryInv'
    BY <2>7, <2>8, <2>9, PlainStep DEF QuietStep, SandboxInv
  <2>11. HookTypes'
    BY <1>1, UnchangedTypes
  <2> QED
    BY <2>5, <2>7, <2>10, <2>11 DEF SandboxInv, SandboxTypes, QuietStep
<1> QED
  BY <1>3, <1>4

LEMMA RejectStep ==
  ASSUME SandboxInv, NEW c \in All, Reject(c)
  PROVE  SandboxInv'
<1>1. /\ call' = [call EXCEPT ![c] = Done("abort")]
      /\ UNCHANGED <<box, last, crossed, handle, resume, hooks>>
  BY DEF Reject, api
<1>2. QuietStep
  BY <1>1, UnchangedTypes DEF QuietStep, PlainResume, SandboxInv
<1> QED
  BY <1>1, <1>2, DoneStep

\* stop(), delete() and clone(), and update() with its policy: the call ends.
LEMMA EndingStep ==
  ASSUME SandboxInv, NEW c \in All,
         ReceiveStop(c) \/ ReceivePolicy(c) \/ ReceiveDelete(c) \/ ReceiveClone(c)
  PROVE  SandboxInv'
<1>1. /\ SandboxTypes /\ last \in Nat /\ DOMAIN call = All /\ call[c].pc = "wire"
      /\ UNCHANGED <<box, last, crossed, resume, hooks>>
      /\ \E res : call' = [call EXCEPT ![c] = Done(res)]
  BY ReceivingCall DEF ReceiveStop, ReceivePolicy, ReceiveDelete, ReceiveClone, api
<1>2. HandleTypes'
  <2>1. CASE ReceiveStop(c) \/ ReceivePolicy(c)
    <3>1. call[c].h \in Handles
      BY <2>1, ReceivingCall DEF ReceiveStop, ReceivePolicy
    <3>2. handle' = Refresh(c) \/ UNCHANGED handle
      BY <2>1 DEF ReceiveStop, ReceivePolicy
    <3> QED
      BY <1>1, <3>1, <3>2, RefreshStep
  <2>2. CASE ReceiveDelete(c) \/ ReceiveClone(c)
    BY <1>1, <2>2, UnchangedTypes DEF ReceiveDelete, ReceiveClone
  <2> QED
    BY <2>1, <2>2
<1>3. QuietStep
  BY <1>1, <1>2, UnchangedTypes DEF QuietStep, PlainResume
<1> QED
  BY <1>1, <1>3, DoneStep

\* update(), getOrCreate() and fork() go on with their next request.
LEMMA NextRequestStep ==
  ASSUME SandboxInv, NEW c \in All, ReceivePatch(c) \/ ReceiveDrop(c) \/ ReceivePeek(c)
  PROVE  SandboxInv'
<1> DEFINE r == call[c]
<1>1. /\ SandboxTypes /\ last \in Nat /\ DOMAIN call = All /\ Sound(r, last) /\ r.pc = "wire"
      /\ r \in CallRecords(last) /\ r.req \in {"patch", "drop", "peek"}
      /\ r.req # "peek" => r.h \in Handles
      /\ UNCHANGED <<box, last, crossed, handle, resume, hooks>>
  BY ReceivingCall DEF ReceivePatch, ReceiveDrop, ReceivePeek, api
<1>2. Untold(r) /\ r.op \notin {"policy", "create", "clone"}
  BY <1>1 DEF Sound, CallRecords, Resumable
<1>3. QuietStep
  BY <1>1, UnchangedTypes DEF QuietStep, PlainResume
<1>4. None \in Sessions(last) /\ {"policy", "create", "clone"} \subseteq Asked \ Tied
  BY DEF Sessions, Asked, Served, Tied, Resumable
<1>5. \/ \E res : call' = [call EXCEPT ![c] = Done(res)]
      \/ r.req = "patch" /\ call' = [call EXCEPT ![c] = Ask(r, "policy", handle[r.h].session)]
      \/ r.req = "drop" /\ call' = [call EXCEPT ![c] = Ask(r, "create", None)]
      \/ r.req = "peek" /\ call' = [call EXCEPT ![c] = Ask(r, "clone", None)]
  BY <1>1 DEF ReceivePatch, ReceiveDrop, ReceivePeek, Receiving
<1>6. r.req # "peek" => handle[r.h].session \in Sessions(last)
  BY <1>1 DEF SandboxTypes, HandleTypes, HandleRecords
<1> HIDE DEF r
<1>7. CASE \E res : call' = [call EXCEPT ![c] = Done(res)]
  BY <1>3, <1>7, DoneStep
<1>8. CASE r.req = "patch" /\ call' = [call EXCEPT ![c] = Ask(r, "policy", handle[r.h].session)]
  BY <1>1, <1>2, <1>3, <1>4, <1>6, <1>8, AskStep
<1>9. CASE r.req = "drop" /\ call' = [call EXCEPT ![c] = Ask(r, "create", None)]
  BY <1>1, <1>2, <1>3, <1>4, <1>9, AskStep
<1>10. CASE r.req = "peek" /\ call' = [call EXCEPT ![c] = Ask(r, "clone", None)]
  <2>1. r.h \in Handles \/ r.op = "none"
    BY <1>1 DEF Sound
  <2> QED
    BY <1>1, <1>2, <1>3, <1>4, <1>10, <2>1, AskStep
<1> QED
  BY <1>5, <1>7, <1>8, <1>9, <1>10

LEMMA ReceiveCreateStep ==
  ASSUME SandboxInv, NEW c \in All, ReceiveCreate(c)
  PROVE  SandboxInv'
<1> DEFINE r == call[c]
           h == call[c].h
<1>1. /\ SandboxTypes /\ last \in Nat /\ DOMAIN call = All /\ h \in Handles
      /\ Seen(r.ans) \in Sessions(last) /\ UNCHANGED <<box, last, crossed, resume, hooks>>
  BY ReceivingCall DEF ReceiveCreate, api
<1>2. /\ handle' = [handle EXCEPT ![h].session = Seen(r.ans)] \/ UNCHANGED handle
      /\ \/ call' = [call EXCEPT ![c] = Done(r.ans.code)]
         \/ call' = [call EXCEPT ![c] = Begin(r, "write", Seen(r.ans))]
  BY <1>1 DEF ReceiveCreate
<1>3. HandleTypes'
  BY <1>1, <1>2, SessionStep, UnchangedTypes
<1>4. QuietStep
  BY <1>1, <1>3, UnchangedTypes DEF QuietStep, PlainResume
<1>5. CASE call' = [call EXCEPT ![c] = Done(r.ans.code)]
  BY <1>4, <1>5, DoneStep
<1>6. CASE call' = [call EXCEPT ![c] = Begin(r, "write", Seen(r.ans))]
  <2>1. "write" \in Resumable
    BY DEF Resumable
  <2> QED
    BY <1>1, <1>4, <1>6, <2>1, BegunStep
<1> QED
  BY <1>2, <1>5, <1>6

LEMMA ReceiveGetStep ==
  ASSUME SandboxInv, NEW c \in All, ReceiveGet(c)
  PROVE  SandboxInv'
<1> DEFINE r == call[c]
           h == call[c].h
           i == call[c].ans.id
           s == Seen(call[c].ans)
<1>1. /\ SandboxTypes /\ last \in Nat /\ DOMAIN call = All /\ Sound(r, last) /\ h \in Handles
      /\ r.pc = "wire" /\ r.req = "get" /\ r.ans \in Answers(last) /\ i \in 0..last
      /\ s \in Sessions(last) /\ UNCHANGED <<box, last, crossed, resume>>
  BY ReceivingCall DEF ReceiveGet, api, Answers
<1>2. HandleTypes'
  <2>1. handle' = [handle EXCEPT ![h].session = s] \/ UNCHANGED handle
    BY DEF ReceiveGet
  <2> QED
    BY <1>1, <2>1, SessionStep, UnchangedTypes
<1>3. Untold(r)
  BY <1>1 DEF Sound
<1>4. CASE ~(r.ans.code = "ok" /\ handle[h].hook /\ r.ans.resumed)
  <2> DEFINE res == r.ans.code
  <2>1. call' = [call EXCEPT ![c] = After(r, res)] /\ UNCHANGED hooks
    BY <1>1, <1>4 DEF ReceiveGet
  <2> HIDE DEF res
  <2>2. QuietStep
    BY <1>1, <1>2, <2>1, UnchangedTypes DEF QuietStep, PlainResume
  <2> QED
    BY <1>1, <1>3, <2>1, <2>2, AfterStep
<1>5. CASE r.ans.code = "ok" /\ handle[h].hook /\ r.ans.resumed
  <2> DEFINE t == Begin(r, "use", s)
  <2>1. call' = [call EXCEPT ![c] = t] /\ hooks' = hooks \cup {<<i, h>>}
    BY <1>1, <1>5 DEF ReceiveGet
  <2>2. BegunOf(t, r, "use", s, last)
    BY <1>1, BeginSound DEF Resumable
  <2> HIDE DEF t
  <2>3. Sound(t, last) /\ ~Again(t) /\ t.pc # "wire"
    BY <2>2 DEF BegunOf, Again, InFlight
  <2>4. /\ DOMAIN call' = All /\ call'[c] = t /\ \A d \in All : d # c => call'[d] = call[d]
        /\ CallTypes'
    BY <1>1, <2>1, <2>3, OneCall DEF SandboxTypes
  <2>5. HookTypes'
    BY <1>1, <2>1 DEF SandboxTypes, HookTypes
  <2>6. Getting(c)
    BY <1>1, <1>5 DEF Getting
  <2> HIDE DEF i, s, h, r
  <2>7. /\ \A a \in hooks : a[1] # i
        /\ \A d \in All : d # c /\ Getting(d) => call[d].ans.id # i
        /\ \A g \in Handles : Resumed(g) => resume[g].ans.id # i
    BY <2>6 DEF SandboxInv, HooksInv, i
  <2>8. \A d \in All : Getting(d)' => d # c /\ Getting(d) /\ call'[d] = call[d]
    BY <2>3, <2>4 DEF Getting
  <2>9. \A g \in Handles : Resumed(g)' <=> Resumed(g)
    BY <1>1 DEF Resumed
  <2>10. HooksInv'
    <3>1. \A a \in hooks' : a \in hooks \/ (a = <<i, h>> /\ a[1] = i)
      BY <2>1
    <3>2. OneHookPerSession'
      BY <2>7, <3>1 DEF SandboxInv, HooksInv, OneHookPerSession
    <3> QED
      BY <1>1, <2>7, <2>8, <2>9, <3>1, <3>2 DEF SandboxInv, HooksInv
  <2>11. RetryInv'
    <3>1. ASSUME NEW d \in All, Again(call'[d])
          PROVE  call'[d] = call[d] /\ Again(call[d]) /\ call[d].h \in Handles
      BY <1>1, <2>3, <2>4, <3>1, CallKnown
    <3> QED
      BY <1>1, <2>1, <2>9, <3>1 DEF SandboxInv, RetryInv
  <2>12. ApiTypes' /\ ResumeTypes'
    BY <1>1, UnchangedTypes
  <2> QED
    BY <1>2, <2>4, <2>5, <2>10, <2>11, <2>12 DEF SandboxInv, SandboxTypes
<1> QED
  BY <1>4, <1>5

LEMMA ProgressStep ==
  ASSUME SandboxInv, NEW c \in All, Progress(c)
  PROVE  SandboxInv'
  BY ServeStep, ServeStopStep, BeginStopStep, ReturnAnswerStep, ResumeStoppedStep,
     WaitForStopStep, PollStep, ReceivePollStep, EndingStep, NextRequestStep, ReceiveGetStep,
     ReceiveCreateStep, RejectStep DEF Progress

-----------------------------------------------------------------------------
(* doResume.                                                                *)

LEMMA ServeResumeStep ==
  ASSUME SandboxInv, NEW h \in Handles, ServeResume(h)
  PROVE  SandboxInv'
<1>1. /\ SandboxTypes /\ ApiTypes /\ last \in Nat /\ UNCHANGED <<crossed, handle, call, hooks>>
  BY DEF ServeResume, SandboxInv, SandboxTypes, ApiTypes
<1>2. PICK o \in GetSandbox(TRUE) :
        /\ box' = o.box
        /\ last' = IF o.box.id > last THEN o.box.id ELSE last
        /\ resume' = [resume EXCEPT ![h].pc = "wire", ![h].ans = o.ans]
  BY DEF ServeResume
<1>3. NewSession(o, "get") \/ OldSession(o, "get", 0)
  <2>1. o \in Outcomes("get", 0) /\ "get" \in Served
    BY DEF Outcomes, Served
  <2> QED
    BY <1>1, <2>1, OutcomeTypes
<1>4. /\ last' \in Nat /\ last <= last' /\ ApiTypes' /\ o.ans \in Answers(last')
      /\ o.ans.resumed => o.ans.id = last + 1
  <2>1. CASE NewSession(o, "get")
    BY <1>1, <1>2, <2>1 DEF NewSession, ApiTypes
  <2>2. CASE OldSession(o, "get", 0)
    <3>1. o.box \in Boxes(last) /\ o.box.id \in 0..last
      BY <2>2 DEF OldSession, Boxes
    <3> QED
      BY <1>1, <1>2, <2>2, <3>1 DEF OldSession, ApiTypes
  <2> QED
    BY <1>3, <2>1, <2>2
<1>5. HandleTypes' /\ HookTypes' /\ CallTypes'
  BY <1>1, <1>4, TypesGrow
<1> DEFINE r == [resume[h] EXCEPT !.pc = "wire", !.ans = o.ans]
<1>6. /\ DOMAIN resume' = Handles /\ resume'[h] = r
      /\ \A g \in Handles : g # h => resume'[g] = resume[g]
  BY <1>1, <1>2 DEF SandboxTypes, ResumeTypes
<1>7. r \in ResumeRecords(last') /\ r.pc = "wire" /\ r.ans = o.ans
  BY <1>1, <1>4 DEF SandboxTypes, ResumeTypes, ResumeRecords
<1> HIDE DEF r
<1>8. ResumeTypes'
  <2>1. 0..last \subseteq 0..last'
    BY <1>1, <1>4
  <2>2. Answers(last) \subseteq Answers(last')
    BY <2>1 DEF Answers
  <2>3. ResumeRecords(last) \subseteq ResumeRecords(last')
    BY <2>2 DEF ResumeRecords
  <2>4. \A g \in Handles : resume'[g] \in ResumeRecords(last')
    BY <1>1, <1>6, <1>7, <2>3 DEF SandboxTypes, ResumeTypes
  <2>5. \A g \in Handles : resume'[g].pc = "wire" => resume'[g].ans \in Answers(last')
    BY <1>1, <1>4, <1>6, <1>7, <2>2 DEF SandboxTypes, ResumeTypes
  <2>6. resume' = [g \in Handles |-> resume'[g]]
    BY <1>1, <1>2 DEF SandboxTypes, ResumeTypes
  <2> QED
    BY <2>4, <2>5, <2>6 DEF ResumeTypes
<1>9. \A g \in Handles : Resumed(g)' => \/ g = h /\ resume'[g].ans.id = last + 1
                                        \/ g # h /\ Resumed(g) /\ resume'[g] = resume[g]
  BY <1>4, <1>6, <1>7 DEF Resumed
<1>10. \A d \in All : Getting(d)' <=> Getting(d)
  BY <1>1 DEF Getting
<1>11. HooksInv'
  <2>1. OneHookPerSession'
    BY <1>1 DEF SandboxInv, HooksInv, OneHookPerSession
  <2>2. \A g \in Handles : Resumed(g) => resume[g].ans.id # last + 1
    BY <1>1, KnownIds
  <2>3. \A d \in All : Getting(d) => call[d].ans.id # last + 1
    BY <1>1, KnownIds
  <2>4. \A a \in hooks : a[1] # last + 1
    BY <1>1, KnownIds
  <2> QED
    BY <1>1, <1>9, <1>10, <2>1, <2>2, <2>3, <2>4 DEF SandboxInv, HooksInv
<1>12. RetryInv'
  <2>1. ASSUME NEW c \in All, Again(call[c]), NEW g \in Handles, g = call[c].h
        PROVE  /\ Resumed(g)' => call[c].id < resume'[g].ans.id
               /\ resume'[g].pc = "hook" => \E a \in hooks : a[2] = g /\ call[c].id < a[1]
    <3>1. CASE g = h
      <4>1. Resumed(g)' => resume'[g].ans.id = last + 1
        BY <1>9, <3>1
      <4>2. call[c].id < last + 1
        BY <1>1, KnownIds
      <4>3. resume'[g].pc = "wire"
        BY <1>6, <1>7, <3>1
      <4> QED
        BY <4>1, <4>2, <4>3
    <3>2. CASE g # h
      <4>1. resume'[g] = resume[g] /\ (Resumed(g)' => Resumed(g))
        BY <1>6, <1>9, <3>2
      <4> QED
        BY <2>1, <4>1 DEF SandboxInv, RetryInv
    <3> QED
      BY <3>1, <3>2
  <2>2. \A c \in All : Again(call[c]) => call[c].h \in Handles
    BY <1>1, CallKnown
  <2> QED
    BY <1>1, <2>1, <2>2 DEF RetryInv, Resumed
<1> QED
  BY <1>4, <1>5, <1>8, <1>11, <1>12 DEF SandboxInv, SandboxTypes

LEMMA LoseResumeStep ==
  ASSUME SandboxInv, NEW h \in Handles, LoseResume(h)
  PROVE  SandboxInv'
<1> DEFINE again == [resume[h] EXCEPT !.pc = "send", !.ans = None]
           error == [resume[h] EXCEPT !.ans = Says("failed")]
<1>1. /\ SandboxTypes /\ last \in Nat /\ resume[h].pc = "wire"
      /\ resume[h] \in ResumeRecords(last) /\ DOMAIN resume = Handles
      /\ UNCHANGED <<box, last, crossed, handle, call, hooks>>
  BY DEF LoseResume, SandboxInv, SandboxTypes, ApiTypes, ResumeTypes, api
<1>2. Says("failed") \in Answers(last) /\ Says("failed").resumed = FALSE
  BY <1>1, AnswerTypes DEF Codes
<1>3. /\ again \in ResumeRecords(last) /\ again.pc = "send"
      /\ error \in ResumeRecords(last) /\ error.pc = "wire" /\ error.ans = Says("failed")
  BY <1>1, <1>2 DEF ResumeRecords
<1>4. resume' = [resume EXCEPT ![h] = again] \/ resume' = [resume EXCEPT ![h] = error]
  BY <1>1 DEF LoseResume
<1> HIDE DEF again, error
<1>5. ResumeTypes' /\ \A g \in Handles : PlainResume(g)
  BY <1>1, <1>2, <1>3, <1>4 DEF SandboxTypes, ResumeTypes, PlainResume
<1>6. \A d \in All : Plain(d)
  BY <1>1 DEF Plain
<1>7. \A d \in All : Again(call[d]) => call[d].h \in Handles
  BY <1>1, CallKnown
<1>8. HooksInv' /\ RetryInv'
  BY <1>1, <1>5, <1>6, <1>7, PlainStep DEF SandboxInv
<1> QED
  BY <1>1, <1>5, <1>8, UnchangedTypes DEF SandboxInv, SandboxTypes

\* A resume of h ends: those who awaited it go on, and its hook, if it had one, is over.
LEMMA SettleStep ==
  ASSUME SandboxInv, NEW h \in Handles, NEW calls, DOMAIN calls = All,
         \A d \in All : Sound(calls[d], last) /\ (calls[d] = call[d] \/ Outdated(calls[d], call[d], last)),
         \A d \in All : call[d].pc = "join" => calls[d] = call[d],
         NEW s \in Sessions(last), NEW res,
         \/ call' = Settled(calls, h, s, res)
         \/ call' = [Settled(calls, h, s, res) EXCEPT ![h] = Idle],
         resume' = [resume EXCEPT ![h] = NoResume], UNCHANGED <<box, last, crossed, hooks>>,
         HandleTypes'
  PROVE  SandboxInv'
<1> DEFINE new == Settled(calls, h, s, res)
<1>1. last \in Nat /\ SandboxTypes
  BY DEF SandboxInv, SandboxTypes, ApiTypes
<1>2. /\ DOMAIN new = All
      /\ \A d \in All :
           /\ Sound(new[d], last)
           /\ d \notin Joiners(h) => new[d] = calls[d]
           /\ d \in Joiners(h) => SettledOf(new[d], call[d], h, s, res, last)
  BY <1>1, SettledCalls
<1> HIDE DEF new
<1>3. call' = new \/ call' = [new EXCEPT ![h] = Idle]
  BY DEF new
<1>4. /\ DOMAIN call' = All /\ \A d \in All : call'[d] = new[d] \/ call'[d] = Idle
  BY <1>2, <1>3
<1>5. Sound(Idle, last) /\ Idle.pc = "idle"
  BY <1>1, NoCallSound DEF Idle
<1>6. CallTypes'
  BY <1>2, <1>4, <1>5 DEF CallTypes
<1>7. ResumeTypes' /\ resume'[h].pc = "none" /\ \A g \in Handles : g # h => resume'[g] = resume[g]
  <2>1. NoResume \in ResumeRecords(last) /\ NoResume.pc = "none"
    BY DEF NoResume, ResumeRecords
  <2> QED
    BY <1>1, <2>1 DEF SandboxTypes, ResumeTypes
<1>8. \A d \in All : Plain(d)
  <2> SUFFICES ASSUME NEW d \in All PROVE Plain(d)
    OBVIOUS
  <2>1. CASE call'[d] = Idle
    BY <1>5, <2>1 DEF Plain, Again, InFlight
  <2>2. CASE call'[d] = new[d] /\ d \notin Joiners(h)
    BY <1>2, <2>2 DEF Plain
  <2>3. CASE call'[d] = new[d] /\ d \in Joiners(h)
    <3>1. call[d].h = h /\ SettledOf(call'[d], call[d], h, s, res, last)
      BY <1>2, <2>3 DEF Joiners
    <3>2. AskedOf(call'[d], call[d], call[d].op, s, last) \/ AfterOf(call'[d], call[d], res, last)
      BY <3>1 DEF SettledOf
    <3>3. CASE AskedOf(call'[d], call[d], call[d].op, s, last)
      BY <1>7, <3>1, <3>3 DEF AskedOf, Kept, Plain
    <3>4. CASE AfterOf(call'[d], call[d], res, last)
      BY <3>4 DEF AfterOf, DoneOf, Plain, Again, InFlight
    <3> QED
      BY <3>2, <3>3, <3>4
  <2> QED
    BY <1>4, <2>1, <2>2, <2>3
<1>9. \A d \in All : Again(call[d]) => call[d].h \in Handles
  BY <1>1, CallKnown
<1>10. HooksInv' /\ RetryInv'
  BY <1>7, <1>8, <1>9, PlainStep DEF SandboxInv, PlainResume
<1> QED
  BY <1>1, <1>6, <1>7, <1>10, UnchangedTypes DEF SandboxInv, SandboxTypes

\* The calls of before, and the same once their Session object is no longer the handle's.
LEMMA RenewedCalls ==
  ASSUME SandboxInv, NEW h \in Handles, NEW calls, calls = call \/ calls = Forget(call, h)
  PROVE  /\ DOMAIN calls = All
         /\ \A d \in All : /\ Sound(calls[d], last)
                           /\ calls[d] = call[d] \/ Outdated(calls[d], call[d], last)
                           /\ call[d].pc = "join" => calls[d] = call[d]
<1>1. DOMAIN call = All /\ \A d \in All : Sound(call[d], last)
  BY DEF SandboxInv, SandboxTypes, CallTypes
<1>2. last \in Nat
  BY DEF SandboxInv, SandboxTypes, ApiTypes
<1>3. CASE calls = call
  BY <1>1, <1>3
<1>4. CASE calls = Forget(call, h)
  <2>1. /\ DOMAIN calls = All
        /\ \A d \in All : /\ Sound(calls[d], last)
                          /\ calls[d] = call[d] \/ Outdated(calls[d], call[d], last)
    BY <1>1, <1>2, <1>4, ForgetCalls
  <2>2. \A d \in All : call[d].pc = "join" => calls[d] = call[d]
    BY <1>4 DEF Forget
  <2> QED
    BY <2>1, <2>2
<1> QED
  BY <1>3, <1>4

LEMMA FinishHookStep ==
  ASSUME SandboxInv, NEW h \in Handles, FinishHook(h) \/ ResumeAborted(h)
  PROVE  SandboxInv'
<1>1. /\ resume' = [resume EXCEPT ![h] = NoResume]
      /\ UNCHANGED <<box, last, crossed, handle, hooks>>
  BY DEF FinishHook, ResumeAborted, api
<1>2. HandleTypes' /\ handle[h].session \in Sessions(last)
  BY <1>1, UnchangedTypes DEF SandboxInv, SandboxTypes, HandleTypes, HandleRecords
<1>3. \E res : \/ call' = Settled(call, h, handle[h].session, res)
               \/ call' = [Settled(call, h, handle[h].session, res) EXCEPT ![h] = Idle]
  BY DEF FinishHook, ResumeAborted
<1>4. /\ DOMAIN call = All
      /\ \A d \in All : Sound(call[d], last)
  BY RenewedCalls
<1> QED
  BY <1>1, <1>2, <1>3, <1>4, SettleStep

\* The hook of h starts on the session that the resume was answered with.
LEMMA HookStep ==
  ASSUME SandboxInv, NEW h \in Handles, Resumed(h), NEW calls, DOMAIN calls = All,
         \A d \in All : Sound(calls[d], last) /\ (calls[d] = call[d] \/ Outdated(calls[d], call[d], last)),
         NEW s \in Sessions(last),
         call' = [calls EXCEPT ![h] = Begin([Idle EXCEPT !.kind = "hook", !.h = h], "use", s)],
         resume' = [resume EXCEPT ![h].pc = "hook", ![h].ans = None],
         hooks' = hooks \cup {<<resume[h].ans.id, h>>},
         UNCHANGED <<box, last, crossed>>, HandleTypes'
  PROVE  SandboxInv'
<1> DEFINE i == resume[h].ans.id
           u == [Idle EXCEPT !.kind = "hook", !.h = h]
           t == Begin(u, "use", s)
           r == [resume[h] EXCEPT !.pc = "hook", !.ans = None]
<1>1. /\ last \in Nat /\ SandboxTypes /\ h \in All /\ i \in 0..last
      /\ resume[h] \in ResumeRecords(last)
  BY KnownIds DEF SandboxInv, SandboxTypes, ApiTypes, All, ResumeTypes
<1>2. BegunOf(t, u, "use", s, last)
  <2>1. Sound(u, last) /\ u.h = h
    BY <1>1, FreshCall DEF Kinds
  <2> HIDE DEF u
  <2> QED
    BY <1>1, <2>1, BeginSound DEF Resumable
<1> HIDE DEF t, u
<1>3. Sound(t, last) /\ ~Again(t) /\ t.pc # "wire"
  BY <1>2 DEF BegunOf, Again, InFlight
<1>4. /\ DOMAIN call' = All /\ call'[h] = t
      /\ \A d \in All : d # h => call'[d] = call[d] \/ Outdated(call'[d], call[d], last)
      /\ \A d \in All : Sound(call'[d], last)
  BY <1>1, <1>3 DEF t, u
<1>5. CallTypes'
  BY <1>4 DEF CallTypes
<1>6. /\ DOMAIN resume' = Handles /\ resume'[h] = r
      /\ \A g \in Handles : g # h => resume'[g] = resume[g]
  BY <1>1 DEF SandboxTypes, ResumeTypes
<1>7. r \in ResumeRecords(last) /\ r.pc = "hook"
  BY <1>1 DEF ResumeRecords
<1> HIDE DEF r
<1>8. ResumeTypes'
  <2>1. resume' = [resume EXCEPT ![h] = r]
    BY <1>1 DEF SandboxTypes, ResumeTypes, r
  <2> QED
    BY <1>1, <1>6, <1>7, <2>1 DEF SandboxTypes, ResumeTypes
<1>9. hooks' = hooks \cup {<<i, h>>}
  OBVIOUS
<1>10. HookTypes'
  BY <1>1, <1>9 DEF SandboxTypes, HookTypes
<1>11. /\ \A a \in hooks : a[1] # i
       /\ \A d \in All : Getting(d) => call[d].ans.id # i
       /\ \A g \in Handles : g # h /\ Resumed(g) => resume[g].ans.id # i
  BY DEF SandboxInv, HooksInv
<1> HIDE DEF i
<1>12. \A a \in hooks' : a \in hooks \/ (a = <<i, h>> /\ a[1] = i)
  BY <1>9
<1>13. \A g \in Handles : Resumed(g)' => g # h /\ Resumed(g) /\ resume'[g] = resume[g]
  BY <1>6, <1>7 DEF Resumed
<1>14. \A d \in All : Getting(d)' => Getting(d) /\ call'[d].ans = call[d].ans
  BY <1>3, <1>4 DEF Getting, Outdated
<1>15. OneHookPerSession'
  BY <1>11, <1>12 DEF SandboxInv, HooksInv, OneHookPerSession
<1>16. HooksInv'
  <2>1. ASSUME NEW g \in Handles, Resumed(g)'
        PROVE  /\ \A a \in hooks' : a[1] # resume'[g].ans.id
               /\ \A f \in Handles : Resumed(f)' /\ resume'[f].ans.id = resume'[g].ans.id => f = g
               /\ \A d \in All : Getting(d)' => call'[d].ans.id # resume'[g].ans.id
    <3>1. g # h /\ Resumed(g) /\ resume'[g] = resume[g] /\ resume[g].ans.id # i
      BY <1>11, <1>13, <2>1
    <3>2. \A a \in hooks : a[1] # resume[g].ans.id
      BY <3>1 DEF SandboxInv, HooksInv
    <3>3. \A f \in Handles : Resumed(f)' /\ resume'[f].ans.id = resume'[g].ans.id => f = g
      BY <1>13, <3>1 DEF SandboxInv, HooksInv
    <3>4. \A d \in All : Getting(d)' => call'[d].ans.id # resume'[g].ans.id
      BY <1>14, <3>1 DEF SandboxInv, HooksInv
    <3> QED
      BY <1>12, <3>1, <3>2, <3>3, <3>4
  <2>2. ASSUME NEW d \in All, Getting(d)'
        PROVE  /\ \A a \in hooks' : a[1] # call'[d].ans.id
               /\ \A c \in All : Getting(c)' /\ call'[c].ans.id = call'[d].ans.id => c = d
    <3>1. Getting(d) /\ call'[d].ans = call[d].ans /\ call[d].ans.id # i
      BY <1>11, <1>14, <2>2
    <3> QED
      BY <1>12, <1>14, <3>1 DEF SandboxInv, HooksInv
  <2> QED
    BY <1>15, <2>1, <2>2 DEF HooksInv
<1>17. RetryInv'
  <2>1. ASSUME NEW c \in All, Again(call[c]), NEW g \in Handles, g = call[c].h
        PROVE  /\ Resumed(g)' => call[c].id < resume'[g].ans.id
               /\ resume'[g].pc = "hook" => \E a \in hooks' : a[2] = g /\ call[c].id < a[1]
    <3>1. CASE g = h
      <4>1. call[c].id < i
        BY <2>1, <3>1 DEF SandboxInv, RetryInv, i
      <4>2. <<i, h>> \in hooks' /\ <<i, h>>[1] = i /\ <<i, h>>[2] = h
        BY <1>9
      <4>3. ~Resumed(g)'
        BY <1>13, <3>1
      <4> QED
        BY <3>1, <4>1, <4>2, <4>3
    <3>2. CASE g # h
      <4>1. resume'[g] = resume[g] /\ (Resumed(g)' => Resumed(g)) /\ hooks \subseteq hooks'
        BY <1>6, <1>9, <1>13, <3>2
      <4> QED
        BY <2>1, <4>1 DEF SandboxInv, RetryInv
    <3> QED
      BY <3>1, <3>2
  <2>2. \A c \in All : Again(call'[c]) =>
          Again(call[c]) /\ call'[c].h = call[c].h /\ call'[c].id = call[c].id
            /\ call[c].h \in Handles
    BY <1>1, <1>3, <1>4, CallKnown DEF Outdated, Kept, Again, InFlight
  <2> SUFFICES ASSUME NEW c \in All, Again(call'[c])
               PROVE  LET g == call'[c].h IN
                      /\ resume'[g].pc = "wire" /\ resume'[g].ans.resumed
                           => call'[c].id < resume'[g].ans.id
                      /\ resume'[g].pc = "hook" => \E a \in hooks' : a[2] = g /\ call'[c].id < a[1]
    BY DEF RetryInv, Resumed
  <2> DEFINE g == call[c].h
  <2>3. Again(call[c]) /\ call'[c].h = g /\ call'[c].id = call[c].id /\ g \in Handles
    BY <2>2
  <2>4. /\ Resumed(g)' => call[c].id < resume'[g].ans.id
        /\ resume'[g].pc = "hook" => \E a \in hooks' : a[2] = g /\ call[c].id < a[1]
    BY <2>1, <2>3
  <2> QED
    BY <2>3, <2>4 DEF Resumed
<1>18. ApiTypes'
  BY <1>1, UnchangedTypes
<1> QED
  BY <1>5, <1>8, <1>10, <1>16, <1>17, <1>18 DEF SandboxInv, SandboxTypes

LEMMA ReceiveResumeStep ==
  ASSUME SandboxInv, NEW h \in Handles, ReceiveResume(h)
  PROVE  SandboxInv'
<1> DEFINE ans == resume[h].ans
           s == Seen(ans)
           calls == Renewed(h, ans)
<1>1. /\ SandboxTypes /\ last \in Nat /\ resume[h].pc = "wire" /\ ans \in Answers(last)
      /\ s \in Sessions(last) /\ UNCHANGED <<box, last, crossed>>
  BY SeenTypes DEF ReceiveResume, SandboxInv, SandboxTypes, ApiTypes, ResumeTypes, api
<1>2. HandleTypes'
  <2>1. handle' = [handle EXCEPT ![h].session = s] \/ UNCHANGED handle
    BY DEF ReceiveResume
  <2> QED
    BY <1>1, <2>1, SessionStep, UnchangedTypes
<1>3. /\ DOMAIN calls = All
      /\ \A d \in All : /\ Sound(calls[d], last)
                        /\ calls[d] = call[d] \/ Outdated(calls[d], call[d], last)
                        /\ call[d].pc = "join" => calls[d] = call[d]
  <2>1. calls = call \/ calls = Forget(call, h)
    BY DEF Renewed
  <2> HIDE DEF calls
  <2> QED
    BY <2>1, RenewedCalls
<1> HIDE DEF calls
<1>4. CASE ans.code = "ok" /\ handle[h].hook /\ ans.resumed
  <2>1. /\ resume' = [resume EXCEPT ![h].pc = "hook", ![h].ans = None]
        /\ hooks' = hooks \cup {<<resume[h].ans.id, h>>}
        /\ call' = [calls EXCEPT ![h] = Begin([Idle EXCEPT !.kind = "hook", !.h = h], "use", s)]
    BY <1>4 DEF ReceiveResume, calls
  <2>2. Resumed(h)
    BY <1>1, <1>4 DEF Resumed
  <2> HIDE DEF s
  <2> QED
    BY <1>1, <1>2, <1>3, <2>1, <2>2, HookStep
<1>5. CASE ~(ans.code = "ok" /\ handle[h].hook /\ ans.resumed)
  <2>1. /\ resume' = [resume EXCEPT ![h] = NoResume] /\ UNCHANGED hooks
        /\ call' = Settled(calls, h, s, ans.code)
    BY <1>5 DEF ReceiveResume, calls
  <2> HIDE DEF s
  <2> QED
    BY <1>1, <1>2, <1>3, <2>1, SettleStep
<1> QED
  BY <1>4, <1>5

-----------------------------------------------------------------------------
(* The theorems.                                                            *)

LEMMA SandboxInitial == ASSUME SandboxInit PROVE SandboxInv
<1>1. last = 1 /\ box = [st |-> "running", id |-> 1, snap |-> FALSE, file |-> TRUE]
      /\ crossed = FALSE /\ hooks = {} /\ call = [c \in All |-> Idle]
      /\ resume = [h \in Handles |-> NoResume]
  BY DEF SandboxInit
<1>2. ApiTypes
  <2>1. 1 \in Nat /\ 1 \in 0..1
    OBVIOUS
  <2>2. [st |-> "running", id |-> 1, snap |-> FALSE, file |-> TRUE] \in Boxes(1)
    BY <2>1 DEF Boxes
  <2> QED
    BY <1>1, <2>1, <2>2 DEF ApiTypes
<1>3. HandleTypes
  <2>1. PICK s \in {None, [id |-> 1, stopping |-> FALSE]}, k \in BOOLEAN :
          handle = [h \in Handles |->
                      IF h = First THEN [NoHandle EXCEPT !.made = TRUE, !.hook = k, !.session = s]
                                   ELSE NoHandle]
    BY DEF SandboxInit
  <2>2. s \in Sessions(last) /\ None \in Sessions(last)
    <3>1. 1 \in 0..1
      OBVIOUS
    <3>2. [id |-> 1, stopping |-> FALSE] \in Sessions(1) /\ None \in Sessions(1)
      BY <3>1 DEF Sessions
    <3> QED
      BY <1>1, <3>2
  <2>3. NoHandle \in HandleRecords(last)
    BY <2>2 DEF NoHandle, HandleRecords
  <2>4. [NoHandle EXCEPT !.made = TRUE, !.hook = k, !.session = s] \in HandleRecords(last)
    BY <2>2, <2>3 DEF HandleRecords
  <2> QED
    BY <2>1, <2>3, <2>4 DEF HandleTypes
<1>4. ResumeTypes /\ \A h \in Handles : ~Resumed(h)
  <2>1. NoResume \in ResumeRecords(last) /\ NoResume.pc = "none"
    BY DEF NoResume, ResumeRecords
  <2> QED
    BY <1>1, <2>1 DEF ResumeTypes, Resumed
<1>5. CallTypes /\ \A c \in All : ~Getting(c) /\ ~Again(call[c])
  <2>1. Sound(Idle, last) /\ Idle.pc = "idle"
    BY <1>1, NoCallSound DEF Idle
  <2> QED
    BY <1>1, <2>1 DEF CallTypes, Getting, Again, InFlight
<1>6. HookTypes /\ HooksInv /\ RetryInv
  BY <1>1, <1>4, <1>5 DEF HookTypes, HooksInv, RetryInv, OneHookPerSession
<1> QED
  BY <1>2, <1>3, <1>4, <1>5, <1>6 DEF SandboxInv, SandboxTypes

LEMMA SandboxPreserved == SandboxInv /\ [SandboxNext]_vars => SandboxInv'
<1> SUFFICES ASSUME SandboxInv, [SandboxNext]_vars PROVE SandboxInv'
  OBVIOUS
<1>1. CASE UNCHANGED vars
  BY <1>1, StillCalls, UnchangedTypes DEF vars, SandboxInv
<1>2. CASE \E c \in Calls : Start(c)
  BY <1>2, StartStep
<1>3. CASE \E c \in All : Progress(c)
  BY <1>3, ProgressStep
<1>4. CASE \E h \in Handles : ResumeStep(h)
  BY <1>4, ServeResumeStep, ReceiveResumeStep, FinishHookStep DEF ResumeStep
<1>5. CASE \E h, g \in Handles : Deserialize(h, g)
  BY <1>5, DeserializeStep
<1>6. CASE OtherStop \/ EndStop \/ Expire
  BY <1>6, OtherStopStep, EndStopStep, ExpireStep
<1>7. CASE (\E c \in All : LoseAnswer(c)) \/ \E h \in Handles : LoseResume(h)
  BY <1>7, LoseAnswerStep, LoseResumeStep
<1> QED
  BY <1>1, <1>2, <1>3, <1>4, <1>5, <1>6, <1>7 DEF SandboxNext

(* What the API keeps, the Sandbox objects, their resumes and the calls of   *)
(* sandbox.ts are always well formed; an answer that says it resumed a       *)
(* session is the only one of that session, and a call that was sent again   *)
(* names a session from before the resume under way.                         *)
THEOREM SandboxInvariant == SandboxSpec => []SandboxInv
<1>1. SandboxInit => SandboxInv
  BY SandboxInitial
<1>2. SandboxInv /\ [SandboxNext]_vars => SandboxInv'
  BY SandboxPreserved
<1> QED
  BY <1>1, <1>2, PTL DEF SandboxSpec

(* The guest carries out an operation again only as often as withRetry        *)
(* (with-retry.ts) has sent it again for a lost answer: withResume            *)
(* (sandbox.ts), which such a request may send to the next session, adds no   *)
(* repetition of its own, however many sessions stop under it.                *)
THEOREM EffectsRepeatWhenLost == SandboxSpec => []RepeatsOnlyLost
<1>1. SandboxInv => RepeatsOnlyLost
  BY DEF SandboxInv, SandboxTypes, CallTypes, Sound, CallRecords, RepeatsOnlyLost, Untold
<1> QED
  BY <1>1, SandboxInvariant, PTL

(* However many calls and handles find the sandbox stopped, and whoever      *)
(* resumes it, the onResume hook of one handle only runs for the session.    *)
THEOREM HooksRunOnce == SandboxSpec => []OneHookPerSession
<1>1. SandboxInv => OneHookPerSession
  BY DEF SandboxInv, HooksInv
<1> QED
  BY <1>1, SandboxInvariant, PTL

(* A call that waited for a resume goes on with the new session only when    *)
(* the onResume hook of its handle is over.                                  *)
THEOREM RetriesFollowTheHook == SandboxSpec => []HookBeforeRetry
<1>1. SandboxInv => HookBeforeRetry
  BY DEF SandboxInv, RetryInv, HookBeforeRetry, Again, InFlight, All
<1> QED
  BY <1>1, SandboxInvariant, PTL

-----------------------------------------------------------------------------
(* Whose a handle is.                                                       *)

Making == {"create", "get", "getOrCreate"}
MakingReqs == {"get", "create", "drop"}
Over == {"idle", "done"}

(* A handle that is not held yet is its static method's own: nobody else has *)
(* a call on it, and it is resumed only while that method awaits it.         *)
HandleOwned(h) ==
  LET c == handle[h].by IN
  /\ ~handle[h].made => c = None /\ handle[h].session = None
  /\ c # None => call[c].pc = "done" \/ call[c].h = h
  /\ resume[h].pc # "none" /\ ~Held(h) => c # None /\ call[c].pc = "join"
  /\ call[h].pc # "idle" => resume[h].pc = "hook"
CallOwned(c) ==
  LET h == call[c].h IN
  /\ call[c].pc \in Over => h = None
  /\ c \in Handles => h \in {None, c} /\ call[c].kind \in {"none", "hook"}
  /\ c \in Calls /\ h \in Handles => Held(h) \/ handle[h].by = c
  /\ call[c].kind \in Making => h \in Handles /\ handle[h].by = c
  /\ call[c].pc \in {"send", "wire"} /\ call[c].req \in MakingReqs => call[c].kind \in Making
  /\ call[c].pc \in {"queued", "stopping"} => call[c].req \in {"stop", "snapshot"}

OwnersInv == (\A h \in Handles : HandleOwned(h)) /\ \A c \in All : CallOwned(c)

\* The steps of a call: it goes on, ends, begins, or is the command of a hook.
Moves(d) ==
  LET r == call[d]
      t == call'[d]
  IN \/ t = r
     \/ /\ t.pc \in {"queued", "stopping"} => t.req \in {"stop", "snapshot"}
        /\ \/ /\ r.pc \notin Over /\ t.pc \notin Over /\ t.h = r.h /\ t.kind = r.kind
              /\ t.pc \in {"send", "wire"} /\ t.req \in MakingReqs => t.kind \in Making
              /\ r.pc = "join" => t.pc = "join" \/ resume'[r.h].pc = "none"
           \/ /\ r.pc \notin Over /\ t.pc = "done" /\ t.h = None /\ t.kind = "none"
              /\ r.pc = "join" => resume'[r.h].pc = "none"
           \/ /\ d \in Calls /\ r.pc = "idle" /\ t.pc \notin Over
              /\ t.h \in Handles => Held(t.h)
              /\ t.kind \notin Making /\ t.req \notin MakingReqs
           \/ d \in Handles /\ t.pc = "idle" /\ t.h = None /\ t.kind = "none"
           \/ /\ d \in Handles /\ t.h = d /\ t.kind = "hook" /\ t.pc \notin Over
              /\ t.req \notin MakingReqs /\ resume'[d].pc = "hook"

\* What else a step of calls may change: sessions, and the resumes that are awaited.
HandleMoves(h) ==
  /\ handle'[h].made = handle[h].made /\ handle'[h].by = handle[h].by
  /\ ~handle[h].made => handle'[h].session = handle[h].session
  /\ \/ resume'[h].pc = "none"
     \/ resume[h].pc # "none"
     \/ resume'[h].pc = "send" /\ \E c \in All : call'[c].pc = "join" /\ call'[c].h = h
  /\ resume[h].pc = "hook" => resume'[h].pc = "hook" \/ call'[h].pc = "idle"

LEMMA OwnerTypes ==
  ASSUME SandboxTypes
  PROVE  /\ \A h \in Handles : /\ handle[h].made \in BOOLEAN /\ handle[h].by \in Calls \cup {None}
                               /\ h \in All /\ h \notin Calls
                               /\ resume[h].pc \in {"none", "send", "wire", "hook"}
         /\ \A c \in All : call[c].h \in Handles \cup {None}
         /\ None \notin All /\ Calls \subseteq All
  BY SdkSandboxAssumption
     DEF SandboxTypes, HandleTypes, HandleRecords, ResumeTypes, ResumeRecords, CallTypes, Sound,
         CallRecords, All

LEMMA HeldStays ==
  ASSUME SandboxTypes, \A d \in All : Moves(d), NEW h \in Handles, HandleMoves(h), Held(h)
  PROVE  Held(h)'
<1>1. handle'[h].made /\ handle'[h].by = handle[h].by
  BY DEF HandleMoves, Held
<1>2. ASSUME handle[h].by # None
      PROVE  call'[handle[h].by].pc = "done" /\ call'[handle[h].by].res = "ok"
  <2> DEFINE c == handle[h].by
  <2>1. c \in Calls /\ c \in All /\ c \notin Handles
    BY <1>2, OwnerTypes, SdkSandboxAssumption
  <2>2. call[c].pc = "done" /\ call[c].res = "ok"
    BY <1>2 DEF Held
  <2> HIDE DEF c
  <2>3. call'[c] = call[c]
    BY <2>1, <2>2 DEF Moves, Over
  <2> QED
    BY <2>2, <2>3 DEF c
<1> QED
  BY <1>1, <1>2 DEF Held

LEMMA OwnersStep ==
  ASSUME SandboxTypes, OwnersInv, \A d \in All : Moves(d), \A h \in Handles : HandleMoves(h)
  PROVE  OwnersInv'
<1>1. ASSUME NEW c \in All PROVE CallOwned(c)'
  <2>1. CallOwned(c) /\ Moves(c)
    BY DEF OwnersInv
  <2>2. \A h \in Handles : handle'[h].by = handle[h].by /\ (Held(h) => Held(h)')
    BY HeldStays DEF HandleMoves
  <2>3. c \in Calls => c \notin Handles
    BY SdkSandboxAssumption
  <2>4. call[c].h \in Handles \cup {None} /\ None \notin Handles
    BY SdkSandboxAssumption, OwnerTypes
  <2> QED
    BY <2>1, <2>2, <2>3, <2>4 DEF CallOwned, Moves, Over, Making
<1>2. ASSUME NEW h \in Handles PROVE HandleOwned(h)'
  <2> DEFINE c == handle[h].by
  <2>1. HandleOwned(h) /\ HandleMoves(h) /\ h \in All /\ h \notin Calls /\ Moves(h)
    BY OwnerTypes DEF OwnersInv
  <2>2. c # None => c \in Calls /\ c \in All /\ c \notin Handles /\ Moves(c)
    BY OwnerTypes, SdkSandboxAssumption
  <2>3. handle'[h].by = c /\ handle'[h].made = handle[h].made
    BY <2>1 DEF HandleMoves
  <2>4. ~handle'[h].made => c = None /\ handle'[h].session = None
    BY <2>1, <2>3 DEF HandleOwned, HandleMoves
  <2>5. c # None => call'[c].pc = "done" \/ call'[c].h = h
    <3>1. c # None => CallOwned(c) /\ (call[c].pc = "done" \/ call[c].h = h)
      BY <2>1, <2>2 DEF HandleOwned, OwnersInv
    <3> QED
      BY <2>2, <3>1, SdkSandboxAssumption DEF CallOwned, Moves, Over
  <2>6. call'[h].pc # "idle" => resume'[h].pc = "hook"
    BY <2>1 DEF HandleOwned, HandleMoves, Moves, Over
  <2>7. ASSUME resume'[h].pc # "none", ~Held(h)'
        PROVE  c # None /\ call'[c].pc = "join"
    <3>1. ~Held(h)
      BY <2>1, <2>7, HeldStays
    <3>2. CASE resume[h].pc # "none"
      <4>1. c # None /\ call[c].pc = "join" /\ call[c].h = h
        BY <2>1, <3>1, <3>2 DEF HandleOwned
      <4> QED
        BY <2>2, <2>7, <4>1 DEF Moves, Over
    <3>3. CASE resume[h].pc = "none"
      <4>1. PICK d \in All : call'[d].pc = "join" /\ call'[d].h = h
        BY <2>1, <2>7, <3>3 DEF HandleMoves
      <4>2. CallOwned(d)'
        BY <1>1
      <4>3. d \in Calls
        <5>1. ASSUME d \in Handles PROVE FALSE
          <6>1. d = h
            BY <4>1, <4>2, <5>1, SdkSandboxAssumption DEF CallOwned
          <6>2. resume'[h].pc = "hook"
            BY <2>6, <4>1, <6>1
          <6> QED
            BY <2>1, <3>3, <6>2 DEF HandleMoves
        <5> QED
          BY <5>1 DEF All
      <4>4. handle'[h].by = d
        BY <2>7, <4>1, <4>2, <4>3 DEF CallOwned
      <4> QED
        BY <2>3, <4>1, <4>3, <4>4, OwnerTypes DEF All
    <3> QED
      BY <3>2, <3>3
  <2> HIDE DEF c
  <2>8. call'[h].pc # "idle" => resume'[h].pc = "hook"
    BY <2>6
  <2> QED
    BY <2>3, <2>4, <2>5, <2>7, <2>8 DEF HandleOwned
<1> QED
  BY <1>1, <1>2 DEF OwnersInv

(* While the request that makes a handle is on its way, nobody else has to   *)
(* do with the handle.                                                       *)
LEMMA MakerAlone ==
  ASSUME SandboxTypes, OwnersInv, NEW c \in All, call[c].pc \in {"send", "wire"},
         call[c].req \in MakingReqs
  PROVE  LET h == call[c].h IN
         /\ h \in Handles /\ c \in Calls /\ handle[h].by = c /\ ~Held(h)
         /\ resume[h].pc = "none" /\ \A d \in All : d # c => call[d].h # h
<1> DEFINE h == call[c].h
<1>1. CallOwned(c) /\ call[c].kind \in Making
  BY DEF OwnersInv, CallOwned
<1>2. h \in Handles /\ handle[h].by = c /\ c # None
  BY <1>1, OwnerTypes DEF CallOwned
<1>3. c \in Calls /\ ~Held(h)
  BY <1>2, OwnerTypes DEF Held
<1>4. HandleOwned(h) /\ resume[h].pc = "none"
  BY <1>2, <1>3 DEF OwnersInv, HandleOwned
<1>5. ASSUME NEW d \in All, d # c, call[d].h = h PROVE FALSE
  <2>1. CallOwned(d)
    BY DEF OwnersInv
  <2>2. d \in Handles
    BY <1>2, <1>3, <1>5, <2>1 DEF CallOwned, All
  <2>3. d = h
    BY <1>2, <1>5, <2>1, <2>2, SdkSandboxAssumption DEF CallOwned
  <2>4. call[h].pc # "idle"
    BY <1>2, <1>5, <2>1, <2>3, SdkSandboxAssumption DEF CallOwned, Over
  <2> QED
    BY <1>4, <2>4 DEF HandleOwned
<1> QED
  BY <1>2, <1>3, <1>4, <1>5

-----------------------------------------------------------------------------
(* The sessions of handles, calls and answers.                              *)

\* An answer that resumed h, or found it running, is no older than what h has.
HandleIds(h) ==
  /\ resume[h].pc = "wire" /\ resume[h].ans.code = "ok" /\ handle[h].session # None
       => handle[h].session.id <= resume[h].ans.id
  /\ resume[h].pc = "hook" => handle[h].session # None

(* An answer shows the session that its request named, and that one is the   *)
(* session of the handle as long as the call has the handle's Session        *)
(* object; a static method's answer is no older than what its handle has.    *)
CallIds(c) ==
  LET r == call[c]
      h == call[c].h
  IN /\ r.pc = "stopping" => stopper = c /\ box.id = r.id
     /\ r.pc = "wire" /\ r.ans.code = "ok" /\ r.req \in Refreshing \cup {"getSession"}
          => r.ans.id = r.id
     /\ r.pc \in InFlight /\ r.req \in Refreshing
          => handle[h].session # None /\ (r.obj => handle[h].session.id = r.id)
     /\ r.pc \in {"send", "wire"} /\ r.req = "get" => handle[h].session = None
     /\ r.pc = "wire" /\ r.req = "create" /\ r.ans.code = "ok" /\ handle[h].session # None
          => handle[h].session.id <= r.ans.id
     /\ h \in Handles /\ resume[h].pc = "wire" /\ resume[h].ans.code = "ok"
          => r.id <= resume[h].ans.id

ApiIds == (box.st # "none" => box.id = last) /\ (stopper # None => box.st = "stopping")

IdsInv == ApiIds /\ (\A h \in Handles : HandleIds(h)) /\ \A c \in All : CallIds(c)

\* The handle keeps its session, if another Session object at most.
SameIds(h) ==
  /\ handle'[h].session = None <=> handle[h].session = None
  /\ handle[h].session # None => handle'[h].session.id = handle[h].session.id

\* The resume of h has no new answer with a session.
QuietResume(h) ==
  \/ resume'[h] = resume[h]
  \/ resume'[h].pc \in {"none", "send"}
  \/ resume'[h].pc = "wire" /\ resume'[h].ans.code # "ok"

LEMMA HandleIdsStay ==
  ASSUME NEW h \in Handles, HandleIds(h), SameIds(h), QuietResume(h)
  PROVE  HandleIds(h)'
  BY DEF HandleIds, SameIds, QuietResume

LEMMA CallIdsStay ==
  ASSUME SandboxTypes, NEW c \in All, CallIds(c),
         call'[c] = call[c] \/ Outdated(call'[c], call[c], last),
         call[c].h \in Handles => SameIds(call[c].h) /\ QuietResume(call[c].h),
         call[c].pc = "stopping" => stopper' = stopper /\ box'.id = box.id
  PROVE  CallIds(c)'
<1>1. /\ call'[c].pc = call[c].pc /\ call'[c].ans = call[c].ans /\ call'[c].req = call[c].req
      /\ call'[c].id = call[c].id /\ call'[c].h = call[c].h
      /\ call'[c].obj => call[c].obj
  BY DEF Outdated, Kept
<1>2. call[c].req \in Refreshing \cup {"get", "create"} => call[c].h \in Handles
  BY CallKnown DEF Sound, Refreshing
<1> QED
  BY <1>1, <1>2 DEF CallIds, SameIds, QuietResume, InFlight

\* A call that is not on its way names what it named before, or nothing.
LEMMA RestingIds ==
  ASSUME SandboxTypes, NEW c \in All, CallIds(c), call'[c].pc \in {"idle", "join", "poll", "done"},
         call'[c].h \in Handles =>
           /\ QuietResume(call'[c].h)
           /\ call'[c].id = 0 \/ (call'[c].id = call[c].id /\ call'[c].h = call[c].h)
  PROVE  CallIds(c)'
<1>1. \A h \in Handles : resume[h].pc = "wire" => resume[h].ans.id \in Nat
  BY DEF SandboxTypes, ApiTypes, ResumeTypes, Answers
<1> QED
  BY <1>1 DEF CallIds, QuietResume, InFlight

\* A request that names the session of its handle, or none.
LEMMA AskedIds ==
  ASSUME NEW c \in All, NEW h \in Handles, call'[c].pc = "send", call'[c].h = h, HandleIds(h)',
         resume'[h].pc = "wire" => resume'[h].ans.id \in Nat,
         \/ call'[c].id = 0
         \/ handle'[h].session # None /\ call'[c].id = handle'[h].session.id,
         call'[c].req \in Refreshing =>
           handle'[h].session # None /\ call'[c].id = handle'[h].session.id,
         call'[c].req = "get" => handle'[h].session = None
  PROVE  CallIds(c)'
  BY DEF CallIds, HandleIds

LEMMA DetachedIds ==
  ASSUME NEW c \in All, call'[c].h = None, call'[c].pc \in {"send", "wire"},
         call'[c].req \in {"peek", "clone"}
  PROVE  CallIds(c)'
  BY SdkSandboxAssumption DEF CallIds, Refreshing

\* What must hold of the other variables for calls to change.
QuietIds ==
  /\ UNCHANGED <<last, stopper>> /\ box'.id = box.id
  /\ box'.st # "none" => box.st # "none"
  /\ box.st = "stopping" => box'.st = "stopping"
  /\ \A h \in Handles : SameIds(h) /\ QuietResume(h)

LEMMA QuietIdsStep ==
  ASSUME SandboxTypes, IdsInv, QuietIds,
         \A d \in All : \/ call'[d] = call[d] \/ Outdated(call'[d], call[d], last)
                        \/ CallIds(d)'
  PROVE  IdsInv'
<1>1. ApiIds'
  BY DEF IdsInv, ApiIds, QuietIds
<1>2. \A h \in Handles : HandleIds(h)'
  BY HandleIdsStay DEF IdsInv, QuietIds
<1>3. \A d \in All : CallIds(d)'
  BY CallIdsStay DEF IdsInv, QuietIds
<1> QED
  BY <1>1, <1>2, <1>3 DEF IdsInv

(* What every step but a poll's answer keeps: whose the handles are and,     *)
(* unless a stop was answered with another session than it named, the        *)
(* sessions; and no handle goes back.                                        *)
Back(h) == /\ handle[h].session # None /\ handle'[h].session # None
           /\ handle'[h].session.id < handle[h].session.id

Keeps == /\ OwnersInv'
         /\ IdsInv /\ ~crossed' => IdsInv'
         /\ IdsInv /\ ~crossed => \A h \in Handles : ~Back(h)

LEMMA SameIdsForward ==
  ASSUME SandboxTypes, \A h \in Handles : SameIds(h)
  PROVE  \A h \in Handles : ~Back(h)
<1>1. \A h \in Handles : handle[h].session # None => handle[h].session.id \in Nat
  BY DEF SandboxTypes, ApiTypes, HandleTypes, HandleRecords, Sessions
<1> QED
  BY <1>1 DEF SameIds, Back

\* A step of calls in which no handle gets another session.
LEMMA QuietKeeps ==
  ASSUME SandboxTypes, OwnersInv, \A d \in All : Moves(d), \A h \in Handles : HandleMoves(h),
         IdsInv => QuietIds,
         IdsInv /\ ~crossed' => \A d \in All : \/ call'[d] = call[d]
                                              \/ Outdated(call'[d], call[d], last)
                                              \/ CallIds(d)'
  PROVE  Keeps
<1>1. OwnersInv'
  BY OwnersStep
<1>2. IdsInv /\ ~crossed' => IdsInv'
  BY QuietIdsStep
<1>3. IdsInv => \A h \in Handles : ~Back(h)
  BY SameIdsForward DEF QuietIds
<1> QED
  BY <1>1, <1>2, <1>3 DEF Keeps

LEMMA SameHandles ==
  ASSUME UNCHANGED handle
  PROVE  \A h \in Handles :
           /\ SameIds(h)
           /\ handle'[h].made = handle[h].made /\ handle'[h].by = handle[h].by
           /\ ~handle[h].made => handle'[h].session = handle[h].session
  BY DEF SameIds

LEMMA SameResumes ==
  ASSUME UNCHANGED resume
  PROVE  \A h \in Handles :
           /\ QuietResume(h)
           /\ \/ resume'[h].pc = "none"
              \/ resume[h].pc # "none"
              \/ resume'[h].pc = "send" /\ \E c \in All : call'[c].pc = "join" /\ call'[c].h = h
           /\ resume[h].pc = "hook" => resume'[h].pc = "hook" \/ call'[h].pc = "idle"
  BY DEF QuietResume

LEMMA ResumeByQuiet ==
  ASSUME SandboxTypes, NEW c \in All, NEW g \in Handles, resume' = ResumeBy(c, g),
         call'[c].pc = "join", call'[c].h = g
  PROVE  \A h \in Handles :
           /\ QuietResume(h)
           /\ \/ resume'[h].pc = "none"
              \/ resume[h].pc # "none"
              \/ resume'[h].pc = "send" /\ \E d \in All : call'[d].pc = "join" /\ call'[d].h = h
           /\ resume[h].pc = "hook" => resume'[h].pc = "hook" \/ call'[h].pc = "idle"
<1> DEFINE r == [pc |-> "send", owner |-> c, ans |-> None]
<1>1. r.pc = "send"
  OBVIOUS
<1> HIDE DEF r
<1>2. resume[g].pc = "none" => resume' = [resume EXCEPT ![g] = r]
  BY DEF ResumeBy, r
<1>3. resume[g].pc # "none" => resume' = resume
  BY DEF ResumeBy
<1> QED
  BY <1>1, <1>2, <1>3 DEF SandboxTypes, ResumeTypes, QuietResume

\* Call c becomes t, and awaits a resume if it begins one.
LEMMA CallKeeps ==
  ASSUME SandboxTypes, OwnersInv, NEW c \in All, NEW t, call' = [call EXCEPT ![c] = t], Moves(c),
         UNCHANGED <<box, last, stopper>>,
         UNCHANGED handle \/ \A h \in Handles :
           /\ IdsInv => SameIds(h)
           /\ handle'[h].made = handle[h].made /\ handle'[h].by = handle[h].by
           /\ ~handle[h].made => handle'[h].session = handle[h].session,
         \/ UNCHANGED resume
         \/ \E g \in Handles : resume' = ResumeBy(c, g) /\ t.pc = "join" /\ t.h = g,
         IdsInv /\ ~crossed' => CallIds(c)'
  PROVE  Keeps
<1>1. /\ DOMAIN call' = All /\ call'[c] = t /\ \A d \in All : d # c => call'[d] = call[d]
  BY OneCall DEF SandboxTypes
<1>2. \A d \in All : Moves(d)
  BY <1>1 DEF Moves
<1>3. \A h \in Handles :
        /\ QuietResume(h)
        /\ \/ resume'[h].pc = "none"
           \/ resume[h].pc # "none"
           \/ resume'[h].pc = "send" /\ \E d \in All : call'[d].pc = "join" /\ call'[d].h = h
        /\ resume[h].pc = "hook" => resume'[h].pc = "hook" \/ call'[h].pc = "idle"
  BY <1>1, SameResumes, ResumeByQuiet
<1>4. \A h \in Handles :
        /\ IdsInv => SameIds(h)
        /\ handle'[h].made = handle[h].made /\ handle'[h].by = handle[h].by
        /\ ~handle[h].made => handle'[h].session = handle[h].session
  BY SameHandles
<1>5. \A h \in Handles : HandleMoves(h)
  BY <1>3, <1>4 DEF HandleMoves
<1>6. IdsInv => QuietIds
  BY <1>3, <1>4 DEF QuietIds
<1>7. IdsInv /\ ~crossed' => \A d \in All : call'[d] = call[d] \/ CallIds(d)'
  BY <1>1
<1> QED
  BY <1>2, <1>5, <1>6, <1>7, QuietKeeps

LEMMA ResumeIds ==
  ASSUME SandboxTypes
  PROVE  \A h \in Handles : resume[h].pc = "wire" => resume[h].ans.id \in Nat
  BY DEF SandboxTypes, ApiTypes, ResumeTypes, Answers

\* A call asks while its handle stays as it is.
LEMMA AskNowIds ==
  ASSUME SandboxTypes, IdsInv, UNCHANGED <<handle, resume>>, NEW c \in All, NEW h \in Handles,
         call'[c].pc = "send", call'[c].h = h,
         \/ call'[c].id = 0 /\ call'[c].req \notin Refreshing
         \/ handle[h].session # None /\ call'[c].id = handle[h].session.id,
         call'[c].req = "get" => handle[h].session = None
  PROVE  CallIds(c)'
<1>1. HandleIds(h)'
  BY SameHandles, SameResumes, HandleIdsStay DEF IdsInv
<1>2. resume'[h].pc = "wire" => resume'[h].ans.id \in Nat
  BY ResumeIds
<1>3. handle'[h] = handle[h]
  OBVIOUS
<1> QED
  BY <1>1, <1>2, <1>3, AskedIds

-----------------------------------------------------------------------------
(* The operations of the program.                                           *)

LEMMA FreshFields ==
  ASSUME NEW k, NEW h
  PROVE  LET r == [Idle EXCEPT !.kind = k, !.h = h] IN
         r.kind = k /\ r.h = h /\ r.req = "none" /\ r.id = 0
  BY DEF Idle

LEMMA WithResumeKeeps ==
  ASSUME SandboxInv, OwnersInv, NEW c \in Calls, NEW h \in Handles, NEW k \in Kinds \ Making,
         NEW op \in Resumable, WithResume(c, h, k, op)
  PROVE  Keeps
<1> DEFINE r == [Idle EXCEPT !.kind = k, !.h = h]
           s == handle[h].session
           t == Begin(r, op, s)
<1>1. /\ call' = [call EXCEPT ![c] = t] /\ call[c].pc = "idle" /\ Held(h)
      /\ resume' = IF s = None THEN ResumeBy(c, h) ELSE resume
      /\ UNCHANGED <<box, last, stopper, crossed, handle>>
  BY DEF WithResume, Fresh, api
<1>2. c \in All /\ last \in Nat /\ s \in Sessions(last) /\ SandboxTypes
  BY DEF All, SandboxInv, SandboxTypes, ApiTypes, HandleTypes, HandleRecords
<1>3. Sound(r, last) /\ r.h = h
  BY <1>2, FreshCall
<1>4. r.kind = k /\ r.req = "none" /\ r.id = 0
  BY FreshFields
<1> HIDE DEF r
<1>5. BegunOf(t, r, op, s, last)
  BY <1>2, <1>3, BeginSound
<1> HIDE DEF t
<1>6. /\ call'[c] = t /\ t.h = h /\ t.kind = k /\ t.pc \in {"join", "send"}
      /\ t.req \in {"none", op}
      /\ s = None => t.pc = "join" /\ t.id = 0
      /\ s # None => t.pc = "send" /\ t.id = s.id
  BY <1>1, <1>2, <1>3, <1>4, <1>5, OneCall DEF BegunOf, SandboxTypes
<1>7. Moves(c)
  BY <1>1, <1>6 DEF Moves, Over, MakingReqs, Resumable
<1>8. ASSUME IdsInv PROVE CallIds(c)'
  <2>1. CASE s = None
    <3>1. QuietResume(h)
      BY <1>1, <1>2, <1>6, <2>1, ResumeByQuiet
    <3> QED
      BY <1>2, <1>6, <1>8, <2>1, <3>1, RestingIds DEF IdsInv
  <2>2. CASE s # None
    BY <1>1, <1>2, <1>6, <1>8, <2>2, AskNowIds DEF Resumable
  <2> QED
    BY <2>1, <2>2
<1>9. UNCHANGED resume \/ (resume' = ResumeBy(c, h) /\ t.pc = "join" /\ t.h = h)
  BY <1>1, <1>6
<1> QED
  BY <1>1, <1>2, <1>7, <1>8, <1>9, CallKeeps

LEMMA DirectKeeps ==
  ASSUME SandboxInv, OwnersInv, NEW c \in Calls, NEW h \in Handles, NEW k \in Kinds \ Making,
         NEW q \in Asked \ MakingReqs, Direct(c, h, k, q),
         q \in Refreshing => handle[h].session # None
  PROVE  Keeps
<1> DEFINE r == [Idle EXCEPT !.kind = k, !.h = h]
           s == handle[h].session
           t == Ask(r, q, s)
<1>1. /\ call' = [call EXCEPT ![c] = t] /\ call[c].pc = "idle" /\ Held(h)
      /\ UNCHANGED <<box, last, stopper, crossed, handle, resume>>
  BY DEF Direct, Fresh, api
<1>2. c \in All /\ last \in Nat /\ s \in Sessions(last) /\ SandboxTypes
  BY DEF All, SandboxInv, SandboxTypes, ApiTypes, HandleTypes, HandleRecords
<1>3. Sound(r, last) /\ r.h = h
  BY <1>2, FreshCall
<1>4. r.kind = k
  BY FreshFields
<1> HIDE DEF r
<1>5. AskedOf(t, r, q, s, last)
  BY <1>2, <1>3, AskFields DEF Sound
<1> HIDE DEF t
<1>6. /\ call'[c] = t /\ t.h = h /\ t.kind = k /\ t.pc = "send" /\ t.req = q
      /\ s = None => t.id = 0
      /\ s # None => t.id = s.id
  BY <1>1, <1>2, <1>3, <1>4, <1>5, OneCall DEF AskedOf, Kept, SandboxTypes
<1>7. Moves(c)
  BY <1>1, <1>6 DEF Moves, Over
<1>8. ASSUME IdsInv PROVE CallIds(c)'
  BY <1>1, <1>2, <1>6, <1>8, AskNowIds DEF MakingReqs
<1> QED
  BY <1>1, <1>2, <1>7, <1>8, CallKeeps

LEMMA ForkKeeps ==
  ASSUME SandboxInv, OwnersInv, NEW c \in Calls, Fork(c)
  PROVE  Keeps
<1> DEFINE r == [Idle EXCEPT !.kind = "fork"]
           t == Ask(r, "peek", None)
<1>1. /\ call' = [call EXCEPT ![c] = t] /\ call[c].pc = "idle"
      /\ UNCHANGED <<box, last, stopper, crossed, handle, resume>>
  BY DEF Fork, api
<1>2. c \in All /\ SandboxTypes
  BY DEF All, SandboxInv
<1>3. t.pc = "send" /\ t.h = None /\ t.kind = "fork" /\ t.req = "peek"
  BY DEF Ask, Idle
<1> HIDE DEF t
<1>4. call'[c] = t
  BY <1>1, <1>2, OneCall DEF SandboxTypes
<1>5. Moves(c)
  BY <1>1, <1>3, <1>4, SdkSandboxAssumption DEF Moves, Over, Making, MakingReqs
<1>6. CallIds(c)'
  BY <1>2, <1>3, <1>4, DetachedIds
<1> QED
  BY <1>1, <1>2, <1>5, <1>6, CallKeeps


-----------------------------------------------------------------------------
(* The calls go on with an answer.                                          *)

LEMMA CalledMade ==
  ASSUME SandboxTypes, OwnersInv, NEW c \in All, call[c].h \in Handles
  PROVE  handle[call[c].h].made
<1> DEFINE h == call[c].h
<1>1. CallOwned(c) /\ HandleOwned(h) /\ h # None
  BY SdkSandboxAssumption DEF OwnersInv
<1>2. CASE c \in Calls
  BY <1>1, <1>2, OwnerTypes DEF CallOwned, HandleOwned, Held
<1>3. CASE c \in Handles
  <2>1. c = h /\ call[h].pc # "idle"
    BY <1>1, <1>3 DEF CallOwned, Over
  <2>2. resume[h].pc # "none"
    BY <1>1, <2>1 DEF HandleOwned
  <2> QED
    BY <1>1, <2>2 DEF HandleOwned, Held
<1> QED
  BY <1>2, <1>3 DEF All

\* The handle h gets the session s.
LEMMA SessionFields ==
  ASSUME SandboxTypes, NEW h \in Handles, NEW s, handle' = [handle EXCEPT ![h].session = s]
  PROVE  /\ handle'[h].session = s
         /\ \A g \in Handles : /\ handle'[g].made = handle[g].made /\ handle'[g].by = handle[g].by
                               /\ handle'[g].hook = handle[g].hook
                               /\ g # h => handle'[g] = handle[g]
<1>1. handle \in [Handles -> HandleRecords(last)]
  BY DEF SandboxTypes, HandleTypes
<1>2. handle' = [handle EXCEPT ![h] = [handle[h] EXCEPT !.session = s]]
  BY <1>1
<1>3. handle[h] \in HandleRecords(last)
  BY <1>1
<1>4. LET x == [handle[h] EXCEPT !.session = s] IN
      x.session = s /\ x.made = handle[h].made /\ x.by = handle[h].by /\ x.hook = handle[h].hook
  BY <1>3 DEF HandleRecords
<1> QED
  BY <1>1, <1>2, <1>4

LEMMA SeenSome ==
  ASSUME NEW n \in Nat, NEW a \in Answers(n)
  PROVE  Seen(a) \in Sessions(n) /\ Seen(a).id = a.id /\ Seen(a) # None
<1>1. Seen(a) \in [id : Nat, stopping : BOOLEAN]
  BY DEF Seen, Answers
<1> QED
  BY <1>1, SeenTypes, SdkSandboxAssumption

LEMMA RefreshIds ==
  ASSUME SandboxTypes, OwnersInv, NEW c \in All, call[c].pc = "wire", call[c].ans.code = "ok",
         call[c].req \in Refreshing, handle' = Refresh(c)
  PROVE  \A h \in Handles :
           /\ IdsInv => SameIds(h)
           /\ handle'[h].made = handle[h].made /\ handle'[h].by = handle[h].by
           /\ ~handle[h].made => handle'[h].session = handle[h].session
<1> DEFINE g == call[c].h
           s == Seen(call[c].ans)
<1>1. /\ last \in Nat /\ Sound(call[c], last) /\ call[c].ans \in Answers(last)
  BY CallKnown
<1>2. g \in Handles /\ s.id = call[c].ans.id /\ s # None
  BY <1>1, SeenSome DEF Sound, Refreshing
<1>3. handle[g].made
  BY <1>2, CalledMade
<1>4. CASE call[c].obj
  <2>1. handle' = [handle EXCEPT ![g].session = s]
    BY <1>4 DEF Refresh
  <2>2. IdsInv => handle[g].session # None /\ handle[g].session.id = s.id
    BY <1>2, <1>4 DEF IdsInv, CallIds, InFlight
  <2> HIDE DEF s, g
  <2>3. /\ handle'[g].session = s
        /\ \A h \in Handles : /\ handle'[h].made = handle[h].made /\ handle'[h].by = handle[h].by
                              /\ h # g => handle'[h] = handle[h]
    BY <1>2, <2>1, SessionFields
  <2> QED
    BY <1>2, <1>3, <2>2, <2>3 DEF SameIds
<1>5. CASE ~call[c].obj
  <2>1. UNCHANGED handle
    BY <1>5 DEF Refresh
  <2> QED
    BY <2>1, SameHandles
<1> QED
  BY <1>4, <1>5


\* What may become of the handles when an answer is received.
Received(c) ==
  \/ UNCHANGED handle
  \/ handle' = Refresh(c) /\ call[c].ans.code = "ok" /\ call[c].req \in Refreshing

\* Call c becomes t, and its answer is written where it belongs.
LEMMA AnswerKeeps ==
  ASSUME SandboxInv, OwnersInv, NEW c \in All, NEW t, call' = [call EXCEPT ![c] = t], Moves(c),
         UNCHANGED <<box, last, stopper, resume>>,
         UNCHANGED handle \/ (call[c].pc = "wire" /\ Received(c)),
         IdsInv => CallIds(c)'
  PROVE  Keeps
<1>1. SandboxTypes
  BY DEF SandboxInv
<1>2. UNCHANGED handle \/ \A h \in Handles :
           /\ IdsInv => SameIds(h)
           /\ handle'[h].made = handle[h].made /\ handle'[h].by = handle[h].by
           /\ ~handle[h].made => handle'[h].session = handle[h].session
  BY <1>1, RefreshIds DEF Received
<1> QED
  BY <1>1, <1>2, CallKeeps

\* Call c ends.
LEMMA DoneKeeps ==
  ASSUME SandboxInv, OwnersInv, NEW c \in All, NEW res, call' = [call EXCEPT ![c] = Done(res)],
         call[c].pc \notin Over \cup {"join"}, UNCHANGED <<box, last, stopper, resume>>,
         UNCHANGED handle \/ (call[c].pc = "wire" /\ Received(c))
  PROVE  Keeps
<1> DEFINE t == Done(res)
<1>1. last \in Nat /\ SandboxTypes
  BY DEF SandboxInv, SandboxTypes, ApiTypes
<1>2. DoneOf(t, res, last)
  BY <1>1, DoneFields
<1> HIDE DEF t
<1>3. call'[c] = t
  BY <1>1, OneCall DEF SandboxTypes, t
<1>4. call'[c].h = None /\ call'[c].kind = "none" /\ call'[c].pc = "done"
  BY <1>2, <1>3 DEF DoneOf
<1>5. Moves(c)
  BY <1>4 DEF Moves
<1>6. IdsInv => CallIds(c)'
  BY <1>1, <1>4, RestingIds, SdkSandboxAssumption DEF IdsInv
<1> QED
  BY <1>5, <1>6, AnswerKeeps DEF t

\* The operation of call c ends.
LEMMA AfterKeeps ==
  ASSUME SandboxInv, OwnersInv, NEW c \in All, NEW res, call' = [call EXCEPT ![c] = After(call[c], res)],
         call[c].pc \notin Over \cup {"join"}, call[c].h \in Handles,
         Untold(call[c]) \/ res \notin {"missing", "snapshotGone"},
         UNCHANGED <<box, last, stopper, resume>>,
         UNCHANGED handle \/ (call[c].pc = "wire" /\ Received(c))
  PROVE  Keeps
<1> DEFINE r == call[c]
           t == After(r, res)
<1>1. last \in Nat /\ SandboxTypes /\ Sound(r, last)
  BY CallKnown DEF SandboxInv, SandboxTypes, ApiTypes
<1>2. AfterOf(t, r, res, last)
  BY <1>1, AfterSound
<1>3. call'[c] = t
  BY <1>1, OneCall DEF SandboxTypes
<1> HIDE DEF t
<1>4. \/ call'[c].h = None /\ call'[c].kind = "none" /\ call'[c].pc = "done"
      \/ /\ r.kind \in Making /\ call'[c].pc = "send" /\ call'[c].req \in {"create", "drop"}
         /\ call'[c].h = r.h /\ call'[c].kind = r.kind /\ call'[c].id = 0
  BY <1>2, <1>3 DEF AfterOf, DoneOf, Tried, Making
<1>5. Moves(c)
  BY <1>4 DEF Moves, Over
<1>6. IdsInv => CallIds(c)'
  <2>1. CASE call'[c].h = None /\ call'[c].pc = "done"
    BY <1>1, <2>1, RestingIds, SdkSandboxAssumption DEF IdsInv
  <2>2. CASE call'[c].pc = "send" /\ call'[c].req \in {"create", "drop"} /\ call'[c].h = r.h
             /\ call'[c].id = 0
    <3>1. r.h \in Handles /\ (resume'[r.h].pc = "wire" => resume'[r.h].ans.id \in Nat)
      BY <1>1, ResumeIds
    <3> QED
      BY <2>2, <3>1 DEF CallIds, Refreshing
  <2> QED
    BY <1>4, <2>1, <2>2
<1> QED
  BY <1>5, <1>6, AnswerKeeps DEF t

LEMMA ReturnAnswerKeeps ==
  ASSUME SandboxInv, OwnersInv, NEW c \in All, ReturnAnswer(c)
  PROVE  Keeps
<1> DEFINE r == call[c]
           res == IF r.req = "read" /\ r.ans.code \in {"missing", "noFile"} THEN "null"
                                                                        ELSE r.ans.code
<1>1. /\ SandboxTypes /\ last \in Nat /\ DOMAIN call = All /\ Sound(r, last)
      /\ r.pc = "wire" /\ r.req \in Resumable /\ r.h \in Handles
  BY ReceivingCall DEF ReturnAnswer, Resumable
<1>2. /\ call' = [call EXCEPT ![c] = After(r, res)] /\ Received(c)
      /\ UNCHANGED <<box, last, stopper, resume>>
  BY <1>1 DEF ReturnAnswer, api, Received
<1>3. Untold(r) \/ res \notin {"missing", "snapshotGone"}
  BY <1>1 DEF Sound
<1> HIDE DEF res
<1> QED
  BY <1>1, <1>2, <1>3, AfterKeeps DEF Over

LEMMA EndingKeeps ==
  ASSUME SandboxInv, OwnersInv, NEW c \in All,
         \/ ReceiveStop(c) \/ ReceivePolicy(c) \/ ReceiveDelete(c) \/ ReceiveClone(c)
         \/ Reject(c)
  PROVE  Keeps
<1>1. CASE Reject(c)
  BY <1>1, DoneKeeps DEF Reject, api, Over
<1>2. CASE ReceiveDelete(c) \/ ReceiveClone(c)
  BY <1>2, DoneKeeps DEF ReceiveDelete, ReceiveClone, Receiving, api, Over
<1>3. CASE ReceiveStop(c) \/ ReceivePolicy(c)
  <2>1. DOMAIN call = All
    BY DEF SandboxInv, SandboxTypes, CallTypes
  <2>2. Received(c) /\ call[c].pc = "wire"
    BY <1>3 DEF ReceiveStop, ReceivePolicy, Received, Receiving, Refreshing
  <2>3. UNCHANGED <<box, last, stopper, resume>>
    BY <1>3 DEF ReceiveStop, ReceivePolicy, api
  <2>4. \E res : call' = [call EXCEPT ![c] = Done(res)]
    BY <1>3, <2>1 DEF ReceiveStop, ReceivePolicy
  <2> QED
    BY <2>2, <2>3, <2>4, DoneKeeps DEF Over
<1> QED
  BY <1>1, <1>2, <1>3


\* Call c goes on with the request q.
LEMMA AskKeeps ==
  ASSUME SandboxInv, OwnersInv, NEW c \in All, NEW q \in Asked, NEW s \in Sessions(last),
         call' = [call EXCEPT ![c] = Ask(call[c], q, s)], call[c].pc \in {"wire", "poll"},
         UNCHANGED <<box, last, stopper, handle, resume>>,
         q \in MakingReqs => call[c].kind \in Making,
         \/ /\ call[c].h \in Handles /\ q # "get"
            /\ s = None \/ s = handle[call[c].h].session
            /\ q \in Refreshing => s # None
         \/ call[c].h = None /\ q \in {"peek", "clone"}
  PROVE  Keeps
<1> DEFINE r == call[c]
           t == Ask(r, q, s)
<1>1. last \in Nat /\ SandboxTypes /\ r \in CallRecords(last)
  BY CallKnown DEF SandboxInv, SandboxTypes, ApiTypes
<1>2. AskedOf(t, r, q, s, last)
  BY <1>1, AskFields
<1>3. call'[c] = t
  BY <1>1, OneCall DEF SandboxTypes
<1> HIDE DEF t
<1>4. /\ call'[c].pc = "send" /\ call'[c].req = q /\ call'[c].h = r.h /\ call'[c].kind = r.kind
      /\ call'[c].id = IF s = None THEN 0 ELSE s.id
  BY <1>2, <1>3 DEF AskedOf, Kept
<1>5. Moves(c)
  BY <1>4 DEF Moves, Over
<1>6. ASSUME IdsInv PROVE CallIds(c)'
  <2>1. CASE r.h \in Handles /\ q # "get" /\ (s = None \/ s = handle[r.h].session)
             /\ (q \in Refreshing => s # None)
    BY <1>1, <1>4, <1>6, <2>1, AskNowIds
  <2>2. CASE r.h = None /\ q \in {"peek", "clone"}
    BY <1>4, <2>2, DetachedIds
  <2> QED
    BY <2>1, <2>2
<1> QED
  BY <1>5, <1>6, AnswerKeeps DEF t

LEMMA NextRequestKeeps ==
  ASSUME SandboxInv, OwnersInv, NEW c \in All, ReceivePatch(c) \/ ReceiveDrop(c) \/ ReceivePeek(c)
  PROVE  Keeps
<1> DEFINE r == call[c]
<1>1. /\ SandboxTypes /\ last \in Nat /\ DOMAIN call = All /\ Sound(r, last) /\ r.pc = "wire"
      /\ r \in CallRecords(last) /\ r.req \in {"patch", "drop", "peek"}
      /\ r.req # "peek" => r.h \in Handles
      /\ UNCHANGED <<box, last, stopper, handle, resume>>
  BY ReceivingCall DEF ReceivePatch, ReceiveDrop, ReceivePeek, api
<1>2. None \in Sessions(last) /\ {"policy", "create", "clone"} \subseteq Asked
  BY DEF Sessions, Asked, Served
<1>3. \/ \E res : call' = [call EXCEPT ![c] = Done(res)]
      \/ /\ r.req = "patch" /\ handle[r.h].session # None
         /\ call' = [call EXCEPT ![c] = Ask(r, "policy", handle[r.h].session)]
      \/ r.req = "drop" /\ call' = [call EXCEPT ![c] = Ask(r, "create", None)]
      \/ r.req = "peek" /\ call' = [call EXCEPT ![c] = Ask(r, "clone", None)]
  BY <1>1 DEF ReceivePatch, ReceiveDrop, ReceivePeek, Receiving
<1>4. r.req # "peek" => handle[r.h].session \in Sessions(last)
  BY <1>1 DEF SandboxTypes, HandleTypes, HandleRecords
<1>5. r.req = "drop" => r.kind \in Making
  BY <1>1 DEF OwnersInv, CallOwned, MakingReqs
<1> HIDE DEF r
<1>6. CASE \E res : call' = [call EXCEPT ![c] = Done(res)]
  BY <1>1, <1>6, DoneKeeps DEF Over, r
<1>7. CASE /\ r.req = "patch" /\ handle[r.h].session # None
           /\ call' = [call EXCEPT ![c] = Ask(r, "policy", handle[r.h].session)]
  <2>1. "policy" \notin MakingReqs /\ "policy" # "get"
    BY DEF MakingReqs
  <2> QED
    BY <1>1, <1>2, <1>4, <1>7, <2>1, AskKeeps DEF r
<1>8. CASE r.req = "drop" /\ call' = [call EXCEPT ![c] = Ask(r, "create", None)]
  <2>1. "create" \notin Refreshing
    BY DEF Refreshing
  <2> QED
    BY <1>1, <1>2, <1>5, <1>8, <2>1, AskKeeps DEF r
<1>9. CASE r.req = "peek" /\ call' = [call EXCEPT ![c] = Ask(r, "clone", None)]
  <2>1. "clone" \notin MakingReqs \cup Refreshing
    BY DEF MakingReqs, Refreshing
  <2>2. r.h \in Handles \cup {None}
    BY <1>1 DEF CallRecords
  <2> QED
    BY <1>1, <1>2, <1>9, <2>1, <2>2, AskKeeps DEF r
<1> QED
  BY <1>3, <1>6, <1>7, <1>8, <1>9

LEMMA PollKeeps ==
  ASSUME SandboxInv, OwnersInv, NEW c \in All, Poll(c)
  PROVE  Keeps
<1> DEFINE r == call[c]
<1>1. /\ SandboxTypes /\ Sound(r, last) /\ DOMAIN call = All /\ r.pc = "poll" /\ r.h \in Handles
  BY CallKnown DEF SandboxInv, SandboxTypes, CallTypes, Poll, Sound
<1>2. /\ call' = [call EXCEPT ![c] = Ask(r, "getSession", handle[r.h].session)]
      /\ UNCHANGED <<box, last, stopper, handle, resume>>
  BY <1>1 DEF Poll, api
<1>3. handle[r.h].session \in Sessions(last) /\ "getSession" \in Asked
      /\ "getSession" \notin MakingReqs \cup Refreshing
  BY <1>1 DEF SandboxTypes, HandleTypes, HandleRecords, Asked, Served, MakingReqs, Refreshing
<1> QED
  BY <1>1, <1>2, <1>3, AskKeeps

\* Call c waits for the session of its handle to stop, or for its resume.
LEMMA WaitKeeps ==
  ASSUME SandboxInv, OwnersInv, NEW c \in All, NEW t, call' = [call EXCEPT ![c] = t],
         call[c].h \in Handles, call[c].pc = "wire",
         t.h = call[c].h /\ t.kind = call[c].kind /\ t.id = call[c].id,
         \/ t.pc = "poll" /\ UNCHANGED resume
         \/ t.pc = "join" /\ resume' = ResumeBy(c, call[c].h),
         UNCHANGED <<box, last, stopper, handle>>
  PROVE  Keeps
<1> DEFINE h == call[c].h
<1>1. SandboxTypes
  BY DEF SandboxInv
<1>2. call'[c] = t
  BY <1>1, OneCall DEF SandboxTypes
<1>3. Moves(c)
  BY <1>2 DEF Moves, Over
<1>4. QuietResume(h)
  BY <1>1, <1>2, ResumeByQuiet, SameResumes
<1>5. IdsInv => CallIds(c)'
  BY <1>1, <1>2, <1>4, RestingIds DEF IdsInv
<1> QED
  BY <1>1, <1>3, <1>5, CallKeeps

LEMMA ResumeStoppedKeeps ==
  ASSUME SandboxInv, OwnersInv, NEW c \in All, ResumeStopped(c) \/ WaitForStop(c)
  PROVE  Keeps
<1> DEFINE r == [call[c] EXCEPT !.retried = TRUE]
           p == [call[c] EXCEPT !.pc = "poll", !.ans = None, !.retried = TRUE]
           j == Joined(r)
<1>1. /\ SandboxTypes /\ last \in Nat /\ DOMAIN call = All /\ call[c] \in CallRecords(last)
      /\ UNCHANGED <<box, last, stopper, handle>>
      /\ \/ call' = [call EXCEPT ![c] = p] /\ UNCHANGED resume
         \/ call' = [call EXCEPT ![c] = j] /\ resume' = ResumeBy(c, call[c].h)
  BY ReceivingCall DEF ResumeStopped, WaitForStop, api
<1>2. call[c].pc = "wire" /\ call[c].h \in Handles
  BY RetriedCall, ReceivingCall DEF ResumeStopped, WaitForStop
<1>3. r \in CallRecords(last) /\ r.h = call[c].h /\ r.kind = call[c].kind /\ r.id = call[c].id
  BY <1>1 DEF CallRecords
<1>4. p.pc = "poll" /\ p.h = call[c].h /\ p.kind = call[c].kind /\ p.id = call[c].id
  BY <1>1 DEF CallRecords
<1> HIDE DEF r, p
<1>5. j.pc = "join" /\ j.h = call[c].h /\ j.kind = call[c].kind /\ j.id = call[c].id
  BY <1>1, <1>3, JoinedFields DEF JoinedOf, Kept
<1> QED
  BY <1>1, <1>2, <1>4, <1>5, WaitKeeps


\* A static method has its answer: the handle gets its session, and the call
\* goes on or ends.
LEMMA MakeKeeps ==
  ASSUME SandboxInv, OwnersInv, NEW c \in All, call[c].pc = "wire", call[c].req \in {"get", "create"},
         NEW t, call' = [call EXCEPT ![c] = t], UNCHANGED <<box, last, stopper, resume>>,
         \/ UNCHANGED handle
         \/ /\ call[c].ans.code = "ok"
            /\ handle' = [handle EXCEPT ![call[c].h].session = Seen(call[c].ans)],
         \/ t.pc = "done" /\ t.h = None /\ t.kind = "none"
         \/ /\ t.pc = "send" /\ t.h = call[c].h /\ t.kind = call[c].kind
            /\ t.req \notin Refreshing \cup {"get"}
            /\ t.req \in MakingReqs => t.kind \in Making
  PROVE  Keeps
<1> DEFINE r == call[c]
           h == call[c].h
           s == Seen(call[c].ans)
<1>1. SandboxTypes /\ last \in Nat /\ r.ans \in Answers(last)
  BY CallKnown DEF SandboxInv
<1>2. h \in Handles /\ resume[h].pc = "none" /\ \A d \in All : d # c => call[d].h # h
  BY <1>1, MakerAlone DEF MakingReqs
<1>3. handle[h].made
  BY <1>1, <1>2, CalledMade
<1>4. s.id = r.ans.id /\ s # None
  BY <1>1, SeenSome
<1>5. call'[c] = t /\ \A d \in All : d # c => call'[d] = call[d]
  BY <1>1, OneCall DEF SandboxTypes
<1> HIDE DEF s, h
<1>6. /\ \A g \in Handles : /\ handle'[g].made = handle[g].made /\ handle'[g].by = handle[g].by
                            /\ g # h => handle'[g] = handle[g]
      /\ \/ handle'[h] = handle[h]
         \/ r.ans.code = "ok" /\ handle'[h].session = s
  BY <1>1, <1>2, SessionFields DEF s, h
<1>7. OwnersInv'
  <2>1. \A d \in All : Moves(d)
    BY <1>5 DEF Moves, Over, h
  <2>2. \A g \in Handles : HandleMoves(g)
    BY <1>3, <1>6 DEF HandleMoves
  <2> QED
    BY <1>1, <2>1, <2>2, OwnersStep
<1>8. ASSUME IdsInv PROVE IdsInv'
  <2>1. ApiIds'
    BY <1>8 DEF IdsInv, ApiIds
  <2>2. \A g \in Handles : g # h => SameIds(g) /\ QuietResume(g)
    BY <1>6 DEF SameIds, QuietResume
  <2>3. ASSUME NEW g \in Handles PROVE HandleIds(g)'
    <3>1. CASE g = h
      BY <1>2, <3>1 DEF HandleIds
    <3>2. CASE g # h
      BY <1>8, <2>2, <3>2, HandleIdsStay DEF IdsInv
    <3> QED
      BY <3>1, <3>2
  <2>4. ASSUME NEW d \in All, d # c PROVE CallIds(d)'
    BY <1>1, <1>2, <1>5, <1>8, <2>2, <2>4, CallIdsStay DEF IdsInv
  <2>5. CallIds(c)'
    BY <1>2, <1>5, SdkSandboxAssumption DEF CallIds, InFlight, h, Refreshing
  <2> QED
    BY <2>1, <2>3, <2>4, <2>5 DEF IdsInv
<1>9. ASSUME IdsInv, NEW g \in Handles PROVE ~Back(g)
  <2>1. \A f \in Handles : handle[f].session # None => handle[f].session.id \in Nat
    BY <1>1 DEF SandboxTypes, ApiTypes, HandleTypes, HandleRecords, Sessions
  <2>2. CASE handle'[g] = handle[g]
    BY <2>1, <2>2 DEF Back
  <2>3. CASE g = h /\ r.ans.code = "ok" /\ handle'[h].session = s
    <3>1. CallIds(c) /\ r.ans.id \in Nat
      BY <1>1, <1>9 DEF IdsInv, Answers
    <3>2. handle[h].session # None => handle[h].session.id <= r.ans.id
      BY <2>3, <3>1 DEF CallIds, h
    <3> QED
      BY <1>4, <2>1, <2>3, <3>1, <3>2 DEF Back
  <2> QED
    BY <1>6, <2>2, <2>3
<1> QED
  BY <1>7, <1>8, <1>9 DEF Keeps

LEMMA BeginFields ==
  ASSUME NEW n \in Nat, NEW r, Sound(r, n), r.h \in Handles, NEW o \in Resumable,
         NEW a \in Answers(n)
  PROVE  LET t == Begin(r, o, Seen(a)) IN
         t.pc = "send" /\ t.h = r.h /\ t.kind = r.kind /\ t.req = o /\ t.id = a.id
<1>1. Seen(a) \in Sessions(n) /\ Seen(a).id = a.id /\ Seen(a) # None
  BY SeenSome
<1> HIDE DEF Seen
<1> DEFINE t == Begin(r, o, Seen(a))
<1>2. BegunOf(t, r, o, Seen(a), n)
  BY <1>1, BeginSound
<1> HIDE DEF t
<1>3. t.pc = "send" /\ t.h = r.h /\ t.kind = r.kind /\ t.req = o /\ t.id = a.id
  BY <1>1, <1>2 DEF BegunOf
<1> QED
  BY <1>3 DEF t

LEMMA DoneSays ==
  ASSUME NEW res
  PROVE  Done(res).pc = "done" /\ Done(res).h = None /\ Done(res).kind = "none"
  BY DEF Done, Idle

LEMMA ReceiveGetKeeps ==
  ASSUME SandboxInv, OwnersInv, NEW c \in All, ReceiveGet(c)
  PROVE  Keeps
<1> DEFINE r == call[c]
           ans == call[c].ans
           hooked == ans.code = "ok" /\ handle[r.h].hook /\ ans.resumed
<1>1. /\ SandboxTypes /\ last \in Nat /\ DOMAIN call = All /\ Sound(r, last) /\ r.h \in Handles
      /\ r.pc = "wire" /\ r.req = "get" /\ ans \in Answers(last)
      /\ UNCHANGED <<box, last, stopper, resume>>
  BY ReceivingCall DEF ReceiveGet, api
<1>2. \/ UNCHANGED handle
      \/ ans.code = "ok" /\ handle' = [handle EXCEPT ![r.h].session = Seen(ans)]
  BY DEF ReceiveGet
<1>3. CASE hooked
  <2> DEFINE t == Begin(r, "use", Seen(ans))
  <2>1. call' = [call EXCEPT ![c] = t]
    BY <1>1, <1>3 DEF ReceiveGet
  <2>2. t.pc = "send" /\ t.h = r.h /\ t.kind = r.kind /\ t.req = "use"
    BY <1>1, BeginFields DEF Resumable
  <2> HIDE DEF t
  <2> QED
    BY <1>1, <1>2, <2>1, <2>2, MakeKeeps DEF Refreshing, MakingReqs
<1>4. CASE ~hooked
  <2> DEFINE t == After(r, ans.code)
  <2>1. call' = [call EXCEPT ![c] = t]
    BY <1>1, <1>4 DEF ReceiveGet
  <2>2. Untold(r)
    BY <1>1 DEF Sound
  <2>3. AfterOf(t, r, ans.code, last)
    BY <1>1, <2>2, AfterSound
  <2> HIDE DEF t
  <2>4. \/ t.pc = "done" /\ t.h = None /\ t.kind = "none"
        \/ /\ t.pc = "send" /\ t.h = r.h /\ t.kind = r.kind /\ t.req \notin Refreshing \cup {"get"}
           /\ t.kind \in Making
    BY <2>3 DEF AfterOf, DoneOf, Tried, Making, Refreshing
  <2> QED
    BY <1>1, <1>2, <2>1, <2>4, MakeKeeps
<1> QED
  BY <1>3, <1>4

LEMMA ReceiveCreateKeeps ==
  ASSUME SandboxInv, OwnersInv, NEW c \in All, ReceiveCreate(c)
  PROVE  Keeps
<1> DEFINE r == call[c]
           ans == call[c].ans
<1>1. /\ SandboxTypes /\ last \in Nat /\ DOMAIN call = All /\ Sound(r, last) /\ r.h \in Handles
      /\ r.pc = "wire" /\ r.req = "create" /\ ans \in Answers(last)
      /\ UNCHANGED <<box, last, stopper, resume>>
  BY ReceivingCall DEF ReceiveCreate, api
<1>2. \/ UNCHANGED handle
      \/ ans.code = "ok" /\ handle' = [handle EXCEPT ![r.h].session = Seen(ans)]
  BY DEF ReceiveCreate
<1>3. CASE call' = [call EXCEPT ![c] = Begin(r, "write", Seen(ans))]
  <2> DEFINE t == Begin(r, "write", Seen(ans))
  <2>1. t.pc = "send" /\ t.h = r.h /\ t.kind = r.kind /\ t.req = "write"
    BY <1>1, BeginFields DEF Resumable
  <2>2. call' = [call EXCEPT ![c] = t]
    BY <1>3
  <2> HIDE DEF t
  <2> QED
    BY <1>1, <1>2, <2>1, <2>2, MakeKeeps DEF Refreshing, MakingReqs
<1>4. CASE call' = [call EXCEPT ![c] = Done(ans.code)]
  <2> DEFINE t == Done(ans.code)
  <2>1. t.pc = "done" /\ t.h = None /\ t.kind = "none"
    BY DoneSays
  <2>2. call' = [call EXCEPT ![c] = t]
    BY <1>4
  <2> HIDE DEF t
  <2> QED
    BY <1>1, <1>2, <2>1, <2>2, MakeKeeps
<1> QED
  BY <1>1, <1>3, <1>4 DEF ReceiveCreate


\* The answer to call r on handle h is still to come, or to be read.
Awaits(r, h) == r.h = h /\ r.pc \in InFlight /\ r.req \in Refreshing

\* The handle h of call d has got a new session, and a new Session object.
LEMMA RenewedIds ==
  ASSUME SandboxTypes, NEW d \in All, NEW h \in Handles, call[d].h = h, CallIds(d),
         Awaits(call[d], h) => Outdated(call'[d], call[d], last),
         ~Awaits(call[d], h) => call'[d] = call[d],
         call[d].pc \in {"send", "wire"} => call[d].req \notin {"get", "create"},
         handle'[h].session # None, resume'[h].pc = "wire" => resume'[h] = resume[h],
         UNCHANGED stopper, box'.id = box.id
  PROVE  CallIds(d)'
<1>1. /\ call'[d].pc = call[d].pc /\ call'[d].ans = call[d].ans /\ call'[d].req = call[d].req
      /\ call'[d].id = call[d].id /\ call'[d].h = h
  BY DEF Outdated, Kept
<1>2. call[d].pc \in InFlight /\ call[d].req \in Refreshing => call'[d].obj = FALSE
  BY DEF Awaits, Outdated
<1> QED
  BY <1>1, <1>2 DEF CallIds, InFlight, Refreshing

\* A call that awaits a resume or the next poll of its handle.
WaitOf(t, r) == t.pc \in {"poll", "join"} /\ t.h = r.h /\ t.kind = r.kind /\ t.id = r.id

LEMMA WaitFields ==
  ASSUME NEW n \in Nat, NEW r \in CallRecords(n)
  PROVE  /\ WaitOf(Joined(r), r) /\ Joined(r).pc = "join"
         /\ WaitOf([r EXCEPT !.pc = "poll", !.ans = None], r)
         /\ Joined(r) \in CallRecords(n)
<1>1. WaitOf(Joined(r), r) /\ Joined(r).pc = "join" /\ Joined(r) \in CallRecords(n)
  <2> DEFINE t == Joined(r)
  <2>1. JoinedOf(t, r, n)
    BY JoinedFields
  <2> HIDE DEF t
  <2>2. WaitOf(t, r) /\ t.pc = "join" /\ t \in CallRecords(n)
    BY <2>1 DEF JoinedOf, Kept, WaitOf
  <2> QED
    BY <2>2 DEF t
<1>2. WaitOf([r EXCEPT !.pc = "poll", !.ans = None], r)
  BY DEF CallRecords, WaitOf
<1> QED
  BY <1>1, <1>2

LEMMA PollSays ==
  ASSUME NEW n \in Nat, NEW r, Sound(r, n), Untold(r), r.op # "none"
  PROVE  Sound([r EXCEPT !.pc = "poll", !.ans = None], n) /\ Sound(Joined(r), n)
<1> DEFINE u == [r EXCEPT !.pc = "poll", !.ans = None]
<1>1. u \in CallRecords(n) /\ u.pc = "poll" /\ u.h = r.h /\ u.op = r.op /\ u.req = r.req
      /\ Untold(u)
  BY DEF Sound, CallRecords, Phases, Untold
<1> HIDE DEF u
<1>2. Sound(u, n)
  BY <1>1 DEF Sound, InFlight
<1> QED
  BY <1>2, JoinedSound DEF u

LEMMA ForgottenCalls ==
  ASSUME NEW n \in Nat, NEW calls, \A c \in All : Sound(calls[c], n), NEW h
  PROVE  \A d \in All : /\ Awaits(calls[d], h) => Outdated(Forget(calls, h)[d], calls[d], n)
                        /\ ~Awaits(calls[d], h) => Forget(calls, h)[d] = calls[d]
<1> TAKE d \in All
<1>1. Forget(calls, h)[d] = IF Awaits(calls[d], h) THEN [calls[d] EXCEPT !.obj = FALSE] ELSE calls[d]
  BY DEF Forget, Awaits, InFlight
<1>2. ASSUME NEW r, Sound(r, n) PROVE Outdated([r EXCEPT !.obj = FALSE], r, n)
  BY <1>2 DEF Sound, CallRecords, Outdated, Kept
<1>3. Outdated([calls[d] EXCEPT !.obj = FALSE], calls[d], n)
  BY <1>2
<1> QED
  BY <1>1, <1>3

LEMMA ReceivePollKeeps ==
  ASSUME SandboxInv, OwnersInv, NEW c \in All, ReceivePoll(c)
  PROVE  OwnersInv' /\ (IdsInv /\ ~crossed' => IdsInv')
<1> DEFINE r == call[c]
           h == call[c].h
           s == Seen(call[c].ans)
<1>1. /\ SandboxTypes /\ last \in Nat /\ DOMAIN call = All /\ Sound(r, last)
      /\ r.pc = "wire" /\ r.req = "getSession" /\ h \in Handles /\ r.ans \in Answers(last)
      /\ r \in CallRecords(last) /\ UNCHANGED <<box, last, stopper, crossed>>
  BY ReceivingCall DEF ReceivePoll, api
<1>2. Untold(r) /\ r.op # "none"
  BY <1>1 DEF Sound, Tied
<1>3. CASE r.ans.code # "ok"
  <2> DEFINE res == r.ans.code
  <2>1. call' = [call EXCEPT ![c] = After(r, res)] /\ UNCHANGED <<handle, resume>>
    BY <1>1, <1>3 DEF ReceivePoll
  <2> HIDE DEF res
  <2>2. Keeps
    BY <1>1, <1>2, <2>1, AfterKeeps DEF Over
  <2> QED
    BY <2>2 DEF Keeps
<1>4. CASE r.ans.code = "ok"
  <2> DEFINE t == IF r.ans.stopping THEN [r EXCEPT !.pc = "poll", !.ans = None] ELSE Joined(r)
             calls == [call EXCEPT ![c] = t]
  <2>1. /\ handle' = [handle EXCEPT ![h].session = s]
        /\ call' = Forget(calls, h)
        /\ resume' = IF r.ans.stopping THEN resume ELSE ResumeBy(c, h)
    BY <1>1, <1>4 DEF ReceivePoll
  <2>2. /\ Sound(t, last) /\ t.pc \in {"poll", "join"} /\ t.h = h /\ t.kind = r.kind /\ t.id = r.id
        /\ ~r.ans.stopping => t.pc = "join"
    BY <1>1, <1>2, WaitFields, PollSays DEF WaitOf
  <2> HIDE DEF t
  <2>3. /\ DOMAIN calls = All /\ calls[c] = t /\ \A d \in All : d # c => calls[d] = call[d]
        /\ \A d \in All : Sound(calls[d], last)
    BY <1>1, <2>2 DEF SandboxTypes, CallTypes
  <2>4. s.id = r.ans.id /\ s # None
    BY <1>1, SeenSome
  <2>5. handle[h].made
    BY <1>1, CalledMade
  <2> HIDE DEF calls, h, s
  <2>6. /\ call'[c] = t
        /\ \A d \in All : d # c => /\ Awaits(call[d], h) => Outdated(call'[d], call[d], last)
                                   /\ ~Awaits(call[d], h) => call'[d] = call[d]
    <3>1. \A d \in All : /\ Awaits(calls[d], h) => Outdated(call'[d], calls[d], last)
                         /\ ~Awaits(calls[d], h) => call'[d] = calls[d]
      BY <1>1, <2>1, <2>3, ForgottenCalls
    <3> QED
      BY <2>2, <2>3, <3>1 DEF Awaits, InFlight
  <2>7. /\ handle'[h].session = s
        /\ \A g \in Handles : /\ handle'[g].made = handle[g].made /\ handle'[g].by = handle[g].by
                              /\ g # h => handle'[g] = handle[g]
    BY <1>1, <2>1, SessionFields
  <2>8. \A g \in Handles :
          /\ QuietResume(g)
          /\ \/ resume'[g].pc = "none"
             \/ resume[g].pc # "none"
             \/ resume'[g].pc = "send" /\ \E d \in All : call'[d].pc = "join" /\ call'[d].h = g
          /\ resume[g].pc = "hook" => resume'[g].pc = "hook" \/ call'[g].pc = "idle"
    <3>1. CASE r.ans.stopping
      BY <2>1, <3>1, SameResumes
    <3>2. CASE ~r.ans.stopping
      BY <1>1, <2>1, <2>2, <2>6, <3>2, ResumeByQuiet
    <3> QED
      BY <3>1, <3>2
  <2>9. OwnersInv'
    <3>1. \A d \in All : Moves(d)
      <4>1. Moves(c)
        BY <1>1, <2>2, <2>6 DEF Moves, Over, h
      <4>2. ASSUME NEW d \in All, d # c PROVE Moves(d)
        <5>1. CallOwned(d)
          BY DEF OwnersInv
        <5> QED
          BY <2>6, <4>2, <5>1
             DEF Awaits, CallOwned, Moves, Outdated, Kept, Over, InFlight, Refreshing, MakingReqs
      <4> QED
        BY <4>1, <4>2
    <3>2. \A g \in Handles : HandleMoves(g)
      BY <2>5, <2>7, <2>8 DEF HandleMoves
    <3> QED
      BY <1>1, <3>1, <3>2, OwnersStep
  <2>10. ASSUME IdsInv PROVE IdsInv'
    <3>1. ApiIds'
      BY <1>1, <2>10 DEF IdsInv, ApiIds
    <3>2. \A g \in Handles : g # h => SameIds(g)
      BY <2>7 DEF SameIds
    <3>3. CallIds(c) /\ r.ans.id = r.id
      BY <1>1, <1>4, <2>10 DEF IdsInv, CallIds
    <3>4. ASSUME NEW g \in Handles PROVE HandleIds(g)'
      <4>1. CASE g = h
        BY <2>4, <2>7, <2>8, <3>3, <4>1 DEF HandleIds, CallIds, QuietResume, h
      <4>2. CASE g # h
        BY <2>8, <2>10, <3>2, <4>2, HandleIdsStay DEF IdsInv
      <4> QED
        BY <4>1, <4>2
    <3>5. ASSUME NEW d \in All PROVE CallIds(d)'
      <4>1. CASE d = c
        BY <1>1, <2>2, <2>6, <2>8, <3>3, <4>1, RestingIds DEF h
      <4>2. CASE d # c /\ call[d].h # h
        BY <1>1, <2>6, <2>8, <2>10, <3>2, <4>2, CallIdsStay DEF IdsInv
      <4>3. CASE d # c /\ call[d].h = h
        <5>1. call[d].pc \in {"send", "wire"} => call[d].req \notin {"get", "create"}
          BY <1>1, <4>3, MakerAlone DEF MakingReqs, h
        <5>2. resume'[h].pc = "wire" => resume'[h] = resume[h]
          BY <1>1, <2>1, <2>4 DEF ResumeBy, SandboxTypes, ResumeTypes
        <5> QED
          BY <1>1, <2>4, <2>6, <2>7, <2>10, <4>3, <5>1, <5>2, RenewedIds DEF IdsInv
      <4> QED
        BY <4>1, <4>2, <4>3
    <3> QED
      BY <3>1, <3>4, <3>5 DEF IdsInv
  <2> QED
    BY <2>9, <2>10
<1> QED
  BY <1>3, <1>4


-----------------------------------------------------------------------------
(* New handles.                                                             *)

LEMMA Unmade ==
  ASSUME SandboxTypes, OwnersInv, NEW h \in Handles, ~handle[h].made
  PROVE  /\ handle[h].session = None /\ resume[h].pc = "none" /\ call[h].pc = "idle"
         /\ \A d \in All : call[d].h # h
<1>1. HandleOwned(h) /\ ~Held(h)
  BY DEF OwnersInv, Held
<1>2. \A d \in All : call[d].h # h
  BY CalledMade
<1> QED
  BY <1>1, <1>2 DEF HandleOwned

LEMMA MadeIds ==
  ASSUME SandboxTypes, OwnersInv, NEW h \in Handles, ~handle[h].made,
         \A g \in Handles : g # h => handle'[g] = handle[g],
         UNCHANGED <<box, last, stopper, resume>>,
         IdsInv => \A d \in All : call'[d] = call[d] \/ CallIds(d)'
  PROVE  /\ IdsInv => IdsInv'
         /\ \A g \in Handles : ~Back(g)
<1>1. handle[h].session = None /\ resume[h].pc = "none" /\ \A d \in All : call[d].h # h
  BY Unmade
<1>2. ASSUME IdsInv PROVE IdsInv'
  <2>1. ApiIds'
    BY <1>2 DEF IdsInv, ApiIds
  <2>2. \A g \in Handles : g # h => SameIds(g) /\ QuietResume(g)
    BY DEF SameIds, QuietResume
  <2>3. ASSUME NEW g \in Handles PROVE HandleIds(g)'
    <3>1. CASE g = h
      BY <1>1, <3>1 DEF HandleIds
    <3>2. CASE g # h
      BY <1>2, <2>2, <3>2, HandleIdsStay DEF IdsInv
    <3> QED
      BY <3>1, <3>2
  <2>4. ASSUME NEW d \in All, call'[d] = call[d] PROVE CallIds(d)'
    BY <1>1, <1>2, <2>2, <2>4, CallIdsStay DEF IdsInv
  <2> QED
    BY <1>2, <2>1, <2>3, <2>4 DEF IdsInv
<1>3. ASSUME NEW g \in Handles PROVE ~Back(g)
  <2>1. handle[g].session # None => handle[g].session.id \in Nat
    BY DEF SandboxTypes, ApiTypes, HandleTypes, HandleRecords, Sessions
  <2> QED
    BY <1>1, <2>1 DEF Back
<1> QED
  BY <1>2, <1>3

LEMMA StaticKeeps ==
  ASSUME SandboxInv, OwnersInv, NEW c \in Calls, NEW h \in Handles, NEW k \in Making,
         NEW q \in {"get", "create"}, Static(c, h, k, q)
  PROVE  Keeps
<1> DEFINE r == [Idle EXCEPT !.kind = k, !.h = h]
           t == Ask(r, q, None)
<1>1. PICK b \in BOOLEAN :
        /\ handle' = [handle EXCEPT ![h] = [NoHandle EXCEPT !.made = TRUE, !.by = c, !.hook = b]]
        /\ call' = [call EXCEPT ![c] = t]
  BY DEF Static
<1>2. /\ UNCHANGED <<box, last, stopper, resume>> /\ call[c].pc = "idle" /\ ~handle[h].made
      /\ c \in All /\ last \in Nat /\ None \in Sessions(last) /\ SandboxTypes
      /\ k \in Kinds /\ q \in Asked
  BY DEF Static, api, All, SandboxInv, SandboxTypes, ApiTypes, Sessions, Making, Kinds, Asked, Served
<1>3. AskedOf(t, r, q, None, last) /\ r.h = h /\ r.kind = k
  <2>1. r \in CallRecords(last) /\ r.h = h /\ r.kind = k
    <3>1. Sound(r, last) /\ r.h = h
      BY <1>2, FreshCall
    <3>2. r.kind = k
      BY FreshFields
    <3> QED
      BY <3>1, <3>2 DEF Sound
  <2> HIDE DEF r
  <2> QED
    BY <1>2, <2>1, AskFields
<1> HIDE DEF t, r
<1>4. /\ call'[c].pc = "send" /\ call'[c].req = q /\ call'[c].h = h /\ call'[c].kind = k
      /\ \A d \in All : d # c => call'[d] = call[d]
  BY <1>1, <1>2, <1>3, OneCall DEF AskedOf, Kept, SandboxTypes
<1>5. /\ handle'[h].made /\ handle'[h].by = c /\ handle'[h].session = None
      /\ \A g \in Handles : g # h => handle'[g] = handle[g]
  <2> DEFINE x == [NoHandle EXCEPT !.made = TRUE, !.by = c, !.hook = b]
  <2>1. x.made /\ x.by = c /\ x.session = None
    BY DEF NoHandle
  <2> HIDE DEF x
  <2>2. handle' = [handle EXCEPT ![h] = x]
    BY <1>1 DEF x
  <2> QED
    BY <1>2, <2>1, <2>2 DEF SandboxTypes, HandleTypes
<1>6. /\ resume[h].pc = "none" /\ call[h].pc = "idle" /\ \A d \in All : call[d].h # h
  BY <1>2, Unmade
<1>7. c # None /\ c \notin Handles /\ c # h /\ h \in All
  BY <1>2, OwnerTypes, SdkSandboxAssumption
<1>8. \A g \in Handles : handle[g].by # c
  <2>1. call[c].h = None
    BY <1>2 DEF OwnersInv, CallOwned, Over
  <2> QED
    BY <1>2, <1>7, <2>1, SdkSandboxAssumption DEF OwnersInv, HandleOwned
<1>9. \A g \in Handles : handle[g].by = None \/ (handle[g].by \in All /\ handle[g].by # c)
  BY <1>2, <1>8, OwnerTypes
<1>10. ASSUME NEW g \in Handles, g # h
       PROVE  Held(g)' <=> Held(g)
  BY <1>4, <1>5, <1>9, <1>10 DEF Held
<1>11. OwnersInv'
  <2>1. ASSUME NEW g \in Handles PROVE HandleOwned(g)'
    <3>1. CASE g = h
      BY <1>2, <1>4, <1>5, <1>6, <1>7, <3>1 DEF HandleOwned
    <3>2. CASE g # h
      <4>1. HandleOwned(g) /\ handle'[g] = handle[g] /\ g # c
        BY <1>5, <1>7, <3>2 DEF OwnersInv
      <4>2. call'[g] = call[g]
        BY <1>4, <4>1 DEF All
      <4> QED
        BY <1>2, <1>4, <1>9, <1>10, <3>2, <4>1, <4>2 DEF HandleOwned
    <3> QED
      BY <3>1, <3>2
  <2>2. ASSUME NEW d \in All PROVE CallOwned(d)'
    <3>1. CASE d = c
      BY <1>4, <1>5, <1>7, <3>1 DEF CallOwned, Over
    <3>2. CASE d # c
      <4>1. CallOwned(d) /\ call'[d] = call[d] /\ call[d].h # h
        BY <1>4, <1>6, <3>2 DEF OwnersInv
      <4> QED
        BY <1>5, <1>10, <4>1 DEF CallOwned
    <3> QED
      BY <3>1, <3>2
  <2> QED
    BY <2>1, <2>2 DEF OwnersInv
<1>12. CallIds(c)'
  BY <1>2, <1>4, <1>5, <1>6 DEF CallIds, Refreshing
<1>13. (IdsInv => IdsInv') /\ \A g \in Handles : ~Back(g)
  BY <1>2, <1>4, <1>5, <1>12, MadeIds
<1> QED
  BY <1>11, <1>13 DEF Keeps

LEMMA DeserializeKeeps ==
  ASSUME SandboxInv, OwnersInv, NEW f \in Handles, NEW h \in Handles, Deserialize(f, h)
  PROVE  Keeps
<1>1. /\ handle' = [handle EXCEPT ![h] = [NoHandle EXCEPT !.made = TRUE, !.session = handle[f].session]]
      /\ UNCHANGED <<box, last, stopper, resume, call>> /\ ~handle[h].made /\ SandboxTypes
  BY DEF Deserialize, api, SandboxInv
<1>2. /\ handle'[h].made /\ handle'[h].by = None
      /\ \A g \in Handles : g # h => handle'[g] = handle[g]
  <2> DEFINE x == [NoHandle EXCEPT !.made = TRUE, !.session = handle[f].session]
  <2>1. x.made /\ x.by = None
    BY DEF NoHandle
  <2> HIDE DEF x
  <2>2. handle' = [handle EXCEPT ![h] = x]
    BY <1>1 DEF x
  <2> QED
    BY <1>1, <2>1, <2>2 DEF SandboxTypes, HandleTypes
<1>3. /\ resume[h].pc = "none" /\ call[h].pc = "idle" /\ \A d \in All : call[d].h # h
  BY <1>1, Unmade
<1>4. ASSUME NEW g \in Handles, g # h PROVE Held(g)' <=> Held(g)
  BY <1>1, <1>2, <1>4 DEF Held
<1>5. OwnersInv'
  <2>1. ASSUME NEW g \in Handles PROVE HandleOwned(g)'
    <3>1. CASE g = h
      BY <1>1, <1>2, <1>3, <3>1 DEF HandleOwned
    <3>2. CASE g # h
      <4>1. HandleOwned(g) /\ handle'[g] = handle[g]
        BY <1>2, <3>2 DEF OwnersInv
      <4> QED
        BY <1>1, <1>4, <3>2, <4>1 DEF HandleOwned
    <3> QED
      BY <3>1, <3>2
  <2>2. ASSUME NEW d \in All PROVE CallOwned(d)'
    <3>1. CallOwned(d) /\ call[d].h # h
      BY <1>3 DEF OwnersInv
    <3> QED
      BY <1>1, <1>2, <1>4, <3>1 DEF CallOwned
  <2> QED
    BY <2>1, <2>2 DEF OwnersInv
<1>6. (IdsInv => IdsInv') /\ \A g \in Handles : ~Back(g)
  BY <1>1, <1>2, MadeIds
<1> QED
  BY <1>5, <1>6 DEF Keeps

\* Nothing that handles or calls hold changes.
LEMMA StillKeeps ==
  ASSUME SandboxInv, OwnersInv, UNCHANGED <<box, last, stopper, handle, resume, call>>
  PROVE  Keeps
<1>1. SandboxTypes
  BY DEF SandboxInv
<1>2. \A d \in All : Moves(d)
  BY DEF Moves
<1>3. \A h \in Handles : HandleMoves(h)
  BY SameHandles, SameResumes DEF HandleMoves
<1>4. QuietIds
  BY SameHandles, SameResumes DEF QuietIds
<1> QED
  BY <1>1, <1>2, <1>3, <1>4, QuietKeeps

LEMMA StartKeeps ==
  ASSUME SandboxInv, OwnersInv, NEW c \in Calls, Start(c)
  PROVE  Keeps
<1> USE DEF Kinds, Resumable, Asked, Served, Making, MakingReqs
<1>1. CASE \E h \in Handles :
             \/ RunCommand(c, h) \/ GetCommand(c, h) \/ MkDir(c, h) \/ OpenInteractive(c, h)
             \/ ReadFile(c, h) \/ ReadFileToBuffer(c, h) \/ DownloadFile(c, h) \/ WriteFiles(c, h)
             \/ UpdateNetworkPolicy(c, h) \/ ExtendTimeout(c, h) \/ TakeSnapshot(c, h)
  BY <1>1, WithResumeKeeps
     DEF RunCommand, GetCommand, MkDir, OpenInteractive, ReadFile, ReadFileToBuffer, DownloadFile,
         WriteFiles, UpdateNetworkPolicy, ExtendTimeout, TakeSnapshot
<1>2. CASE \E h \in Handles : Stop(c, h) \/ Update(c, h) \/ Delete(c, h)
  BY <1>2, DirectKeeps DEF Stop, Update, Delete, Refreshing
<1>3. CASE \E h \in Handles : Create(c, h) \/ Get(c, h) \/ GetOrCreate(c, h)
  BY <1>3, StaticKeeps DEF Create, Get, GetOrCreate
<1>4. CASE Fork(c)
  BY <1>4, ForkKeeps
<1>5. CASE Abort(c)
  BY <1>5, StillKeeps DEF Abort, api
<1> QED
  BY <1>1, <1>2, <1>3, <1>4, <1>5 DEF Start


-----------------------------------------------------------------------------
(* The API answers.                                                         *)

\* A session that is being stopped stays the session of its record.
LEMMA OutcomeStops ==
  ASSUME ApiTypes, NEW req \in Served \ {"delete", "drop"}, NEW id, NEW o \in Outcomes(req, id),
         box.st = "stopping"
  PROVE  o.box.st = "stopping" /\ o.box.id = box.id
<1>1. \A codes : o \in Keep(codes) => o.box = box
  BY DEF Keep
<1>2. \A b, a : o = [box |-> b, ans |-> a] => o.box = b
  OBVIOUS
<1>3. box \in Boxes(last)
  BY DEF ApiTypes
<1>4. CASE req \in {"use", "read", "write", "session", "policy", "interactive"}
  <2>1. o \in UseSession(req, id)
    BY <1>4 DEF Outcomes
  <2>2. CASE req = "write" /\ Refusals(id) = {}
    <3> DEFINE b == [box EXCEPT !.file = TRUE]
    <3>1. b.st = box.st /\ b.id = box.id
      BY <1>3 DEF Boxes
    <3>2. o = [box |-> b, ans |-> Shows(box, FALSE)] \/ o = [box |-> b, ans |-> Says("failed")]
      BY <2>1, <2>2 DEF UseSession
    <3> HIDE DEF b
    <3>3. o.box = b
      BY <1>2, <3>2
    <3> QED
      BY <3>1, <3>3
  <2>3. CASE req # "write" /\ Refusals(id) = {}
    <3>1. o.box = box
      BY <1>1, <1>2, <1>4, <2>1, <2>3 DEF UseSession
    <3> QED
      BY <3>1
  <2>4. CASE Refusals(id) # {}
    <3>1. o.box = box
      BY <1>1, <2>1, <2>4 DEF UseSession
    <3> QED
      BY <3>1
  <2> QED
    BY <2>2, <2>3, <2>4
<1>5. CASE req \in {"getSession", "get", "peek", "create", "patch", "clone"}
  <2>1. o.box = box
    <3>1. CASE req = "getSession"
      BY <1>1, <1>2, <3>1 DEF Outcomes
    <3>2. CASE req \in {"get", "peek"}
      BY <1>1, <1>2, <3>2 DEF Outcomes, GetSandbox
    <3>3. CASE req = "create"
      BY <1>1, <3>3 DEF Outcomes, CreateSandbox
    <3>4. CASE req = "patch"
      BY <1>1, <1>2, <3>4 DEF Outcomes
    <3>5. CASE req = "clone"
      BY <1>1, <3>5 DEF Outcomes
    <3> QED
      BY <1>5, <3>1, <3>2, <3>3, <3>4, <3>5
  <2> QED
    BY <2>1
<1> QED
  BY <1>4, <1>5 DEF Served

\* What an answer does to the record: a stop under way is not disturbed, and
\* a get or create that succeeds shows the last session.
LEMMA ServedIds ==
  ASSUME SandboxTypes, ApiIds, NEW req \in Served, NEW id, NEW o \in Outcomes(req, id),
         req \in {"delete", "drop"} => stopper = None,
         box' = o.box, last' = IF o.box.id > last THEN o.box.id ELSE last, UNCHANGED stopper
  PROVE  /\ ApiIds'
         /\ stopper # None => box'.id = box.id
         /\ req \in {"get", "create"} /\ o.ans.code = "ok" => last <= o.ans.id /\ o.ans.id \in Nat
         /\ req \in {"session", "policy", "getSession"} /\ o.ans.code = "ok" => o.ans.id = id
<1>1. ApiTypes /\ last \in Nat /\ box \in Boxes(last)
  BY DEF SandboxTypes, ApiTypes
<1>2. NewSession(o, req) \/ OldSession(o, req, id)
  BY <1>1, OutcomeTypes
<1>3. stopper # None => box'.st = "stopping" /\ box'.id = box.id
  <2>1. stopper # None => box.st = "stopping" /\ req \notin {"delete", "drop"}
    BY DEF ApiIds
  <2> QED
    BY <1>1, <2>1, OutcomeStops
<1>4. CASE NewSession(o, req)
  <2>1. /\ o.box.id = last + 1 /\ o.ans.id = last + 1 /\ o.box.st = "running"
        /\ req \in {"get", "create"}
    BY <1>4 DEF NewSession
  <2>2. last' = last + 1
    BY <1>1, <2>1
  <2> QED
    BY <1>1, <1>3, <2>1, <2>2 DEF ApiIds
<1>5. CASE OldSession(o, req, id)
  <2>1. o.box.id \in 0..last
    BY <1>5 DEF OldSession, Boxes
  <2>2. last' = last
    BY <1>1, <2>1
  <2>3. o.box.st # "none" => o.box.id = last
    BY <1>5 DEF OldSession, ApiIds
  <2>4. req \in {"get", "create"} /\ o.ans.code = "ok" => o.ans.id = last
    BY <1>5 DEF OldSession, ApiIds
  <2>5. req \in {"session", "policy", "getSession"} /\ o.ans.code = "ok" => o.ans.id = id
    BY <1>5 DEF OldSession
  <2> QED
    BY <1>1, <1>3, <2>2, <2>3, <2>4, <2>5 DEF ApiIds
<1> QED
  BY <1>2, <1>4, <1>5

LEMMA ServeKeeps ==
  ASSUME SandboxInv, OwnersInv, NEW c \in All, Serve(c)
  PROVE  Keeps
<1> DEFINE r == call[c]
<1>1. /\ SandboxTypes /\ ApiTypes /\ last \in Nat /\ Sound(r, last) /\ DOMAIN call = All
      /\ UNCHANGED <<stopper, crossed, handle, resume>>
      /\ r.pc = "send" /\ r.req \in Served
      /\ r.req \in {"delete", "drop"} => stopper = None
  BY CallKnown DEF Serve, SandboxInv, SandboxTypes, ApiTypes, CallTypes, Sound, CallRecords, Asked, InFlight
<1>2. PICK o \in Outcomes(r.req, r.id) :
        /\ box' = o.box
        /\ last' = IF o.box.id > last THEN o.box.id ELSE last
        /\ call' = [call EXCEPT ![c].pc = "wire", ![c].ans = o.ans,
                                ![c].effects = IF HasEffect(r.req, o.ans.code) THEN @ + 1 ELSE @]
  BY DEF Serve
<1>3. /\ \A d \in All : d # c => call'[d] = call[d]
      /\ call'[c].pc = "wire" /\ call'[c].ans = o.ans
      /\ call'[c].kind = r.kind /\ call'[c].h = r.h /\ call'[c].req = r.req /\ call'[c].id = r.id
      /\ call'[c].obj = r.obj
  <2> DEFINE e == IF HasEffect(r.req, o.ans.code) THEN r.effects + 1 ELSE r.effects
             t == [r EXCEPT !.pc = "wire", !.ans = o.ans, !.effects = e]
  <2>1. call' = [call EXCEPT ![c] = t]
    BY <1>1, <1>2
  <2>2. r \in CallRecords(last)
    BY <1>1 DEF Sound
  <2> HIDE DEF e, r
  <2>3. /\ t.pc = "wire" /\ t.ans = o.ans
        /\ t.kind = r.kind /\ t.h = r.h /\ t.req = r.req /\ t.id = r.id /\ t.obj = r.obj
    BY <2>2 DEF CallRecords
  <2> HIDE DEF t
  <2> QED
    BY <1>1, <2>1, <2>3
<1>4. OwnersInv'
  <2>1. \A d \in All : Moves(d)
    BY <1>1, <1>3 DEF Moves, Over, OwnersInv, CallOwned
  <2>2. \A h \in Handles : HandleMoves(h)
    BY <1>1, SameHandles, SameResumes DEF HandleMoves
  <2> QED
    BY <1>1, <2>1, <2>2, OwnersStep
<1>5. ASSUME IdsInv PROVE IdsInv'
  <2>1. /\ ApiIds'
        /\ stopper # None => box'.id = box.id
        /\ r.req \in {"get", "create"} /\ o.ans.code = "ok" => last <= o.ans.id /\ o.ans.id \in Nat
        /\ r.req \in {"session", "policy", "getSession"} /\ o.ans.code = "ok" => o.ans.id = r.id
    BY <1>1, <1>2, <1>5, ServedIds DEF IdsInv
  <2>2. \A h \in Handles : SameIds(h) /\ QuietResume(h)
    BY <1>1, SameHandles, SameResumes
  <2>3. \A h \in Handles : HandleIds(h)'
    BY <1>5, <2>2, HandleIdsStay DEF IdsInv
  <2>4. ASSUME NEW d \in All, d # c PROVE CallIds(d)'
    <3>1. call[d].pc = "stopping" => stopper # None
      BY <1>5, SdkSandboxAssumption DEF IdsInv, CallIds, All
    <3> QED
      BY <1>1, <1>3, <1>5, <2>1, <2>2, <2>4, <3>1, CallIdsStay DEF IdsInv
  <2>5. CallIds(c)'
    <3>1. CallIds(c)
      BY <1>5 DEF IdsInv
    <3>2. r.req = "create" /\ o.ans.code = "ok" /\ r.h \in Handles /\ handle[r.h].session # None
            => handle[r.h].session.id <= o.ans.id
      <4>1. r.h \in Handles /\ handle[r.h].session # None => handle[r.h].session.id \in 0..last
        BY <1>1 DEF SandboxTypes, HandleTypes, HandleRecords, Sessions
      <4> QED
        BY <1>1, <2>1, <4>1
    <3>3. r.req = "create" => r.h \in Handles
      BY <1>1 DEF Sound
    <3>4. r.req \notin {"stop", "snapshot"}
      BY <1>1 DEF Served
    <3> QED
      BY <1>1, <1>3, <2>1, <3>1, <3>2, <3>3, <3>4 DEF CallIds, InFlight, Refreshing
  <2> QED
    BY <2>1, <2>3, <2>4, <2>5 DEF IdsInv
<1>6. \A h \in Handles : ~Back(h)
  BY <1>1, SameHandles, SameIdsForward
<1> QED
  BY <1>4, <1>5, <1>6 DEF Keeps


LEMMA ServeStopKeeps ==
  ASSUME SandboxInv, OwnersInv, NEW c \in All, ServeStop(c)
  PROVE  Keeps
<1> DEFINE r == call[c]
           q == [r EXCEPT !.pc = "queued"]
           w == [r EXCEPT !.pc = "wire", !.ans = Says("missing")]
           t == call'[c]
<1>1. /\ SandboxTypes /\ r \in CallRecords(last) /\ r.pc = "send" /\ r.req \in {"stop", "snapshot"}
      /\ DOMAIN call = All /\ UNCHANGED <<box, last, stopper, handle, resume>>
  BY CallKnown DEF SandboxInv, SandboxTypes, CallTypes, ServeStop, api
<1>2. call' = [call EXCEPT ![c] = q] \/ call' = [call EXCEPT ![c] = w]
  BY <1>1 DEF ServeStop
<1>3. /\ q.pc = "queued" /\ q.kind = r.kind /\ q.h = r.h /\ q.req = r.req /\ q.id = r.id
      /\ q.obj = r.obj
  BY <1>1 DEF CallRecords
<1>4. /\ w.pc = "wire" /\ w.kind = r.kind /\ w.h = r.h /\ w.req = r.req /\ w.id = r.id
      /\ w.obj = r.obj /\ w.ans.code # "ok"
  BY <1>1 DEF CallRecords, Says
<1> HIDE DEF q, w
<1>5. /\ t.pc \in {"queued", "wire"} /\ t.kind = r.kind /\ t.h = r.h /\ t.req = r.req
      /\ t.id = r.id /\ t.obj = r.obj /\ (t.pc = "wire" => t.ans.code # "ok")
      /\ call' = [call EXCEPT ![c] = t]
  BY <1>1, <1>2, <1>3, <1>4
<1>6. Moves(c)
  BY <1>1, <1>5 DEF Moves, Over, MakingReqs
<1>7. ASSUME IdsInv PROVE CallIds(c)'
  <2>1. CallIds(c)
    BY <1>7 DEF IdsInv
  <2> QED
    BY <1>1, <1>5, <2>1 DEF CallIds, InFlight
<1> HIDE DEF t
<1> QED
  BY <1>1, <1>5, <1>6, <1>7, CallKeeps

LEMMA BeginStopKeeps ==
  ASSUME SandboxInv, OwnersInv, NEW c \in All, BeginStop(c)
  PROVE  Keeps
<1> DEFINE r == call[c]
           p == [r EXCEPT !.pc = "stopping"]
           a == IF r.req = "stop" THEN Shows(box, FALSE) ELSE Says("invalid")
           w == [r EXCEPT !.pc = "wire", !.ans = a]
<1>1. /\ SandboxTypes /\ r \in CallRecords(last) /\ r.pc = "queued" /\ DOMAIN call = All
      /\ stopper = None /\ box \in Boxes(last) /\ UNCHANGED <<last, handle, resume>>
      /\ crossed' = (crossed \/ box.id # r.id) /\ r.req \in Asked \cup {"none"}
  BY CallKnown DEF SandboxInv, SandboxTypes, ApiTypes, CallTypes, BeginStop, CallRecords
<1>2. /\ p.pc = "stopping" /\ p.kind = r.kind /\ p.h = r.h /\ p.req = r.req /\ p.id = r.id
      /\ p.obj = r.obj
  BY <1>1 DEF CallRecords
<1>3. /\ w.pc = "wire" /\ w.kind = r.kind /\ w.h = r.h /\ w.req = r.req /\ w.id = r.id
      /\ w.obj = r.obj /\ w.ans = a
  BY <1>1 DEF CallRecords
<1>4. a.code = "ok" => r.req = "stop" /\ a.id = box.id
  BY DEF Shows, Says
<1> HIDE DEF p, w, a
<1>5. /\ \A d \in All : d # c => call'[d] = call[d]
      /\ \/ /\ call'[c] = p /\ box.st = "running" /\ stopper' = c
            /\ box' = [box EXCEPT !.st = "stopping"]
         \/ call'[c] = w /\ UNCHANGED <<box, stopper>>
  BY <1>1 DEF BeginStop, p, w, a
<1>6. /\ box'.id = box.id /\ (box'.st # "none" => box.st # "none")
      /\ stopper' # None => box'.st = "stopping"
  BY <1>1, <1>5 DEF Boxes
<1>7. /\ call'[c].pc \in {"stopping", "wire"} /\ call'[c].kind = r.kind /\ call'[c].h = r.h
      /\ call'[c].req = r.req /\ call'[c].id = r.id /\ call'[c].obj = r.obj
  BY <1>2, <1>3, <1>5
<1>8. r.req \in {"stop", "snapshot"}
  BY <1>1 DEF OwnersInv, CallOwned
<1>9. OwnersInv'
  <2>1. Moves(c)
    BY <1>1, <1>7, <1>8 DEF Moves, Over, MakingReqs
  <2>2. \A d \in All : Moves(d)
    BY <1>5, <2>1 DEF Moves
  <2>3. \A h \in Handles : HandleMoves(h)
    BY <1>1, SameHandles, SameResumes DEF HandleMoves
  <2> QED
    BY <1>1, <2>2, <2>3, OwnersStep
<1>10. ASSUME IdsInv, ~crossed' PROVE IdsInv'
  <2>1. box.id = r.id
    BY <1>1, <1>10
  <2>2. ApiIds'
    BY <1>1, <1>6, <1>10 DEF IdsInv, ApiIds
  <2>3. \A h \in Handles : SameIds(h) /\ QuietResume(h)
    BY <1>1, SameHandles, SameResumes
  <2>4. \A h \in Handles : HandleIds(h)'
    BY <1>10, <2>3, HandleIdsStay DEF IdsInv
  <2>5. ASSUME NEW d \in All, d # c PROVE CallIds(d)'
    <3>1. call[d].pc # "stopping"
      BY <1>1, <1>10, OwnerTypes DEF IdsInv, CallIds
    <3> QED
      BY <1>1, <1>5, <1>10, <2>3, <2>5, <3>1, CallIdsStay DEF IdsInv
  <2>6. CallIds(c)'
    <3>1. CallIds(c)
      BY <1>10 DEF IdsInv
    <3> QED
      BY <1>1, <1>2, <1>3, <1>4, <1>5, <1>6, <1>7, <1>8, <2>1, <3>1 DEF CallIds, InFlight
  <2> QED
    BY <2>2, <2>4, <2>5, <2>6 DEF IdsInv
<1>11. \A h \in Handles : ~Back(h)
  BY <1>1, SameHandles, SameIdsForward
<1> QED
  BY <1>9, <1>10, <1>11 DEF Keeps


\* The record of the sandbox changes, but not its session.
LEMMA ApiKeeps ==
  ASSUME SandboxInv, OwnersInv, \A d \in All : Moves(d), UNCHANGED <<last, handle, resume>>,
         box'.id = box.id, IdsInv => ApiIds',
         IdsInv => \A d \in All :
           \/ CallIds(d)'
           \/ call'[d] = call[d] /\ (call[d].pc = "stopping" => stopper' = stopper)
  PROVE  Keeps
<1>1. SandboxTypes
  BY DEF SandboxInv
<1>2. \A h \in Handles : SameIds(h) /\ QuietResume(h) /\ HandleMoves(h)
  BY SameHandles, SameResumes DEF HandleMoves
<1>3. OwnersInv'
  BY <1>1, <1>2, OwnersStep
<1>4. ASSUME IdsInv PROVE IdsInv'
  <2>1. \A h \in Handles : HandleIds(h)'
    BY <1>2, <1>4, HandleIdsStay DEF IdsInv
  <2>2. \A d \in All : CallIds(d)'
    BY <1>1, <1>2, <1>4, CallIdsStay DEF IdsInv
  <2> QED
    BY <1>4, <2>1, <2>2 DEF IdsInv
<1>5. \A h \in Handles : ~Back(h)
  BY <1>1, <1>2, SameIdsForward
<1> QED
  BY <1>3, <1>4, <1>5 DEF Keeps

LEMMA OtherStopKeeps ==
  ASSUME SandboxInv, OwnersInv, OtherStop \/ Expire
  PROVE  Keeps
<1>1. /\ SandboxTypes /\ box \in Boxes(last) /\ UNCHANGED <<last, handle, resume, call>>
      /\ \/ stopper = None /\ stopper' # None /\ box' = [box EXCEPT !.st = "stopping"]
            /\ box.st = "running"
         \/ UNCHANGED stopper /\ box' = [box EXCEPT !.snap = FALSE]
  BY SdkSandboxAssumption DEF OtherStop, Expire, SandboxInv, SandboxTypes, ApiTypes
<1>2. \A d \in All : Moves(d)
  BY <1>1 DEF Moves
<1>3. /\ box'.id = box.id /\ (box'.st = box.st \/ (box.st = "running" /\ box'.st = "stopping"))
      /\ stopper' # None => (stopper = None /\ box'.st = "stopping")
                            \/ (stopper = stopper' /\ box'.st = box.st)
  BY <1>1 DEF Boxes
<1>4. ASSUME IdsInv PROVE ApiIds'
  BY <1>1, <1>3, <1>4 DEF IdsInv, ApiIds
<1>5. ASSUME IdsInv, NEW d \in All, call[d].pc = "stopping" PROVE stopper' = stopper
  <2>1. stopper = d /\ d # None
    BY <1>1, <1>5, OwnerTypes DEF IdsInv, CallIds
  <2> QED
    BY <1>1, <2>1
<1> QED
  BY <1>1, <1>2, <1>3, <1>4, <1>5, ApiKeeps

LEMMA EndStopKeeps ==
  ASSUME SandboxInv, OwnersInv, EndStop
  PROVE  Keeps
<1> DEFINE c == stopper
           r == call[stopper]
<1>1. /\ SandboxTypes /\ box \in Boxes(last) /\ DOMAIN call = All /\ stopper # None
      /\ stopper' = None /\ UNCHANGED <<last, handle, resume>>
  BY DEF EndStop, SandboxInv, SandboxTypes, ApiTypes, CallTypes
<1>2. PICK ok \in BOOLEAN :
        /\ box' = IF ok THEN [box EXCEPT !.st = "stopped", !.snap = TRUE] ELSE box
        /\ call' = IF c \in All /\ r.pc = "stopping"
                   THEN [call EXCEPT ![c].pc = "wire",
                           ![c].ans = IF ok THEN Shows(box', FALSE) ELSE Says("failed")]
                   ELSE call
  BY DEF EndStop
<1>3. box'.id = box.id
  BY <1>1, <1>2 DEF Boxes
<1>4. IdsInv => ApiIds'
  BY <1>1, <1>3 DEF IdsInv, ApiIds
<1>5. CASE ~(c \in All /\ r.pc = "stopping")
  <2>1. call' = call
    BY <1>2, <1>5
  <2>2. \A d \in All : Moves(d)
    BY <2>1 DEF Moves
  <2>3. IdsInv => \A d \in All : call[d].pc # "stopping"
    BY <1>5 DEF IdsInv, CallIds
  <2> QED
    BY <1>1, <1>3, <1>4, <2>1, <2>2, <2>3, ApiKeeps
<1>6. CASE c \in All /\ r.pc = "stopping"
  <2> DEFINE a == IF ok THEN Shows(box', FALSE) ELSE Says("failed")
             t == [r EXCEPT !.pc = "wire", !.ans = a]
  <2>1. r \in CallRecords(last) /\ r.req \in {"stop", "snapshot"}
    BY <1>1, <1>6, CallKnown DEF OwnersInv, CallOwned
  <2>2. a.code = "ok" => a.id = box.id
    BY <1>3 DEF Shows, Says
  <2>3. call' = [call EXCEPT ![c] = t]
    BY <1>1, <1>2, <1>6
  <2> HIDE DEF a, r, c
  <2>4. /\ t.pc = "wire" /\ t.ans = a /\ t.h = r.h /\ t.kind = r.kind /\ t.req = r.req
        /\ t.id = r.id /\ t.obj = r.obj
    BY <2>1 DEF CallRecords
  <2> HIDE DEF t
  <2>5. call'[c] = t /\ \A d \in All : d # c => call'[d] = call[d]
    BY <1>1, <1>6, <2>3
  <2>6. \A d \in All : Moves(d)
    BY <1>6, <2>1, <2>4, <2>5 DEF Moves, Over, MakingReqs, r, c
  <2>7. ASSUME IdsInv, NEW d \in All
        PROVE  \/ CallIds(d)'
               \/ call'[d] = call[d] /\ (call[d].pc = "stopping" => stopper' = stopper)
    <3>1. CASE d = c
      <4>1. CallIds(d) /\ call[d] = r /\ call'[d] = t
        BY <2>5, <2>7, <3>1 DEF IdsInv, r, c
      <4> QED
        BY <1>1, <1>6, <2>1, <2>2, <2>4, <4>1 DEF CallIds, InFlight
    <3>2. CASE d # c
      <4>1. call[d].pc # "stopping"
        BY <2>7, <3>2 DEF IdsInv, CallIds, c
      <4> QED
        BY <2>5, <3>2, <4>1
    <3> QED
      BY <3>1, <3>2
  <2> QED
    BY <1>1, <1>3, <1>4, <2>6, <2>7, ApiKeeps
<1> QED
  BY <1>5, <1>6


-----------------------------------------------------------------------------
(* doResume.                                                                *)

LEMMA ServeResumeKeeps ==
  ASSUME SandboxInv, OwnersInv, NEW h \in Handles, ServeResume(h)
  PROVE  Keeps
<1>1. /\ SandboxTypes /\ last \in Nat /\ resume[h].pc = "send"
      /\ UNCHANGED <<stopper, crossed, handle, call>>
  BY DEF ServeResume, SandboxInv, SandboxTypes, ApiTypes
<1>2. PICK o \in GetSandbox(TRUE) :
        /\ box' = o.box
        /\ last' = IF o.box.id > last THEN o.box.id ELSE last
        /\ resume' = [resume EXCEPT ![h].pc = "wire", ![h].ans = o.ans]
  BY DEF ServeResume
<1>3. /\ resume'[h].pc = "wire" /\ resume'[h].ans = o.ans
      /\ \A g \in Handles : g # h => resume'[g] = resume[g]
  <2> DEFINE t == [resume[h] EXCEPT !.pc = "wire", !.ans = o.ans]
  <2>1. resume[h] \in ResumeRecords(last) /\ DOMAIN resume = Handles
    BY <1>1 DEF SandboxTypes, ResumeTypes
  <2>2. t.pc = "wire" /\ t.ans = o.ans
    BY <2>1 DEF ResumeRecords
  <2>3. resume' = [resume EXCEPT ![h] = t]
    BY <1>2, <2>1
  <2> HIDE DEF t
  <2> QED
    BY <2>1, <2>2, <2>3
<1>4. OwnersInv'
  <2>1. \A d \in All : Moves(d)
    BY <1>1 DEF Moves
  <2>2. \A g \in Handles : HandleMoves(g)
    BY <1>1, <1>3, SameHandles DEF HandleMoves
  <2> QED
    BY <1>1, <2>1, <2>2, OwnersStep
<1>5. ASSUME IdsInv PROVE IdsInv'
  <2>1. /\ ApiIds' /\ (stopper # None => box'.id = box.id)
        /\ o.ans.code = "ok" => last <= o.ans.id /\ o.ans.id \in Nat
    <3>1. o \in Outcomes("get", 0) /\ "get" \in Served \ {"delete", "drop"}
      BY DEF Outcomes, Served
    <3> QED
      BY <1>1, <1>2, <1>5, <3>1, ServedIds DEF IdsInv
  <2>2. \A g \in Handles : SameIds(g) /\ (g # h => QuietResume(g))
    BY <1>1, <1>3, SameHandles DEF QuietResume
  <2>3. ASSUME NEW g \in Handles PROVE HandleIds(g)'
    <3>1. CASE g = h
      <4>1. handle[h].session # None => handle[h].session.id \in 0..last
        BY <1>1 DEF SandboxTypes, HandleTypes, HandleRecords, Sessions
      <4> QED
        BY <1>1, <1>3, <2>1, <3>1, <4>1 DEF HandleIds
    <3>2. CASE g # h
      BY <1>5, <2>2, <3>2, HandleIdsStay DEF IdsInv
    <3> QED
      BY <3>1, <3>2
  <2>4. ASSUME NEW d \in All PROVE CallIds(d)'
    <3>1. CallIds(d) /\ call'[d] = call[d]
      BY <1>1, <1>5 DEF IdsInv
    <3>2. call[d].pc = "stopping" => stopper # None
      BY <3>1, OwnerTypes, <1>1 DEF CallIds
    <3>3. CASE call[d].h = h
      <4>1. call[d].id \in 0..last
        BY <1>1, KnownIds
      <4> QED
        BY <1>1, <1>3, <2>1, <3>1, <3>2, <3>3, <4>1 DEF CallIds
    <3>4. CASE call[d].h # h
      BY <1>1, <2>1, <2>2, <3>1, <3>2, <3>4, CallIdsStay
    <3> QED
      BY <3>3, <3>4
  <2> QED
    BY <2>1, <2>3, <2>4 DEF IdsInv
<1>6. \A g \in Handles : ~Back(g)
  BY <1>1, SameHandles, SameIdsForward
<1> QED
  BY <1>4, <1>5, <1>6 DEF Keeps


\* What a step that ends the request of a resume of h does to the handles: the
\* answer is its session, or it keeps the one it has.
Answered(h, s, calls) ==
  \/ UNCHANGED handle /\ calls = call
  \/ /\ handle' = [handle EXCEPT ![h].session = s] /\ calls = Forget(call, h)
     /\ s # None /\ s.id \in Nat
     /\ IdsInv /\ handle[h].session # None => handle[h].session.id <= s.id

LEMMA AnsweredHandles ==
  ASSUME SandboxTypes, OwnersInv, NEW h \in Handles, NEW s, NEW calls, resume[h].pc # "none",
         Answered(h, s, calls)
  PROVE  /\ \A g \in Handles :
              /\ handle'[g].made = handle[g].made /\ handle'[g].by = handle[g].by
              /\ ~handle[g].made => handle'[g].session = handle[g].session
              /\ g # h => handle'[g] = handle[g]
              /\ IdsInv => ~Back(g)
         /\ UNCHANGED handle \/ (handle'[h].session = s /\ s # None)
<1>1. CASE UNCHANGED handle
  <2>1. \A g \in Handles : ~Back(g)
    BY <1>1, SameHandles, SameIdsForward
  <2> QED
    BY <1>1, <2>1
<1>2. CASE /\ handle' = [handle EXCEPT ![h].session = s] /\ s # None /\ s.id \in Nat
           /\ IdsInv /\ handle[h].session # None => handle[h].session.id <= s.id
  <2>1. /\ handle'[h].session = s
        /\ \A g \in Handles : /\ handle'[g].made = handle[g].made /\ handle'[g].by = handle[g].by
                              /\ g # h => handle'[g] = handle[g]
    BY <1>2, SessionFields
  <2>2. handle[h].made
    BY DEF OwnersInv, HandleOwned, Held
  <2>3. ASSUME IdsInv, NEW g \in Handles PROVE ~Back(g)
    <3>1. \A f \in Handles : handle[f].session # None => handle[f].session.id \in Nat
      BY DEF SandboxTypes, ApiTypes, HandleTypes, HandleRecords, Sessions
    <3>2. CASE g # h
      BY <2>1, <3>1, <3>2 DEF Back
    <3>3. CASE g = h
      <4> SUFFICES ASSUME Back(g) PROVE FALSE
        OBVIOUS
      <4>1. handle[h].session # None /\ s.id < handle[h].session.id
        BY <2>1, <3>3 DEF Back
      <4>2. handle[h].session.id <= s.id /\ s.id \in Nat
        BY <1>2, <2>3, <4>1
      <4> QED
        BY <3>1, <4>1, <4>2
    <3> QED
      BY <3>2, <3>3
  <2> QED
    BY <1>2, <2>1, <2>2, <2>3
<1> QED
  BY <1>1, <1>2 DEF Answered

LEMMA AnsweredCalls ==
  ASSUME SandboxInv, NEW h \in Handles, NEW s, NEW calls, Answered(h, s, calls)
  PROVE  /\ DOMAIN calls = All
         /\ \A d \in All :
              /\ Sound(calls[d], last)
              /\ call[d].pc = "join" => calls[d] = call[d]
              /\ calls[d] = call[d] \/ (Awaits(call[d], h) /\ Outdated(calls[d], call[d], last))
              /\ UNCHANGED handle \/ (Awaits(call[d], h) => Outdated(calls[d], call[d], last))
<1>1. calls = call \/ calls = Forget(call, h)
  BY DEF Answered
<1>2. /\ DOMAIN calls = All
      /\ \A d \in All : Sound(calls[d], last) /\ (call[d].pc = "join" => calls[d] = call[d])
  BY <1>1, RenewedCalls
<1>3. CASE calls = call /\ UNCHANGED handle
  BY <1>2, <1>3
<1>4. CASE calls = Forget(call, h)
  <2>1. last \in Nat /\ \A d \in All : Sound(call[d], last)
    BY DEF SandboxInv, SandboxTypes, ApiTypes, CallTypes
  <2>2. \A d \in All : /\ Awaits(call[d], h) => Outdated(calls[d], call[d], last)
                       /\ ~Awaits(call[d], h) => calls[d] = call[d]
    BY <1>4, <2>1, ForgottenCalls
  <2> QED
    BY <1>2, <2>2
<1> QED
  BY <1>3, <1>4 DEF Answered

\* The calls that the step does not concern.
LEMMA OthersStay ==
  ASSUME SandboxTypes, OwnersInv, NEW h \in Handles, resume[h].pc # "none", NEW d \in All,
         call'[d] = call[d] \/ (Awaits(call[d], h) /\ Outdated(call'[d], call[d], last)),
         UNCHANGED handle \/ (Awaits(call[d], h) => Outdated(call'[d], call[d], last)),
         UNCHANGED handle \/ handle'[h].session # None,
         resume'[h].pc = "none" \/ (resume'[h].pc = "hook" /\ handle'[h].session # None
                                    /\ (Awaits(call[d], h) => Outdated(call'[d], call[d], last))),
         \A g \in Handles : g # h => handle'[g] = handle[g] /\ resume'[g] = resume[g],
         UNCHANGED <<box, stopper>>
  PROVE  Moves(d) /\ (IdsInv => CallIds(d)')
<1>1. Moves(d)
  <2>1. CallOwned(d)
    BY DEF OwnersInv
  <2>2. CASE call'[d] = call[d]
    BY <2>2 DEF Moves
  <2>3. CASE Awaits(call[d], h) /\ Outdated(call'[d], call[d], last)
    BY <2>1, <2>3
       DEF Awaits, CallOwned, Moves, Outdated, Kept, Over, InFlight, Refreshing, MakingReqs
  <2> QED
    BY <2>2, <2>3
<1>2. ASSUME IdsInv PROVE CallIds(d)'
  <2>1. CASE call[d].h # h
    <3>1. \A g \in Handles : g # h => SameIds(g) /\ QuietResume(g)
      BY DEF SameIds, QuietResume
    <3> QED
      BY <1>2, <2>1, <3>1, CallIdsStay DEF IdsInv
  <2>2. CASE call[d].h = h /\ UNCHANGED handle /\ resume'[h].pc = "none"
    <3>1. SameIds(h) /\ QuietResume(h)
      BY <2>2, SameHandles DEF QuietResume
    <3> QED
      BY <1>2, <2>2, <3>1, CallIdsStay DEF IdsInv
  <2>3. CASE /\ call[d].h = h /\ handle'[h].session # None
             /\ Awaits(call[d], h) => Outdated(call'[d], call[d], last)
    <3>1. call[d].pc \in {"send", "wire"} => call[d].req \notin {"get", "create"}
      BY <2>3, MakerAlone DEF MakingReqs
    <3> QED
      BY <1>2, <2>3, <3>1, RenewedIds DEF IdsInv
  <2> QED
    BY <2>1, <2>2, <2>3
<1> QED
  BY <1>1, <1>2


\* A resume of h ends: those who awaited it go on, and its hook is over.
LEMMA SettleKeeps ==
  ASSUME SandboxInv, OwnersInv, NEW h \in Handles, NEW s \in Sessions(last), NEW res, NEW calls,
         resume[h].pc # "none", resume' = [resume EXCEPT ![h] = NoResume],
         Answered(h, s, calls), UNCHANGED <<box, last, stopper>>,
         \/ call' = Settled(calls, h, s, res) /\ resume[h].pc # "hook"
         \/ call' = [Settled(calls, h, s, res) EXCEPT ![h] = Idle] /\ call[h].pc = "done",
         IdsInv /\ res = "ok" => s # None /\ handle'[h].session = s
  PROVE  Keeps
<1> DEFINE new == Settled(calls, h, s, res)
<1>1. last \in Nat /\ SandboxTypes /\ h \in All
  BY DEF SandboxInv, SandboxTypes, ApiTypes, All
<1>2. /\ \A g \in Handles :
           /\ handle'[g].made = handle[g].made /\ handle'[g].by = handle[g].by
           /\ ~handle[g].made => handle'[g].session = handle[g].session
           /\ g # h => handle'[g] = handle[g]
           /\ IdsInv => ~Back(g)
      /\ UNCHANGED handle \/ (handle'[h].session = s /\ s # None)
  BY <1>1, AnsweredHandles
<1>3. /\ DOMAIN calls = All
      /\ \A d \in All :
           /\ Sound(calls[d], last)
           /\ call[d].pc = "join" => calls[d] = call[d]
           /\ calls[d] = call[d] \/ (Awaits(call[d], h) /\ Outdated(calls[d], call[d], last))
           /\ UNCHANGED handle \/ (Awaits(call[d], h) => Outdated(calls[d], call[d], last))
  BY AnsweredCalls
<1>4. /\ DOMAIN new = All
      /\ \A d \in All :
           /\ d \notin Joiners(h) => new[d] = calls[d]
           /\ d \in Joiners(h) => SettledOf(new[d], call[d], h, s, res, last)
  BY <1>1, <1>3, SettledCalls
<1>5. resume'[h].pc = "none" /\ \A g \in Handles : g # h => resume'[g] = resume[g]
  BY <1>1 DEF SandboxTypes, ResumeTypes, NoResume
<1>6. /\ Idle.pc = "idle" /\ Idle.h = None /\ Idle.kind = "none" /\ Idle.id = 0
  BY DEF Idle
<1> HIDE DEF new
<1>7. \/ call' = new /\ resume[h].pc # "hook"
      \/ call' = [new EXCEPT ![h] = Idle] /\ call[h].pc = "done"
  BY DEF new
<1>8. /\ \A d \in All : d # h => call'[d] = new[d]
      /\ \/ call'[h] = new[h] /\ resume[h].pc # "hook"
         \/ call'[h] = Idle /\ call[h].pc = "done"
  BY <1>1, <1>4, <1>7
<1>9. ASSUME NEW d \in All, d \notin Joiners(h), call'[d] = new[d]
      PROVE  Moves(d) /\ (IdsInv => CallIds(d)')
  <2>1. call'[d] = calls[d]
    BY <1>4, <1>9
  <2>2. UNCHANGED handle \/ handle'[h].session # None
    BY <1>2
  <2>3. \A g \in Handles : g # h => handle'[g] = handle[g] /\ resume'[g] = resume[g]
    BY <1>2, <1>5
  <2> QED
    BY <1>1, <1>3, <1>5, <2>1, <2>2, <2>3, OthersStay
<1>10. ASSUME call'[h] = Idle
       PROVE  Moves(h) /\ (IdsInv => CallIds(h)')
  <2>1. Moves(h)
    BY <1>1, <1>6, <1>10 DEF Moves
  <2>2. IdsInv => CallIds(h)'
    BY <1>1, <1>6, <1>10, RestingIds, SdkSandboxAssumption DEF IdsInv
  <2> QED
    BY <2>1, <2>2
<1>11. ASSUME NEW d \in All, d \in Joiners(h), call'[d] = new[d]
       PROVE  Moves(d) /\ (IdsInv => CallIds(d)')
  <2> DEFINE r == call[d]
             t == call'[d]
  <2>1. r.pc = "join" /\ r.h = h /\ SettledOf(t, r, h, s, res, last)
    BY <1>4, <1>11 DEF Joiners
  <2>2. r.op \in Resumable
    BY <1>1, <2>1, CallKnown DEF Sound, CallRecords
  <2> HIDE DEF r, t
  <2>3. CASE res = "ok"
    <3>1. /\ t.pc = "send" /\ t.req \in Resumable /\ t.h = h /\ t.kind = r.kind
          /\ t.id = IF s = None THEN 0 ELSE s.id
      BY <2>1, <2>2, <2>3 DEF SettledOf, AskedOf, Kept
    <3>2. Moves(d)
      BY <1>5, <2>1, <3>1 DEF Moves, Over, Resumable, MakingReqs, r, t
    <3>3. IdsInv => CallIds(d)'
      BY <1>5, <2>3, <3>1 DEF CallIds, Resumable, Refreshing, t
    <3> QED
      BY <3>2, <3>3
  <2>4. CASE res # "ok"
    <3>1. \/ t.pc = "done" /\ t.h = None /\ t.kind = "none"
          \/ /\ t.pc = "send" /\ t.req \in {"create", "drop"} /\ t.h = h /\ t.kind = r.kind
             /\ t.kind \in Making /\ t.id = 0
      BY <2>1, <2>4 DEF SettledOf, AfterOf, DoneOf, Tried, Making
    <3>2. Moves(d)
      BY <1>5, <2>1, <3>1 DEF Moves, Over, r, t
    <3>3. IdsInv => CallIds(d)'
      BY <1>1, <1>5, <3>1, SdkSandboxAssumption DEF CallIds, Refreshing, InFlight, t
    <3> QED
      BY <3>2, <3>3
  <2> QED
    BY <2>3, <2>4
<1>12. \A d \in All : Moves(d) /\ (IdsInv => CallIds(d)')
  BY <1>8, <1>9, <1>10, <1>11
<1>13. OwnersInv'
  <2>1. resume[h].pc = "hook" => call'[h].pc = "idle"
    BY <1>6, <1>8
  <2>2. \A g \in Handles : HandleMoves(g)
    BY <1>2, <1>5, <2>1 DEF HandleMoves
  <2> QED
    BY <1>1, <1>12, <2>2, OwnersStep
<1>14. ASSUME IdsInv PROVE IdsInv'
  <2>1. ApiIds'
    BY <1>14 DEF IdsInv, ApiIds
  <2>2. ASSUME NEW g \in Handles PROVE HandleIds(g)'
    <3>1. CASE g = h
      BY <1>5, <3>1 DEF HandleIds
    <3>2. CASE g # h
      BY <1>2, <1>5, <1>14, <3>2, HandleIdsStay DEF IdsInv, SameIds, QuietResume
    <3> QED
      BY <3>1, <3>2
  <2> QED
    BY <1>12, <1>14, <2>1, <2>2 DEF IdsInv
<1> QED
  BY <1>2, <1>13, <1>14 DEF Keeps


LEMMA FinishHookKeeps ==
  ASSUME SandboxInv, OwnersInv, NEW h \in Handles, FinishHook(h)
  PROVE  Keeps
<1> DEFINE s == handle[h].session
           res == call[h].res
<1>1. /\ resume[h].pc = "hook" /\ call[h].pc = "done" /\ resume' = [resume EXCEPT ![h] = NoResume]
      /\ call' = [Settled(call, h, s, res) EXCEPT ![h] = Idle]
      /\ UNCHANGED <<box, last, stopper, handle>>
  BY DEF FinishHook, api
<1>2. s \in Sessions(last) /\ Answered(h, s, call)
  BY <1>1 DEF SandboxInv, SandboxTypes, HandleTypes, HandleRecords, Answered
<1>3. IdsInv => s # None /\ handle'[h].session = s
  BY <1>1 DEF IdsInv, HandleIds
<1> HIDE DEF s, res
<1> QED
  BY <1>1, <1>2, <1>3, SettleKeeps

LEMMA ResumeAbortedKeeps ==
  ASSUME SandboxInv, OwnersInv, NEW h \in Handles, ResumeAborted(h)
  PROVE  Keeps
<1> DEFINE s == handle[h].session
<1>1. /\ resume[h].pc \in {"send", "wire"} /\ resume' = [resume EXCEPT ![h] = NoResume]
      /\ call' = Settled(call, h, s, "abort")
      /\ UNCHANGED <<box, last, stopper, handle>>
  BY DEF ResumeAborted, api
<1>2. s \in Sessions(last) /\ Answered(h, s, call)
  BY <1>1 DEF SandboxInv, SandboxTypes, HandleTypes, HandleRecords, Answered
<1> DEFINE res == "abort"
<1>3. /\ call' = Settled(call, h, s, res) /\ res # "ok"
      /\ resume[h].pc # "none" /\ resume[h].pc # "hook"
  BY <1>1
<1>4. IdsInv /\ res = "ok" => s # None /\ handle'[h].session = s
  BY <1>3
<1> HIDE DEF s, res
<1> QED
  BY <1>1, <1>2, <1>3, <1>4, SettleKeeps

\* The hook of h starts on the session that the resume was answered with.
LEMMA HookKeeps ==
  ASSUME SandboxInv, OwnersInv, NEW h \in Handles, NEW a \in Answers(last), NEW calls,
         resume[h].pc = "wire", resume' = [resume EXCEPT ![h].pc = "hook", ![h].ans = None],
         Answered(h, Seen(a), calls), handle' = [handle EXCEPT ![h].session = Seen(a)],
         calls = Forget(call, h), UNCHANGED <<box, last, stopper>>,
         call' = [calls EXCEPT ![h] = Begin([Idle EXCEPT !.kind = "hook", !.h = h], "use", Seen(a))]
  PROVE  Keeps
<1> DEFINE s == Seen(a)
           u == [Idle EXCEPT !.kind = "hook", !.h = h]
           t == Begin(u, "use", s)
<1>1. last \in Nat /\ SandboxTypes /\ h \in All
  BY DEF SandboxInv, SandboxTypes, ApiTypes, All
<1>2. \A g \in Handles :
        /\ handle'[g].made = handle[g].made /\ handle'[g].by = handle[g].by
        /\ ~handle[g].made => handle'[g].session = handle[g].session
        /\ g # h => handle'[g] = handle[g]
        /\ IdsInv => ~Back(g)
  BY <1>1, AnsweredHandles
<1>3. handle'[h].session = s /\ s # None
  BY <1>1, SeenSome, SessionFields
<1>4. t.pc = "send" /\ t.h = h /\ t.kind = "hook" /\ t.req = "use"
  <2>1. Sound(u, last) /\ u.h = h /\ "hook" \in Kinds
    BY <1>1, FreshCall DEF Kinds
  <2>2. u.kind = "hook"
    BY FreshFields
  <2> HIDE DEF u
  <2> QED
    BY <1>1, <2>1, <2>2, BeginFields DEF Resumable
<1> HIDE DEF t, u, s
<1>5. /\ DOMAIN calls = All
      /\ \A d \in All : /\ Awaits(call[d], h) => Outdated(calls[d], call[d], last)
                        /\ ~Awaits(call[d], h) => calls[d] = call[d]
  <2>1. \A d \in All : Sound(call[d], last)
    BY <1>1 DEF SandboxTypes, CallTypes
  <2> QED
    BY <1>1, <2>1, AnsweredCalls, ForgottenCalls
<1>6. call'[h] = t /\ \A d \in All : d # h => call'[d] = calls[d]
  BY <1>1, <1>5 DEF t, u, s
<1>7. /\ resume'[h].pc = "hook" /\ \A g \in Handles : g # h => resume'[g] = resume[g]
  <2> DEFINE r == [resume[h] EXCEPT !.pc = "hook", !.ans = None]
  <2>1. resume[h] \in ResumeRecords(last) /\ DOMAIN resume = Handles
    BY <1>1 DEF SandboxTypes, ResumeTypes
  <2>2. r.pc = "hook"
    BY <2>1 DEF ResumeRecords
  <2>3. resume' = [resume EXCEPT ![h] = r]
    BY <2>1
  <2> HIDE DEF r
  <2> QED
    BY <2>1, <2>2, <2>3
<1>8. ASSUME NEW d \in All, d # h PROVE Moves(d) /\ (IdsInv => CallIds(d)')
  <2>1. /\ Awaits(call[d], h) => Outdated(call'[d], call[d], last)
        /\ ~Awaits(call[d], h) => call'[d] = call[d]
    BY <1>5, <1>6, <1>8
  <2>2. \A g \in Handles : g # h => handle'[g] = handle[g] /\ resume'[g] = resume[g]
    BY <1>2, <1>7
  <2> QED
    BY <1>1, <1>3, <1>7, <2>1, <2>2, OthersStay
<1>9. Moves(h)
  BY <1>4, <1>6, <1>7 DEF Moves, Over, MakingReqs
<1>10. CallIds(h)'
  BY <1>4, <1>6, <1>7 DEF CallIds, Refreshing
<1>11. OwnersInv'
  <2>1. \A d \in All : Moves(d)
    BY <1>8, <1>9
  <2>2. \A g \in Handles : HandleMoves(g)
    BY <1>2, <1>7 DEF HandleMoves
  <2> QED
    BY <1>1, <2>1, <2>2, OwnersStep
<1>12. ASSUME IdsInv PROVE IdsInv'
  <2>1. ApiIds'
    BY <1>12 DEF IdsInv, ApiIds
  <2>2. ASSUME NEW g \in Handles PROVE HandleIds(g)'
    <3>1. CASE g = h
      BY <1>3, <1>7, <3>1 DEF HandleIds
    <3>2. CASE g # h
      BY <1>2, <1>7, <1>12, <3>2, HandleIdsStay DEF IdsInv, SameIds, QuietResume
    <3> QED
      BY <3>1, <3>2
  <2>3. \A d \in All : CallIds(d)'
    BY <1>8, <1>10, <1>12
  <2> QED
    BY <2>1, <2>2, <2>3 DEF IdsInv
<1> QED
  BY <1>2, <1>11, <1>12 DEF Keeps

LEMMA ReceiveResumeKeeps ==
  ASSUME SandboxInv, OwnersInv, NEW h \in Handles, ReceiveResume(h)
  PROVE  Keeps
<1> DEFINE a == resume[h].ans
           s == Seen(a)
           calls == Renewed(h, a)
           hooked == a.code = "ok" /\ handle[h].hook /\ a.resumed
<1>1. /\ SandboxTypes /\ last \in Nat /\ resume[h].pc = "wire" /\ a \in Answers(last)
      /\ UNCHANGED <<box, last, stopper>>
  BY DEF ReceiveResume, SandboxInv, SandboxTypes, ApiTypes, ResumeTypes, api
<1>2. s \in Sessions(last) /\ s.id = a.id /\ s # None /\ s.id \in Nat
  BY <1>1, SeenSome DEF Answers
<1>3. handle' = IF a.code = "ok" THEN [handle EXCEPT ![h].session = s] ELSE handle
  BY DEF ReceiveResume
<1>4. Answered(h, s, calls)
  <2>1. CASE a.code = "ok"
    <3>1. IdsInv /\ handle[h].session # None => handle[h].session.id <= s.id
      BY <1>1, <1>2, <2>1 DEF IdsInv, HandleIds
    <3> QED
      BY <1>2, <1>3, <2>1, <3>1 DEF Answered, Renewed
  <2>2. CASE a.code # "ok"
    BY <1>3, <2>2 DEF Answered, Renewed
  <2> QED
    BY <2>1, <2>2
<1>5. CASE hooked
  <2>1. /\ resume' = [resume EXCEPT ![h].pc = "hook", ![h].ans = None]
        /\ call' = [calls EXCEPT ![h] = Begin([Idle EXCEPT !.kind = "hook", !.h = h], "use", s)]
        /\ handle' = [handle EXCEPT ![h].session = s]
    BY <1>3, <1>5 DEF ReceiveResume
  <2>2. calls = Forget(call, h)
    BY <1>5 DEF Renewed
  <2> HIDE DEF a, calls
  <2> QED
    BY <1>1, <1>4, <2>1, <2>2, HookKeeps
<1>6. CASE ~hooked
  <2>1. /\ resume' = [resume EXCEPT ![h] = NoResume]
        /\ call' = Settled(calls, h, s, a.code)
    BY <1>6 DEF ReceiveResume
  <2>2. a.code = "ok" => handle'[h].session = s
    BY <1>1, <1>3, SessionFields
  <2>3. resume[h].pc # "none" /\ resume[h].pc # "hook"
    BY <1>1
  <2> HIDE DEF a, calls, s
  <2> DEFINE res == a.code
  <2>4. call' = Settled(calls, h, s, res) /\ (IdsInv /\ res = "ok" => s # None /\ handle'[h].session = s)
    BY <1>2, <2>1, <2>2
  <2> HIDE DEF res
  <2> QED
    BY <1>1, <1>2, <1>4, <2>1, <2>3, <2>4, SettleKeeps
<1> QED
  BY <1>5, <1>6

-----------------------------------------------------------------------------

LEMMA ProgressKeeps ==
  ASSUME SandboxInv, OwnersInv, NEW c \in All, Progress(c), ~ReceivePoll(c)
  PROVE  Keeps
  BY ServeKeeps, ServeStopKeeps, BeginStopKeeps, ReturnAnswerKeeps, ResumeStoppedKeeps, PollKeeps,
     EndingKeeps, NextRequestKeeps, ReceiveGetKeeps, ReceiveCreateKeeps DEF Progress

LEMMA ForwardInitial == ASSUME SandboxInit PROVE OwnersInv /\ IdsInv
<1>1. /\ box = [st |-> "running", id |-> 1, snap |-> FALSE, file |-> TRUE] /\ last = 1
      /\ stopper = None /\ resume = [h \in Handles |-> NoResume] /\ call = [c \in All |-> Idle]
  BY DEF SandboxInit
<1>2. \A h \in Handles : /\ handle[h].by = None
                         /\ ~handle[h].made => handle[h].session = None
  <2>1. PICK s \in {None, [id |-> 1, stopping |-> FALSE]}, k \in BOOLEAN :
          handle = [h \in Handles |->
                      IF h = First THEN [NoHandle EXCEPT !.made = TRUE, !.hook = k, !.session = s]
                                   ELSE NoHandle]
    BY DEF SandboxInit
  <2>2. /\ NoHandle.by = None /\ NoHandle.session = None
        /\ [NoHandle EXCEPT !.made = TRUE, !.hook = k, !.session = s].made
        /\ [NoHandle EXCEPT !.made = TRUE, !.hook = k, !.session = s].by = None
    BY DEF NoHandle
  <2> QED
    BY <2>1, <2>2
<1>3. \A h \in Handles : resume[h].pc = "none" /\ h \in All
  BY <1>1 DEF NoResume, All
<1>4. \A c \in All : /\ call[c].pc = "idle" /\ call[c].h = None /\ call[c].kind = "none"
                      /\ call[c].req = "none"
  BY <1>1 DEF Idle
<1>5. OwnersInv
  <2>1. ASSUME NEW h \in Handles PROVE HandleOwned(h)
    BY <1>2, <1>3, <1>4 DEF HandleOwned
  <2>2. ASSUME NEW c \in All PROVE CallOwned(c)
    <3>1. None \notin Handles /\ call[c].pc \in Over /\ "none" \notin Making
      BY <1>4, SdkSandboxAssumption DEF Over, Making
    <3> QED
      BY <1>4, <3>1 DEF CallOwned
  <2> QED
    BY <2>1, <2>2 DEF OwnersInv
<1>6. ApiIds
  BY <1>1 DEF ApiIds
<1>7. \A h \in Handles : HandleIds(h)
  BY <1>3 DEF HandleIds
<1>8. \A c \in All : CallIds(c)
  BY <1>3, <1>4, SdkSandboxAssumption DEF CallIds, InFlight
<1> QED
  BY <1>5, <1>6, <1>7, <1>8 DEF IdsInv

\* A lost answer takes nothing from a handle, and the same is asked again.
LEMMA LoseAnswerKeeps ==
  ASSUME SandboxInv, OwnersInv, NEW c \in All, LoseAnswer(c)
  PROVE  Keeps
<1>1. PICK t \in Unanswered(call[c]) : call' = [call EXCEPT ![c] = t]
  BY DEF LoseAnswer
<1>2. /\ SandboxTypes /\ last \in Nat /\ Sound(call[c], last) /\ call[c].pc = "wire"
      /\ UNCHANGED <<box, last, stopper, crossed, handle, resume>>
  BY CallKnown DEF LoseAnswer, SandboxInv, api
<1>3. /\ t.pc \in {"send", "wire"} /\ t.h = call[c].h /\ t.id = call[c].id
      /\ t.req = call[c].req /\ t.kind = call[c].kind /\ t.obj = call[c].obj
      /\ t.pc = "wire" => t.ans.code # "ok"
  <2>1. UnansweredOf(t, call[c], last)
    BY <1>2, UnansweredSound
  <2> QED
    BY <2>1 DEF UnansweredOf, Onward
<1>4. call'[c] = t
  BY <1>1, <1>2, OneCall DEF SandboxTypes
<1>5. Moves(c)
  <2>1. call[c].req \in MakingReqs => call[c].kind \in Making
    BY <1>2 DEF OwnersInv, CallOwned
  <2> QED
    BY <1>2, <1>3, <1>4, <2>1 DEF Moves, Over
<1>6. IdsInv => CallIds(c)'
  BY <1>2, <1>3, <1>4 DEF IdsInv, CallIds, InFlight
<1> QED
  BY <1>1, <1>2, <1>5, <1>6, CallKeeps

LEMMA LoseResumeKeeps ==
  ASSUME SandboxInv, OwnersInv, NEW h \in Handles, LoseResume(h)
  PROVE  Keeps
<1>1. /\ SandboxTypes /\ last \in Nat /\ resume[h].pc = "wire"
      /\ UNCHANGED <<box, last, stopper, handle, call>>
  BY DEF LoseResume, SandboxInv, SandboxTypes, ApiTypes, api
<1>2. /\ \A g \in Handles : g # h => resume'[g] = resume[g]
      /\ \/ resume'[h].pc = "send"
         \/ resume'[h].pc = "wire" /\ resume'[h].ans = Says("failed")
  <2> DEFINE again == [resume[h] EXCEPT !.pc = "send", !.ans = None]
             error == [resume[h] EXCEPT !.ans = Says("failed")]
  <2>1. again.pc = "send" /\ error.pc = "wire" /\ error.ans = Says("failed")
    BY <1>1 DEF SandboxTypes, ResumeTypes, ResumeRecords
  <2>2. resume' = [resume EXCEPT ![h] = again] \/ resume' = [resume EXCEPT ![h] = error]
    BY <1>1 DEF LoseResume, SandboxTypes, ResumeTypes
  <2> HIDE DEF again, error
  <2> QED
    BY <1>1, <2>1, <2>2 DEF SandboxTypes, ResumeTypes
<1>3. Says("failed").code # "ok"
  BY DEF Says
<1>4. \A g \in Handles : QuietResume(g) /\ HandleMoves(g)
  BY <1>1, <1>2, <1>3, SameHandles DEF QuietResume, HandleMoves
<1>5. \A d \in All : Moves(d)
  BY <1>1 DEF Moves
<1>6. IdsInv => QuietIds
  BY <1>1, <1>4, SameHandles DEF QuietIds
<1> QED
  BY <1>1, <1>4, <1>5, <1>6, QuietKeeps

\* What the sessions of the handles keep, until a stop is answered across sessions.
ForwardInv == SandboxInv /\ OwnersInv /\ (IdsInv \/ crossed)

LEMMA CrossedStays == ASSUME SandboxNext, crossed PROVE crossed'
<1>1. ASSUME NEW c \in Calls, Start(c) PROVE crossed'
  <2>1. CASE Fork(c) \/ Abort(c)
    BY <2>1 DEF Fork, Abort, api
  <2>2. CASE \E h \in Handles : Stop(c, h) \/ Update(c, h) \/ Delete(c, h)
    BY <2>2 DEF Stop, Update, Delete, Direct, api
  <2>3. CASE \E h \in Handles : Create(c, h) \/ Get(c, h) \/ GetOrCreate(c, h)
    BY <2>3 DEF Create, Get, GetOrCreate, Static, api
  <2>4. CASE \E h, k, op : WithResume(c, h, k, op)
    BY <2>4 DEF WithResume, api
  <2> QED
    BY <1>1, <2>1, <2>2, <2>3, <2>4
       DEF Start, RunCommand, GetCommand, MkDir, OpenInteractive, ReadFile, ReadFileToBuffer,
           DownloadFile, WriteFiles, UpdateNetworkPolicy, ExtendTimeout, TakeSnapshot
<1>2. ASSUME NEW c \in All, Progress(c) PROVE crossed'
  <2>1. CASE Serve(c) \/ ServeStop(c) \/ BeginStop(c)
    BY <2>1 DEF Serve, ServeStop, BeginStop, api
  <2>2. CASE ReturnAnswer(c) \/ ResumeStopped(c) \/ WaitForStop(c) \/ Poll(c) \/ ReceivePoll(c)
    BY <2>2 DEF ReturnAnswer, ResumeStopped, WaitForStop, Poll, ReceivePoll, api
  <2>3. CASE ReceiveStop(c) \/ ReceivePatch(c) \/ ReceivePolicy(c) \/ ReceiveDelete(c) \/ Reject(c)
    BY <2>3 DEF ReceiveStop, ReceivePatch, ReceivePolicy, ReceiveDelete, Reject, api
  <2>4. CASE ReceiveGet(c) \/ ReceiveDrop(c) \/ ReceiveCreate(c) \/ ReceivePeek(c) \/ ReceiveClone(c)
    BY <2>4 DEF ReceiveGet, ReceiveDrop, ReceiveCreate, ReceivePeek, ReceiveClone, api
  <2> QED
    BY <1>2, <2>1, <2>2, <2>3, <2>4 DEF Progress
<1>3. ASSUME NEW h \in Handles, ResumeStep(h) PROVE crossed'
  BY <1>3 DEF ResumeStep, ServeResume, ReceiveResume, FinishHook, ResumeAborted, api
<1>4. ASSUME NEW h \in Handles, NEW g \in Handles, Deserialize(h, g) PROVE crossed'
  BY <1>4 DEF Deserialize, api
<1>5. CASE OtherStop \/ EndStop \/ Expire
  BY <1>5 DEF OtherStop, EndStop, Expire
<1>6. CASE (\E c \in All : LoseAnswer(c)) \/ \E h \in Handles : LoseResume(h)
  BY <1>6 DEF LoseAnswer, LoseResume, api
<1> QED
  BY <1>1, <1>2, <1>3, <1>4, <1>5, <1>6 DEF SandboxNext

\* Every step keeps what the handles have, and takes none back but by a poll.
LEMMA StepForward ==
  ASSUME SandboxInv, OwnersInv, [SandboxNext]_vars
  PROVE  Keeps \/ \E c \in All : ReceivePoll(c)
<1>1. CASE UNCHANGED vars
  BY <1>1, StillKeeps DEF vars
<1>2. CASE \E c \in Calls : Start(c)
  BY <1>2, StartKeeps
<1>3. CASE \E c \in All : Progress(c)
  BY <1>3, ProgressKeeps
<1>4. CASE \E h \in Handles : ResumeStep(h)
  BY <1>4, ServeResumeKeeps, ReceiveResumeKeeps, FinishHookKeeps, ResumeAbortedKeeps DEF ResumeStep
<1>5. CASE \E h, g \in Handles : Deserialize(h, g)
  BY <1>5, DeserializeKeeps
<1>6. CASE OtherStop \/ EndStop \/ Expire
  BY <1>6, OtherStopKeeps, EndStopKeeps
<1>7. CASE (\E c \in All : LoseAnswer(c)) \/ \E h \in Handles : LoseResume(h)
  BY <1>7, LoseAnswerKeeps, LoseResumeKeeps
<1> QED
  BY <1>1, <1>2, <1>3, <1>4, <1>5, <1>6, <1>7 DEF SandboxNext

LEMMA ForwardPreserved == ForwardInv /\ [SandboxNext]_vars => ForwardInv'
<1> SUFFICES ASSUME ForwardInv, [SandboxNext]_vars PROVE ForwardInv'
  OBVIOUS
<1>1. SandboxInv /\ OwnersInv /\ SandboxTypes
  BY DEF ForwardInv, SandboxInv
<1>2. OwnersInv' /\ (IdsInv /\ ~crossed' => IdsInv')
  BY <1>1, StepForward, ReceivePollKeeps DEF Keeps
<1>3. crossed => crossed'
  BY CrossedStays DEF vars
<1> QED
  BY <1>1, <1>2, <1>3, SandboxPreserved DEF ForwardInv

\* A poll touches no handle but its own.
LEMMA PollAlone ==
  ASSUME SandboxTypes, NEW c \in All, ReceivePoll(c), NEW h \in Handles, Back(h)
  PROVE  call[c].h = h
<1>1. \A g \in Handles : g # call[c].h => handle'[g] = handle[g]
  BY DEF ReceivePoll, SandboxTypes, HandleTypes
<1>2. handle[h].session # None => handle[h].session.id \in Nat
  BY DEF SandboxTypes, ApiTypes, HandleTypes, HandleRecords, Sessions
<1> QED
  BY <1>1, <1>2 DEF Back

(* The session that a Sandbox object goes by (sandbox.ts) is replaced by an  *)
(* older one only when waitForStopped is answered for the session that the   *)
(* object had when it asked; whatever resumes, stops, updates and commands   *)
(* of other calls, and copies of the object, answer in between.              *)
THEOREM HandlesGoForward == SandboxSpec => SessionsForward
<1> DEFINE Forward == \A h \in Handles :
             handle[h].session # None /\ handle'[h].session # None
               /\ handle'[h].session.id < handle[h].session.id /\ ~crossed
             => \E c \in All : call[c].h = h /\ ReceivePoll(c)
<1>1. SandboxInit => ForwardInv
  BY SandboxInitial, ForwardInitial DEF ForwardInv
<1>2. ForwardInv /\ [SandboxNext]_vars => ForwardInv'
  BY ForwardPreserved
<1>3. ForwardInv /\ [SandboxNext]_vars => [Forward]_vars
  <2> SUFFICES ASSUME ForwardInv, [SandboxNext]_vars, NEW h \in Handles, Back(h), ~crossed
               PROVE  \E c \in All : call[c].h = h /\ ReceivePoll(c)
    BY DEF Back
  <2>1. SandboxInv /\ SandboxTypes /\ OwnersInv /\ IdsInv
    BY DEF ForwardInv, SandboxInv
  <2>2. ~Keeps
    BY <2>1 DEF Keeps
  <2>3. PICK c \in All : ReceivePoll(c)
    BY <2>1, <2>2, StepForward
  <2> QED
    BY <2>1, <2>3, PollAlone
<1> QED
  BY <1>1, <1>2, <1>3, PTL DEF SandboxSpec, SessionsForward

=============================================================================
