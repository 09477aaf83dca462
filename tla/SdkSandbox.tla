----------------------------- MODULE SdkSandbox -----------------------------
(***************************************************************************)
(* The Sandbox and Session objects of the SDK (src/sdk/src/sandbox.ts,     *)
(* session.ts) over the control API, for one sandbox name.                 *)
(*                                                                         *)
(* A program holds several handles (Sandbox objects) on the name and makes *)
(* asynchronous calls on them.  JavaScript runs a continuation to its next *)
(* await, so a step here is what happens between two awaits: a request     *)
(* names its session when it is made ("send"), the API answers it later    *)
(* ("wire"), and the caller goes on later still.                           *)
(*                                                                         *)
(* The API is taken at its contract: a handler is one step, but for a      *)
(* stop, which takes its time (what happens inside the handlers is         *)
(* SandboxLifecycle's matter).  An answer may be lost, or come as a 5xx of *)
(* what had its effect: withRetry, which every request passes through,     *)
(* sends the request again as it was (its schedule is SdkRequests's        *)
(* matter).                                                                *)
(***************************************************************************)
EXTENDS Naturals, FiniteSets

CONSTANTS
  Handles,    \* the Sandbox objects
  Calls,      \* the asynchronous calls of the program
  Menu,       \* Menu[c]: the operations call c may make
  Busy,       \* what the API says of a session being stopped: "gone", "stopping"
  Expired,    \* what it says of a resume without its snapshot
  MaxOthers,  \* stops by others, at most
  MaxFails,   \* failed stops, at most
  MaxCuts,    \* abort signals that fire and answers that are lost, at most
  None

ASSUME SdkSandboxAssumption ==
  /\ Handles \cap Calls = {}
  /\ None \notin Handles \cup Calls \cup {"other"}
  /\ None \notin [id : Nat, stopping : BOOLEAN]
  /\ Busy \subseteq {"gone", "stopping"} /\ Busy # {}
  /\ Expired \subseteq {"unavailable", "snapshotGone"} /\ Expired # {}
  /\ {MaxOthers, MaxFails, MaxCuts} \subseteq Nat

VARIABLES
  box,      \* what the API keeps for the name
  last,     \* the last session identifier it gave
  stopper,  \* who is inside stopRecord, or None
  crossed,  \* a stop was answered with another session than it named
  handle,   \* the Sandbox objects
  resume,   \* the resumePromise of every handle
  call,     \* the calls; the command an onResume hook runs on h is call h
  aborted,  \* the calls whose AbortSignal has fired
  hooks,    \* <<session, handle>> of every onResume that ran
  spent     \* stops by others, failed stops, lost answers

vars == <<box, last, stopper, crossed, handle, resume, call, aborted, hooks, spent>>

All == Calls \cup Handles

(***************************************************************************)
(* The API.                                                                *)
(***************************************************************************)

NoBox == [st |-> "none", id |-> 0, snap |-> FALSE, file |-> FALSE]

\* An answer without a record.
Says(code) == [code |-> code, id |-> 0, stopping |-> FALSE, resumed |-> FALSE]

\* An answer that carries the record b.
Shows(b, resumed) ==
  [code |-> "ok", id |-> b.id, stopping |-> b.st = "stopping", resumed |-> resumed]

\* The part of it a Session object is made of.
Seen(ans) == [id |-> ans.id, stopping |-> ans.stopping]

Keep(codes) == {[box |-> box, ans |-> Says(k)] : k \in codes}

\* authorizeSession: only the current session of the record is indexed.
Known(id) == box.st # "none" /\ box.id = id

\* authorizeRunningSession: why a request on session id is refused.
Refusals(id) ==
  IF ~Known(id) THEN {"missing"}
  ELSE IF box.st = "running" THEN {}
  ELSE IF box.st = "stopping" THEN Busy ELSE {"gone"}

\* getSandbox: resumes a stopped sandbox from its snapshot, when asked to.
GetSandbox(asked) ==
  IF box.st = "none" THEN Keep({"missing"})
  ELSE IF ~asked \/ box.st # "stopped" THEN {[box |-> box, ans |-> Shows(box, FALSE)]}
  ELSE IF ~box.snap THEN Keep(Expired)
  ELSE LET b == [box EXCEPT !.st = "running", !.id = last + 1]
       IN {[box |-> b, ans |-> Shows(b, TRUE)]}

CreateSandbox ==
  IF box.st # "none" THEN Keep({"conflict"})
  ELSE LET b == [st |-> "running", id |-> last + 1, snap |-> FALSE, file |-> FALSE]
       IN {[box |-> b, ans |-> Shows(b, FALSE)]}

DeleteSandbox ==
  IF box.st = "none" THEN Keep({"missing"}) ELSE {[box |-> NoBox, ans |-> Shows(box, FALSE)]}

\* What a request on a running session does; one relayed to the guest may
\* have its effect and be answered with an error all the same.
UseSession(req, id) ==
  IF Refusals(id) # {} THEN Keep(Refusals(id))
  ELSE CASE req = "use" -> {[box |-> box, ans |-> a] : a \in {Shows(box, FALSE), Says("failed")}}
         [] req = "write" ->
              {[box |-> [box EXCEPT !.file = TRUE], ans |-> a] :
                 a \in {Shows(box, FALSE), Says("failed")}}
         [] req = "read" -> IF box.file THEN {[box |-> box, ans |-> Shows(box, FALSE)]}
                                        ELSE Keep({"noFile"})
         [] req = "interactive" -> Keep({"failed"})
         [] OTHER -> {[box |-> box, ans |-> Shows(box, FALSE)]}

\* What the API may answer to request req on session id, with the record after it.
Outcomes(req, id) ==
  CASE req \in {"use", "read", "write", "session", "policy", "interactive"} -> UseSession(req, id)
    [] req = "getSession" -> IF Known(id) THEN {[box |-> box, ans |-> Shows(box, FALSE)]}
                                          ELSE Keep({"missing"})
    [] req = "get"    -> GetSandbox(TRUE)
    [] req = "peek"   -> GetSandbox(FALSE)
    [] req = "create" -> CreateSandbox
    [] req = "patch"  -> IF box.st = "none" THEN Keep({"missing"})
                                            ELSE {[box |-> box, ans |-> Shows(box, FALSE)]}
    [] req \in {"delete", "drop"} -> DeleteSandbox
    [] req = "clone"  -> Keep({"ok", "missing"})

-----------------------------------------------------------------------------
(***************************************************************************)
(* The calls.  op is what withResume is to do, req the request at hand, id *)
(* the session it names, obj whether its Session object is still the       *)
(* handle's; effects counts how often the guest carried the operation out, *)
(* lost how many of these times the answer did not get back.               *)
(***************************************************************************)

Idle == [kind |-> "none", h |-> None, pc |-> "idle", op |-> "none", req |-> "none", id |-> 0,
         obj |-> TRUE, retried |-> FALSE, effects |-> 0, lost |-> 0, ans |-> None,
         res |-> "none"]

\* A request is made with the session the handle has at this moment.
Ask(r, req, session) ==
  [r EXCEPT !.pc = "send", !.req = req, !.ans = None, !.obj = TRUE,
            !.id = IF session = None THEN 0 ELSE session.id]

\* What is left of a call that has ended: a value, null, or an error.
Done(res) ==
  [Idle EXCEPT !.pc = "done", !.res = IF res \in {"ok", "null"} THEN res ELSE "error"]

Joined(r) == [r EXCEPT !.pc = "join", !.ans = None]

\* withResume begins: it runs fn() at once when the handle has a session.
Begin(r, op, session) ==
  LET t == [r EXCEPT !.op = op, !.retried = FALSE, !.effects = 0, !.lost = 0]
  IN IF session = None THEN Joined(t) ELSE Ask(t, op, session)

\* What getOrCreate's catch clause sees: the get, its hook included.
Tried(r) == r.kind = "getOrCreate" /\ (r.req = "get" \/ r.op = "use")

\* The operation of call r ends with res.
After(r, res) ==
  CASE Tried(r) /\ res = "missing"      -> Ask([r EXCEPT !.op = "none"], "create", None)
    [] Tried(r) /\ res = "snapshotGone" -> Ask([r EXCEPT !.op = "none"], "drop", None)
    [] OTHER                            -> Done(res)

NoResume == [pc |-> "none", owner |-> None, ans |-> None]

\* resume(): the first caller starts the request, with its signal; the others share it.
ResumeBy(c, h) ==
  IF resume[h].pc = "none"
  THEN [resume EXCEPT ![h] = [pc |-> "send", owner |-> c, ans |-> None]]
  ELSE resume

Joiners(h) == {j \in All : call[j].pc = "join" /\ call[j].h = h}

\* resumePromise settles and is cleared; every call that awaits it goes on
\* with its operation on the session of the handle, or fails with it.
Settled(calls, h, session, res) ==
  [j \in All |-> IF j \notin Joiners(h) THEN calls[j]
                 ELSE IF res = "ok" THEN Ask(calls[j], calls[j].op, session)
                 ELSE After(calls[j], res)]

\* The requests that write their answer into a Session object.
Refreshing == {"session", "snapshot", "stop", "policy"}

\* Handle h gets a new Session object: answers under way go to the old one.
Forget(calls, h) ==
  [d \in All |-> IF calls[d].h = h /\ calls[d].pc \in {"send", "wire", "queued", "stopping"}
                    /\ calls[d].req \in Refreshing
                 THEN [calls[d] EXCEPT !.obj = FALSE] ELSE calls[d]]

\* The calls once a resume of h has its answer.
Renewed(h, ans) == IF ans.code = "ok" THEN Forget(call, h) ELSE call

\* mutant: the answer goes to the Session object the handle has by now
RefreshCurrent(c) == [handle EXCEPT ![call[c].h].session = Seen(call[c].ans)]

\* this.session = toSandboxSnapshot(...), in the Session object of call c.
Refresh(c) ==
  LET h == call[c].h
  IN IF call[c].obj
     THEN [handle EXCEPT ![h].session = Seen(call[c].ans)] ELSE handle

\* The program holds the Sandbox object h: it was there from the start, or the
\* static method that made it has returned it.
Held(h) ==
  /\ handle[h].made
  /\ handle[h].by # None =>
       call[handle[h].by].pc = "done" /\ call[handle[h].by].res = "ok"

NoHandle == [made |-> FALSE, by |-> None, hook |-> FALSE, session |-> None]

First == CHOOSE h \in Handles : TRUE

\* The program starts with one Sandbox object, which may have come without a
\* session from another workflow step.
SandboxInit ==
  /\ box = [st |-> "running", id |-> 1, snap |-> FALSE, file |-> TRUE]
  /\ last = 1
  /\ stopper = None /\ crossed = FALSE
  /\ \E s \in {None, [id |-> 1, stopping |-> FALSE]}, k \in BOOLEAN :
       /\ s = None => ~k
       /\ handle = [h \in Handles |->
                      IF h = First THEN [NoHandle EXCEPT !.made = TRUE, !.hook = k, !.session = s]
                                   ELSE NoHandle]
  /\ resume = [h \in Handles |-> NoResume]
  /\ call = [c \in All |-> Idle]
  /\ aborted = {} /\ hooks = {}
  /\ spent = [others |-> 0, fails |-> 0, lost |-> 0]

api == <<box, last, stopper, crossed>>

Cuts == Cardinality(aborted) + spent.lost

-----------------------------------------------------------------------------
(***************************************************************************)
(* The operations of the program.                                          *)
(***************************************************************************)

Fresh(c, kind, h) == call[c].pc = "idle" /\ kind \in Menu[c] /\ Held(h)

\* An operation that goes through withResume: resume first when the handle
\* has no session.
WithResume(c, h, kind, op) ==
  /\ Fresh(c, kind, h)
  /\ call' = [call EXCEPT ![c] = Begin([Idle EXCEPT !.kind = kind, !.h = h], op, handle[h].session)]
  /\ resume' = IF handle[h].session = None THEN ResumeBy(c, h) ELSE resume
  /\ UNCHANGED <<api, handle, aborted, hooks, spent>>

RunCommand(c, h)          == WithResume(c, h, "run", "use")
GetCommand(c, h)          == WithResume(c, h, "run", "use")
MkDir(c, h)               == WithResume(c, h, "run", "use")
OpenInteractive(c, h)     == WithResume(c, h, "interactive", "interactive")
ReadFile(c, h)            == WithResume(c, h, "read", "read")
ReadFileToBuffer(c, h)    == WithResume(c, h, "read", "read")
DownloadFile(c, h)        == WithResume(c, h, "read", "read")
WriteFiles(c, h)          == WithResume(c, h, "write", "write")
UpdateNetworkPolicy(c, h) == WithResume(c, h, "session", "session")
ExtendTimeout(c, h)       == WithResume(c, h, "session", "session")
TakeSnapshot(c, h)        == WithResume(c, h, "snapshot", "snapshot")

\* An operation that makes its request at once.
Direct(c, h, kind, req) ==
  /\ Fresh(c, kind, h)
  /\ call' = [call EXCEPT ![c] = Ask([Idle EXCEPT !.kind = kind, !.h = h], req, handle[h].session)]
  /\ UNCHANGED <<api, handle, resume, aborted, hooks, spent>>

\* stop() does not resume: without a session it throws.
Stop(c, h)   == handle[h].session # None /\ Direct(c, h, "stop", "stop")
Update(c, h) == Direct(c, h, "update", "patch")
Delete(c, h) == Direct(c, h, "delete", "delete")

\* A static method: it will make the Sandbox object h, with or without an
\* onResume hook.
Static(c, h, kind, req) ==
  /\ call[c].pc = "idle" /\ kind \in Menu[c] /\ ~handle[h].made
  /\ \E k \in BOOLEAN :
       /\ handle' = [handle EXCEPT ![h] = [NoHandle EXCEPT !.made = TRUE, !.by = c, !.hook = k]]
       /\ call' = [call EXCEPT ![c] = Ask([Idle EXCEPT !.kind = kind, !.h = h], req, None)]
  /\ UNCHANGED <<api, resume, aborted, hooks, spent>>

Create(c, h)      == Static(c, h, "create", "create")
Get(c, h)         == Static(c, h, "get", "get")
GetOrCreate(c, h) == Static(c, h, "getOrCreate", "get")

\* The fork has a name of its own: its Sandbox object is not one of ours.
Fork(c) ==
  /\ call[c].pc = "idle" /\ "fork" \in Menu[c]
  /\ call' = [call EXCEPT ![c] = Ask([Idle EXCEPT !.kind = "fork"], "peek", None)]
  /\ UNCHANGED <<api, handle, resume, aborted, hooks, spent>>

\* Serialized in one workflow step and deserialized in another: the session
\* comes along, the hook does not.
Deserialize(h, g) ==
  /\ Held(h) /\ ~handle[g].made
  /\ handle' = [handle EXCEPT ![g] = [NoHandle EXCEPT !.made = TRUE, !.session = handle[h].session]]
  /\ UNCHANGED <<api, resume, call, aborted, hooks, spent>>

\* An AbortSignal fires.
Abort(c) ==
  /\ call[c].pc \notin {"idle", "done"} /\ c \notin aborted
  /\ Cuts < MaxCuts
  /\ aborted' = aborted \cup {c}
  /\ UNCHANGED <<api, handle, resume, call, hooks, spent>>

-----------------------------------------------------------------------------
(***************************************************************************)
(* The API answers.                                                        *)
(***************************************************************************)

\* A request has had its effect if it was carried out, whatever the answer says.
HasEffect(req, code) == req \in {"use", "write", "session"} /\ code \in {"ok", "failed"}

\* A delete waits for a stop under way (what happens when it does not is
\* SandboxLifecycle's matter).
Serve(c) ==
  /\ call[c].pc = "send" /\ call[c].req \notin {"stop", "snapshot"} /\ c \notin aborted
  /\ call[c].req \in {"delete", "drop"} =>
       stopper = None /\ \A d \in All : call[d].pc # "queued"
  /\ \E o \in Outcomes(call[c].req, call[c].id) :
       /\ box' = o.box
       /\ last' = IF o.box.id > last THEN o.box.id ELSE last
       /\ call' = [call EXCEPT ![c].pc = "wire", ![c].ans = o.ans,
                               ![c].effects = IF HasEffect(call[c].req, o.ans.code)
                                              THEN @ + 1 ELSE @]
  /\ UNCHANGED <<stopper, crossed, handle, resume, aborted, hooks, spent>>

\* What withRetry makes of answered request r when the answer is lost, or is a
\* 5xx: the same request again, or, after the last attempt, an error.
Unanswered(r) ==
  {[r EXCEPT !.pc = "send", !.ans = None, !.lost = r.effects],
   [r EXCEPT !.ans = Says("failed")]}

LoseAnswer(c) ==
  /\ call[c].pc = "wire" /\ c \notin aborted /\ Cuts < MaxCuts
  /\ spent' = [spent EXCEPT !.lost = @ + 1]
  /\ \E r \in Unanswered(call[c]) : call' = [call EXCEPT ![c] = r]
  /\ UNCHANGED <<api, handle, resume, aborted, hooks>>

\* stopSession and snapshotSession: the session is looked up, then stopRecord
\* waits for its lock.
ServeStop(c) ==
  /\ call[c].pc = "send" /\ call[c].req \in {"stop", "snapshot"} /\ c \notin aborted
  /\ call' = IF Known(call[c].id)
             THEN [call EXCEPT ![c].pc = "queued"]
             ELSE [call EXCEPT ![c].pc = "wire", ![c].ans = Says("missing")]
  /\ UNCHANGED <<api, handle, resume, aborted, hooks, spent>>

\* With the lock: a record that is not running is answered as it is, and a
\* snapshot request then has no snapshot to show.
BeginStop(c) ==
  /\ call[c].pc = "queued" /\ stopper = None /\ c \notin aborted
  /\ IF box.st = "running"
     THEN /\ box' = [box EXCEPT !.st = "stopping"]
          /\ stopper' = c
          /\ call' = [call EXCEPT ![c].pc = "stopping"]
     ELSE /\ call' = [call EXCEPT ![c].pc = "wire",
                        ![c].ans = IF call[c].req = "stop" THEN Shows(box, FALSE)
                                                           ELSE Says("invalid")]
          /\ UNCHANGED <<box, stopper>>
  /\ crossed' = (crossed \/ box.id # call[c].id)
  /\ UNCHANGED <<last, handle, resume, aborted, hooks, spent>>

\* Someone else stops the sandbox, or its time is up.
OtherStop ==
  /\ box.st = "running" /\ stopper = None /\ spent.others < MaxOthers
  /\ box' = [box EXCEPT !.st = "stopping"]
  /\ stopper' = "other"
  /\ spent' = [spent EXCEPT !.others = @ + 1]
  /\ UNCHANGED <<last, crossed, handle, resume, call, aborted, hooks>>

\* The runtime has stopped the VM and taken the snapshot, or has failed to:
\* the record then stays "stopping".
EndStop ==
  /\ stopper # None
  /\ \E ok \in BOOLEAN :
       /\ ok \/ spent.fails < MaxFails
       /\ spent' = IF ok THEN spent ELSE [spent EXCEPT !.fails = @ + 1]
       /\ box' = IF ok THEN [box EXCEPT !.st = "stopped", !.snap = TRUE] ELSE box
       /\ call' = IF stopper \in All /\ call[stopper].pc = "stopping"
                  THEN [call EXCEPT ![stopper].pc = "wire",
                          ![stopper].ans = IF ok THEN Shows(box', FALSE) ELSE Says("failed")]
                  ELSE call
  /\ stopper' = None
  /\ UNCHANGED <<last, crossed, handle, resume, aborted, hooks>>

\* The snapshot of the stopped sandbox expires.
Expire ==
  /\ box.st = "stopped" /\ box.snap
  /\ box' = [box EXCEPT !.snap = FALSE]
  /\ UNCHANGED <<last, stopper, crossed, handle, resume, call, aborted, hooks, spent>>

-----------------------------------------------------------------------------
(***************************************************************************)
(* withResume and the session operations go on with an answer.             *)
(***************************************************************************)

Receiving(c, reqs) == call[c].pc = "wire" /\ call[c].req \in reqs /\ c \notin aborted

Resumable == {"use", "read", "write", "session", "snapshot", "interactive"}

\* mutant: any error is tried again
RetriesErrors(r) == ~r.retried /\ r.ans.code \in {"gone", "snapshotGone", "stopping", "failed"}

\* withResume retries a 410, whatever its code, and a 422, once.
Retries(r) == ~r.retried /\ r.ans.code \in {"gone", "snapshotGone", "stopping"}

\* fn() has its answer: readFile takes a 404 for a missing file, and whatever
\* else withResume does not retry is the caller's.
ReturnAnswer(c) ==
  /\ Receiving(c, Resumable) /\ ~Retries(call[c])
  /\ call' = [call EXCEPT ![c] =
                After(@, IF @.req = "read" /\ @.ans.code \in {"missing", "noFile"}
                         THEN "null" ELSE @.ans.code)]
  /\ handle' = IF call[c].req \in Refreshing /\ call[c].ans.code = "ok" THEN Refresh(c) ELSE handle
  /\ UNCHANGED <<api, resume, aborted, hooks, spent>>

\* 410: resume, and try once more.
ResumeStopped(c) ==
  /\ Receiving(c, Resumable) /\ Retries(call[c]) /\ call[c].ans.code # "stopping"
  /\ call' = [call EXCEPT ![c] = Joined([@ EXCEPT !.retried = TRUE])]
  /\ resume' = ResumeBy(c, call[c].h)
  /\ UNCHANGED <<api, handle, aborted, hooks, spent>>

\* 422: waitForStopAndResume polls while the handle's own copy of the session
\* is being stopped, and resumes.
WaitForStop(c) ==
  LET h == call[c].h IN
  /\ Receiving(c, Resumable) /\ Retries(call[c]) /\ call[c].ans.code = "stopping"
  /\ IF handle[h].session.stopping
     THEN /\ call' = [call EXCEPT ![c].pc = "poll", ![c].ans = None, ![c].retried = TRUE]
          /\ UNCHANGED resume
     ELSE /\ call' = [call EXCEPT ![c] = Joined([@ EXCEPT !.retried = TRUE])]
          /\ resume' = ResumeBy(c, h)
  /\ UNCHANGED <<api, handle, aborted, hooks, spent>>

\* 500 ms later the session the handle has by now is asked for.
Poll(c) ==
  /\ call[c].pc = "poll" /\ c \notin aborted
  /\ call' = [call EXCEPT ![c] = Ask(@, "getSession", handle[@.h].session)]
  /\ UNCHANGED <<api, handle, resume, aborted, hooks, spent>>

\* Its answer becomes the session of the handle, whatever happened to the
\* handle meanwhile.
ReceivePoll(c) ==
  LET h == call[c].h IN
  /\ Receiving(c, {"getSession"})
  /\ IF call[c].ans.code # "ok"
     THEN /\ call' = [call EXCEPT ![c] = After(@, @.ans.code)]
          /\ UNCHANGED <<handle, resume>>
     ELSE /\ handle' = [handle EXCEPT ![h].session = Seen(call[c].ans)]
          /\ call' = Forget([call EXCEPT ![c] = IF @.ans.stopping
                                                THEN [@ EXCEPT !.pc = "poll", !.ans = None]
                                                ELSE Joined(@)], h)
          /\ resume' = IF call[c].ans.stopping THEN resume ELSE ResumeBy(c, h)
  /\ UNCHANGED <<api, aborted, hooks, spent>>

\* A signal that fires rejects whatever its call awaits, but for a resume.
Reject(c) ==
  /\ c \in aborted /\ call[c].pc \in {"send", "wire", "poll", "queued", "stopping"}
  /\ call' = [call EXCEPT ![c] = Done("abort")]
  /\ UNCHANGED <<api, handle, resume, aborted, hooks, spent>>

-----------------------------------------------------------------------------
(***************************************************************************)
(* doResume.                                                               *)
(***************************************************************************)

ServeResume(h) ==
  /\ resume[h].pc = "send" /\ resume[h].owner \notin aborted
  /\ \E o \in GetSandbox(TRUE) :
       /\ box' = o.box
       /\ last' = IF o.box.id > last THEN o.box.id ELSE last
       /\ resume' = [resume EXCEPT ![h].pc = "wire", ![h].ans = o.ans]
  /\ UNCHANGED <<stopper, crossed, handle, call, aborted, hooks, spent>>

\* The answer to a resume is lost: resumed by then, the session is found running
\* by the next attempt, and no hook runs for it.
LoseResume(h) ==
  /\ resume[h].pc = "wire" /\ resume[h].owner \notin aborted /\ Cuts < MaxCuts
  /\ spent' = [spent EXCEPT !.lost = @ + 1]
  /\ \/ resume' = [resume EXCEPT ![h].pc = "send", ![h].ans = None]
     \/ resume' = [resume EXCEPT ![h].ans = Says("failed")]
  /\ UNCHANGED <<api, handle, call, aborted, hooks>>

\* mutant: the hook runs whenever the request has found a running session
ReceiveResumeHook(h) ==
  LET ans == resume[h].ans
      session == Seen(ans)
  IN /\ resume[h].pc = "wire" /\ resume[h].owner \notin aborted
     /\ handle' = IF ans.code = "ok" THEN [handle EXCEPT ![h].session = session] ELSE handle
     /\ IF ans.code = "ok" /\ handle[h].hook
        THEN /\ resume' = [resume EXCEPT ![h].pc = "hook", ![h].ans = None]
             /\ hooks' = hooks \cup {<<ans.id, h>>}
             /\ call' = [Renewed(h, ans) EXCEPT ![h] =
                          Begin([Idle EXCEPT !.kind = "hook", !.h = h], "use", session)]
        ELSE /\ resume' = [resume EXCEPT ![h] = NoResume]
             /\ call' = Settled(Renewed(h, ans), h, session, ans.code)
             /\ UNCHANGED hooks
     /\ UNCHANGED <<api, aborted, spent>>

\* mutant: the hook is not awaited
ReceiveResumeEarly(h) ==
  LET ans == resume[h].ans
      session == Seen(ans)
      settled == Settled(Renewed(h, ans), h, session, ans.code)
      hooked == ans.code = "ok" /\ handle[h].hook /\ ans.resumed
  IN /\ resume[h].pc = "wire" /\ resume[h].owner \notin aborted
     /\ handle' = IF ans.code = "ok" THEN [handle EXCEPT ![h].session = session] ELSE handle
     /\ resume' = [resume EXCEPT ![h] = IF hooked THEN [@ EXCEPT !.pc = "hook", !.ans = None]
                                                  ELSE NoResume]
     /\ hooks' = IF hooked THEN hooks \cup {<<ans.id, h>>} ELSE hooks
     /\ call' = IF hooked
                THEN [settled EXCEPT ![h] =
                        Begin([Idle EXCEPT !.kind = "hook", !.h = h], "use", session)]
                ELSE settled
     /\ UNCHANGED <<api, aborted, spent>>

\* The handle has its new session; a hook runs when this request resumed it.
ReceiveResume(h) ==
  LET ans == resume[h].ans
      session == Seen(ans)
  IN /\ resume[h].pc = "wire" /\ resume[h].owner \notin aborted
     /\ handle' = IF ans.code = "ok" THEN [handle EXCEPT ![h].session = session] ELSE handle
     /\ IF ans.code = "ok" /\ handle[h].hook /\ ans.resumed
        THEN /\ resume' = [resume EXCEPT ![h].pc = "hook", ![h].ans = None]
             /\ hooks' = hooks \cup {<<ans.id, h>>}
             /\ call' = [Renewed(h, ans) EXCEPT ![h] =
                          Begin([Idle EXCEPT !.kind = "hook", !.h = h], "use", session)]
        ELSE /\ resume' = [resume EXCEPT ![h] = NoResume]
             /\ call' = Settled(Renewed(h, ans), h, session, ans.code)
             /\ UNCHANGED hooks
     /\ UNCHANGED <<api, aborted, spent>>

\* The hook has run its command.
FinishHook(h) ==
  /\ resume[h].pc = "hook" /\ call[h].pc = "done"
  /\ resume' = [resume EXCEPT ![h] = NoResume]
  /\ call' = [Settled(call, h, handle[h].session, call[h].res) EXCEPT ![h] = Idle]
  /\ UNCHANGED <<api, handle, aborted, hooks, spent>>

\* mutant: only the call whose signal has fired hears of it
ResumeAbortedAlone(h) ==
  /\ resume[h].pc \in {"send", "wire"} /\ resume[h].owner \in aborted
  /\ resume' = [resume EXCEPT ![h] = NoResume]
  /\ call' = [call EXCEPT ![resume[h].owner] = After(@, "abort")]
  /\ UNCHANGED <<api, handle, aborted, hooks, spent>>

\* The request carries the signal of the call that began it.
ResumeAborted(h) ==
  /\ resume[h].pc \in {"send", "wire"} /\ resume[h].owner \in aborted
  /\ resume' = [resume EXCEPT ![h] = NoResume]
  /\ call' = Settled(call, h, handle[h].session, "abort")
  /\ UNCHANGED <<api, handle, aborted, hooks, spent>>

-----------------------------------------------------------------------------
(***************************************************************************)
(* The other operations go on with an answer.                              *)
(***************************************************************************)

\* stop() takes the session it is answered with.
ReceiveStop(c) ==
  /\ Receiving(c, {"stop"})
  /\ call' = [call EXCEPT ![c] = Done(@.ans.code)]
  /\ handle' = IF call[c].ans.code = "ok" THEN Refresh(c) ELSE handle
  /\ UNCHANGED <<api, resume, aborted, hooks, spent>>

\* update(): with a network policy, the session the handle has is asked next.
ReceivePatch(c) ==
  LET session == handle[call[c].h].session IN
  /\ Receiving(c, {"patch"})
  /\ \/ /\ call[c].ans.code = "ok" /\ session # None
        /\ call' = [call EXCEPT ![c] = Ask(@, "policy", session)]
     \/ call' = [call EXCEPT ![c] = Done(@.ans.code)]
  /\ UNCHANGED <<api, handle, resume, aborted, hooks, spent>>

\* A session that is stopped or being stopped has no policy to change.
ReceivePolicy(c) ==
  /\ Receiving(c, {"policy"})
  /\ call' = [call EXCEPT ![c] = Done(IF @.ans.code \in {"gone", "stopping"}
                                         THEN "ok" ELSE @.ans.code)]
  /\ handle' = IF call[c].ans.code = "ok" THEN Refresh(c) ELSE handle
  /\ UNCHANGED <<api, resume, aborted, hooks, spent>>

ReceiveDelete(c) ==
  /\ Receiving(c, {"delete"})
  /\ call' = [call EXCEPT ![c] = Done(@.ans.code)]
  /\ UNCHANGED <<api, handle, resume, aborted, hooks, spent>>

\* The Sandbox object is made with the session of the answer; the hook of a
\* get that resumed runs before get returns.
ReceiveGet(c) ==
  LET h == call[c].h
      ans == call[c].ans
      session == Seen(ans)
      hooked == ans.code = "ok" /\ handle[h].hook /\ ans.resumed
  IN /\ Receiving(c, {"get"})
     /\ handle' = IF ans.code = "ok" THEN [handle EXCEPT ![h].session = session] ELSE handle
     /\ call' = [call EXCEPT ![c] = IF hooked THEN Begin(@, "use", session)
                                              ELSE After(@, ans.code)]
     /\ hooks' = IF hooked THEN hooks \cup {<<ans.id, h>>} ELSE hooks
     /\ UNCHANGED <<api, resume, aborted, spent>>

\* getOrCreate tolerates that the stale sandbox is gone already.
ReceiveDrop(c) ==
  /\ Receiving(c, {"drop"})
  /\ call' = [call EXCEPT ![c] = IF @.ans.code \in {"ok", "missing"}
                                 THEN Ask(@, "create", None) ELSE Done(@.ans.code)]
  /\ UNCHANGED <<api, handle, resume, aborted, hooks, spent>>

\* onCreate, if there is one, seeds a file before getOrCreate returns.
ReceiveCreate(c) ==
  LET h == call[c].h
      ans == call[c].ans
      session == Seen(ans)
  IN /\ Receiving(c, {"create"})
     /\ handle' = IF ans.code = "ok" THEN [handle EXCEPT ![h].session = session] ELSE handle
     /\ \/ call' = [call EXCEPT ![c] = Done(ans.code)]
        \/ /\ ans.code = "ok" /\ call[c].kind = "getOrCreate"
           /\ call' = [call EXCEPT ![c] = Begin(@, "write", session)]
     /\ UNCHANGED <<api, resume, aborted, hooks, spent>>

\* fork(): what the source was when it was looked at is what is cloned.
ReceivePeek(c) ==
  /\ Receiving(c, {"peek"})
  /\ call' = [call EXCEPT ![c] = IF @.ans.code = "ok" THEN Ask(@, "clone", None)
                                                      ELSE Done(@.ans.code)]
  /\ UNCHANGED <<api, handle, resume, aborted, hooks, spent>>

ReceiveClone(c) ==
  /\ Receiving(c, {"clone"})
  /\ call' = [call EXCEPT ![c] = Done(@.ans.code)]
  /\ UNCHANGED <<api, handle, resume, aborted, hooks, spent>>

-----------------------------------------------------------------------------

Start(c) ==
  \/ \E h \in Handles :
       \/ RunCommand(c, h) \/ GetCommand(c, h) \/ MkDir(c, h) \/ OpenInteractive(c, h)
       \/ ReadFile(c, h) \/ ReadFileToBuffer(c, h) \/ DownloadFile(c, h) \/ WriteFiles(c, h)
       \/ UpdateNetworkPolicy(c, h) \/ ExtendTimeout(c, h) \/ TakeSnapshot(c, h)
       \/ Stop(c, h) \/ Update(c, h) \/ Delete(c, h)
       \/ Create(c, h) \/ Get(c, h) \/ GetOrCreate(c, h)
  \/ Fork(c)
  \/ Abort(c)

\* What goes on by itself once a call is made.
Progress(c) ==
  \/ Serve(c) \/ ServeStop(c) \/ BeginStop(c)
  \/ ReturnAnswer(c) \/ ResumeStopped(c) \/ WaitForStop(c) \/ Poll(c) \/ ReceivePoll(c)
  \/ ReceiveStop(c) \/ ReceivePatch(c) \/ ReceivePolicy(c) \/ ReceiveDelete(c)
  \/ ReceiveGet(c) \/ ReceiveDrop(c) \/ ReceiveCreate(c) \/ ReceivePeek(c) \/ ReceiveClone(c)
  \/ Reject(c)

ResumeStep(h) == ServeResume(h) \/ ReceiveResume(h) \/ FinishHook(h) \/ ResumeAborted(h)

SandboxNext ==
  \/ \E c \in Calls : Start(c)
  \/ \E c \in All : Progress(c)
  \/ \E h \in Handles : ResumeStep(h)
  \/ \E c \in All : LoseAnswer(c)
  \/ \E h \in Handles : LoseResume(h)
  \/ \E h, g \in Handles : Deserialize(h, g)
  \/ OtherStop \/ EndStop \/ Expire

\* Requests are answered, continuations are run, and a stop ends; nobody has
\* to make a call, abort one, lose an answer or stop the sandbox.
SandboxFairness ==
  /\ \A c \in All : WF_vars(Progress(c))
  /\ \A h \in Handles : WF_vars(ResumeStep(h))
  /\ WF_vars(EndStop)

SandboxSpec == SandboxInit /\ [][SandboxNext]_vars /\ SandboxFairness

=============================================================================
