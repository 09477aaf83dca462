----------------------------- MODULE SdkRequests -----------------------------
(***************************************************************************)
(* One request of the API client and its retries: withRetry                *)
(* (api-client/with-retry.ts), request and parse (base-client.ts), and the *)
(* endpoints of APIClient (api-client.ts) that are answered with a JSON    *)
(* document.                                                               *)
(*                                                                         *)
(* A request may have its effect and be answered with a 5xx, or its answer *)
(* may be lost: the client then sends it again without knowing.  What an   *)
(* endpoint does to the named thing it is about is one of                  *)
(*   "read"    nothing                                                     *)
(*   "make"    makes it; a conflict when it is there                       *)
(*   "dir"     makes a directory; any error when it is there (the API      *)
(*             answers 502 whatever the guest said)                        *)
(*   "remove"  removes it; missing when it is not there                    *)
(*   "set"     the same effect however often it is done                    *)
(*   "add"     one more effect each time (a command started, a timeout     *)
(*             extended)                                                   *)
(***************************************************************************)
EXTENDS Naturals, Sequences, FiniteSets

CONSTANTS
  Requests,    \* the requests the program makes
  RequestMenu, \* RequestMenu[r]: the effects request r may be for
  MaxRetries,  \* retries: 5 in the code
  Signals      \* the requests made with an AbortSignal

ASSUME SdkRequestsAssumption == MaxRetries \in Nat /\ Signals \subseteq Requests

VARIABLES
  req,   \* the requests
  there, \* the named thing exists
  cut    \* the requests whose signal has fired

requestVars == <<req, there, cut>>

NoRequest == [pc |-> "idle", effect |-> "none", errors |-> <<>>, effects |-> 0,
              answer |-> "none", res |-> "none"]

RequestsInit ==
  /\ req = [r \in Requests |-> NoRequest]
  /\ there = FALSE
  /\ cut = {}

Ended(q, res) == [q EXCEPT !.pc = "done", !.answer = "none", !.res = res]

-----------------------------------------------------------------------------
(***************************************************************************)
(* The endpoints.                                                          *)
(***************************************************************************)

\* request(): the token is seen to, and the first attempt is due.
Request(r, effect) ==
  /\ req[r].pc = "idle" /\ effect \in RequestMenu[r]
  /\ req' = [req EXCEPT ![r].pc = "attempt", ![r].effect = effect]
  /\ UNCHANGED <<there, cut>>

ClientGetSession(r)          == Request(r, "read")
ClientGetCommand(r)          == Request(r, "read")
ClientGetSnapshot(r)         == Request(r, "read")
ClientGetSandbox(r)          == Request(r, "read")
ClientListSandboxes(r)       == Request(r, "read")
ClientListSessions(r)        == Request(r, "read")
ClientListSnapshots(r)       == Request(r, "read")
ClientGetSnapshotTree(r)     == Request(r, "read")
ClientCreateSandbox(r)       == Request(r, "make")
ClientDeleteSandbox(r)       == Request(r, "remove")
ClientDeleteSnapshot(r)      == Request(r, "remove")
ClientUpdateSandbox(r)       == Request(r, "set")
ClientUpdateNetworkPolicy(r) == Request(r, "set")
ClientStopSession(r)         == Request(r, "set")
ClientMkDir(r)               == Request(r, "dir")
ClientWriteFiles(r)          == Request(r, "set")
ClientRunDetached(r)         == Request(r, "add")
ClientOpenInteractive(r)     == Request(r, "add")
ClientKillCommand(r)         == Request(r, "add")
ClientExtendTimeout(r)       == Request(r, "add")
ClientCreateSnapshot(r)      == Request(r, "add")

-----------------------------------------------------------------------------
(***************************************************************************)
(* The API, behind a network and a rate limit.                             *)
(***************************************************************************)

\* Whether the request can be carried out, and what it says if not.
Refused(effect) ==
  CASE effect = "make" /\ there    -> {"conflict"}
    [] effect = "dir" /\ there     -> {"server"}
    [] effect = "remove" /\ ~there -> {"missing"}
    [] OTHER                       -> {}

Thing(effect) ==
  CASE effect \in {"make", "dir"} -> TRUE [] effect = "remove" -> FALSE [] OTHER -> there

\* The answers that tell nothing about the effect; "busy" is a 429 with a
\* Retry-After the client is ready to wait for, "limited" one that is too long.
Unclear == {"server", "lost"}
Denied  == {"busy", "limited"}

\* The request is carried out, or not, and answered.
Answer(r) ==
  LET q == req[r] IN
  /\ q.pc = "wire"
  /\ \/ /\ Refused(q.effect) = {}
        /\ there' = Thing(q.effect)
        /\ \E a \in {"ok", "garbled"} \cup Unclear :
             req' = [req EXCEPT ![r].pc = "answered", ![r].answer = a,
                                ![r].effects = IF q.effect = "read" THEN 0 ELSE @ + 1]
     \/ /\ \E a \in Refused(q.effect) \cup Unclear \cup Denied :
             req' = [req EXCEPT ![r].pc = "answered", ![r].answer = a]
        /\ UNCHANGED there
  /\ UNCHANGED cut

\* A signal fires.
CutRequest(r) ==
  /\ r \in Signals \ cut /\ req[r].pc \notin {"idle", "done"}
  /\ cut' = cut \cup {r}
  /\ UNCHANGED <<req, there>>

-----------------------------------------------------------------------------
(***************************************************************************)
(* withRetry.                                                              *)
(***************************************************************************)

\* An attempt: fetch is called, unless the signal has fired.
Attempt(r) ==
  /\ req[r].pc = "attempt"
  /\ req' = [req EXCEPT ![r] = IF r \in cut THEN Ended(@, "abort") ELSE [@ EXCEPT !.pc = "wire"]]
  /\ UNCHANGED <<there, cut>>

\* fetch rejects with the reason of the signal: bail.
Bail(r) ==
  /\ r \in cut /\ req[r].pc \in {"wire", "answered"}
  /\ req' = [req EXCEPT ![r] = Ended(@, "abort")]
  /\ UNCHANGED <<there, cut>>

Retryable == Unclear \cup {"busy"}

\* The error async-retry rejects with: the one it has met most often, the later
\* of two (each is counted up to the attempt it came from).
Met(s, i) == Cardinality({j \in 1..i : s[j] = s[i]})

MainErrors(s) ==
  {s[i] : i \in {i \in DOMAIN s :
     \A j \in DOMAIN s : Met(s, j) < Met(s, i) \/ (Met(s, j) = Met(s, i) /\ j <= i)}}

\* A response that is not to be retried is parsed.
TakeAnswer(r) ==
  /\ req[r].pc = "answered" /\ r \notin cut /\ req[r].answer \notin Retryable
  /\ req' = [req EXCEPT ![r].pc = "parse"]
  /\ UNCHANGED <<there, cut>>

\* An error is retried after a pause, MaxRetries times; then the main error's
\* response is what the caller parses, or the error is thrown.
RetryLater(r) ==
  LET q == req[r]
      errors == Append(q.errors, q.answer)
  IN
  /\ q.pc = "answered" /\ r \notin cut /\ q.answer \in Retryable
  /\ \E main \in MainErrors(errors) :
       req' = [req EXCEPT ![r] =
         LET t == [q EXCEPT !.errors = errors] IN
         CASE Len(errors) <= MaxRetries -> [t EXCEPT !.pc = "pause", !.answer = "none"]
           [] Len(errors) > MaxRetries /\ main = "lost" -> Ended(t, "lost")
           [] OTHER -> [t EXCEPT !.pc = "parse", !.answer = main]]
  /\ UNCHANGED <<there, cut>>

\* The pause is over; a signal that fires meanwhile does not shorten it.
EndPause(r) ==
  /\ req[r].pc = "pause"
  /\ req' = [req EXCEPT ![r].pc = "attempt"]
  /\ UNCHANGED <<there, cut>>

\* mutant: the status is not looked at
ParseAnything(r) ==
  /\ req[r].pc = "parse"
  /\ req' = [req EXCEPT ![r] = Ended(@, IF @.answer = "garbled" THEN "invalid" ELSE "ok")]
  /\ UNCHANGED <<there, cut>>

\* parseOrThrow: the body is read (which a signal can still break), parsed,
\* and validated; a status that is not ok is an APIError.
Parse(r) ==
  /\ req[r].pc = "parse"
  /\ \/ req' = [req EXCEPT ![r] = Ended(@, IF @.answer = "garbled" THEN "invalid" ELSE @.answer)]
     \/ r \in cut /\ req' = [req EXCEPT ![r] = Ended(@, "unreadable")]
  /\ UNCHANGED <<there, cut>>

-----------------------------------------------------------------------------

StartRequest(r) ==
  \/ ClientGetSession(r) \/ ClientGetCommand(r) \/ ClientGetSnapshot(r) \/ ClientGetSandbox(r)
  \/ ClientListSandboxes(r) \/ ClientListSessions(r) \/ ClientListSnapshots(r)
  \/ ClientGetSnapshotTree(r)
  \/ ClientCreateSandbox(r) \/ ClientDeleteSandbox(r) \/ ClientDeleteSnapshot(r)
  \/ ClientUpdateSandbox(r) \/ ClientUpdateNetworkPolicy(r) \/ ClientStopSession(r)
  \/ ClientMkDir(r) \/ ClientWriteFiles(r) \/ ClientRunDetached(r) \/ ClientOpenInteractive(r)
  \/ ClientKillCommand(r) \/ ClientExtendTimeout(r) \/ ClientCreateSnapshot(r)

RequestStep(r) ==
  \/ Attempt(r) \/ Answer(r) \/ Bail(r) \/ TakeAnswer(r) \/ RetryLater(r) \/ EndPause(r) \/ Parse(r)

RequestsNext == \E r \in Requests : StartRequest(r) \/ RequestStep(r) \/ CutRequest(r)

\* The network answers or fails, and timers fire.
RequestsFairness == \A r \in Requests : WF_requestVars(RequestStep(r))

RequestsSpec == RequestsInit /\ [][RequestsNext]_requestVars /\ RequestsFairness

-----------------------------------------------------------------------------
(***************************************************************************)
(* What the retries promise.                                               *)
(***************************************************************************)

\* A request has at most one effect beyond those of the attempts whose failure
\* its client has seen; it is told "ok" only after an effect; and it is told of
\* a conflict with, or of the absence of, what it made or removed itself only
\* after an attempt of its own has failed.
EffectsAccounted ==
  \A r \in Requests :
    LET q == req[r] IN
    /\ q.effects <= Len(q.errors) + 1
    /\ q.res = "ok" /\ q.effect # "read" => q.effects > 0
    /\ q.res \in {"conflict", "missing"} /\ q.effects > 0 => q.errors # <<>>

=============================================================================
