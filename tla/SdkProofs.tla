----------------------------- MODULE SdkProofs -----------------------------
(***************************************************************************)
(* Proofs about the requests and the sign-in of the SDK, for any number of *)
(* requests, retries, processes, callers, teams and pages.                 *)
(***************************************************************************)
EXTENDS SdkRequests, SdkSignIn, TLAPS

-----------------------------------------------------------------------------
(* Requests.                                                                *)

Answers == {"ok", "garbled", "conflict", "missing"} \cup Unclear \cup Denied

RequestRecords ==
  [pc : {"idle", "attempt", "wire", "answered", "pause", "parse", "done"},
   effect : {"none", "read", "make", "dir", "remove", "set", "add"},
   errors : Seq(Retryable), effects : Nat, answer : {"none"} \cup Answers,
   res : {"none", "abort", "invalid", "unreadable"} \cup Answers]

(* What is known of a request: its effects are those of attempts that        *)
(* failed, and one more once an attempt has been answered.                   *)
Accounted(q) ==
  /\ q \in RequestRecords
  /\ q.pc = "idle" => q.effects = 0 /\ q.errors = <<>> /\ q.answer = "none"
  /\ q.pc \in {"attempt", "wire", "pause"} => q.effects <= Len(q.errors)
  /\ q.pc \in {"answered", "parse"} => q.answer \in Answers
  /\ q.effects <= Len(q.errors) + 1
  /\ q.pc # "done" => q.res = "none"
  /\ \A a \in {q.answer, q.res} :
       /\ a \in {"ok", "garbled"} /\ q.effect # "read" => q.effects > 0
       /\ a \in {"conflict", "missing"} /\ q.effects > 0 => q.errors # <<>>

RequestsInv == req \in [Requests -> RequestRecords] /\ \A r \in Requests : Accounted(req[r])

(* The error a request ends with is one it has met.                          *)
LEMMA MainErrorsMet ==
    ASSUME NEW s \in Seq(Retryable)
    PROVE  MainErrors(s) \subseteq Retryable
  BY DEF MainErrors

(* A step that gives one request an account that is in order keeps all.      *)
LEMMA OneRequest ==
    ASSUME RequestsInv, NEW r \in Requests, NEW q, Accounted(q), req' = [req EXCEPT ![r] = q]
    PROVE  RequestsInv'
<1>1. q \in RequestRecords
  BY DEF Accounted
<1>2. req' \in [Requests -> RequestRecords]
  BY <1>1 DEF RequestsInv
<1>3. ASSUME NEW s \in Requests PROVE Accounted(req'[s])
  BY <1>3 DEF RequestsInv
<1>. QED
  BY <1>2, <1>3 DEF RequestsInv

(* A request that ends with what it was answered, or with an error of the    *)
(* client's own, is still accounted for.                                     *)
LEMMA EndedAccounted ==
    ASSUME NEW q, Accounted(q), NEW res, q.pc # "idle",
           \/ res \in {"abort", "invalid", "unreadable", "lost"}
           \/ res = q.answer /\ res \in Answers
    PROVE  Accounted(Ended(q, res))
<1> DEFINE t == Ended(q, res)
<1>1. q \in RequestRecords
  BY DEF Accounted
<1>2. res \in {"none", "abort", "invalid", "unreadable"} \cup Answers
  BY DEF Answers, Unclear
<1>3. t \in RequestRecords
  BY <1>1, <1>2 DEF Ended, RequestRecords
<1>4. /\ t.pc = "done" /\ t.effect = q.effect /\ t.errors = q.errors
      /\ t.effects = q.effects /\ t.answer = "none" /\ t.res = res
  BY <1>1 DEF Ended, RequestRecords
<1>5. Accounted(q) /\ res \in {"abort", "invalid", "unreadable", "lost", q.answer}
  OBVIOUS
<1>. QED
  BY <1>3, <1>4, <1>5 DEF Accounted

LEMMA RequestsStart ==
    ASSUME RequestsInv, NEW r \in Requests, StartRequest(r)
    PROVE  RequestsInv'
<1>1. PICK e \in {"read", "make", "dir", "remove", "set", "add"} : Request(r, e)
  BY DEF StartRequest, ClientGetSession, ClientGetCommand, ClientGetSnapshot, ClientGetSandbox,
    ClientListSandboxes, ClientListSessions, ClientListSnapshots, ClientGetSnapshotTree,
    ClientCreateSandbox, ClientDeleteSandbox, ClientDeleteSnapshot, ClientUpdateSandbox,
    ClientUpdateNetworkPolicy, ClientStopSession, ClientMkDir, ClientWriteFiles,
    ClientRunDetached, ClientOpenInteractive, ClientKillCommand, ClientExtendTimeout,
    ClientCreateSnapshot
<1>2. Accounted(req[r]) /\ req[r].pc = "idle" /\ req[r] \in RequestRecords
  BY <1>1 DEF RequestsInv, Request
<1> PICK q : q = [req[r] EXCEPT !.pc = "attempt", !.effect = e]
  OBVIOUS
<1>3. Accounted(q)
  <2>1. q \in RequestRecords
    BY <1>2 DEF RequestRecords
  <2>2. /\ q.pc = "attempt" /\ q.errors = req[r].errors /\ q.effects = req[r].effects
        /\ q.answer = req[r].answer /\ q.res = req[r].res
    BY <1>2 DEF RequestRecords
  <2>. QED
    BY <1>2, <2>1, <2>2 DEF Accounted
<1>4. req' = [req EXCEPT ![r] = q]
  BY <1>1 DEF Request, RequestsInv
<1>. QED
  BY <1>3, <1>4, OneRequest

LEMMA RequestsAnswer ==
    ASSUME RequestsInv, NEW r \in Requests, Answer(r)
    PROVE  RequestsInv'
<1> DEFINE old == req[r]
<1>1. Accounted(old) /\ old \in RequestRecords /\ old.pc = "wire"
  BY DEF RequestsInv, Answer
<1>2. CASE \E a \in {"ok", "garbled"} \cup Unclear :
             req' = [req EXCEPT ![r].pc = "answered", ![r].answer = a,
                                ![r].effects = IF old.effect = "read" THEN 0 ELSE @ + 1]
  <2>1. PICK a \in {"ok", "garbled"} \cup Unclear :
             req' = [req EXCEPT ![r].pc = "answered", ![r].answer = a,
                                ![r].effects = IF old.effect = "read" THEN 0 ELSE @ + 1]
    BY <1>2
  <2> PICK q : q = [old EXCEPT !.pc = "answered", !.answer = a,
                               !.effects = IF old.effect = "read" THEN 0 ELSE @ + 1]
    OBVIOUS
  <2>2. Accounted(q)
    <3> DEFINE n == IF old.effect = "read" THEN 0 ELSE old.effects + 1
    <3>0. n \in Nat /\ a \in Answers
      BY <1>1, <2>1 DEF RequestRecords, Answers
    <3> HIDE DEF n
    <3>1. q \in RequestRecords
      BY <1>1, <3>0 DEF RequestRecords, n
    <3>2. /\ q.pc = "answered" /\ q.errors = old.errors /\ q.answer = a /\ q.res = old.res
          /\ q.effect = old.effect
          /\ q.effects = IF old.effect = "read" THEN 0 ELSE old.effects + 1
      BY <1>1 DEF RequestRecords
    <3>3. old.effects \in Nat /\ Len(old.errors) \in Nat
      BY <1>1 DEF RequestRecords
    <3>. QED
      BY <1>1, <2>1, <3>1, <3>2, <3>3 DEF Accounted, Unclear, Answers
  <2>3. req' = [req EXCEPT ![r] = q]
    BY <2>1 DEF RequestsInv
  <2>. QED
    BY <2>2, <2>3, OneRequest
<1>3. CASE \E a \in Refused(old.effect) \cup Unclear \cup Denied :
             req' = [req EXCEPT ![r].pc = "answered", ![r].answer = a]
  <2>1. PICK a \in Refused(old.effect) \cup Unclear \cup Denied :
             req' = [req EXCEPT ![r].pc = "answered", ![r].answer = a]
    BY <1>3
  <2>2. a \in {"conflict", "missing"} \cup Unclear \cup Denied
    BY <2>1 DEF Refused, Unclear
  <2> PICK q : q = [old EXCEPT !.pc = "answered", !.answer = a]
    OBVIOUS
  <2>3. Accounted(q)
    <3>1. q \in RequestRecords
      BY <1>1, <2>2 DEF RequestRecords, Answers
    <3>2. /\ q.pc = "answered" /\ q.errors = old.errors /\ q.answer = a /\ q.res = old.res
          /\ q.effect = old.effect /\ q.effects = old.effects
      BY <1>1 DEF RequestRecords
    <3>3. /\ old.effects \in Nat /\ Len(old.errors) \in Nat
          /\ old.errors = <<>> => Len(old.errors) = 0
      BY <1>1 DEF RequestRecords
    <3>. QED
      BY <1>1, <2>2, <3>1, <3>2, <3>3 DEF Accounted, Unclear, Denied, Answers
  <2>4. req' = [req EXCEPT ![r] = q]
    BY <2>1 DEF RequestsInv
  <2>. QED
    BY <2>3, <2>4, OneRequest
<1>. QED
  BY <1>2, <1>3 DEF Answer

LEMMA RequestsRetry ==
    ASSUME RequestsInv, NEW r \in Requests, RetryLater(r)
    PROVE  RequestsInv'
<1> DEFINE old == req[r]
           errors == Append(old.errors, old.answer)
           t == [old EXCEPT !.errors = errors]
<1>1. /\ Accounted(old) /\ old \in RequestRecords
      /\ old.pc = "answered" /\ old.answer \in Retryable
  BY DEF RequestsInv, RetryLater
<1>2. errors \in Seq(Retryable) /\ Len(errors) = Len(old.errors) + 1 /\ errors # <<>>
  BY <1>1 DEF RequestRecords
<1> DEFINE next(main) ==
      CASE Len(errors) <= MaxRetries -> [t EXCEPT !.pc = "pause", !.answer = "none"]
        [] Len(errors) > MaxRetries /\ main = "lost" -> Ended(t, "lost")
        [] OTHER -> [t EXCEPT !.pc = "parse", !.answer = main]
<1>3. PICK main \in MainErrors(errors) : req' = [req EXCEPT ![r] = next(main)]
  BY DEF RetryLater, RequestsInv
<1>4. main \in Retryable
  BY <1>2, <1>3, MainErrorsMet
<1>5. /\ t \in RequestRecords /\ t.errors = errors /\ t.effects = old.effects
      /\ t.pc = old.pc /\ t.effect = old.effect /\ t.answer = old.answer /\ t.res = old.res
  BY <1>1, <1>2 DEF RequestRecords
<1>6. /\ t.errors # <<>> /\ t.effects <= Len(t.errors) /\ t.effects \in Nat
      /\ Len(t.errors) \in Nat /\ t.res = "none"
  BY <1>1, <1>2, <1>5 DEF Accounted, RequestRecords
<1>7. ASSUME NEW pc \in {"pause", "parse"}, NEW a \in {"none"} \cup Retryable,
             pc = "parse" => a # "none"
      PROVE  Accounted([t EXCEPT !.pc = pc, !.answer = a])
  <2> PICK q : q = [t EXCEPT !.pc = pc, !.answer = a]
    OBVIOUS
  <2>1. q \in RequestRecords
    BY <1>5, <1>7 DEF RequestRecords, Answers, Retryable, Denied
  <2>2. /\ q.pc = pc /\ q.answer = a /\ q.errors = t.errors /\ q.effects = t.effects
        /\ q.res = t.res
    BY <1>5 DEF RequestRecords
  <2>. QED
    BY <1>6, <1>7, <2>1, <2>2 DEF Accounted, Retryable, Unclear, Answers, Denied
<1>8. Accounted(t)
  BY <1>1, <1>5, <1>6 DEF Accounted, Retryable, Unclear, Answers, Denied
<1>9. Accounted(Ended(t, "lost"))
  BY <1>1, <1>5, <1>8, EndedAccounted
<1>10. main # "none"
  BY <1>4 DEF Retryable, Unclear
<1>11. Len(errors) <= MaxRetries <=> ~(Len(errors) > MaxRetries)
  BY <1>2, SdkRequestsAssumption
<1>12. CASE Len(errors) <= MaxRetries
  <2>1. next(main) = [t EXCEPT !.pc = "pause", !.answer = "none"]
    BY <1>11, <1>12, Zenon
  <2>2. Accounted([t EXCEPT !.pc = "pause", !.answer = "none"])
    BY <1>7
  <2>. QED
    BY <1>3, <2>1, <2>2, OneRequest
<1>13. CASE Len(errors) > MaxRetries /\ main = "lost"
  <2>1. next(main) = Ended(t, "lost")
    BY <1>11, <1>13, Zenon
  <2>. QED
    BY <1>3, <1>9, <2>1, OneRequest
<1>14. CASE Len(errors) > MaxRetries /\ main # "lost"
  <2>1. next(main) = [t EXCEPT !.pc = "parse", !.answer = main]
    BY <1>11, <1>14, Zenon
  <2>2. Accounted([t EXCEPT !.pc = "parse", !.answer = main])
    BY <1>4, <1>7, <1>10
  <2>. QED
    BY <1>3, <2>1, <2>2, OneRequest
<1>. QED
  BY <1>11, <1>12, <1>13, <1>14

LEMMA RequestsParse ==
    ASSUME RequestsInv, NEW r \in Requests, Parse(r)
    PROVE  RequestsInv'
<1> DEFINE old == req[r]
<1>1. Accounted(old) /\ old \in RequestRecords /\ old.pc = "parse"
  BY DEF RequestsInv, Parse
<1>2. CASE r \in cut /\ req' = [req EXCEPT ![r] = Ended(@, "unreadable")]
  <2>1. Accounted(Ended(old, "unreadable"))
    BY <1>1, EndedAccounted
  <2>2. req' = [req EXCEPT ![r] = Ended(old, "unreadable")]
    BY <1>2 DEF RequestsInv
  <2>. QED
    BY <2>1, <2>2, OneRequest
<1>3. CASE req' = [req EXCEPT ![r] = Ended(@, IF @.answer = "garbled" THEN "invalid" ELSE @.answer)]
  <2> DEFINE res == IF old.answer = "garbled" THEN "invalid" ELSE old.answer
  <2>1. old.answer \in Answers
    BY <1>1 DEF Accounted
  <2>2. Accounted(Ended(old, res))
    BY <1>1, <2>1, EndedAccounted
  <2>3. req' = [req EXCEPT ![r] = Ended(old, res)]
    BY <1>3 DEF RequestsInv
  <2>. QED
    BY <2>2, <2>3, OneRequest
<1>. QED
  BY <1>2, <1>3 DEF Parse

(* A signal that has fired ends a request, and the rest move it along.       *)
LEMMA RequestsMove ==
    ASSUME RequestsInv, NEW r \in Requests,
           Attempt(r) \/ Bail(r) \/ TakeAnswer(r) \/ EndPause(r)
    PROVE  RequestsInv'
<1> DEFINE old == req[r]
<1>1. Accounted(old) /\ old \in RequestRecords /\ old.pc # "idle"
  BY DEF RequestsInv, Attempt, Bail, TakeAnswer, EndPause
<1>2. CASE req' = [req EXCEPT ![r] = Ended(@, "abort")]
  <2>1. Accounted(Ended(old, "abort"))
    BY <1>1, EndedAccounted
  <2>2. req' = [req EXCEPT ![r] = Ended(old, "abort")]
    BY <1>2 DEF RequestsInv
  <2>. QED
    BY <2>1, <2>2, OneRequest
<1>3. ASSUME NEW pc \in {"wire", "parse", "attempt"}, req' = [req EXCEPT ![r].pc = pc],
             pc = "parse" => old.pc = "answered",
             pc # "parse" => old.pc \in {"attempt", "pause"}
      PROVE  RequestsInv'
  <2> PICK q : q = [old EXCEPT !.pc = pc]
    OBVIOUS
  <2>1. /\ q \in RequestRecords /\ q.pc = pc /\ q.answer = old.answer /\ q.effect = old.effect
        /\ q.errors = old.errors /\ q.effects = old.effects /\ q.res = old.res
    BY <1>1, <1>3 DEF RequestRecords
  <2>2. Accounted(q)
    BY <1>1, <1>3, <2>1 DEF Accounted
  <2>3. req' = [req EXCEPT ![r] = q]
    BY <1>3 DEF RequestsInv
  <2>. QED
    BY <2>2, <2>3, OneRequest
<1>4. CASE Attempt(r)
  <2>1. CASE r \in cut
    BY <1>2, <1>4, <2>1 DEF Attempt
  <2>2. CASE r \notin cut
    <3>1. req' = [req EXCEPT ![r].pc = "wire"] /\ old.pc = "attempt"
      BY <1>4, <2>2 DEF Attempt
    <3>. QED
      BY <1>3, <3>1
  <2>. QED
    BY <2>1, <2>2
<1>5. CASE Bail(r)
  BY <1>2, <1>5 DEF Bail
<1>6. CASE TakeAnswer(r)
  BY <1>3, <1>6 DEF TakeAnswer
<1>7. CASE EndPause(r)
  BY <1>3, <1>7 DEF EndPause
<1>. QED
  BY <1>4, <1>5, <1>6, <1>7

(* Whatever is answered, lost, retried or cut, what a caller is told of its  *)
(* request fits what the API has done for it (with-retry.ts:40-85).          *)
THEOREM RequestsKeepAccounts == RequestsSpec => []EffectsAccounted
<1>1. RequestsInit => RequestsInv
  <2> SUFFICES ASSUME RequestsInit PROVE RequestsInv
    OBVIOUS
  <2>1. NoRequest \in RequestRecords
    BY DEF NoRequest, RequestRecords
  <2>2. /\ NoRequest.pc = "idle" /\ NoRequest.effects = 0 /\ NoRequest.errors = <<>>
        /\ NoRequest.answer = "none" /\ NoRequest.res = "none"
    BY DEF NoRequest
  <2>3. Accounted(NoRequest)
    BY <2>1, <2>2 DEF Accounted
  <2>. QED
    BY <2>1, <2>3 DEF RequestsInit, RequestsInv
<1>2. RequestsInv /\ [RequestsNext]_requestVars => RequestsInv'
  <2> SUFFICES ASSUME RequestsInv, [RequestsNext]_requestVars PROVE RequestsInv'
    OBVIOUS
  <2>1. CASE UNCHANGED req
    BY <2>1 DEF RequestsInv
  <2>2. ASSUME NEW r \in Requests, StartRequest(r) \/ RequestStep(r) PROVE RequestsInv'
    BY <2>2, RequestsStart, RequestsAnswer, RequestsRetry, RequestsParse, RequestsMove
    DEF RequestStep
  <2>. QED
    BY <2>1, <2>2 DEF RequestsNext, CutRequest, requestVars
<1>3. RequestsInv => EffectsAccounted
  <2> SUFFICES ASSUME RequestsInv, NEW r \in Requests
               PROVE  /\ req[r].effects <= Len(req[r].errors) + 1
                      /\ req[r].res = "ok" /\ req[r].effect # "read" => req[r].effects > 0
                      /\ req[r].res \in {"conflict", "missing"} /\ req[r].effects > 0 =>
                           req[r].errors # <<>>
    BY DEF EffectsAccounted
  <2>. QED
    BY DEF RequestsInv, Accounted
<1>. QED
  BY <1>1, <1>2, <1>3, PTL DEF RequestsSpec

-----------------------------------------------------------------------------
(* The sign-in.                                                             *)

Before == {"none", "start", "device"}
Polling == {"loop", "poll", "process", "sleep"}
Scoping == {"end", "refresh", "scope", "team", "create"}

SignInRecords ==
  [pc : Before \cup Polling \cup Scoping \cup {"lost", "done", "failed"},
   cancelled : BOOLEAN, error : BOOLEAN, late : {0, 1, 2},
   at : 1..Len(Candidates), made : SUBSET (Teams \cup {NoTeam}), team : Teams \cup {NoTeam}]

AskedRecords ==
  [pc : {"idle", "given", "error", "wait", "done", "failed"}, on : SUBSET Callers]

(* What is known of one sign-in: a late poll leads out of the polling, and a *)
(* project is made by its last step.                                         *)
Orderly(s) ==
  /\ s \in SignInRecords
  /\ s.pc \in Before => s.late = 0 /\ s.made = {}
  /\ s.late <= 1
  /\ s.late > 0 => s.cancelled /\ s.pc \notin {"loop", "process", "sleep"}
  /\ s.pc \in Polling \cup Scoping => s.made = {}
  /\ s.pc = "done" => s.made \subseteq {s.team}

(* The cache of a process holds the sign-in under way, or one that is done.  *)
CacheInv ==
  /\ cached \in [Processes -> SUBSET Callers]
  /\ \A c \in Callers : UnderWay(c) => c \in cached[processOf[c]]
  /\ \A p \in Processes : \A c \in cached[p] :
       processOf[c] = p /\ signIn[c].pc \notin {"none", "failed"}
  /\ \A p \in Processes : \A c, d \in cached[p] : c = d

SignInInv ==
  /\ processOf \in [Callers -> Processes]
  /\ signIn \in [Callers -> SignInRecords]
  /\ \A c \in Callers : Orderly(signIn[c])
  /\ \A c \in Callers : asked[c].pc = "idle" => signIn[c].pc = "none"
  /\ asked \in [Callers -> AskedRecords]
  /\ CacheInv

LEMMA CandidatesAreTeams == Candidates \in Seq(Teams \cup {NoTeam}) /\ Len(Candidates) \in Nat \ {0}
<1> DEFINE others == [i \in DOMAIN TeamPages |->
                        IF TeamPages[i] = Default THEN NoTeam ELSE TeamPages[i]]
<1>1. others \in Seq(Teams \cup {NoTeam})
  <2>1. DOMAIN TeamPages = 1..Len(TeamPages) /\ Len(TeamPages) \in Nat
    BY SdkSignInAssumption
  <2>2. \A i \in DOMAIN TeamPages : TeamPages[i] \in Teams \cup {NoTeam}
    BY SdkSignInAssumption
  <2>3. others \in [1..Len(TeamPages) -> Teams \cup {NoTeam}]
    BY <2>1, <2>2
  <2>. QED
    BY <2>1, <2>3
<1>2. <<Default>> \in Seq(Teams \cup {NoTeam}) /\ <<Personal>> \in Seq(Teams \cup {NoTeam})
  BY SdkSignInAssumption
<1>. HIDE DEF others
<1>3. /\ <<Default>> \o others \o <<Personal>> \in Seq(Teams \cup {NoTeam})
      /\ Len(<<Default>> \o others \o <<Personal>>) \in Nat \ {0}
  BY <1>1, <1>2
<1>. QED
  BY <1>3 DEF Candidates, others

(* A sign-in that goes on, in order, stays in its process's cache.           *)
LEMMA Advances ==
    ASSUME SignInInv, NEW c \in Callers, UnderWay(c), NEW s, Orderly(s),
           s.pc \notin {"none", "failed"}, signIn' = [signIn EXCEPT ![c] = s],
           UNCHANGED <<processOf, asked, cached>>
    PROVE  SignInInv'
<1>1. s \in SignInRecords
  BY DEF Orderly
<1>2. signIn' \in [Callers -> SignInRecords]
  BY <1>1 DEF SignInInv
<1>3. \A d \in Callers : Orderly(signIn'[d])
  BY DEF SignInInv
<1>4. signIn[c].pc # "none"
  BY DEF UnderWay
<1>5. \A d \in Callers : asked'[d].pc = "idle" => signIn'[d].pc = "none"
  BY <1>4 DEF SignInInv
<1>6. CacheInv'
  BY DEF SignInInv, CacheInv, UnderWay
<1>. QED
  BY <1>2, <1>3, <1>5, <1>6 DEF SignInInv

(* A sign-in that is rejected leaves the cache.                              *)
LEMMA Rejects ==
    ASSUME SignInInv, NEW c \in Callers, UnderWay(c), Reject(c), UNCHANGED <<processOf, asked>>
    PROVE  SignInInv'
<1> PICK s : s = [signIn[c] EXCEPT !.pc = "failed"]
  OBVIOUS
<1>0. signIn[c] \in SignInRecords
  BY DEF SignInInv
<1>1. /\ s \in SignInRecords /\ s.pc = "failed" /\ s.cancelled = signIn[c].cancelled
      /\ s.late = signIn[c].late
  BY <1>0 DEF SignInRecords
<1>2. signIn' = [signIn EXCEPT ![c] = s] /\ cached' = [cached EXCEPT ![processOf[c]] = {}]
  BY DEF Reject, Go, SignInInv
<1>3. signIn' \in [Callers -> SignInRecords]
  BY <1>1, <1>2 DEF SignInInv
<1>4. Orderly(s)
  BY <1>1 DEF SignInInv, Orderly, Before, Polling, Scoping
<1>5. \A d \in Callers : Orderly(signIn'[d])
  BY <1>2, <1>4 DEF SignInInv
<1>6. \A d \in Callers : asked'[d].pc = "idle" => signIn'[d].pc = "none"
  BY <1>2 DEF SignInInv, UnderWay
<1>7. CacheInv'
  <2>1. processOf[c] \in Processes /\ cached' \in [Processes -> SUBSET Callers]
    BY <1>2 DEF SignInInv, CacheInv
  <2>2. cached'[processOf[c]] = {} /\ c \in cached[processOf[c]]
    BY <1>2, <2>1 DEF SignInInv, CacheInv
  <2>3. ASSUME NEW d \in Callers, UnderWay(d)' PROVE d \in cached'[processOf'[d]]
    <3>1. d # c /\ UnderWay(d)
      BY <1>1, <1>2, <2>3 DEF UnderWay, SignInInv
    <3>2. d \in cached[processOf[d]] /\ processOf[d] \in Processes
      BY <3>1 DEF SignInInv, CacheInv
    <3>3. processOf[d] # processOf[c]
      BY <2>1, <2>2, <3>1, <3>2 DEF SignInInv, CacheInv
    <3>. QED
      BY <1>2, <3>2, <3>3 DEF SignInInv, CacheInv
  <2>4. ASSUME NEW p \in Processes, NEW d \in cached'[p]
        PROVE  processOf'[d] = p /\ signIn'[d].pc \notin {"none", "failed"}
    <3>1. p # processOf[c] /\ d \in cached[p]
      BY <1>2, <2>2, <2>4 DEF SignInInv, CacheInv
    <3>2. d # c /\ d \in Callers
      BY <3>1 DEF SignInInv, CacheInv
    <3>. QED
      BY <1>2, <3>1, <3>2 DEF SignInInv, CacheInv
  <2>5. ASSUME NEW p \in Processes, NEW d \in cached'[p], NEW e \in cached'[p] PROVE d = e
    BY <1>2, <2>2, <2>5 DEF SignInInv, CacheInv
  <2>. QED
    BY <2>1, <2>3, <2>4, <2>5 DEF CacheInv
<1>. QED
  BY <1>3, <1>5, <1>6, <1>7 DEF SignInInv

(* A call either joins the sign-in of its process or begins the only one.    *)
LEMMA Joins ==
    ASSUME SignInInv, NEW c \in Callers, CachedGenerate(c)
    PROVE  SignInInv'
<1> DEFINE p == processOf[c]
           on == IF cached[p] = {} THEN {c} ELSE cached[p]
<1>1. p \in Processes /\ asked[c].pc = "idle" /\ signIn[c].pc = "none" /\ on \subseteq Callers
  BY DEF SignInInv, CacheInv, CachedGenerate
<1>2. /\ cached' = [cached EXCEPT ![p] = on] /\ processOf' = processOf
      /\ asked' = [asked EXCEPT ![c] = [pc |-> "wait", on |-> on]]
  BY DEF CachedGenerate
<1>3. asked' \in [Callers -> AskedRecords]
  BY <1>1, <1>2 DEF SignInInv, AskedRecords
<1>4. c \notin cached[p]
  BY <1>1 DEF SignInInv, CacheInv
<1>5. CASE cached[p] # {}
  <2>1. on = cached[p] /\ on # {c}
    BY <1>4, <1>5
  <2>2. cached' = cached /\ signIn' = signIn
    BY <1>2, <2>1 DEF CachedGenerate, SignInInv, CacheInv, SignInRecords
  <2>3. \A d \in Callers : asked'[d].pc = "idle" => signIn'[d].pc = "none"
    BY <1>2, <2>2 DEF SignInInv
  <2>4. CacheInv'
    BY <1>2, <2>2 DEF SignInInv, CacheInv, UnderWay
  <2>. QED
    BY <1>2, <1>3, <2>2, <2>3, <2>4 DEF SignInInv
<1>6. CASE cached[p] = {}
  <2> PICK s : s = [signIn[c] EXCEPT !.pc = "start"]
    OBVIOUS
  <2>1. on = {c}
    BY <1>6
  <2>2. signIn' = [signIn EXCEPT ![c] = s]
    BY <1>1, <2>1 DEF CachedGenerate, SignInInv
  <2>0. signIn[c] \in SignInRecords
    BY DEF SignInInv
  <2>3. /\ s \in SignInRecords /\ s.pc = "start" /\ s.late = signIn[c].late
        /\ s.made = signIn[c].made
    BY <2>0 DEF SignInRecords, Before
  <2>4. Orderly(s)
    BY <1>1, <2>3 DEF SignInInv, Orderly, Before, Polling, Scoping
  <2>5. /\ signIn' \in [Callers -> SignInRecords]
        /\ \A d \in Callers : Orderly(signIn'[d])
    BY <2>2, <2>3, <2>4 DEF SignInInv
  <2>6. \A d \in Callers : asked'[d].pc = "idle" => signIn'[d].pc = "none"
    BY <1>2, <2>2 DEF SignInInv
  <2>7. CacheInv'
    <3>1. cached' \in [Processes -> SUBSET Callers] /\ cached'[p] = {c}
      BY <1>1, <1>2, <2>1 DEF SignInInv, CacheInv
    <3>2. \A d \in Callers : UnderWay(d)' => d \in cached'[processOf'[d]]
      BY <1>1, <1>2, <1>6, <2>2, <2>3, <3>1 DEF SignInInv, CacheInv, UnderWay
    <3>3. \A r \in Processes : r # p => cached'[r] = cached[r] /\ c \notin cached[r]
      BY <1>1, <1>2 DEF SignInInv, CacheInv
    <3>4. \A r \in Processes : \A d \in cached'[r] :
            processOf'[d] = r /\ signIn'[d].pc \notin {"none", "failed"}
      BY <1>2, <2>2, <2>3, <3>1, <3>3 DEF SignInInv, CacheInv
    <3>5. \A r \in Processes : \A d, e \in cached'[r] : d = e
      BY <3>1, <3>3 DEF SignInInv, CacheInv
    <3>. QED
      BY <3>1, <3>2, <3>4, <3>5 DEF CacheInv
  <2>. QED
    BY <1>2, <1>3, <2>5, <2>6, <2>7 DEF SignInInv
<1>. QED
  BY <1>5, <1>6

(* A sign-in that only moves on.                                             *)
LEMMA GoesOn ==
    ASSUME SignInInv, NEW c \in Callers, UnderWay(c),
           NEW pc \in Polling \cup Scoping \cup {"device", "done"}, Go(c, pc),
           signIn[c].made = {}, pc = "device" => signIn[c].late = 0,
           pc \in {"loop", "process", "sleep"} => signIn[c].late = 0,
           UNCHANGED <<processOf, asked, cached>>
    PROVE  SignInInv'
<1> PICK s : s = [signIn[c] EXCEPT !.pc = pc]
  OBVIOUS
<1>1. signIn[c] \in SignInRecords /\ Orderly(signIn[c])
  BY DEF SignInInv
<1>2. /\ s \in SignInRecords /\ s.pc = pc /\ s.late = signIn[c].late
      /\ s.made = signIn[c].made /\ s.cancelled = signIn[c].cancelled
  BY <1>1 DEF SignInRecords, Before
<1>3. Orderly(s)
  BY <1>1, <1>2 DEF Orderly, Before, Polling, Scoping
<1>4. signIn' = [signIn EXCEPT ![c] = s]
  BY DEF Go, SignInInv
<1>5. s.pc \notin {"none", "failed"}
  BY <1>2 DEF Polling, Scoping
<1>. QED
  BY <1>3, <1>4, <1>5, Advances

(* What the pc of a sign-in says of its fields.                              *)
LEMMA AtPc ==
    ASSUME SignInInv, NEW c \in Callers
    PROVE  /\ signIn[c].pc \in Before \cup Polling \cup Scoping => signIn[c].made = {}
           /\ signIn[c].pc \in Before => signIn[c].late = 0
           /\ signIn[c].pc \in {"loop", "process", "sleep"} => signIn[c].late = 0
           /\ signIn[c].late > 0 => signIn[c].cancelled
           /\ signIn[c].late \in {0, 1} /\ signIn[c] \in SignInRecords
  BY DEF SignInInv, Orderly, SignInRecords

LEMMA TokenSteps ==
    ASSUME SignInInv, NEW c \in Callers,
           \/ GenerateCredentials(c) \/ RefreshToken(c) \/ DeviceAuthorizationRequest(c)
           \/ PollAgain(c) \/ SignInAndGetToken(c) \/ ProcessTokenResponse(c)
    PROVE  SignInInv'
<1>1. CASE GenerateCredentials(c)
  <2>1. PICK pc \in {"device", "refresh", "scope"} : Go(c, pc)
    BY <1>1 DEF GenerateCredentials
  <2>2. UnderWay(c) /\ signIn[c].pc \in Before
    BY <1>1 DEF GenerateCredentials, UnderWay, Before
  <2>. QED
    BY <1>1, <2>1, <2>2, AtPc, GoesOn DEF GenerateCredentials, Scoping
<1>2. CASE RefreshToken(c)
  <2>1. UnderWay(c) /\ signIn[c].pc \in Scoping
    BY <1>2 DEF RefreshToken, UnderWay, Scoping
  <2>. QED
    BY <1>2, <2>1, AtPc, GoesOn, Rejects DEF RefreshToken, Scoping
<1>3. CASE DeviceAuthorizationRequest(c)
  <2>1. UnderWay(c) /\ signIn[c].pc \in Before
    BY <1>3 DEF DeviceAuthorizationRequest, UnderWay, Before
  <2>. QED
    BY <1>3, <2>1, AtPc, GoesOn, Rejects DEF DeviceAuthorizationRequest, Polling
<1>4. CASE PollAgain(c)
  <2>1. UnderWay(c) /\ signIn[c].pc \in Polling
    BY <1>4 DEF PollAgain, UnderWay, Polling
  <2>. QED
    BY <1>4, <2>1, AtPc, GoesOn DEF PollAgain, Polling
<1>5. CASE SignInAndGetToken(c)
  <2>1. UnderWay(c) /\ signIn[c].pc \in Scoping
    BY <1>5 DEF SignInAndGetToken, UnderWay, Scoping
  <2>. QED
    BY <1>5, <2>1, AtPc, GoesOn, Rejects DEF SignInAndGetToken, Scoping
<1>6. CASE ProcessTokenResponse(c)
  <2>1. UnderWay(c) /\ signIn[c].pc \in Polling /\ signIn[c].late = 0
    BY <1>6, AtPc DEF ProcessTokenResponse, UnderWay, Polling
  <2>2. CASE YieldError(c) /\ UNCHANGED cached
    <3> PICK s : s = [signIn[c] EXCEPT !.pc = "end", !.error = TRUE]
      OBVIOUS
    <3>1. /\ s \in SignInRecords /\ s.pc = "end" /\ s.late = signIn[c].late
          /\ s.made = signIn[c].made
      BY AtPc DEF SignInRecords, Scoping
    <3>2. s.made = {} /\ s.late = 0
      BY <2>1, <3>1, AtPc
    <3>3. Orderly(s)
      BY <3>1, <3>2 DEF Orderly, Before
    <3>4. signIn' = [signIn EXCEPT ![c] = s]
      BY <2>2 DEF YieldError, SignInInv
    <3>. QED
      BY <1>6, <2>1, <2>2, <3>1, <3>3, <3>4, Advances DEF ProcessTokenResponse
  <2>3. CASE (Go(c, "sleep") \/ Yield(c, "sleep") \/ Go(c, "end")) /\ UNCHANGED cached
    <3>1. Go(c, "sleep") \/ Go(c, "end")
      BY <2>3 DEF Yield
    <3>. QED
      BY <1>6, <2>1, <2>3, <3>1, AtPc, GoesOn DEF ProcessTokenResponse, Polling, Scoping
  <2>. QED
    BY <1>6, <2>1, <2>2, <2>3, Rejects DEF ProcessTokenResponse
<1>. QED
  BY <1>1, <1>2, <1>3, <1>4, <1>5, <1>6

(* The timer, the condition of the loop, and the poll itself.                *)
LEMMA PollSteps ==
    ASSUME SignInInv, NEW c \in Callers,
           SignInTimeout(c) \/ PollLoop(c) \/ DeviceAccessTokenRequest(c)
    PROVE  SignInInv'
<1>1. UnderWay(c) /\ signIn[c].pc \in Polling /\ UNCHANGED <<processOf, asked, cached>>
  BY DEF SignInTimeout, PollLoop, DeviceAccessTokenRequest, UnderWay, Polling
<1>2. ASSUME NEW s \in SignInRecords, signIn' = [signIn EXCEPT ![c] = s],
             s.made = signIn[c].made, s.pc \in Polling \cup {"end"},
             s.late = 0 \/ (s.late = 1 /\ s.cancelled /\ s.pc \in {"poll", "end"})
      PROVE  SignInInv'
  <2>0. s.made = {}
    BY <1>1, <1>2, AtPc
  <2>1. Orderly(s)
    BY <1>2, <2>0 DEF Orderly, Before, Polling, Scoping
  <2>2. s.pc \notin {"none", "failed"}
    BY <1>2 DEF Polling
  <2>. QED
    BY <1>1, <1>2, <2>1, <2>2, Advances
<1>3. CASE SignInTimeout(c)
  <2> PICK s : s = [signIn[c] EXCEPT !.cancelled = TRUE, !.error = TRUE]
    OBVIOUS
  <2>1. /\ s \in SignInRecords /\ s.pc = signIn[c].pc /\ s.late = signIn[c].late
        /\ s.made = signIn[c].made
    BY AtPc DEF SignInRecords
  <2>2. signIn[c].late = 0
    BY <1>3, AtPc DEF SignInTimeout
  <2>3. signIn' = [signIn EXCEPT ![c] = s]
    BY <1>3 DEF SignInTimeout, SignInInv
  <2>. QED
    BY <1>1, <1>2, <2>1, <2>2, <2>3
<1>4. CASE PollLoop(c)
  <2>1. signIn[c].late = 0 /\ signIn[c] \in SignInRecords
    BY <1>4, AtPc DEF PollLoop
  <2>2. CASE signIn' = [signIn EXCEPT ![c].pc = "end", ![c].error = TRUE]
    <3> PICK s : s = [signIn[c] EXCEPT !.pc = "end", !.error = TRUE]
      OBVIOUS
    <3>1. /\ s \in SignInRecords /\ s.pc = "end" /\ s.late = signIn[c].late
          /\ s.made = signIn[c].made
      BY <2>1 DEF SignInRecords, Scoping
    <3>2. signIn' = [signIn EXCEPT ![c] = s]
      BY <2>2 DEF SignInInv
    <3>. QED
      BY <1>2, <2>1, <3>1, <3>2
  <2>3. CASE signIn' = [signIn EXCEPT ![c].pc = "poll",
               ![c].late = IF signIn[c].cancelled /\ @ < 2 THEN @ + 1 ELSE @]
    <3> PICK n : n = IF signIn[c].cancelled THEN 1 ELSE 0
      OBVIOUS
    <3> PICK s : s = [signIn[c] EXCEPT !.pc = "poll", !.late = n]
      OBVIOUS
    <3>1. /\ s \in SignInRecords /\ s.pc = "poll" /\ s.late = n
          /\ s.made = signIn[c].made /\ s.cancelled = signIn[c].cancelled
      BY <2>1 DEF SignInRecords, Polling
    <3>2. signIn' = [signIn EXCEPT ![c] = s]
      <4>1. n = IF signIn[c].cancelled /\ signIn[c].late < 2 THEN signIn[c].late + 1
                ELSE signIn[c].late
        BY <2>1
      <4>. QED
        BY <2>3, <4>1 DEF SignInInv
    <3>3. n \in {0, 1} /\ (n = 1 => s.cancelled)
      BY <3>1
    <3>. QED
      BY <1>2, <3>1, <3>2, <3>3 DEF Polling
  <2>. QED
    BY <1>4, <2>2, <2>3 DEF PollLoop
<1>5. CASE DeviceAccessTokenRequest(c)
  <2>1. CASE YieldError(c)
    <3> PICK s : s = [signIn[c] EXCEPT !.pc = "end", !.error = TRUE]
      OBVIOUS
    <3>1. /\ s \in SignInRecords /\ s.pc = "end" /\ s.late = signIn[c].late
          /\ s.made = signIn[c].made /\ s.cancelled = signIn[c].cancelled
      BY AtPc DEF SignInRecords, Scoping
    <3>2. signIn' = [signIn EXCEPT ![c] = s]
      BY <2>1 DEF YieldError, SignInInv
    <3>3. s.late = 0 \/ (s.late = 1 /\ s.cancelled)
      BY <3>1, AtPc
    <3>. QED
      BY <1>2, <3>1, <3>2, <3>3
  <2>2. CASE Yield(c, "process") \/ Yield(c, "sleep")
    <3>1. PICK pc \in {"process", "sleep", "end"} : Go(c, pc) /\ (signIn[c].cancelled => pc = "end")
      BY <2>2 DEF Yield
    <3>. QED
      BY <1>1, <3>1, AtPc, GoesOn DEF Polling, Scoping
  <2>. QED
    BY <1>5, <2>1, <2>2 DEF DeviceAccessTokenRequest
<1>. QED
  BY <1>3, <1>4, <1>5

(* The next candidate, the end, or nothing: what an error of a team leads to. *)
LEMMA TeamErrors ==
    ASSUME SignInInv, NEW c \in Callers, signIn[c].pc \in {"team", "create"},
           UNCHANGED <<processOf, asked>>,
           NextCandidate(c) \/ TeamError(c, "forbidden") \/ TeamError(c, "failed")
    PROVE  SignInInv'
<1>1. UnderWay(c) /\ signIn[c] \in SignInRecords /\ signIn[c].made = {}
  BY AtPc DEF UnderWay, Scoping
<1>2. CASE Reject(c)
  BY <1>1, <1>2, Rejects
<1>3. CASE signIn[c].at # Len(Candidates) /\ NextCandidate(c)
  <2> PICK s : s = [signIn[c] EXCEPT !.at = @ + 1, !.pc = "team"]
    OBVIOUS
  <2>1. signIn[c].at + 1 \in 1..Len(Candidates)
    BY <1>1, <1>3, CandidatesAreTeams DEF SignInRecords
  <2>2. /\ s \in SignInRecords /\ s.pc = "team" /\ s.late = signIn[c].late
        /\ s.made = {} /\ s.cancelled = signIn[c].cancelled
    BY <1>1, <2>1 DEF SignInRecords, Scoping
  <2>3. Orderly(s)
    BY <2>2, AtPc DEF Orderly, Before, Polling, Scoping
  <2>4. signIn' = [signIn EXCEPT ![c] = s] /\ UNCHANGED cached
    BY <1>3 DEF NextCandidate, SignInInv
  <2>. QED
    BY <1>1, <2>2, <2>3, <2>4, Advances
<1>. QED
  BY <1>2, <1>3 DEF TeamError, SkippableTeamError, NextCandidate

LEMMA ScopeSteps ==
    ASSUME SignInInv, NEW c \in Callers,
           InferScope(c) \/ TryTeam(c) \/ CreateProject(c) \/ CreationLost(c)
    PROVE  SignInInv'
<1>1. UnderWay(c) /\ UNCHANGED <<processOf, asked>> /\ signIn[c] \in SignInRecords
  BY AtPc DEF InferScope, TryTeam, CreateProject, CreationLost, UnderWay
<1>2. ASSUME NEW made \in SUBSET {Candidate(c)}, NEW s, UNCHANGED cached,
             signIn[c].made = {}, signIn' = [signIn EXCEPT ![c] = s],
             \/ s = [signIn[c] EXCEPT !.made = made, !.pc = "done", !.team = Candidate(c)]
             \/ s = [signIn[c] EXCEPT !.made = made, !.pc = "lost"]
      PROVE  SignInInv'
  <2>1. Candidate(c) \in Teams \cup {NoTeam}
    BY <1>1, CandidatesAreTeams DEF Candidate, SignInRecords
  <2>2. /\ s \in SignInRecords /\ s.late = signIn[c].late
        /\ s.made = made /\ s.cancelled = signIn[c].cancelled
        /\ s.pc = "lost" \/ (s.pc = "done" /\ s.team = Candidate(c))
    <3>1. made \subseteq Teams \cup {NoTeam}
      BY <2>1
    <3>2. CASE s = [signIn[c] EXCEPT !.made = made, !.pc = "done", !.team = Candidate(c)]
      BY <1>1, <2>1, <3>1, <3>2 DEF SignInRecords
    <3>3. CASE s = [signIn[c] EXCEPT !.made = made, !.pc = "lost"]
      BY <1>1, <3>1, <3>3 DEF SignInRecords
    <3>. QED
      BY <1>2, <3>2, <3>3
  <2>3. Orderly(s)
    BY <1>2, <2>2, AtPc DEF Orderly, Before, Polling, Scoping
  <2>. QED
    BY <1>1, <1>2, <2>2, <2>3, Advances
<1>3. CASE InferScope(c)
  <2>1. signIn[c].pc \in Scoping
    BY <1>3 DEF InferScope, Scoping
  <2>. QED
    BY <1>1, <1>3, <2>1, AtPc, GoesOn, Rejects DEF InferScope, Scoping
<1>4. CASE TryTeam(c)
  <2>1. signIn[c].pc = "team" /\ signIn[c].made = {}
    BY <1>4, AtPc DEF TryTeam, Scoping
  <2>2. CASE Use(c)
    <3> PICK s : s = [signIn[c] EXCEPT !.made = {}, !.pc = "done", !.team = Candidate(c)]
      OBVIOUS
    <3>1. s = [signIn[c] EXCEPT !.pc = "done", !.team = Candidate(c)]
      BY <1>1, <2>1 DEF SignInRecords
    <3>2. signIn' = [signIn EXCEPT ![c] = s] /\ UNCHANGED cached
      BY <2>2, <3>1 DEF Use, SignInInv
    <3>. QED
      BY <1>2, <2>1, <3>2
  <2>3. CASE Go(c, "create") /\ UNCHANGED cached
    BY <1>1, <2>1, <2>3, GoesOn DEF Scoping
  <2>. QED
    BY <1>1, <1>4, <2>1, <2>2, <2>3, TeamErrors DEF TryTeam
<1>5. CASE CreateProject(c)
  <2>1. signIn[c].pc = "create" /\ signIn[c].made = {}
    BY <1>5, AtPc DEF CreateProject, Scoping
  <2> DEFINE t == Candidate(c)
             made == [signIn EXCEPT ![c].made = @ \cup {t}]
  <2>2. CASE signIn' = [made EXCEPT ![c].pc = "done", ![c].team = t] /\ UNCHANGED cached
    <3> PICK s : s = [signIn[c] EXCEPT !.made = {t}, !.pc = "done", !.team = t]
      OBVIOUS
    <3>1. signIn' = [signIn EXCEPT ![c] = s]
      BY <2>1, <2>2 DEF SignInInv
    <3>. QED
      BY <1>2, <2>1, <2>2, <3>1
  <2>3. CASE signIn' = [made EXCEPT ![c].pc = "lost"] /\ UNCHANGED cached
    <3> PICK s : s = [signIn[c] EXCEPT !.made = {t}, !.pc = "lost"]
      OBVIOUS
    <3>1. signIn' = [signIn EXCEPT ![c] = s]
      BY <2>1, <2>3 DEF SignInInv
    <3>. QED
      BY <1>2, <2>1, <2>3, <3>1
  <2>. QED
    BY <1>1, <1>5, <2>1, <2>2, <2>3, TeamErrors DEF CreateProject
<1>6. CASE CreationLost(c)
  <2>1. Reject(c)
    BY <1>6 DEF CreationLost, TeamError, SkippableTeamError
  <2>. QED
    BY <1>1, <2>1, Rejects
<1>. QED
  BY <1>3, <1>4, <1>5, <1>6

(* Calls that are answered, and auth.json, leave the sign-ins alone.         *)
LEMMA OtherSteps ==
    ASSUME SignInInv,
           \/ AuthFileChanges \/ UNCHANGED signInVars
           \/ \E c \in Callers : GivenCredentials(c) \/ GetCredentials(c)
    PROVE  SignInInv'
<1>1. UNCHANGED <<processOf, cached, signIn>>
  BY DEF AuthFileChanges, GivenCredentials, GetCredentials, signInVars
<1>2. /\ asked' \in [Callers -> AskedRecords]
      /\ \A c \in Callers : asked'[c].pc = "idle" => asked[c].pc = "idle"
  <2>1. CASE UNCHANGED asked
    BY <2>1 DEF SignInInv
  <2>2. ASSUME NEW c \in Callers, NEW a, asked' = [asked EXCEPT ![c] = a], a.pc # "idle",
               a \in AskedRecords
        PROVE  <1>2!1 /\ <1>2!2
    BY <2>2 DEF SignInInv
  <2>3. ASSUME NEW c \in Callers, GivenCredentials(c) PROVE <1>2!1 /\ <1>2!2
    <3>1. PICK res \in {"given", "error"} : asked' = [asked EXCEPT ![c].pc = res]
      BY <2>3 DEF GivenCredentials
    <3> PICK a : a = [asked[c] EXCEPT !.pc = res]
      OBVIOUS
    <3>2. /\ a \in AskedRecords /\ a.pc # "idle"
          /\ asked' = [asked EXCEPT ![c] = a]
      BY <3>1 DEF SignInInv, AskedRecords
    <3>. QED
      BY <2>2, <3>2
  <2>4. ASSUME NEW c \in Callers, GetCredentials(c) PROVE <1>2!1 /\ <1>2!2
    <3>1. PICK f \in asked[c].on :
            /\ signIn[f].pc \in {"done", "failed"}
            /\ asked' = [asked EXCEPT ![c] = [pc |-> signIn[f].pc, on |-> {}]]
      BY <2>4 DEF GetCredentials
    <3> PICK a : a = [pc |-> signIn[f].pc, on |-> {}]
      OBVIOUS
    <3>2. /\ a \in AskedRecords /\ a.pc # "idle"
          /\ asked' = [asked EXCEPT ![c] = a]
      BY <3>1 DEF AskedRecords
    <3>. QED
      BY <2>2, <3>2
  <2>. QED
    BY <2>1, <2>3, <2>4 DEF AuthFileChanges, signInVars
<1>3. CacheInv'
  BY <1>1 DEF SignInInv, CacheInv, UnderWay
<1>. QED
  BY <1>1, <1>2, <1>3 DEF SignInInv

LEMMA SignInInvariant == SignInSpec => []SignInInv
<1>1. SignInInit => SignInInv
  <2> SUFFICES ASSUME SignInInit PROVE SignInInv
    OBVIOUS
  <2>1. NoSignIn \in SignInRecords
    BY CandidatesAreTeams DEF NoSignIn, SignInRecords, Before
  <2>2. Orderly(NoSignIn)
    BY <2>1 DEF Orderly, NoSignIn, Polling, Scoping
  <2>3. CacheInv
    BY DEF SignInInit, CacheInv, UnderWay, NoSignIn
  <2>. QED
    BY <2>1, <2>2, <2>3 DEF SignInInit, SignInInv, NoSignIn, AskedRecords
<1>2. SignInInv /\ [SignInNext]_signInVars => SignInInv'
  BY Joins, TokenSteps, PollSteps, ScopeSteps, OtherSteps DEF SignInNext
<1>. QED
  BY <1>1, <1>2, PTL DEF SignInSpec

(* However the calls of a process overlap, one sign-in is under way at most,  *)
(* and none that has failed is waited for (dev-credentials.ts:32-55).         *)
THEOREM OneSignInAtATime == SignInSpec => []OneSignIn
<1>1. SignInInv => OneSignIn
  BY DEF SignInInv, CacheInv, OneSignIn
<1>. QED
  BY <1>1, SignInInvariant, PTL

(* The timer of the sign-in ends the polling, wherever the generator is       *)
(* (dev-credentials.ts:150-163, poll-for-token.ts:21-77).                     *)
THEOREM TimedOutIsQuiet == SignInSpec => []QuietAfterTimeout
<1>1. SignInInv => QuietAfterTimeout
  BY DEF SignInInv, Orderly, QuietAfterTimeout
<1>. QED
  BY <1>1, SignInInvariant, PTL

(* A project is made by the last step of a sign-in, in the team it names      *)
(* (project.ts:104-208).                                                      *)
THEOREM ProjectIsTheLastStep == SignInSpec => []OneProjectMade
<1>1. SignInInv => OneProjectMade
  BY AtPc DEF SignInInv, Orderly, OneProjectMade, SignInRecords
<1>. QED
  BY <1>1, SignInInvariant, PTL

=============================================================================
