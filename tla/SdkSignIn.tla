----------------------------- MODULE SdkSignIn -----------------------------
(***************************************************************************)
(* How the SDK comes by credentials: getCredentials                        *)
(* (utils/get-credentials.ts), the sign-in of a developer behind it        *)
(* (utils/dev-credentials.ts, auth/poll-for-token.ts, auth/oauth.ts,       *)
(* auth/file.ts) and the search for a team and a project                   *)
(* (auth/project.ts, auth/linked-project.ts, auth/api.ts).                 *)
(*                                                                         *)
(* Several processes share auth.json and the account; the calls of one     *)
(* process share one cache.  getCredentials refuses a team or a project    *)
(* without a token, so all calls that come to the cache ask for the same:  *)
(* the key of the cache is left out.                                       *)
(***************************************************************************)
EXTENDS Naturals, Sequences

CONSTANTS
  Processes, \* the programs of one developer
  Callers,   \* the calls of getCredentials
  Teams,     \* the developer's teams
  NoTeam,    \* no team
  Default,   \* the default team, or NoTeam
  TeamPages, \* the best hobby team of each page of teams, or NoTeam
  Personal   \* the team named as the user

ASSUME SdkSignInAssumption ==
  /\ NoTeam \notin Teams /\ Default \in Teams \cup {NoTeam} /\ Personal \in Teams
  /\ TeamPages \in Seq(Teams \cup {NoTeam})

VARIABLES
  processOf, \* processOf[c]: the program that makes call c
  asked,    \* the calls: which sign-in each waits for, and how it ended
  cached,   \* cached[p]: the sign-in in the cache of p, as a set of at most one
  signIn,   \* signIn[c]: the sign-in call c started
  authFile, \* the token in auth.json: "none", "fresh" or "stale"
  linked,   \* .vercel/project.json names a project
  projects, \* the teams that have the default project
  barred    \* the teams that may not be used: 402 or 403

signInVars == <<processOf, asked, cached, signIn, authFile, linked, projects, barred>>

\* pc: where generateCredentials is; cancelled: the timer has called
\* generator.return(); error: what will be thrown; late: polls sent after the
\* timer (2: two or more); at: the candidate team; made: projects made.
NoSignIn == [pc |-> "none", cancelled |-> FALSE, error |-> FALSE, late |-> 0,
             at |-> 1, made |-> {}, team |-> NoTeam]

SignInInit ==
  /\ processOf \in [Callers -> Processes]
  /\ asked = [c \in Callers |-> [pc |-> "idle", on |-> {}]]
  /\ cached = [p \in Processes |-> {}]
  /\ signIn = [c \in Callers |-> NoSignIn]
  /\ authFile \in {"none", "fresh", "stale"}
  /\ linked \in BOOLEAN
  /\ projects \in SUBSET Teams /\ barred \in SUBSET Teams

UnderWay(c) == signIn[c].pc \notin {"none", "done", "failed"}

\* The sign-in of call c goes on.
Go(c, pc) == signIn' = [signIn EXCEPT ![c].pc = pc]

\* It is rejected, and forgotten: its process's cache is emptied.
Reject(c) ==
  /\ Go(c, "failed")
  /\ cached' = [cached EXCEPT ![processOf[c]] = {}]

-----------------------------------------------------------------------------
(***************************************************************************)
(* getCredentials and the cache.                                           *)
(***************************************************************************)

\* Credentials from the parameters, the environment or an OIDC token; or an
\* error: some of them but not all, or none and nobody at a terminal.
GivenCredentials(c) ==
  /\ asked[c].pc = "idle"
  /\ \E res \in {"given", "error"} : asked' = [asked EXCEPT ![c].pc = res]
  /\ UNCHANGED <<processOf, cached, signIn, authFile, linked, projects, barred>>

\* mutant: the cache is filled when the sign-in is done
CachedGenerateLater(c) ==
  LET p == processOf[c]
      on == IF cached[p] = {} THEN {c} ELSE cached[p]
  IN
  /\ asked[c].pc = "idle"
  /\ asked' = [asked EXCEPT ![c] = [pc |-> "wait", on |-> on]]
  /\ signIn' = [signIn EXCEPT ![c].pc = IF on = {c} THEN "start" ELSE @]
  /\ UNCHANGED <<processOf, cached, authFile, linked, projects, barred>>

\* cachedGenerateCredentials: the sign-in in the cache, or a new one.
CachedGenerate(c) ==
  LET p == processOf[c]
      on == IF cached[p] = {} THEN {c} ELSE cached[p]
  IN
  /\ asked[c].pc = "idle"
  /\ asked' = [asked EXCEPT ![c] = [pc |-> "wait", on |-> on]]
  /\ cached' = [cached EXCEPT ![p] = on]
  /\ signIn' = [signIn EXCEPT ![c].pc = IF on = {c} THEN "start" ELSE @]
  /\ UNCHANGED <<processOf, authFile, linked, projects, barred>>

\* Everyone who waits for a sign-in gets what came of it.
GetCredentials(c) ==
  /\ asked[c].pc = "wait"
  /\ \E f \in asked[c].on :
       /\ signIn[f].pc \in {"done", "failed"}
       /\ asked' = [asked EXCEPT ![c] = [pc |-> signIn[f].pc, on |-> {}]]
  /\ UNCHANGED <<processOf, cached, signIn, authFile, linked, projects, barred>>

-----------------------------------------------------------------------------
(***************************************************************************)
(* generateCredentials: a token.                                           *)
(***************************************************************************)

\* auth.json is read: a token leads on; without one the device flow begins.
GenerateCredentials(c) ==
  /\ signIn[c].pc = "start"
  /\ Go(c, CASE authFile = "none"  -> "device"
             [] authFile = "stale" -> "refresh"
             [] OTHER              -> "scope")
  /\ UNCHANGED <<processOf, asked, cached, authFile, linked, projects, barred>>

\* refreshToken, and what it answers is stored.
RefreshToken(c) ==
  /\ signIn[c].pc = "refresh"
  /\ \/ Go(c, "scope") /\ authFile' = "fresh" /\ UNCHANGED cached
     \/ Reject(c) /\ UNCHANGED authFile
  /\ UNCHANGED <<processOf, asked, linked, projects, barred>>

\* The metadata of the authorization server and a device code.
DeviceAuthorizationRequest(c) ==
  /\ signIn[c].pc = "device"
  /\ (Go(c, "loop") /\ UNCHANGED cached) \/ Reject(c)
  /\ UNCHANGED <<processOf, asked, authFile, linked, projects, barred>>

\* The timer of the sign-in: the generator runs, so that return() waits for
\* its next yield.
SignInTimeout(c) ==
  /\ signIn[c].pc \in {"loop", "poll", "process", "sleep"} /\ ~signIn[c].cancelled
  /\ signIn' = [signIn EXCEPT ![c].cancelled = TRUE, ![c].error = TRUE]
  /\ UNCHANGED <<processOf, asked, cached, authFile, linked, projects, barred>>

\* The loop's condition: the device code has expired, or the token is asked for.
PollLoop(c) ==
  /\ signIn[c].pc = "loop"
  /\ \/ signIn' = [signIn EXCEPT ![c].pc = "end", ![c].error = TRUE]
     \/ signIn' = [signIn EXCEPT ![c].pc = "poll",
          ![c].late = IF signIn[c].cancelled /\ @ < 2 THEN @ + 1 ELSE @]
  /\ UNCHANGED <<processOf, asked, cached, authFile, linked, projects, barred>>

\* mutant: a yield that was asked to return goes on
YieldOn(c, pc) == Go(c, pc)

\* A yield: the generator goes on, unless it was asked to return.
Yield(c, pc) == Go(c, IF signIn[c].cancelled THEN "end" ELSE pc)

\* An error that is yielded replaces the one of the timer.
YieldError(c) == signIn' = [signIn EXCEPT ![c].pc = "end", ![c].error = TRUE]

\* deviceAccessTokenRequest: a response, a timeout of the connection, or another failure.
DeviceAccessTokenRequest(c) ==
  /\ signIn[c].pc = "poll"
  /\ Yield(c, "process") \/ Yield(c, "sleep") \/ YieldError(c)
  /\ UNCHANGED <<processOf, asked, cached, authFile, linked, projects, barred>>

\* processTokenResponse: still pending (nothing is yielded); slow down; another
\* error; a body that is not JSON, thrown; or a token, which is stored.
ProcessTokenResponse(c) ==
  /\ signIn[c].pc = "process"
  /\ \/ (Go(c, "sleep") \/ Yield(c, "sleep") \/ YieldError(c)) /\ UNCHANGED <<cached, authFile>>
     \/ Reject(c) /\ UNCHANGED authFile
     \/ Go(c, "end") /\ authFile' = "fresh" /\ UNCHANGED cached
  /\ UNCHANGED <<processOf, asked, linked, projects, barred>>

\* The pause between two polls, which return() does not cut short.
PollAgain(c) ==
  /\ signIn[c].pc = "sleep"
  /\ Go(c, "loop")
  /\ UNCHANGED <<processOf, asked, cached, authFile, linked, projects, barred>>

\* The generator is done: the error is thrown, or auth.json is read again, where
\* there may still, or again, be no token of use.
SignInAndGetToken(c) ==
  /\ signIn[c].pc = "end"
  /\ IF signIn[c].error \/ authFile = "none" THEN Reject(c)
     ELSE Go(c, IF authFile = "stale" THEN "refresh" ELSE "scope") /\ UNCHANGED cached
  /\ UNCHANGED <<processOf, asked, authFile, linked, projects, barred>>

\* A token in auth.json grows old, or is removed by hand or by a logout.
AuthFileChanges ==
  /\ \/ authFile = "fresh" /\ authFile' = "stale"
     \/ authFile # "none" /\ authFile' = "none"
  /\ UNCHANGED <<processOf, asked, cached, signIn, linked, projects, barred>>

-----------------------------------------------------------------------------
(***************************************************************************)
(* inferScope: a team and a project.                                       *)
(***************************************************************************)

\* The teams in the order they are tried; a page whose best team is the
\* default one is passed over.
Candidates ==
  <<Default>>
    \o [i \in DOMAIN TeamPages |-> IF TeamPages[i] = Default THEN NoTeam ELSE TeamPages[i]]
    \o <<Personal>>

Candidate(c) == Candidates[signIn[c].at]

\* The linked project, if there is one; else the user, and the first candidate.
InferScope(c) ==
  /\ signIn[c].pc = "scope"
  /\ IF linked THEN Go(c, "done") /\ UNCHANGED cached
     ELSE (Go(c, "team") /\ UNCHANGED cached) \/ Reject(c)
  /\ UNCHANGED <<processOf, asked, authFile, linked, projects, barred>>

\* The next candidate, or none is left.
NextCandidate(c) ==
  IF signIn[c].at = Len(Candidates) THEN Reject(c)
  ELSE /\ signIn' = [signIn EXCEPT ![c].at = @ + 1, ![c].pc = "team"]
       /\ UNCHANGED cached

\* mutant: any error of a team leads to the next one
SkippableAny(c, status) == IF status = "ok" THEN FALSE ELSE TRUE

\* isSkippableTeamError: 402 and 403.
SkippableTeamError(c, status) == status = "forbidden"

Use(c) == signIn' = [signIn EXCEPT ![c].pc = "done", ![c].team = Candidate(c)] /\ UNCHANGED cached

\* An error of a team leads to the next one or is thrown.
TeamError(c, status) == IF SkippableTeamError(c, status) THEN NextCandidate(c) ELSE Reject(c)

\* tryTeam asks for the default project; a page of teams that cannot be had, and
\* any other error, is thrown.
TryTeam(c) ==
  LET t == Candidate(c) IN
  /\ signIn[c].pc = "team"
  /\ \/ t = NoTeam /\ NextCandidate(c)
     \/ t # NoTeam /\ t \in projects \ barred /\ Use(c)
     \/ t # NoTeam /\ t \notin projects /\ Go(c, "create") /\ UNCHANGED cached
     \/ t \in barred /\ TeamError(c, "forbidden")
     \/ TeamError(c, "failed")
  /\ UNCHANGED <<processOf, asked, authFile, linked, projects, barred>>

\* ... and makes it when there is none: it is made, and the answer may be lost;
\* it is refused; it is there by now, a conflict; or the request fails.
CreateProject(c) ==
  LET t == Candidate(c)
      made == [signIn EXCEPT ![c].made = @ \cup {t}]
  IN
  /\ signIn[c].pc = "create"
  /\ \/ /\ t \notin projects \cup barred
        /\ projects' = projects \cup {t}
        /\ \/ /\ signIn' = [made EXCEPT ![c].pc = "done", ![c].team = t]
              /\ UNCHANGED cached
           \/ /\ signIn' = [made EXCEPT ![c].pc = "lost"]
              /\ UNCHANGED cached
     \/ t \in barred /\ TeamError(c, "forbidden") /\ UNCHANGED projects
     \/ TeamError(c, "failed") /\ UNCHANGED projects
  /\ UNCHANGED <<processOf, asked, authFile, linked, barred>>

\* The answer to a creation that had its effect is lost.
CreationLost(c) ==
  /\ signIn[c].pc = "lost"
  /\ TeamError(c, "failed")
  /\ UNCHANGED <<processOf, asked, authFile, linked, projects, barred>>

-----------------------------------------------------------------------------

SignInNext ==
  \/ AuthFileChanges
  \/ \E c \in Callers :
       \/ GivenCredentials(c) \/ CachedGenerate(c) \/ GetCredentials(c)
       \/ GenerateCredentials(c) \/ RefreshToken(c) \/ DeviceAuthorizationRequest(c)
       \/ SignInTimeout(c) \/ PollLoop(c) \/ DeviceAccessTokenRequest(c)
       \/ ProcessTokenResponse(c) \/ PollAgain(c) \/ SignInAndGetToken(c)
       \/ InferScope(c) \/ TryTeam(c) \/ CreateProject(c) \/ CreationLost(c)

SignInSpec == SignInInit /\ [][SignInNext]_signInVars

-----------------------------------------------------------------------------
(***************************************************************************)
(* What the sign-in promises.                                              *)
(***************************************************************************)

\* The calls of a process never make the developer sign in twice at a time,
\* and a call never waits for a sign-in that had failed before it came.
OneSignIn ==
  \A c, d \in Callers :
    /\ UnderWay(c) /\ UnderWay(d) /\ processOf[c] = processOf[d] => c = d
    /\ c \in cached[processOf[d]] => signIn[c].pc # "failed"

\* After the sign-in has timed out, at most one more poll is sent, whatever the
\* authorization server answers.
QuietAfterTimeout == \A c \in Callers : signIn[c].late <= 1

\* A sign-in that makes a default project makes one, and uses its team or none:
\* it never leaves a project behind in a team it goes on from.
OneProjectMade ==
  \A c \in Callers :
    signIn[c].made # {} => signIn[c].made = {signIn[c].team} \/ signIn[c].pc \in {"lost", "failed"}

=============================================================================
