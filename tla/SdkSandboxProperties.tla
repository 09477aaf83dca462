------------------------ MODULE SdkSandboxProperties ------------------------
(***************************************************************************)
(* What the Sandbox objects of the SDK promise a program that uses several *)
(* of them at once.                                                        *)
(***************************************************************************)
EXTENDS SdkSandbox

\* What the guest has carried out is carried out again only because its answer
\* was lost and withRetry sent the request again: withResume, which may then be
\* told that the session is gone and run the operation on the next one, repeats
\* only what was refused.
RepeatsOnlyLost == \A c \in All : call[c].effects <= call[c].lost + 1

\* However many calls and handles notice that the sandbox was stopped, the
\* onResume hooks run for a resumed session on one handle only.
OneHookPerSession == \A a, b \in hooks : a[1] = b[1] => a = b

\* A call that waited for a resume does not go on with the new session before
\* the onResume hook of its handle has finished with it: one that is on its way
\* again meanwhile names an older session than the hook ran for.
HookBeforeRetry ==
  \A c \in Calls :
    LET h == call[c].h IN
    call[c].pc = "send" /\ call[c].req = call[c].op /\ call[c].retried /\ resume[h].pc = "hook"
      => \E a \in hooks : a[2] = h /\ call[c].id < a[1]

\* A handle does not go back to an older session, but by the answer to a poll
\* that names the session it had when the poll was sent; unless the API has
\* answered a stop of one session with the next one.
SessionsForward ==
  [][\A h \in Handles :
       handle[h].session # None /\ handle'[h].session # None
         /\ handle'[h].session.id < handle[h].session.id /\ ~crossed
       => \E c \in All : call[c].h = h /\ ReceivePoll(c)]_vars

\* The command of an onResume hook found the session stopped again: it awaits
\* the very resume it is part of.
SelfWait == \E h \in Handles : resume[h].pc = "hook" /\ call[h].pc = "join"

\* A stop has failed: the record stays "stopping".
Wedged == box.st = "stopping" /\ stopper = None

\* A call is on its way.
UnderWay(c) == call[c].pc \notin {"idle", "done"}

\* The calls the program has made all end, unless a hook awaits itself or the
\* record can no longer leave "stopping".
CallsEnd ==
  (\E c \in Calls : UnderWay(c)) ~> ((\A c \in Calls : ~UnderWay(c)) \/ SelfWait \/ Wedged)

=============================================================================
