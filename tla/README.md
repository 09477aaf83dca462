# Verification of sandbox-host

TLA+ specifications of the sandbox host in this repository: the control API that
owns named sandboxes, the runtime daemon that turns them into micro-VMs, the
egress daemon that decides what a VM may reach, the agent that runs commands in
the VM, and the TypeScript SDK through which programs use all of it. Every definition is
translated from the Go or TypeScript source; `PROJECT.json` maps each one to its lines.

## The system

| Component | State | Operations | Talks to |
| --- | --- | --- | --- |
| Control API (`cmd/api`) | bbolt store; one mutex per name; one lifecycle mutex; preview listeners | create, fork, get with resume, stop, snapshot, extend, update, policy, delete, delete snapshot; every 5 s the timeout sweep, every 10 min the snapshot collector; at start, reconciliation | sandboxd (HTTP on a Unix socket), guest agents (HTTP) |
| Record store (`internal/store`) | buckets sandboxes, sessions (index by session id), snapshots | one transaction per call | - |
| Runtime daemon (`cmd/sandboxd`) | sessions and slots in memory; state files; VMs, disks, images on the host | create, stop with or without an image, policy, delete image, list; at start, reconciliation | egressd, guest agents, Firecracker |
| Egress daemon (`cmd/egressd`, `internal/egress`) | policy by guest address; its state file; connection counters | put and drop a policy; TLS and HTTP connections; DNS packets; at start, reload | public hosts, a resolver |
| Guest agent (`cmd/guest-agent`) | commands, their processes and logs | run, wait, logs, kill, files, shutdown | - |
| SDK: objects (`sdk/src/sandbox.ts`, `session.ts`, `snapshot.ts`) | a handle per sandbox: its session, the resume under way, the onResume hook | create, get, getOrCreate, fork, update, stop, delete, snapshot, every session operation with resume and retry, (de)serialization | control API |
| SDK: requests (`sdk/src/api-client`) | one request: attempts, errors met, signal | the endpoints, `withRetry`, parse | control API |
| SDK: commands (`command.ts`) | a Command with a client, a shared fetch of its output | run, detached run, logs, output, wait, kill | control API (streams) |
| SDK: files (`filesystem.ts`) | none of its own | what Node's `fs/promises` offers, by shell commands and two file endpoints | the sandbox |
| SDK: lists (`utils/paginator.ts`) | the first page | iteration over pages | control API |
| SDK: sign-in (`auth`, `utils/dev-credentials.ts`) | `auth.json`, a cache per process, the linked project | credentials from parameters, environment, a token file or a device flow; a team and a project | an identity service, the account's API |

What is hard about the services: HTTP handlers run concurrently and read, call the runtime and
write back in separate steps. Some take the lock of the name, stops take the
lifecycle lock, and update, extend, policy and delete take none. The runtime, the
store and the process fail between any two steps. VMs outlive a crash of either
daemon, and not a reboot. An address is a function of a slot, and slots are reused.

What is hard about the SDK: one program makes many asynchronous calls, which interleave at
each `await`. A call names its session when it is sent and learns later that the session
was stopped by another call, another handle or another program; resumes, fetches of output
and sign-ins are shared between calls whose signals differ; streams break off; answers are
lost after the effect; a generator that is asked to return first finishes what it awaits.

What makes each part correct:

* *lifecycle*: one VM per name; no VM that nobody knows of; a stopped session stays
  stopped; a resume starts from the disk captured last; rows and index agree; every
  request returns; recovery leaves no record in transition;
* *runtime*: a slot has one VM; sessions, slots and VMs agree after any failed step;
  committed memory is bounded; images are taken of quiet disks; a restart succeeds;
* *egress*: nothing outside the administrator's ceiling is reached; counters are exact;
  the state file can be reloaded; connections end;
* *guest agent*: an exit code shows with a complete log, the log is bounded and served
  whole and once, and whoever waits for a command that has ended gets an answer;
* *SDK objects*: what the guest carried out is repeated only for a lost answer; one hook per resumed
  session, before the calls that waited for it; handles do not go back to an old session;
  every call ends;
* *SDK requests*: what a caller is told fits what has been done for it, whatever was lost
  or retried;
* *SDK commands*: output is whole, an error, or what the API passes for whole, and whoever follows
  an ended command ends;
* *SDK files and lists*: the ways to look at a path agree; an append keeps what it read; a
  walk misses nothing that stays;
* *SDK sign-in*: one at a time, quiet after its timeout, one project made at most;
* *previews* (not modelled): a listener belongs to a running session, and ports come back.

`PROJECT.json` lists the hazards at their lines, with the properties that would catch
each, and every component with what is modelled of it.

## Modules

| Module | What it is |
| --- | --- |
| `SandboxLifecycle` | the API's handlers and loops over the store, with the runtime as its callee |
| `DurableSandbox` | the abstract sandbox: one VM per name, resumed from the last captured disk |
| `LifecycleProperties` | the properties of the lifecycle and its refinement mapping to `DurableSandbox` |
| `LifecycleProofs` | TLAPS proofs about the lifecycle, whatever handlers take part |
| `LockedProofs` | TLAPS proofs about the handlers that lock, and the refinement of `DurableSandbox` |
| `RuntimeDaemon`, `RuntimeProperties` | sandboxd, and what it must keep true |
| `RuntimeProofs` | TLAPS proofs about sandboxd |
| `EgressPolicy` | the algebra of rules: matching, containment, intersection |
| `EgressGateway`, `EgressProperties` | egressd over that algebra, and what it must keep true |
| `EgressProofs` | TLAPS proofs about the algebra and egressd |
| `GuestCommands`, `GuestProperties` | the guest agent's commands with the API's relays, and what they must keep true |
| `GuestProofs` | TLAPS proofs about the guest agent |
| `SdkSandbox`, `SdkSandboxProperties` | Sandbox and Session objects over one name, and what they promise |
| `SdkRequests` | one request of the API client with its retries |
| `SdkCommands` | streams, the Command object and its cached output |
| `SdkPages` | paginated lists |
| `SdkFiles` | FileSystem: each operation by its shell command |
| `SdkSignIn` | credentials, the device flow, the search for a team and a project |
| `SdkProofs` | TLAPS proofs about requests and the sign-in |
| `SdkSandboxProofs` | TLAPS proofs about the objects |
| `SdkToolsProofs` | TLAPS proofs about commands, lists and files |
| `MCLifecycle`, `MCRuntime`, `MCEgress`, `MCGuest` | the constants of the runs of the services |
| `MCSdkSandbox`, `MCSdkCalls`, `MCSdkTools` | the same for the SDK; `MCSdkCalls` (requests, commands) and `MCSdkTools` (lists, files, sign-in) hold parts that share no state, and each behaviour is one of one part |

### How state and actions correspond to the code

**SandboxLifecycle.** `sandboxes`, `sessions` and `snapshots` are the three buckets;
`PutSandbox`, `DeleteSandbox`, `PutSnapshot` and `DeleteSnapshot` are the store's
transactions. `nameLock` is `api.nameLocks`, `lifecycle` the mutex of `stopRecord`.
`vms`, `boot` and `images` are what the runtime holds. A request is one handler
invocation (or one record of the sweep or of the collector); `pc` says which store
transaction or runtime call comes next, `rec` is its own copy of the record: this is
where staleness comes from. The session id or snapshot id that request p draws is
written p, since `randomID` never draws one twice. `Crash` loses requests, locks and
copies, and a reboot also the VMs; `Restart` is `reconcileActiveSessions`, one step
because `main` calls it before it serves. `before` is the order of `CreatedAt`: the
snapshots that are older than one. The collector lists a sandbox's snapshots in one step
(`GcList`: what has expired, what the retention keeps, the listed record's resume point) and
deletes image and row of each in two more. Whoever deletes an image may not hear of it
(`image_lost`): the request's context ends, or 45 s pass (clients.go:65), and sandboxd deletes all
the same; the row then stays.

**RuntimeDaemon.** `sessions` and `slots` are the daemon's maps, changed in one step
under `d.mu`; every effect on the host between two critical sections is a step that may
fail half done. A kill may fail too (`Killed`): the code goes on as after a kill, and
the VM is in `runaway`, cut off by the link `cleanupSession` deletes. `policies` is egressd's table, indexed by slot since the guest address
is a function of the slot. `Restart` is `reconcileStartup`; `RestartError` is the same
loop ending early, with what it did up to then.

**EgressGateway.** A flow goes through admission, lookup of the policy (which it keeps,
`held`), judgement, dialing, proxying and release. `Save` is `savePoliciesLocked`, whose
failure leaves the changed table in memory. `Restart` is `loadPolicies` under the
ceiling configured by then.

**GuestCommands.** A command is named by the request that runs it. Its process and
background children are the environment; `copyLogs` is `CopierRead`, `CopierAppend` and
`CopierEnd` for each pipe, since the read happens outside of the mutex; `wait` is
`WaitProcess` (`cmd.Wait`, which closes the pipes), `Record` and `CloseDone`. A reader of
the log alternates `LogsCopy` and `LogsCheck`, and ends with `LogsFinal`; a log file that does not
open ends it too (`unread` remembers for whom). A request of the
API that waits is such a reader first and then a `get` that waits; `HeaderTimeout` is its
HTTP client giving up.

**SdkSandbox.** A step is what JavaScript runs between two awaits. `handle` is the Sandbox
object, `resume` its `resumePromise` with the calls that wait for it, `call` an operation
of the program or (named as its handle) of an onResume hook. A request is `send` until it
leaves, `wire` until the API answers; `Receive...` is the continuation after the `await`.
The API is one step per request over `box`, except for a stop, which is `stopping` until
`EndStop`, and may fail; what happens inside the API is `SandboxLifecycle`'s matter. `crossed`
is a history variable: a stop that waited in the API's queue was carried out on, or answered
with, a later session than the one it named. `withRetry` is around every request: an answer that is
lost, or is a 5xx, is a `LoseAnswer` or `LoseResume` after the API has had its effect, and the
request is sent again or fails for good. The call's `lost` is the number of its effects whose
answers were lost so.

**SdkRequests.** `req[r]` is a request inside `withRetry`: `effects` counts what the API has
done for it, `errors` the errors it has met. An endpoint is known by its kind of effect. The
error `async-retry` ends with is the one it met most often, hence `MainErrors`.

**SdkCommands.** `stream[x]` is a body (`sent`) with its iterator (`got`), of a call or of the
cached output; `Pipe` is the `pipe` function and `tail` the record the stream ends with.
`CutLog` is what the API ignores (handlers.go:624-629, 662): a log that breaks off, or cannot be
had, ends like a whole one, and a waiting run goes on to its finished command; `short` remembers it.
`object.cache` is `outputCache`: none, being fetched, kept, or a rejected promise kept.

**SdkFiles.** `tree` maps paths of one or two names to directories, files and links. The
`Shell...` operators say what coreutils answer for a path (external, modelled from the
flags the SDK passes); each `Fs...` operation runs one and translates what it says, as the
code does from the text on stderr. An append is two steps, since it is two requests.

**SdkSignIn.** A caller that finds the cache empty starts a sign-in named after it; the
others wait `on` it. `pc` walks through `generateCredentials`: the device flow's loop with
its yields, then `inferScope`. `cancelled` is the `generator.return()` of the timer, which
`Yield` honours; `late` counts the polls sent after it.

**SdkPages.** The items of a list are numbers in its order, a cursor the last item seen.

### Abstractions

* One team and one project; ownership checks therefore succeed. Validations that answer
  an error without a change of state are left out.
* Clocks: the sweep may find any running record late, the collector any snapshot except
  the listed resume point expired or beyond the retention.
* Ports, routes, environments, tags and policies are not fields of the lifecycle's
  records; opening a preview that fails is the fault "setup".
* After a crash of the API, a runtime call in flight either had its effect or not.
* All sessions need the same memory; the refusals for free memory and free disk are
  those of a full table. Deleting the network of a VM does not fail.
* A host name is its sequence of labels, a path its segments; methods are opaque. The
  code compares path prefixes as text: `/pub` also admits `/public`, which the model
  says of whole segments only. Policies are sets of rules, ceilings sequences, because
  `Intersect` takes the first rule that fits.
* The log of a command is counted: records, bytes in all, bytes of each stream. A record
  is as long as the data in it, and a read of a pipe may take any part of what is there.
* The agent's answers are immediate, except where it waits for a command; a write to its
  log does not fail.
* Two snapshots are never created in the same instant. In `lifecycle_locked` the newest snapshot
  of a pass of the collector has not expired, unless it is the resume point (`FreshMayExpire`).
* An SDK handle sees one name. The session a request names may be a stale one; whether a
  busy session is answered 410 or 422, and an expired snapshot 404 or 410, is a constant of
  the run (`Busy`, `Expired`), and the run allows all of them.
* The effect of an endpoint on the one thing it is about is what `SdkRequests` keeps; the
  thing is shared by the requests. A 429 is retried if its pause is short enough.
* A stream carries records, not bytes; stdout and stderr are not told apart.
* Files are the set of calls whose data they hold. Modes, owners, times, encodings and
  names deeper than two levels are left out; the guest is one user that may do everything.
* All sign-ins of one process ask for the same team and project: the key of the cache is
  left out, since parameters without a token are refused before the cache is reached.
* A connection is judged by what it first asks for, and egressd keeps no policy after
  that. Dialing resolves the name and takes a public address or fails.

## Runs

| Run | Instance | Question |
| --- | --- | --- |
| `lifecycle_full` | 2 names, 4 requests of every kind, all faults, 1 crash | is the state well formed, do rows and index always name each other |
| `lifecycle_locked` | 1 name, 4 requests of the locking handlers with collector and snapshot deletions, runtime faults and lost answers, fairness | one VM per name, none forgotten, stops are final and recorded, the collector spares resume points, every request returns, and the refinement of `DurableSandbox` |
| `runtime_sessions` | 4 requests, 3 slots, 2 VMs, every step failing | slots, forgotten VMs and disks, memory, quiet images |
| `runtime_restart` | 4 requests, 2 slots, policy updates, 2 crashes or reboots | the slot table, and whether a restart is possible |
| `egress` | 2 addresses, 2 flows, 2 ceilings, failed saves, 1 crash, fairness | the allowlist, counters, reload, end of flows |
| `guest_commands` | 2 requests, 1 command, 3 bytes of output for a log of 2, all faults, fairness | the log's bound, completeness and streams; every follower of an ended command gets to an end |
| `spawn_once` | unlocked update beside create, get, stop | violated: see below |
| `double_stop` | two stops of one session | violated |
| `sdk_sandbox` | 2 handles, a run beside 1 call of any kind, 1 stop by others, snapshots that expire, 1 failed stop, 1 signal or lost answer, fairness | repeated only for a lost answer; hooks; sessions go forward; every call ends |
| `sdk_calls` | 2 requests with 1 retry and 1 signal; 3 calls on a command with 1 record, 1 signal, fairness | effects accounted for; output whole unless the API cut it; calls end |
| `sdk_tools` | 2 walks over 5 items in pages of 2 with 2 edits; 2 writers in a tree of 2 names and 2 levels, 3 changes; 2 callers in 1 or 2 processes, 2 teams | walks complete; views of a path agree; appends; sign-in |
| `sdk_output_retry` | the commands of `sdk_calls` | violated: see below |

### Why these bounds

Four requests on a name are enough for create, stop and two that resume, stop, update or
delete across one another: a stale copy needs a reader, two writers and the request that
acts on the result. Two names make the session limit and forks across
sandboxes happen; `MaxSessions` = 1 in `lifecycle_full`, so a second creation is refused,
and two creations of different names that race both pass the check. Three slots for two VMs
show reuse of the lowest slot; two slots make the table full. One crash of the API is
enough because `Restart` leaves nothing but the store and the runtime behind; sandboxd
gets two, since a restart writes files that the next one reads. Egress uses one connection
per address and two in total, so both limits bind. One command is
enough for the guest agent, whose commands share only the table, and two requests give it
a runner that waits beside a reader, a waiter or a killer; a log of 2 bytes, a notice of 2
and reads of up to 3 make a log fill exactly, overflow with room for the notice, and
overflow without. The first request runs the command, the second is any other operation.

For the SDK, a call that runs a command (every session operation has its shape: `withResume`
around one request) meets any other operation on its own handle or on a second one, with a stop
from outside between them, and a signal or one lost answer; the command of an onResume hook is a third call on its handle. One retry makes the pair of a first attempt with a lost effect and a second that meets
it, and the choice of the main error among two; more retries repeat that. Three calls on a
command are a run beside two that share its output, or a log and a killer; one record is
enough to tell part of the output from all of it. Pages of two items in a list of five make
three pages, and an edit falls before, into or behind the page a walk stands on. Two names on
two levels hold a directory, a link to it, a link to a link and a file; one name is hidden. Two
callers in one process share a sign-in, in two they race for `auth.json` and for the default
project; two pages of teams give a candidate after the first.

Requests are interchangeable (they are compared for equality only, and no
`CHOOSE` in a checked property picks among several of them), so runs without liveness use
symmetry; the liveness runs do not.

### Fairness

`FairSpec` of the lifecycle is weak fairness of the steps of each request and of
`Restart`. A goroutine that can run does run; each runtime call and each store
transaction ends, with an answer or an error; systemd restarts the process. A mutex
waiter gets only weak fairness: it is granted while it is free. In the runs the number of
requests is finite, so that is enough; starvation by an endless stream of requests is
not excluded, and Go's mutex excludes it. Starting a request is never fair.

For egressd, weak fairness of the steps of each flow says that every wait of a handler
ends: the reads of the ClientHello and of the HTTP header (main.go:311, 338), the dial,
the proxy (637-639) and the DNS exchange (411-421) have deadlines.

For the guest agent, weak fairness of each goroutine and of each request's steps. Nothing
obliges a process to write, to end or to die of a signal, so `EndedCommandsAnswer` starts
from a process that has ended; the timeouts are never fair either.

For the SDK, weak fairness of what follows an answer, of the API's answers and of timers
(`RequestStep`, the streams, the users and the cache; `Progress`, `ResumeStep` and `EndStop`
of the objects): the event loop runs what is ready, fetch settles, and a stop ends or fails.
A command need not end, and starting a call is never fair. `CallsEnd` excludes two cases the
code does not end: a hook whose command finds the session stopped awaits the resume it is part
of, and a stop that has failed leaves the record "stopping" and the poll going.

## Findings

1. `spawn_once`: a PATCH writes a whole stale record back, over a resume; the next get
   resumes the name a second time and two VMs run (handlers.go:420; extend and policy
   write in the same way).
2. `double_stop`: the second of two stops frees a slot in use (sandboxd main.go:553).
3. `sdk_output_retry`: with a signal that has fired already, `getCachedOutput` keeps the
   rejected promise its catch clause was to clear, and the output cannot be had any more
   (command.ts:256; the comment at 277 says that later calls can retry).

Seen while modelling and not kept as runs, in the services:

* a record that a crash left "stopping" is never settled (main.go:129; SPEC.md:213-214);
* the collector may delete the current resume point (main.go:252; the comment at 250-251) when
  a PATCH has named an older snapshot since its listing, or when a snapshot expires in the very
  pass that finds it newest and a stop has just made it the resume point;
* a snapshot whose image is deleted with the answer lost, or before a failed write, keeps its
  row (handlers.go:825-829, main.go:259-266); the runtime answers later deletions with a 404, on
  which both return before the row, so that only deleting the sandbox removes it;
* a VM whose cgroup could not be killed is written off: its disk is copied while it may write, and
  its slot given away (sandboxd main.go:573-575, 618-620);
* a waiting run whose command is quiet for 30 s loses its output, or its answer, to a header
  timeout (clients.go:92; the agent sends the header of a log with its first record);
* policies reloaded by egressd miss restrictions of a ceiling that has become narrower
  (egressd main.go:199; network-policy.md:7), and a record keeps the policy of the ceiling of
  its creation (main.go:151);
* a policy update that took its session before a stop may register a policy at an address
  given away since (sandboxd main.go:653);
* two creations of different names exceed the session limit, which is checked under the lock
  of one name (handlers.go:64);
* a VM whose state file is not written yet when sandboxd dies is listed by nobody (sandboxd
  main.go:226); the disk of a session that died with the host is never deleted (main.go:746);
* flows that a narrower policy would deny stay open (network-policy.md:9 says they are
  terminated); a ceiling with two rules for one domain narrows requests to the first that
  fits (policy.go:79-92); a delete beside a resume can leave a VM without a record;
* a log whose file does not open ends as if it were whole (guest-agent main.go:326-329, 340);
  output still in a pipe when `cmd.Wait` closes it is lost (guest-agent main.go:258), and a
  write to the log that fails for a full disk is ignored (252); the reaper of process 1 may
  take a command's status, which then is 126 (625); a command ended by a signal has exit code
  -1 (264), where sdk/src/command.test.ts expects 128 plus the signal; output that fits is
  logged again after the notice of a truncation, and a log that is filled to the byte gets no
  notice (229-251);
* the host ports of a record are not serialized (model.go:64), so a restarted API closes no
  listener of a record it reads (preview.go:97).

In the SDK:

* a request whose answer was lost is sent again though the API may have carried it out
  (with-retry.ts:85; no idempotency key): a command can run twice, and on the next session the
  second time; a resume whose answer was lost is answered `resumed: false` the next time, and no hook
  runs for that session;
* a log that the guest or the VM breaks off is taken for whole, by `logs()`, by a finished run
  and by `output()`, which keeps it (handlers.go:624-629, 662);
* a retry that meets a stop reaches the caller as a 410, where docs/compatibility.md:52
  promises 422; a poll that is answered late can put a handle back to an older session, and a
  failed stop keeps the poll going for ever (sandbox.ts:992-1011); a call made while a hook
  runs overtakes it, and a hook whose command finds the session stopped awaits itself (962-969);
  the signal of the first caller rejects everyone who shares a resume;
* `getOrCreate` deletes and makes a sandbox anew on a 404 or 410, whoever has made it meanwhile,
  and also when the error comes from the onResume hook (865-912); a read on a stale session
  gives `null`, as for a missing file (1146); a fork copies a policy whose header values are
  "<redacted>";
* `async-retry` rejects with the error it met most often, not with the last; a signal does not
  shorten its pause (with-retry.ts:85); a directory that exists is a 502 and so retried;
* `readlink` never gives ENOENT; `readdir` with types shows dot files and without does not;
  moves, links and copies go into a directory that is there; `realpath` and `truncate` accept
  a missing file; `rename` names the old path when it is the target's directory that is missing;
  a write replaces a link that a read follows; two appends race and one is lost
  (filesystem.ts:333); a download that fails leaves part of a file;
* after its timeout the sign-in sends one more poll, and may store the token it brings though
  the error is thrown (dev-credentials.ts:158-161 says that pending timers are aborted); two
  processes that make the default project at once, and one fails with a conflict.

## Proofs

Every theorem holds for all values of the constants that satisfy the assumptions of its module,
which TLC checks in the runs: any sets of requests, names, flows, handles, calls and files, any
operations and faults, any limits and any number of crashes. Where a theorem needs more, it says
so in an `ASSUME`, and the reason is below. Most properties are not inductive; the strengthening
is a definition of its own, made of named parts, and TLC has found it invariant on the instances
of the runs. There is one lemma for each family of steps, and one for each operator that changes
the state.

| Module | Theorems (property) | Inductive invariant |
| --- | --- | --- |
| `LifecycleProofs` | `TypeCorrect` (`TypeOK`), `IndexCorrect` (`SessionIndexConsistent`), `IndexInvariant` | `IndexInv` |
| | `NoStoppedSessionReturns` (`StoppedForGood`, an action property) if `NoWriteBack` | `StopsInv` |
| `LockedProofs` | `LockedInvariant`, `OneVmPerSandbox` (`OneVmPerName`), `NoVmIsForgotten` (`NoOrphanVm`), `LifecycleIsDurable` (`ImplementsDurableSandbox`), all if `Locked` | `LockedInv` |
| | `CollectorSparesResumePoints` (`ResumePointsSpared`, an action property) if `Locked` and not `FreshMayExpire` | `SparedInv` |
| `RuntimeProofs` | `DaemonInvariant`, `ImagesAreOfQuietDisks` (`SnapshotsQuiesced`, an action property) | `DaemonInv` |
| | `SlotsFollowSessions` (`SlotTable`), `RestartsAreClean` (`RestartPossible`), `AnsweredVmsAreExclusive` if `SerialStops` | `SlotInv` |
| | `SlotsAreExclusive` (`SlotsExclusive`), `MemoryStaysCommitted` (`CommittedMemory`), `NothingIsForgotten` (`NothingForgotten`), for fewer faults | `VmsListed`, `Admitted`, `DisksListed` |
| `EgressProofs` | `IntersectNarrows`, `IntersectWithinCeiling`, `SavedReloads` (`SavedLoadable`) | `TablesInv` |
| | `AllowlistHolds` (`OnlyAllowlistedEgress`) if `StableCeiling` | `NarrowTables`, `NarrowFlows` |
| | `CountersAreExact` (`CountersExact`), `GatewayTypeCorrect` (`GatewayTypeOK`) | `CountersInv` |
| `GuestProofs` | `GuestTypeCorrect`, `LogStaysBounded`, `LogIsSealed`, `StreamsAreWhole` (`GuestTypeOK`, `LogBounded`, `SealedLog`, `LogsServedWhole`) | `GuestInv` |
| `SdkProofs` | `RequestsKeepAccounts` (`EffectsAccounted`) | `RequestsInv` |
| | `OneSignInAtATime`, `TimedOutIsQuiet`, `ProjectIsTheLastStep` (`OneSignIn`, `QuietAfterTimeout`, `OneProjectMade`) | `SignInInv` |
| `SdkSandboxProofs` | `SandboxInvariant`, `EffectsRepeatWhenLost` (`RepeatsOnlyLost`), `HooksRunOnce` (`OneHookPerSession`), `RetriesFollowTheHook` (`HookBeforeRetry`), `HandlesGoForward` (`SessionsForward`) | `SandboxInv`, `ForwardInv` |
| `SdkToolsProofs` | `CommandsInvariant`, `OutputsAreWholeUnlessCut` (`OutputWholeUnlessCut`) | `CommandsInv` |
| | `PagesInvariant`, `WalksAreComplete` (`PagesComplete`) | `PagesInv` |
| | `ViewsAlwaysAgree` (`ViewsAgree`), `FilesInvariant`, `AppendsAreKept` (`AppendsKept`, an action property) | `FilesInv` |

### The lifecycle

`SessionIndexConsistent` is not inductive. `PutSandbox` drops the entry of the session the
row held and writes one for the session of the copy it is given: if that session indexed
another row, that row would lose its entry. `IndexInv` adds that a session belongs to
one name for good (`SessionsKeepNames`: `name[rec[p].session] = name[p]` for every copy,
and likewise for rows), and that a handler past its first read holds a record
(`LocalsOK`). Since the name of a request never changes once it has begun, each
handler's write is about its own name.

`LockedInv` says what the locks are for: a handler inside its lock holds it (`LockHeld`), and
what it read there is still so (`Knows`: the record does not exist, or is its copy, with the
status it found). With that, a VM belongs to the session of the record or to the handler that is
about to record it. `Locked` leaves out the handlers that take no lock (`extend`, `policy`,
`update`, `delete`) and the faults after which a step's effect is in doubt (`create_lost`, `undo`,
`put`, `crash`). It is no weaker than it must be: with any one of the eight let in,
TLC finds `NoOrphanVm` and the refinement violated on the instance of `lifecycle_locked`;
`OneVmPerName` breaks under `delete`, `create_lost`, `undo`, `put` and `crash`. These are
the divergences the findings list, and the theorem says there are no others.

The refinement maps a name's VMs to `live`, what the VM was started from to `disk`, and the
record's snapshot to `point`, except between a stop's capture and the write of it, when the
image taken is the point already (`ResumePoint`). A lemma for each kind of step says what it does
to the rows and VMs of its own name and that it leaves other names alone (`AtRest`); a create or
resume is `Boot`, a stop `Halt` (`SpawnBoots`, `UndoHalts`, `StopHalts`), all else a stutter.

`SparedInv` is why no collector strands a sandbox though it works on a record it listed before:
no snapshot of the sandbox is newer than its resume point (`NewestPoint`), and what a pass sets
out to delete has a newer one beside it or is past its date. It needs that the newest snapshot
does not expire in the pass that lists it, and `Locked`, since a PATCH may name an older one.
`StoppedForGood` holds with
all faults and crashes; `NoWriteBack` excludes just `extend`, `policy` and `update`,
which write back a record they read under no lock, each of which TLC finds reviving a stopped one.

### sandboxd

`DaemonInv` says who works on a session: its creation until the API is told of it, afterwards
stops and policy updates; what was to be killed is dead
or in `runaway`; what the API was told of is in the state
files as long as its VM lives. `SlotInv` adds that `slots` is the inverse of `Session.Slot` and
that one stop at a time works on a session. That is `SerialStops`, the API's lifecycle mutex:
without it two stops of one session free the slot twice (run `double_stop`). `SlotsExclusive` and
`CommittedMemory` need that sandboxd does not die while its VMs live on (`"crash" \notin Faults`; a
reboot ends them), since a VM that was not written to a file yet is on no list after;
`NothingForgotten` needs that nothing dies at all, since a reboot leaves disks.
`AnsweredVmsAreExclusive` says what remains when it does: two VMs that the API was told of never
share a slot. The VMs meant are those in `Reachable`, which leaves out the ones a kill has missed:
for these none of it holds.

### egressd

`IntersectNarrows` says that what an effective policy allows, both the request and the ceiling allow;
the delicate case is an empty set, which means "no restriction", and `Fits` excludes the rules
whose intersection would be empty by accident. `IntersectWithinCeiling` says that each rule of an
effective policy fits the ceiling again, so egressd accepts what the API narrowed. `TablesInv`
carries that over the table in memory and the file, since either may become the other.
`AllowlistHolds` carries that every entry, every copy held by a flow and every destination
dialed is within the ceiling. `StableCeiling` (one ceiling is configured) is needed
because a policy reloaded under a narrower ceiling is not narrowed; the run `egress` checks
the property for two ceilings that differ in their domains, where a reload under the other
is refused. `CountersInv` types the flows and says that each counter is the number of flows
between admission and release, which with any number of flows is arithmetic of cardinalities.

### The guest agent

`CommandsInv` orders the end of a command: no copier holds
anything once it has ended, none is left once the exit code is recorded, and a code without
a result of `cmd.Wait` belongs to a command that never started (so that `startCommand`'s
failure and `wait` never both record one). `AccountInv` is the balance of bytes: logged
plus held is taken, until the log is full. `RequestsInv` says that a reader is past its
last look only if the command was done before it, or the file did not open, which with an append to a closed log
being void makes that look the last word.

### The SDK

*Requests.* `RequestsInv` says where a request stands: between attempts its effects are at most
the errors it has met, an answer adds one at most, "ok" and a garbled body come of an effect, and a
conflict after an effect comes after an error. It needs that the main error is one of those met.

*Sign-in.* `SignInInv` says that a sign-in under way is the one in its process's cache, that a late
poll is on its way out of the polling, and that nothing has been made before the last step.
`Advances` and `Rejects` show that the two ways a sign-in moves keep all of it.

*Objects.* `SandboxInv` is made of types (`Sound` says of a call that its
effects are those whose answers were lost, or one more with an answer `withResume` does not try
again), of the hooks (`HooksInv`: an answer that says it
resumed a session is the only one for that session, and no hook has run for it), and of the calls
sent again (`RetryInv`: they name a session from before the resume under way). The attempt to
prove `HookBeforeRetry` corrected it. It had said that no such call is on its way while
the hook runs; but one that a resume has released may not have been answered yet when the session
has stopped again and the next resume runs its hook. What holds is that such a call names an
older session than the hook ran for. It also showed that a stop may be answered with a later session than
it named (`crossed`), which the order of sessions must leave out.

`SessionsForward` compares the session a handle has with one that was asked for long before and
arrives now, so `ForwardInv` follows every answer on its way. `OwnersInv` says whose a handle is:
until a static method returns it, no other call is on it, and it is resumed only while that
method waits. Without this an answer to `create` could overwrite a handle someone else
resumed meanwhile. `IdsInv` says what session an answer names: the one its request named, and that
is the session of the handle as long as the call has the handle's `Session` object (`obj`; an
older object that is refreshed leaves the handle alone); a resume and a creation are answered with
one no older than the handle's. `IdsInv` ends with the first stop answered across sessions. The
property says so too, and leaves out polls, which do go back.
TLC had found `ForwardInv` true in all states of `sdk_sandbox` before. The proof needs one
fact about `None`: it is not a session (`SdkSandboxAssumption`).

*Commands.* `CommandsInv` says that a stream that ended as such streams end has brought the whole log,
unless the API cut it (`StreamInv`), and that whatever a call or the cache shows came of one.

*Lists.* `PagesInv` says that all that stayed is behind the cursor or has been or is about to be
yielded, and that a walk does not pass the cursor. The cursor is the greatest number of a page,
and a page the foremost items behind a cursor; both are sets here, so the lemmas `GreatestItem`
and `ForemostItems` say what their definitions yield.

*Files.* `ViewsAlwaysAgree` is a fact about every tree, with links that lead anywhere, in circles
too; a path that resolves is found by walking along links (`Hops`). `FilesInv` says that
the tree remains one, and that an append nobody overtook has found what its file holds; it needs
what each shell command does to a tree (`RmIn`, `MvIn`, `CpIn`, ...).

Facts about numbers and recursive functions (`LowestFreeIsFree`, `GreatestItem`, `WalkExists`)
are proved by a least counterexample (`LeastNumber`, from the well-foundedness of the numbers).

### Only model-checked

Liveness, which is out of the prover's reach (fairness, `ENABLED`): `EveryRequestReturns`,
`StopsAreRecorded`, `EveryFlowEnds`, `EndedCommandsAnswer`, `CallsEnd`, `CommandCallsEnd`. Every safety
and action property that holds has a proof. The three violations are TLC's.

## Not modelled

Previews: listeners and the router's signed host names. The guest agent's file operations,
network set-up and shutdown are single operations on the VM's own system (`SdkFiles` says what
two of them do to a tree). Authentication, configuration, tokens and wire types keep no state.
In the SDK, validators, the proxy's options and the conversions of policies and paths are
functions of one value; `ensureValidToken` and the revocation of tokens are requests to an
identity service; progress output of the sign-in is wording. Deployment is configuration. The
parsing of ClientHello, HTTP headers, DNS packets and tar streams is a computation over bytes,
abstracted to what it yields.

## Plan

1. Done: lifecycle with its abstract specification, sandboxd, egress, guest commands, the SDK.
2. Done: proofs of every safety property that the runs check, and of the refinement.
3. An abstract command (an append-only log and one final exit code) that `GuestCommands`
   implements, and that `SdkCommands` uses instead of its own.
4. `Previews`: ports and labels beside the lifecycle's open and close, restart, lost
   host ports; deadlines and retention as functions checked against a
   reference definition.
