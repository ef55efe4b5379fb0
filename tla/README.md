# surfbot-cli in TLA+

Models, model-checking runs and machine-checked proofs of `surfbot-cli`, the
agent that enrolls a machine with the Surfbot cloud and keeps one WebSocket
session to it. Every definition is translated from the Go source; `PROJECT.json`
("map") gives the lines each one stands for.

## 1. The system

| Part | Source | State it keeps | Operations | Hard behaviour |
|---|---|---|---|---|
| WebSocket client | `internal/transport/ws_client.go` | loop position, attempt counter, `connectedAt`, connection, two goroutines, a watchdog timer | `Run`, `runOnce`, `readLoop`, `runHeartbeats`, `runPings`, `purgeToken` | server, network, timers, goroutines and a cancellation in every order |
| Reconnect delays | `ws_client.go` `backoffFor` | none | table, rate-limit shift and doubling, jitter | bounds and monotonicity whatever is drawn |
| Identity on disk | `token_store.go`, `metadata.go` | `agent.token`, `agent.json` | `Save`, `Load`, `Delete` of each | two files, no lock, crashes |
| `login`, `enroll` | `internal/cli/login.go`, `enroll.go` | the identity the server just issued | poll or POST, save, save, `verifyConnection` | partial failure; lost replies; clock |
| `logout` | `logout.go` | the loaded token | load, revoke on the server, delete, delete | partial failure |
| `status` | `status.go` | a short-lived client | load, load, probe, purge | the client is stopped while it may be purging |
| Service runner | `internal/service/runner.go` | the daemon's goroutine, its context, `exitErr` | `Start`, `run`, `Stop` | stop against rejection; process lifetime |
| `daemon` commands | `daemon.go` | none of its own | install, start, stop, restart, run | admin, service manager |
| REST client | `api_client.go` | none | `postJSON`, `postBearer` | which error means what |
| Pinning | `pinning.go`, `pinning_prod_check.go` | a once-flag per host | `VerifyPeerCertificate` | release builds without pins |
| Envelope, fingerprint, sysstats, config, printing | the rest | none | pure functions | none |

**Interaction.** The daemon and the one-shot commands are separate processes
that share nothing but the two files and the server. Each builds a `WSClient`
and calls `Run`, which blocks until its context is cancelled, the server rejects
the token (4401, 4403, HTTP 401) or nothing can be retried (4503, HTTP 403, a
plaintext URL). `Run` deletes the token file itself when it was handed a
`TokenStore` (daemon, `status`); its callers delete the metadata.
`verifyConnection` (end of `login` and `enroll`) hands over no store and deletes
both. Inside `Run` three goroutines and one timer, whose callback nobody joins, share a
connection, and the `OnServerHello` callback may cancel the context `Run` is running under.

**What makes each part correct.**

* Client: one session at a time; the token is deleted only on the server's own
  verdict; what `Run` returns is what happened; a verdict is final; delays climb,
  restart after a stable session and stay bounded; a cancelled or rejected `Run`
  returns, and no other gives up; a dead session is noticed.
* Files: token and metadata belong together; a process deletes only the token it
  worked with, and an honoured one only at the operator's wish; a purged token stays
  gone; a revocation cleans up; every command ends.
* Service: a stop waits for the work in hand and ends, and so does the command behind it; a daemon that was turned
  away, or finds no agent, does not make the manager restart it again and again;
  the exit code tells the truth; no daemon outlives its unit.
* Login: it ends, at most a known time after its deadline unless a duration wrapped; the
  verdicts it passes on are true of the code (its own "expired" says only that a time is
  over); an agent whose token nobody holds is the network's doing; secrets cross only the
  channels the URL policy and the pins allow, except where a redirect leads.
* One file: nobody reads a truncated token; no temporary file stays behind.
* Timers: a session in order is never closed by one; a silent network or a stuck
  server is noticed in bounded time.

`PROJECT.json` ("hazards") lists, with source lines, where the code is exposed to
going wrong in ways a test hardly reaches, and which property covers each.

## 2. Modules

| Module | Models | Notes |
|---|---|---|
| `Backoff` | `backoffFor`, `fastReconnectDelay` | pure operators; used by `WSClient` |
| `BackoffProofs` | | bounds, order and saturation of the delays |
| `ClientContract` | what `Run` promises its callers | abstract specification |
| `WSClient` | one call of `Run` with all it runs concurrently with | implements `ClientContract` |
| `WSClientProofs` | | type correctness, invariants, refinement, liveness |
| `MCWSClient` | | constants for TLC |
| `Enrollment` | the two files and every process that touches them | uses `Run` through its contract |
| `MCEnrollment` | | constants for TLC |
| `EnrollmentProofs` | | types, purged tokens, the pair of files, the token file as a register, liveness |
| `ServiceLifecycle` | `daemon` commands, service manager, process, `Program` | composes the runner with `ClientContract`; checked directly |
| `ServiceProofs` | | types, exit codes, restarts, completeness of a stop, liveness |
| `GoDuration` | `time.Duration(n) * time.Second` | pure: a product that wraps; used by `DeviceLogin` and `KeepAlive` |
| `GoDurationProofs` | | what a product or a sum wraps to, and when it does not |
| `UrlPolicy` | `requireSecureScheme`, `requireSecure`, `inferAPIBaseURL` | pure; used by `DeviceLogin` |
| `Pinning` | `VerifyPeerCertificate`, the check of release builds | pure; used by `DeviceLogin` |
| `DeviceLogin`, `MCDeviceLogin` | `runLogin`, `pollDeviceToken`, `postJSON` | device-code flow on a lossy network, with a clock |
| `DeviceLoginProofs` | | policy lemmas, types, five invariants, a bound on the polling, the end of an interrupted login |
| `FileRegister` | what `TokenStore` promises its callers | abstract specification |
| `AtomicFile`, `MCAtomicFile` | `Save`, `Load`, `Delete` call by call | implements `FileRegister` |
| `AtomicFileProofs` | | invariants, refinement |
| `KeepAlive`, `MCKeepAlive` | `runHeartbeats`, `runPings`, the watchdog, `clampHeartbeat` | one session, with a clock |
| `KeepAliveProofs` | | the clamp, and what the timers guarantee |

How they fit: `WSClient` implements `ClientContract`; `ServiceLifecycle` and
`Enrollment` use the client through that contract. `AtomicFile` implements
`FileRegister`; `Enrollment` works on two such registers (and knows no power loss). `DeviceLogin` ends where
`Enrollment`'s `Issue` has happened. `KeepAlive` is `WSClient`'s session seen by
its timers: `WSClient` lets every timer fire whenever it is armed, so what it
guarantees holds for the timing `KeepAlive` adds as well.

### WSClient

`pc` is where the goroutine that called `Run` is: `loop` (the `ctx.Err()` check),
`dial`, `greet` (write `client.hello`), `await` (read `server.hello`), `read`
(`readLoop`), `join` (`loopCancel`, `wg.Wait`), `classify` (after `runOnce`),
`purge`, `backoff` (the `select`), `done`. The rest of the state:

| Variable | Code |
|---|---|
| `cfg` | URL verdict of `requireSecureScheme`, `TokenStore != nil`, whether `OnServerHello` cancels |
| `cancelled` | `ctx.Err() != nil` |
| `attempt` | `attempt`, saturated at the end of the table (`BackoffSaturates` shows nothing is lost) |
| `held` | `connectedAt`: zero, younger than `stableConnectionWindow`, older |
| `err`, `wait`, `result` | the classified error, the delay chosen and why, the return value |
| `conn`, `inbox`, `closeSent` | the client's end of the socket, frames in flight, the one close frame it may send |
| `hb`, `ping` | the goroutines of `runHeartbeats` and `runPings` |
| `dog` | the goroutine of a watchdog callback: `begun` in this session, or `stale`, left over from an earlier one |
| `said`, `hellos` | history: what the server said on this attempt; how often the hook ran |
| `tokenFile` | the token file, as far as this `Run` changes it |

One action per step between two points where another process, the network or a
timer can act. `server.hello` runs both hooks and starts both goroutines in one
step: nothing between those calls blocks or is shared except the context, which
`Cancel` may set before or after. `watchdog.Stop` keeps a callback from starting, but waits
for none that has started (`ws_client.go:554-557`): `WatchdogFires` and `WatchdogCloses`
are two steps, and the second may come during the join, after `runOnce` has returned, or in
the next session. There it finds its own connection closed, never the new one, which
`JoinBeforeRedial` says and a callback on the current connection would break. `github.com/coder/websocket` is modelled from
how the code uses it: a `Close` sends at most one close frame and waits at most
five seconds for the answer; a cancelled `Read` or `Write` closes the TCP
connection without a close frame. Time is not counted: a timer fires at any
moment it is armed. So heartbeats, pings and the watchdog come in every order, more
than the clock allows, and the safety results do not depend on their periods.

### Enrollment

Processes: runs of `login`/`enroll` (`Enrollers`), of `logout`, of `status`
(`Probes`) and the daemon. `pc` is where each one is, `have` and `about` the token
and metadata it has read (or been issued), `token` and `meta` the two files,
`registry` the server's view of each token, `answer` what a `status` run reports,
`purged` the history of deletions. Each file operation is one step; loading the
pair is two, deleting it is two, saving it is two. The client appears through its
contract: it ends by rejection, refusal or stop. `DaemonRejected` and
`StatusRejected` need a revoked token and a URL that the client accepts, as in `Run`.

Two constants choose the environment. `Exclusive`: an enrollment has the machine to
itself. No other command is under way and the daemon is stopped, or parked after a
rejection, from its first step to its last. No code enforces this and no doc asks for
it: `daemon.go:99` ("use this after `login` / `enroll`") and the repository's README
(70-72) ask for a restart *after* the enrollment, so a daemon may well be running during it.
`Exclusive` is an assumption about a careful operator, stronger than the documented
procedure; `enrollment_faults`, `enrollment_revocation` and the theorems that do not name it
do without. `Faults`: every file operation may fail and every process may be killed
between two steps.

### ServiceLifecycle

`unit` and `wanted` are the manager's registration and target, `order` the command
it is carrying out, `asked` a stop signal on its way. `proc` is `runDaemonRun`
(`boot`, `up` inside `s.Run`, `stopping` inside `Program.Stop`), `work` the
goroutine of `Program.run` (`load`, `client`, `over`), `exitErr` the field it may
set. `phase`, `ctxDone`, `token` and `answer` are the variables of
`ClientContract`; `ClientRuns` is one of its actions. `Start`, `Stop` and
`StopReturns` are what their Go namesakes do up to the next point where the other
goroutine can act. `RunFails` is an error of `service.New`, or of `s.Run` before it calls
`Program.Start` (`daemon.go:286-301`). The manager restarts any process that ended while `wanted`:
the policies of systemd, launchd and the Windows SCM differ, and the model allows
the eagerest.

### DeviceLogin

`pc` is `code` (POST `/cli/device/code`), `check` (the loop head), `sleep`, `wait`
(the request) and `done`; `flight` the request or its answer on the wire, `stray`
a request given up by the client that may still arrive, `code` the device code at
the server, which redeems it once. `setup` holds the flags. `now` counts time since the code
was issued. A timer stops the clock until it has been served, which is how a real clock
looks to a process that is never starved.

`PollInterval` and `expiry` are the 64-bit products of `login.go:79-80`, with an arbitrary
width (`GoDuration`), and the doubling of `slow_down` wraps as well. The test
`Interval <= 0` (line 65) comes before the product, so an interval may still be zero or
negative: `time.After` then fires at once, and the loop polls without a pause until the
deadline. The clock therefore also ticks at the loop head. A negative `expires_in`, or one
that wraps below zero, gives a deadline that has passed. `Ordinary` names the parameters for
which nothing wraps.

`peer` is the key of the party that last had the request (`Plain` without TLS) and `moved`
whether a redirect led there. The HTTP clients (`api_client.go:54`, `145`) set no
`CheckRedirect`, so up to ten redirects are followed without another `requireSecure`, and
307 and 308 send the body again (`Redirected`). From an https base the transport checks
every TLS peer against the base's pins, wherever the redirect leads (`Admits`); plaintext
it lets through (`Follows`).

`VerdictHonest` gives each verdict the meaning that is true of it; for `timed_out` that is
less than its text says (section 4). `ConnectFails` covers a pin mismatch too: `pinning.go:56-58`
says such an error is not retried, but `pollDeviceToken` retries every error that
is not an answer of the server, and so does `WSClient.Run`; the secret is not sent in
either case. The "Hard ceiling" of `login.go:34` is soft, by what `BoundedOvershoot`
states.

### AtomicFile

`pc[w]` is the call inside `Save` that comes next; each `Save` writes an inode of
its own. `entry` is the inode under the file's name, `temps` those under temporary
names, `content` what inodes hold; the `disk` copies are what a power loss
leaves. The cache writes file contents and the directory back at any time and in
any order. `Load` holds on to the inode it opened. Kills and failed cleanups are
recorded in `littered`.

### KeepAlive

`beat`, `ping` and `dog` are the ages of the two tickers and the watchdog,
`unacked` and `awaiting` what they wait for. `PromptAssumption` says what a server
and a network "in order" are: they answer before the next heartbeat and before
the next ping. `Duration` (of `GoDuration`) is the 64-bit product of `ws_client.go:626`
with an arbitrary width; `ClampInWindow` holds for every width. A number of seconds that
wraps into the window is accepted as if the server had sent it.

## 3. Runs

| Run | What it asks | Instance |
|---|---|---|
| `wsclient_safety` | six invariants, two action properties and the refinement | whole vocabulary, two frames in flight, jitter at both ends and the middle; 4.2 M states |
| `wsclient_liveness` | `RunReturns` (after a cancellation, after a verdict), `KeepsTrying` (otherwise), and `NeverStuck` on which their proofs rest | four words, one frame, no jitter; 149 k states |
| `wsclient_close1000` | finding 1 | expects a violation |
| `enrollment_exclusive` | the pair of files stays a pair; no token is deleted without a reason (`DeletionsReasoned`) | two identities, two enrollments, one logout, one status, the daemon; `Exclusive`; 22 k states |
| `enrollment_faults` | `PurgedStaysGone` | two enrollments, one logout, the daemon; everything interleaved and failing; 201 k states |
| `enrollment_revocation` | `EverythingSettles` (revocations clean up, commands end), and `NeverStuck` | one enrollment, one logout, one status and the daemon, interleaved, failing and killed, under fairness; 34 k states |
| `enrollment_stale_purge` | finding 2 | expects a violation |
| `enrollment_status` | finding 3 | expects a violation |
| `service` | exit codes, restarts, stops, uninstall, the end of every order, `NeverStuck` | one service, commands without end; 8.8 k states |
| `device_login` | `LoginEnds`, deadline, verdicts, lost tokens, secrets, `NeverStuck` | five bases, four hosts, redirects to anywhere, pins real, mixed and missing, short times, products that wrap; 904 k states |
| `atomic_file` | truncation, litter, the refinement | two `Save`s, one `Load`, deletions, errors, kills, power losses; 23 k states |
| `keep_alive` | what the timers do to sessions in order and out of order | six offers, intervals of 4 to 6 ticks; 13 k states |

**Bounds, and why they are enough.** The attempt counter saturates at the last
index of the table, which `BackoffSaturates` proves is exact. Two frames in
flight let a hello be followed by any verdict before the client acts. `HelloBound`
is 2, one more than the property allows. `Run` may reconnect without bound: no
counter limits it. Jitter is sampled at the ends of its window because delays are
monotone in it. Two identities let one replace the other, two enrollments do it,
and further ones would act on the same two files. The proofs of section 5 lift
the first two bounds of `WSClient` altogether. `LongestDelay` is the length of
the longest wait, not a bound on the search.

`service` is bounded only by its own finite state. In `device_login` lifetimes of
0 and 4, intervals of 1 and 2 (the default, for an offer of -1) and a timeout of 2 let a poll
start before, at and after the deadline and `slow_down` double the interval twice. With 32
durations, 20 seconds wrap to -12: as a lifetime, a deadline in the past; as an interval, a
loop without pauses whose doublings wrap to 8, to -16 and to 0. The loop's clock is bounded
by its own deadline. The hosts cover every case of `looksReal`. In
`atomic_file` two `Save`s suffice for one to replace the other's file under a
reader. In `keep_alive` the smallest accepted interval is 4 ticks, an odd and an even interval
occur, and an offer of 18 wraps at a width of 32. All of these are lifted by the
proofs of section 5.

Every property of a passing run has a mutant: a version of one mapped
definition with a plausible bug ("Regression" operators beside the originals),
under which TLC finds the property violated.

**Fairness.** `WSClient`: the goroutine of `Run` goes on (each network call has a
timeout and each timer fires); a read on a dead connection returns an error even
while frames arrive; a goroutine whose context or connection is gone notices; a
closing handshake ends. Nothing is asked of the server, the caller, the watchdog
or a healthy session. `Enrollment`: a process that has begun goes on; the
daemon hears of a revocation of the token it holds (close 4401, or 401 at
its next dial); a refused URL is refused. Nobody has to start or stop anything.
`ServiceLifecycle`: outside a session in order, which may last forever, the
goroutine of `Program.run` goes on (`GoesOn`); a process boots, a signal is taken,
`Stop` returns when the goroutine is over and the command when the process is.
What this asks of the client is `Lively` of `ClientContract`, which `RunIsLively`
proves of `WSClient`. `DeviceLogin`: the process runs, a cancelled context aborts its
request (`Promptness`), and its clock advances - strongly, since a loop that does not pause
is in no place long enough for a weak condition, and a clock does not stop for it.
Nothing is asked of the server, the network or the user.

## 4. Findings

1. **No close 1000 on a clean stop.** `internal/service/runner.go:225` says the
   client sends it; a cancelled read tears the connection down without a close
   frame, and a ping that was waiting sends 1008.
2. **A stale rejection deletes a valid token.** `Delete` removes whatever the
   file holds. A daemon that is running during a second `login` deletes the new identity
   when the old one is revoked. The documented restart (`daemon.go:99`, the repository's
   README 70-72) comes after the new token is saved, so it narrows the window and does not
   close it. What does is proved: where no client is under way at the moment an identity
   is saved (`SavesUndisturbed`) - the service stopped before the `login`, not restarted
   after it - every deleted token was revoked (`PurgesAreDeserved`), whatever else is
   interleaved, fails or is killed.
3. **`status` reports online and purges.** A revocation read just before the
   probe stops its client deletes the token file; the sentinel is dropped and
   `agent.json` stays. `PairWhole` names this residue as its only exception.

Where a passing property follows the code, and a text says otherwise:

* **Exit code after a revocation.** `ws_client.go:91` says "`ErrTokenRevoked` — purge
  token file + exit 0". `runner.go:206` stores the sentinel in `exitErr`, and `daemon.go:302`
  returns it: `runDaemonRun` ends with an error once it is stopped. `ExitCodeHonest` requires
  the error, as `daemon.go:295-298` says the exit code should reflect.
* **"device code expired before authorization"** (`login.go:142`) is printed whenever
  `expires_in` or a shorter `--poll-timeout` is over. The code may be pending, approved, denied,
  or redeemed with the answer lost. `VerdictHonest` says that much and no more.
* **"Hard ceiling on the device-code polling loop"** (`login.go:34`) is soft, by what
  `BoundedOvershoot` states. Where a duration wraps (`Ordinary` fails) no bound is claimed:
  an interval that wraps to nothing polls without a pause (`login.go:79`, past the test
  of line 65), and a negative one whose doubling wraps to a huge one sleeps for as long.
* **`requireSecure`** (`api_client.go:33-38`) refuses a plaintext URL, but is asked once per
  request, before it is sent; redirects are followed without it. `SecretsSealed` names what is left:
  from an https base no TLS peer without a pinned key of the base, but plaintext where a
  redirect leads. `requireSecureScheme` has the same limit: the client of the WebSocket
  handshake (`ws_client.go:373-394`) restricts no redirects either. `WSClient` models the verdict on
  the configured URL only.

One more line does not do what it is there for, with no effect a caller sees:
`runOnce` never returns nil, so the branch at `ws_client.go:209` ("ctx
cancellation propagated as nil") is dead. A cancelled attempt passes through the
selection of a backoff, logs a reconnect and calls `OnReconnect`, and only the
`select` then returns nil. `WSClient` models it that way (`InterruptErrors`,
`StopInBackoff`).

And one sentence describes less than what happens. The repository's README (92-94)
and the log of `runner.go:205` say that the daemon exits after a rejection, "and the operator
re-enrolls [...] and starts the service again". What ends is the goroutine; `s.Run`
keeps blocking, and the process stays up, disconnected, until it is stopped
(`ClientRejected` leaves `proc` alone). So `daemon start` after the new `login` does
nothing, as `StartCommand` does with a process that is up; it takes `daemon restart`.
That the process stays is what keeps the manager from restarting a rejected
daemon again and again, as `runner.go:130-134` wants, and `NoHotRestart` shows it.

## 5. Proofs

Checked by `tlapm`, for every value of the constants that the named assumptions of
the modules allow. In each of the modules below the invariants are parts of one
inductive invariant, checked with TLC before it was proved.

`WSClient` and `Backoff`:

* **Delays** (`BackoffProofs`): `DelayBounds`, `JitterKeepsOrder`,
  `RateLimitWaitsLonger`, `BackoffSaturates`, from four lemmas on the table.
* **Types** (`TypeCorrect`): `TypeInv`, which is `TypeOK` with the wait in integers; one
  step per action, the delay bound through `JitterBound` and `WaitsTyped`.
* **Safety** (`SessionsNeverOverlap`, `PurgeOnlyOnRejection`, `ReturnsAreHonest`,
  `HookRunsOnce`, `FastReconnectEarned`). None of these is inductive. `Parts` is: what the inbox holds was said (`InboxSaid`), nothing
  was said before the dial succeeded (`DialUntold`), the connection's state fits
  `pc` (`ConnPhase`), the classified error has its cause among what was said
  (`ErrGrounded`), the outcome and the purge follow from that error
  (`OutcomeAtEnd`, `PurgeOnRejection`), a hook that ran has cancelled (`HookPhase`), and a fast wait
  has an announcement behind it (`WaitGrounded`): the close code 1001, or `server.shutdown` in the session proper,
not as the first frame (`ReadHeld`). A watchdog callback that outlived `readLoop` belongs to an
earlier session (`DogPhase`). The chain from a frame to a
  deleted file is those conjuncts in that order. TLC checked `TypeInv /\ Parts`
  as an invariant before it was proved.
* **Refinement** (`RunKeepsContract`): each action is a step of `ClientContract` or
  leaves its variables alone (`ContractStep`).
* **Action properties** (`DelaysClimb`, `StabilityForgives`): a wait chosen is the
  jittered delay of the attempt that was lost (`WaitPlaced`), so two waits in a row compare by
  `JitterKeepsOrder`.
* **Pace** (`RedialsArePaced`): while the client waits to dial again, the wait is the
  50 ms of a fast reconnect only after an announced departure, at least 3 s after a rate
  limit and at least 750 ms otherwise. It joins `WaitGrounded` with `DelayBounds`
  through the wait last drawn (`WaitDrawnHolds`).
* **Liveness** (`RunsReturn`, `RunsKeepTrying`, `RunIsLively`): see the end of this section.

`Enrollment`, for any sets of commands, tokens and refused URLs:

* `TypeCorrect` and `PurgedTokensStayGone` hold with everything interleaved,
  failing and dying. A purged token can come back only through a process that
  has yet to save it; but a token is saved by the one process it was issued to,
  so a token not yet issued or not yet saved is nowhere else
  (`UnissuedUnknown`, `UnsavedPrivate`).
* `PurgesAreDeserved` proves `PurgesInvalidatedToken`, which finding 2 refutes, under the weakest condition
  this project knows to repair it: `SavesUndisturbed`, no new identity is saved while a client
  is under way. Neither `Exclusive` nor the absence of faults is assumed. A client's token is then what
  the file holds, or nothing (`Current`), and it was revoked when the rejection was heard
  (`Revokers`). The documented restart does not give this condition, as it comes after the save.
* `DeletionsAreOwn` and `ActiveTokensAreKept` (together `DeletionsHaveReasons`) assume
  `Exclusive` alone; operations may fail and processes die. Every process deletes the token
  it holds; an honoured token goes only for another enrollment, by `logout`, or for its own
  refused ws_url. The invariant is `OwnInv`: which command may be where (`Sorts`), an enrolling process is
  alone (`Alone`), and what a process holds is what the token file holds, or held before it
  was deleted (`OnDisk`). A fault moves a process towards its end and touches no file, so
  it cannot break it; the pair of both files it can tear.
* `TokenFileIsRegister` assumes no faults: the token file, whoever touches it, is a
  `FileRegister`, the specification `AtomicFile` implements call by call. So the one-step
  file operations of `Enrollment` are those of a `TokenStore`.
* `ClientPairsMatch` and `PairsAreWhole` assume `Exclusive` and no
  faults, as the run does; outside these the pair can be torn. `PairInv` says which
  processes may be where (`Roles`), that an enrolling process is alone
  (`Alone`), and what the two files hold in each of its steps, while a pair is deleted
  and while it is read (`Enrolling`, `Dropping`, `Reading`, `Whole`).

`ServiceLifecycle`: `ExitCodesAreHonest`, `NoOrphanProcess`, `NoRestartLoop`,
`StopsAreComplete`. The invariant ties the goroutine's position to the client's phase
and `exitErr` to the client's answer (`Books`), and a process that is being stopped to the
command behind it (`Orders`).

`DeviceLogin`: `TypeCorrect` holds for every pair of numbers the server may send and every
width: the loop runs on durations, of which the first interval is the product of a positive
number of seconds - but not necessarily positive itself. Where nothing wraps (`Ordinary`),
`PausesNeverShrink` says every pause is one, and `OvershootIsBounded` bounds the time the loop
outlives its deadline. Both need `Timing`: every doubling of the interval is paid
for by a sleep as long as the interval was, so the interval never exceeds the first one
plus the time gone by, and the doubling does not wrap. `TokensAreNotDropped` and
`VerdictsAreHonest` rest on `Ledger`: the token of a consumed code is in the answer under way,
in hand or lost; and `timed_out` is given only after `expires_in` or `--poll-timeout`.
`TokensTravelSealed` and `ReleasePinsLogin` follow from whom a request may reach
(`Addressed`), over any number of redirects: no TLS peer gets by the pins of a release build, and
plaintext is spoken only where a redirect led there. `InferredBaseAccepted`,
`InferenceKeepsTLS` and `ReleaseIsStrict` are about `UrlPolicy` and `Pinning` alone.

`AtomicFile`: `TokensAreWhole` needs that a `Save` past its fsync is whole on the disk, so
that neither the rename nor a later power loss can expose less; `FileIsRegister` maps the
name to the register's value and every call but the rename to a stutter.

`KeepAlive`: `ClampInWindow`, from `GoDurationProofs`, then bounds between the ages of the timers.
`TimersAreRight`: the ping closes a session only where the network is silent, because a pong comes
before the next ping is due; the watchdog only where the server is stuck, because acks
come before three intervals are over and a silent network has lost its ping by then.
`DeadPeersAreLeft`: a ping that fell into the silence is unanswered when the next
is due, and a server that sends no data lets the watchdog run for three intervals.

**Liveness.** Proved, for every value of the constants:

| Theorem | States | Argument |
|---|---|---|
| `RunsReturn` | `RunReturns` | `CancelledRunsReturn`: from each step of `Run` a cancellation leads towards `done`; `VerdictsReturn`: a verdict passes through the purge at most |
| `RunsKeepTrying` | `KeepsTrying` | `DeadSessionsEnd` for the session, and the stages of an attempt and of a backoff |
| `RunIsLively` | `Lively` of `ClientContract` | the two above, through the mapping of `pc` to phases |
| `AllSettles` | `EverythingSettles` | `RevocationsCleanUp`: four stages of a doomed token; `EveryCommandEnds`: `StepsLeft`, a variant of at most 5 that every step and every fault of the command lowers |
| `StopsAndOrdersAreCarriedOut` | `StopsAndOrdersEnd` | `StopsEnd`, and `OrdersAreCarriedOut`: an order is heard by the process (`OrderHeard`), which ends |
| `InterruptsEnd` | `InterruptEnds` | an interrupted login leaves each of its steps; needs `Promptness` but no clock |

Their hypothesis is fairness and `[]NeverStuck`.
`NeverStuck` says that an actor who still has something to do can do it: it is made of
`ENABLED` facts, which this prover cannot expand, so its truth in every reachable state is
what TLC checks, as an invariant of the runs of `WSClient`, `Enrollment`,
`ServiceLifecycle` and `DeviceLogin`. Everything else
is proved: each argument is a finite chain of stages; at each stage no step leads
back, one fair action leads on, and `NeverStuck` supplies that it is enabled; the
temporal rules combine them.

The chain of guarantees is closed. The client's fairness is that of its own goroutines,
timers and network calls; from it `RunIsLively` derives what the service's
fairness takes for granted; from that, `StopsAndOrdersAreCarriedOut` derives that the
manager's commands end. A session in order may last forever in both.

`LoginEnds` stays with TLC: how many polls are left depends on the data, and a countdown
over the numbers inside temporal logic is induction. What makes the countdown
work is proved where nothing wraps (`PollingIsFinite`): `Budget`, four times the time left plus the
rank of `pc`, is a natural number that every step of the loop and every tick of the
clock lowers, and that the server, the network and a signal leave alone. With intervals that wrap, polls cost
no time and only the clock bounds their number; the run checks that case too.
So is the case without a countdown, `InterruptsEnd`.
`NeverStuck` is checked by TLC alone, and so is that the fairness of section 3 suffices
for `LoginEnds`. Every other property of a passing run is proved.

## 6. Not modelled

* `fingerprint.go`, `sysstats.go`: pure reads of the operating system, hashed or
  sampled; no state and no order of steps.
* `config.go`: `LoadConfig` and `SaveConfig` have no caller outside the tests.
* `envelope.go`: frame types are members of a set; their JSON has no state.
* Command wiring, printing, version strings, `daemon status` and `requireAdmin`: they read,
  print or refuse, and change nothing.
* The one-time warning of `PinValidator` (`sync.Once`): its only effect is a line of the log.
* Which directory `os.UserConfigDir` names for the user the manager runs the
  daemon as: a property of each system's configuration, not of this code's steps.
