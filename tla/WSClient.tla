------------------------------ MODULE WSClient ------------------------------
(***************************************************************************)
(* One call of WSClient.Run (internal/transport/ws_client.go): the loop    *)
(* that dials, shakes hands, reads until the connection dies, classifies   *)
(* the error and either returns a sentinel or backs off and dials again.   *)
(*                                                                         *)
(* Concurrent with the loop: the heartbeat and ping goroutines of the live *)
(* session, the read watchdog (a timer goroutine nobody joins), the server *)
(* (frames, close codes, HTTP refusals), the network, and the caller, who  *)
(* may cancel the context at any moment - also from inside OnServerHello,  *)
(* as the check that ends `login` and `enroll` does.                       *)
(***************************************************************************)
EXTENDS Backoff, FiniteSets

CONSTANTS
  Vocabulary,     \* what the server may put on an open connection
  InboxBound,     \* frames the server can have in flight at once
  JitterPoints    \* the jitters backoffFor may draw, in thousandths

VARIABLES
  cfg,        \* what the caller built: URL, TokenStore, hook (never changes)
  pc,         \* where Run is
  cancelled,  \* ctx.Err() # nil
  attempt,    \* Run's attempt counter, saturated where backoffFor saturates
  held,       \* connectedAt: zero, or recent, or past stableConnectionWindow
  err,        \* the classified error of the attempt
  wait,       \* the last delay chosen, and why
  conn,       \* the client's end of the connection
  inbox,      \* what the server sent and the client has not read
  said,       \* history: everything the server told this attempt
  closeSent,  \* the close frame the client sent on this connection
  hb, ping,   \* the heartbeat and ping goroutines
  dog,        \* the callback of the watchdog: begun, or begun in an earlier session
  hellos,     \* history: calls of OnServerHello, counted up to HelloBound
  tokenFile,  \* the on-disk token, as far as this Run changes it
  result      \* what Run returned

vars == <<cfg, pc, cancelled, attempt, held, err, wait, conn, inbox, said,
          closeSent, hb, ping, dog, hellos, tokenFile, result>>

loopVars    == <<attempt, wait>>
sessionVars == <<conn, inbox, said, closeSent>>
workers     == <<hb, ping, dog>>
outcome     == <<tokenFile, result>>

-----------------------------------------------------------------------------
(* What travels, and what the client makes of it. *)

Frames     == {"server.hello", "server.shutdown", "ignored"}
CloseCodes == {"4401", "4403", "4503", "4429", "1001", "other close"}
Statuses   == {"401", "403", "429", "5xx"}
Sayings    == Frames \cup CloseCodes \cup Statuses

ASSUME VocabularyAssumption == Vocabulary \subseteq Frames \cup CloseCodes
ASSUME InboxAssumption  == InboxBound \in Nat \ {0}
ASSUME JitterAssumption == JitterPoints \subseteq (-JitterPerMille) .. JitterPerMille

HelloBound == 2

Configs == [url         : {"secure", "plaintext", "unparsable"},
            wired       : BOOLEAN,    \* TokenStore # nil
            hookCancels : BOOLEAN]    \* OnServerHello cancels the context

Rejections == {"revoked", "invalid"}
Refusals   == {"suspended", "insecure"}
Errors     == Rejections \cup Refusals
              \cup {"none", "transient", "cancelled", "shutdown", "goingAway", "rateLimited"}

\* Regression: every close code the server can pick counts as a revocation.
TranslateUnknownAsRevoked(code) ==
  CASE code = "4503" -> "suspended"
    [] code = "4429" -> "rateLimited"
    [] code = "1001" -> "goingAway"
    [] OTHER         -> "revoked"

\* translateCloseErr, for the codes the client distinguishes.
translateCloseErr(code) ==
  CASE code = "4401" -> "revoked"
    [] code = "4403" -> "invalid"
    [] code = "4503" -> "suspended"
    [] code = "4429" -> "rateLimited"
    [] code = "1001" -> "goingAway"
    [] OTHER         -> "transient"

\* Regression: the handshake statuses 401 and 403 are exchanged.
SwappedHandshakeError(status) ==
  CASE status = "401" -> "suspended"
    [] status = "403" -> "invalid"
    [] status = "429" -> "rateLimited"
    [] OTHER          -> "transient"

\* classifyHandshakeError.
classifyHandshakeError(status) ==
  CASE status = "401" -> "invalid"
    [] status = "403" -> "suspended"
    [] status = "429" -> "rateLimited"
    [] OTHER          -> "transient"

\* requireSecureScheme's refusal: a plaintext (or unknown) scheme carries
\* ErrInsecureScheme, a URL that does not parse is an ordinary error.
schemeError == IF cfg.url = "plaintext" THEN "insecure" ELSE "transient"

\* The error of an interrupted network operation.
InterruptErrors == {"transient"} \cup (IF cancelled THEN {"cancelled"} ELSE {})

-----------------------------------------------------------------------------
Init ==
  /\ cfg \in Configs
  /\ pc = "loop" /\ cancelled = FALSE
  /\ attempt = 0 /\ wait = [why |-> "none", ms |-> 0]
  /\ held = "never" /\ err = "none"
  /\ conn = "none" /\ inbox = <<>> /\ said = {} /\ closeSent = "none"
  /\ hb = "none" /\ ping = "none" /\ dog = "idle" /\ hellos = 0
  /\ tokenFile = "present" /\ result = "none"

Goes(from, to) == pc = from /\ pc' = to

Returns(r) == pc' = "done" /\ result' = r

-----------------------------------------------------------------------------
(* The head of Run's loop. *)

StopAtLoopHead ==
  /\ pc = "loop"
  /\ cancelled
  /\ Returns("nil")
  /\ UNCHANGED <<cfg, cancelled, held, err, hellos, tokenFile, loopVars, sessionVars, workers>>

BeginAttempt ==
  /\ Goes("loop", "dial")
  /\ held' = "never"
  /\ said' = {}
  /\ closeSent' = "none"
  /\ UNCHANGED <<cfg, cancelled, err, conn, inbox, hellos, loopVars, workers, outcome>>

\* Regression: the loop head does not look at the context.
StartAttemptUnchecked == BeginAttempt

\* A fresh attempt: connectedAt is zero again.
StartAttempt == ~cancelled /\ BeginAttempt

-----------------------------------------------------------------------------
(* runOnce up to server.hello.  Every way out closes the connection        *)
(* (deferred CloseNow) and hands one error to Run.                         *)

HandshakeEnds(e) ==
  /\ err' = e
  /\ pc' = "classify"
  /\ conn' = "none"
  /\ inbox' = <<>>
  /\ UNCHANGED <<cfg, cancelled, held, closeSent, hellos, loopVars, workers, outcome>>

RefuseURL ==
  /\ pc = "dial"
  /\ cfg.url # "secure"
  /\ HandshakeEnds(schemeError)
  /\ UNCHANGED said

DialRefused(status) ==
  /\ pc = "dial"
  /\ cfg.url = "secure"
  /\ said' = said \cup {status}
  /\ HandshakeEnds(classifyHandshakeError(status))

\* Dial, client.hello and server.hello each run under a timeout and under ctx.
HandshakeFails ==
  /\ pc \in {"dial", "greet", "await"}
  /\ cfg.url = "secure"
  /\ \E e \in InterruptErrors : HandshakeEnds(e)
  /\ UNCHANGED said

DialSucceeds ==
  /\ cfg.url = "secure"
  /\ Goes("dial", "greet")
  /\ conn' = "open"
  /\ UNCHANGED <<cfg, cancelled, held, err, inbox, said, closeSent, hellos, loopVars, workers, outcome>>

WriteClientHello ==
  /\ conn = "open"
  /\ Goes("greet", "await")
  /\ UNCHANGED <<cfg, cancelled, held, err, hellos, loopVars, sessionVars, workers, outcome>>

\* Regression: server.shutdown counts although no session has begun.
ReadShutdownFirst ==
  /\ pc = "await"
  /\ inbox # <<>>
  /\ Head(inbox) \in Frames \ {"server.hello"}
  /\ HandshakeEnds(IF Head(inbox) = "server.shutdown" THEN "shutdown" ELSE "transient")
  /\ UNCHANGED said

\* The first frame must be server.hello: any other one, server.shutdown
\* included, fails the attempt without a sentinel.
ReadOtherFirst ==
  /\ pc = "await"
  /\ inbox # <<>>
  /\ Head(inbox) \in Frames \ {"server.hello"}
  /\ HandshakeEnds("transient")
  /\ UNCHANGED said

ReadCloseFirst ==
  /\ pc = "await"
  /\ inbox # <<>>
  /\ Head(inbox) \in CloseCodes
  /\ HandshakeEnds(translateCloseErr(Head(inbox)))
  /\ UNCHANGED said

\* OnServerHello and OnConnect run here, then the two goroutines start.
ReadServerHello ==
  /\ pc = "await"
  /\ inbox # <<>>
  /\ Head(inbox) = "server.hello"
  /\ pc' = "read"
  /\ inbox' = Tail(inbox)
  /\ hellos' = IF hellos < HelloBound THEN hellos + 1 ELSE hellos
  /\ cancelled' = (cancelled \/ cfg.hookCancels)
  /\ held' = "short"
  /\ hb' = "run"
  /\ ping' = "run"
  /\ UNCHANGED <<cfg, err, conn, said, closeSent, dog, loopVars, outcome>>

-----------------------------------------------------------------------------
(* readLoop and the end of runOnce. *)

LeaveReadLoop(e) ==
  /\ Goes("read", "join")
  /\ err' = e
  /\ conn' = "broken"
  /\ inbox' = <<>>
  /\ UNCHANGED <<cfg, cancelled, held, said, hellos, loopVars, workers, outcome>>

\* Only the first Close of a connection puts a frame on the wire.
SendsClose(kind) ==
  closeSent' = IF closeSent = "none" /\ conn = "open" THEN kind ELSE closeSent

\* Acks, unknown types, binary and malformed frames, a second server.hello.
ReadIgnored ==
  /\ pc = "read"
  /\ inbox # <<>>
  /\ Head(inbox) \in {"ignored", "server.hello"}
  /\ inbox' = Tail(inbox)
  /\ UNCHANGED <<cfg, pc, cancelled, held, err, conn, said, closeSent, hellos, loopVars, workers, outcome>>

ReadShutdown ==
  /\ inbox # <<>>
  /\ Head(inbox) = "server.shutdown"
  /\ SendsClose("normal")
  /\ LeaveReadLoop("shutdown")

\* err is what translateCloseErr makes of the code once the workers are gone.
ReadClose ==
  /\ inbox # <<>>
  /\ Head(inbox) \in CloseCodes
  /\ LeaveReadLoop(translateCloseErr(Head(inbox)))
  /\ UNCHANGED closeSent

\* Regression: only the context ends the loop, read errors are skipped.
ReadFailsOnCancelOnly ==
  /\ cancelled
  /\ \E e \in InterruptErrors : LeaveReadLoop(e)
  /\ UNCHANGED closeSent

\* A dead connection, or a cancelled context, may beat what is still buffered.
ReadFails ==
  /\ conn = "broken" \/ cancelled
  /\ \E e \in InterruptErrors : LeaveReadLoop(e)
  /\ UNCHANGED closeSent

\* Regression: the goroutines are given Run's context, which outlives a session.
RunCtxDone == cancelled

\* loopCtx, the context of the two goroutines, is done.
LoopCtxDone == cancelled \/ pc = "join"

\* The watchdog was stopped when readLoop returned; nobody waits for a callback
\* that had begun.
RunOnceReturns ==
  /\ Goes("join", "classify")
  /\ conn' = "none"
  /\ dog' = IF dog = "begun" THEN "stale" ELSE dog
  /\ UNCHANGED <<cfg, cancelled, held, err, inbox, said, closeSent, hb, ping, hellos, loopVars, outcome>>

\* Regression: Run goes on without waiting for the goroutines.
JoinUnawaited == RunOnceReturns

\* loopCancel, wg.Wait, the deferred CloseNow.
Join ==
  /\ hb = "none"
  /\ ping = "none"
  /\ RunOnceReturns

-----------------------------------------------------------------------------
(* The goroutines of a live session. *)

workerFrame == <<cfg, pc, cancelled, held, err, inbox, said, hellos, attempt, wait>>

\* Between two beats the context is done, or the next write finds the
\* connection dead; a write that times out or is cancelled kills it.
HeartbeatExits ==
  /\ hb = "run"
  /\ hb' = "none"
  /\ \/ LoopCtxDone /\ conn' = conn
     \/ conn' = "broken"
  /\ UNCHANGED <<workerFrame, closeSent, ping, dog, outcome>>

PingStops ==
  /\ ping = "run"
  /\ LoopCtxDone
  /\ ping' = "none"
  /\ UNCHANGED <<workerFrame, conn, closeSent, hb, dog, outcome>>

\* No pong within interval/2, or the context ended while waiting for it: both
\* take the same branch, Close(StatusPolicyViolation).
PingFails ==
  /\ ping = "run"
  /\ ping' = "closing"
  /\ SendsClose("policy")
  /\ UNCHANGED <<workerFrame, conn, hb, dog, outcome>>

\* That Close returns when the connection is down.
PingCloseReturns ==
  /\ ping = "closing"
  /\ conn = "broken"
  /\ ping' = "none"
  /\ UNCHANGED <<workerFrame, conn, closeSent, hb, dog, outcome>>

\* 3 * interval without an inbound frame: the callback begins.  Over a connection
\* that is closing or down it would do nothing.
WatchdogFires ==
  /\ pc = "read"
  /\ conn = "open" /\ closeSent = "none"
  /\ dog # "begun"
  /\ dog' = "begun"
  /\ UNCHANGED <<workerFrame, conn, closeSent, hb, ping, outcome>>

\* Regression: the callback closes the connection the client has by then.
WatchdogClosesCurrent ==
  /\ dog # "idle" /\ dog' = "idle"
  /\ SendsClose("policy")
  /\ UNCHANGED <<workerFrame, conn, hb, ping, outcome>>

\* It closes the connection of its own session, however late it comes to that.
WatchdogCloses ==
  /\ dog # "idle" /\ dog' = "idle"
  /\ IF dog = "begun" THEN SendsClose("policy") ELSE UNCHANGED closeSent
  /\ UNCHANGED <<workerFrame, conn, hb, ping, outcome>>

\* The exit of a heartbeat that has a reason: the context or the connection.
HeartbeatNotices == (LoopCtxDone \/ conn = "broken") /\ HeartbeatExits

\* A closing handshake ends after five seconds, answered or not.
CloseHandshakeEnds ==
  /\ conn = "open"
  /\ closeSent # "none" \/ ping = "closing"
  /\ conn' = "broken"
  /\ UNCHANGED <<workerFrame, closeSent, workers, outcome>>

-----------------------------------------------------------------------------
(* Run's classification of the error, the purge and the backoff. *)

\* The counter only indexes a table that ends at LastStep.
Saturate(n) == IF n > LastStep THEN LastStep ELSE n

\* Regression: any connection resets the counter, however short-lived.
ResetOnConnect == IF held # "never" THEN 0 ELSE attempt

\* Regression: the reset is gated on a timestamp that is never set.
NeverReset == attempt

attemptAfterReset == IF held = "stable" THEN 0 ELSE attempt

\* Regression: twice the jitter.
WideJitter(base, j) == base * (1000 + 2 * j)

Jittered(base, j) == base * (1000 + j)

\* Regression: the fast path is the default.
DelayKindDefaultFast(e) == IF e = "rateLimited" THEN "limited" ELSE "fast"

delayKind(e) ==
  CASE e \in {"shutdown", "goingAway"} -> "fast"
    [] e = "rateLimited"               -> "limited"
    [] OTHER                           -> "flap"

Waits(kind, n) ==
  IF kind = "fast" THEN {[why |-> "fast", ms |-> FastReconnect]}
  ELSE {[why |-> kind, ms |-> Jittered(BaseDelay(n, kind = "limited"), j)] : j \in JitterPoints}

BackOff ==
  /\ pc = "classify"
  /\ wait' \in Waits(delayKind(err), attemptAfterReset)
  /\ attempt' = Saturate(attemptAfterReset + 1)
  /\ pc' = "backoff"
  /\ UNCHANGED <<cfg, cancelled, held, err, hellos, sessionVars, workers, outcome>>

\* Regression: a suspension is retried like a lost connection.
RetrySuspended == err \notin Rejections \cup {"insecure"} /\ BackOff

ScheduleReconnect == err \notin Rejections \cup Refusals /\ BackOff

ReturnRefusal ==
  /\ pc = "classify"
  /\ err \in Refusals
  /\ Returns(err)
  /\ UNCHANGED <<cfg, cancelled, held, err, hellos, tokenFile, loopVars, sessionVars, workers>>

EnterPurge ==
  /\ Goes("classify", "purge")
  /\ UNCHANGED <<cfg, cancelled, held, err, hellos, loopVars, sessionVars, workers, outcome>>

\* Regression: a suspended organisation costs the token too.
PurgeAlsoOnSuspend == err \in Rejections \cup {"suspended"} /\ EnterPurge

DecidePurge == err \in Rejections /\ EnterPurge

\* purgeToken is best effort: the sentinel is returned either way.
PurgeToken ==
  /\ pc = "purge"
  /\ Returns(err)
  /\ tokenFile' \in IF cfg.wired THEN {"absent", tokenFile} ELSE {tokenFile}
  /\ UNCHANGED <<cfg, cancelled, held, err, hellos, loopVars, sessionVars, workers>>

\* The select of Run: with both channels ready either case may be taken.
BackoffEnds ==
  /\ Goes("backoff", "loop")
  /\ UNCHANGED <<cfg, cancelled, held, err, hellos, loopVars, sessionVars, workers, outcome>>

StopInBackoff ==
  /\ pc = "backoff"
  /\ cancelled
  /\ Returns("nil")
  /\ UNCHANGED <<cfg, cancelled, held, err, hellos, tokenFile, loopVars, sessionVars, workers>>

-----------------------------------------------------------------------------
(* The caller, the server and the network. *)

Cancel ==
  /\ ~cancelled
  /\ pc # "done"
  /\ cancelled' = TRUE
  /\ UNCHANGED <<cfg, pc, held, err, hellos, loopVars, sessionVars, workers, outcome>>

\* Nothing follows a close frame.
ServerSays(m) ==
  /\ conn = "open"
  /\ Len(inbox) < InboxBound
  /\ \A i \in 1 .. Len(inbox) : inbox[i] \notin CloseCodes
  /\ inbox' = Append(inbox, m)
  /\ said' = said \cup {m}
  /\ UNCHANGED <<cfg, pc, cancelled, held, err, conn, closeSent, hellos, loopVars, workers, outcome>>

NetworkBreaks ==
  /\ conn = "open"
  /\ conn' = "broken"
  /\ UNCHANGED <<cfg, pc, cancelled, held, err, inbox, said, closeSent, hellos, loopVars, workers, outcome>>

\* stableConnectionWindow has passed since connectedAt.
StableWindowElapses ==
  /\ held = "short"
  /\ pc \in {"read", "join"}
  /\ held' = "stable"
  /\ UNCHANGED <<cfg, pc, cancelled, err, hellos, loopVars, sessionVars, workers, outcome>>

Returned == pc = "done" /\ UNCHANGED vars

-----------------------------------------------------------------------------
\* The steps of the goroutine that called Run.
RunStep ==
  \/ StopAtLoopHead
  \/ StartAttempt
  \/ RefuseURL
  \/ \E status \in Statuses : DialRefused(status)
  \/ HandshakeFails
  \/ DialSucceeds
  \/ WriteClientHello
  \/ ReadOtherFirst
  \/ ReadCloseFirst
  \/ ReadServerHello
  \/ ReadIgnored
  \/ ReadShutdown
  \/ ReadClose
  \/ ReadFails
  \/ Join
  \/ ScheduleReconnect
  \/ ReturnRefusal
  \/ DecidePurge
  \/ PurgeToken
  \/ BackoffEnds
  \/ StopInBackoff

WorkerStep ==
  \/ HeartbeatExits
  \/ PingStops
  \/ PingFails
  \/ PingCloseReturns
  \/ WatchdogFires
  \/ WatchdogCloses
  \/ CloseHandshakeEnds

EnvStep ==
  \/ Cancel
  \/ \E m \in Vocabulary : ServerSays(m)
  \/ NetworkBreaks
  \/ StableWindowElapses

Next == RunStep \/ WorkerStep \/ EnvStep \/ Returned

Spec == Init /\ [][Next]_vars

\* Every network call of Run has a timeout, its timers fire, and a goroutine
\* whose context or connection is gone notices.  Nothing is asked of the
\* server, the network, the caller, the watchdog or a healthy session.
Fairness ==
  /\ WF_vars(RunStep)
  /\ WF_vars(ReadFails)
  /\ WF_vars(HeartbeatNotices)
  /\ WF_vars(PingStops)
  /\ WF_vars(conn = "broken" /\ PingFails)
  /\ WF_vars(PingCloseReturns)
  /\ WF_vars(CloseHandshakeEnds)

FairSpec == Spec /\ Fairness

-----------------------------------------------------------------------------
(* Properties. *)

WaitRecords == [why : {"none", "fast", "flap", "limited"}, ms : Nat]

\* Every variable keeps its type; in particular no delay exceeds the jittered,
\* doubled cap of the table and the attempt counter never leaves it.
TypeOK ==
  /\ cfg \in Configs
  /\ pc \in {"loop", "dial", "greet", "await", "read", "join", "classify",
             "purge", "backoff", "done"}
  /\ cancelled \in BOOLEAN
  /\ attempt \in 0 .. LastStep
  /\ held \in {"never", "short", "stable"}
  /\ err \in Errors
  /\ wait \in WaitRecords /\ wait.ms <= LongestDelay
  /\ conn \in {"none", "open", "broken"}
  /\ inbox \in Seq(Frames \cup CloseCodes)
  /\ said \subseteq Sayings
  /\ closeSent \in {"none", "normal", "policy"}
  /\ hb \in {"none", "run"}
  /\ ping \in {"none", "run", "closing"}
  /\ dog \in {"idle", "begun", "stale"}
  /\ hellos \in 0 .. HelloBound
  /\ tokenFile \in {"present", "absent"}
  /\ result \in {"none", "nil"} \cup Rejections \cup Refusals

\* Two sessions never overlap: a heartbeat or ping goroutine of one connection
\* is gone before Run classifies its error and dials the next one, and the callback
\* of the watchdog, which nobody waits for (ws_client.go:555), never closes a
\* connection but its own: no close is sent before server.hello.
JoinBeforeRedial ==
  /\ hb # "none" \/ ping # "none" => pc \in {"read", "join"}
  /\ pc \in {"dial", "greet", "await"} => closeSent = "none"

\* The token file is deleted only if the server itself rejected the token on
\* the attempt that ended Run, by close 4401 or 4403 or a handshake 401: no
\* network flap, suspension, rate limit, shutdown or cancellation costs it.
PurgeJustified ==
  tokenFile = "absent" => /\ cfg.wired
                          /\ result \in Rejections
                          /\ said \cap {"4401", "4403", "401"} # {}

NoRedialAfterVerdict ==
  err \in Rejections \cup Refusals => pc \in {"join", "classify", "purge", "done"}

\* Run returns nil only to a caller who cancelled, and a sentinel only for
\* what the server said (or the URL is) on the last attempt; once an attempt
\* ends in such a verdict, Run never dials again.
ReturnJustified ==
  /\ NoRedialAfterVerdict
  /\ pc = "done" =>
       CASE result = "nil"       -> cancelled
         [] result = "revoked"   -> "4401" \in said
         [] result = "invalid"   -> said \cap {"4403", "401"} # {}
         [] result = "suspended" -> said \cap {"4503", "403"} # {}
         [] result = "insecure"  -> cfg.url = "plaintext" /\ said = {}
         [] OTHER                -> FALSE

\* A caller whose OnServerHello cancels the context (verifyConnection: its
\* hook closes a channel and would panic the second time) sees it run once,
\* whatever reconnects were under way.
HelloHookOnce == cfg.hookCancels => hellos < 2

\* The 50 ms reconnect is taken only after the server announced its departure
\* on this very attempt, by close 1001 or by a server.shutdown that did not come in
\* place of server.hello; any other loss goes through the backoff table.
FastOnlyAnnounced ==
  pc = "backoff" /\ wait.why = "fast" => \/ "1001" \in said
                                         \/ "server.shutdown" \in said /\ held # "never"

\* Consecutive losses of unstable sessions wait strictly longer each time,
\* jitter notwithstanding, until the cap of the table is reached.
LadderClimbs ==
  [][ (/\ pc = "classify" /\ pc' = "backoff"
       /\ wait.why = "flap" /\ wait'.why \in {"flap", "limited"}
       /\ held # "stable")
      => \/ wait'.ms > wait.ms
         \/ /\ wait.ms >= MinDelay(LastStep, FALSE)
            /\ wait'.ms >= MinDelay(LastStep, FALSE) ]_vars

\* After a session that outlived stableConnectionWindow the wait starts over,
\* however many attempts had failed before it.
StableSessionForgives ==
  [][ pc = "classify" /\ pc' = "backoff" /\ held = "stable"
      => wait'.ms <= MaxDelay(0, wait'.why = "limited") ]_vars

\* Nobody waits for nobody: outside of a healthy session Run's goroutine always
\* has a step to take - and while it waits in wg.Wait, each goroutine it waits
\* for has one, the ping goroutine inside Conn.Close included.
NeverStuck ==
  /\ pc \in {"loop", "dial", "greet", "await", "classify", "purge", "backoff"} => ENABLED <<RunStep>>_vars
  /\ pc = "read" /\ (cancelled \/ conn = "broken") => ENABLED <<ReadFails>>_vars
  /\ pc = "join" => /\ hb = "run" => ENABLED <<HeartbeatNotices>>_vars
                    /\ ping = "run" => ENABLED <<PingStops>>_vars
                    /\ ping = "closing" => ENABLED <<PingCloseReturns>>_vars
                    /\ hb = "none" /\ ping = "none" => ENABLED <<RunStep>>_vars

\* Run returns after its context is cancelled, whatever it was doing.
CancelReturns == cancelled ~> pc = "done"

\* What the server rejects or refuses for good ends Run: no retry, and no wait
\* for a goroutine or a close handshake, keeps the sentinel from the caller.
VerdictReturns == err \in Rejections \cup Refusals ~> pc = "done"

\* The two ways a caller gets Run to return both do.
RunReturns == CancelReturns /\ VerdictReturns

\* A dead connection of a live session is always noticed: Run schedules a
\* reconnect or returns, and never waits forever for its goroutines.
DeadSessionEnds == (pc = "read" /\ conn = "broken") ~> pc \in {"backoff", "done"}

\* Run never gives up on its own: an attempt comes to a session, a backoff or an
\* end, a session that is dead to a backoff or an end, a backoff to the next
\* attempt or an end.
KeepsTrying ==
  /\ DeadSessionEnds
  /\ pc \in {"dial", "greet", "await"} ~> pc \in {"read", "backoff", "done"}
  /\ pc \in {"loop", "join", "classify", "purge", "backoff"} ~> pc \in {"dial", "done"}

\* Run keeps its contract with its callers: pc collapses to four phases.
phase ==
  CASE pc \in {"loop", "classify", "purge", "backoff"} -> "idle"
    [] pc \in {"dial", "greet", "await"}               -> "trying"
    [] pc \in {"read", "join"}                         -> "live"
    [] OTHER                                           -> "ended"

Contract == INSTANCE ClientContract WITH
  Rejected  <- Rejections,
  Refused   <- Refusals,
  phase     <- phase,
  stopped   <- cancelled,
  wired     <- cfg.wired,
  hookStops <- cfg.hookCancels,
  token     <- tokenFile,
  answer    <- result

\* WSClient implements ClientContract.
KeepsContract == Contract!Spec

\* internal/service/runner.go:225 "The WSClient internally sends close 1000 on
\* its own ctx done, so a clean stop emits the right close frame".
StopSendsNormalClose ==
  [][ pc = "join" /\ pc' = "classify" /\ err = "cancelled"
      => closeSent = "normal" ]_vars
=============================================================================
