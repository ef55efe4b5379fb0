---------------------------- MODULE DeviceLogin -----------------------------
(***************************************************************************)
(* `surfbot-cli login` up to the moment it holds a token: runLogin and     *)
(* pollDeviceToken of internal/cli/login.go over postJSON of api_client.go *)
(* - the device-code flow of RFC 8628 on a network that loses requests and *)
(* answers and redirects requests, in discrete time.  Time 0 is the answer *)
(* of /cli/device/code; timers fire on time.  What happens to the token is *)
(* Enrollment's.                                                           *)
(***************************************************************************)
EXTENDS GoDuration, UrlPolicy, Pinning

CONSTANTS
  Bases,            \* the values of --api-base
  PollTimeouts,     \* the values of --poll-timeout; 0 switches it off
  Intervals,        \* the interval the server may send, in seconds; 0 if none
  Lifetimes,        \* the expires_in it may announce, in seconds
  DefaultInterval,  \* the interval of a server that asks for none, in seconds
  PostTimeout       \* the timeout of the HTTP client

Plain  == "plain"     \* a connection without TLS
Nobody == "nobody"
Peers  == Keys \cup {Plain}

ASSUME LoginAssumption ==
  /\ Bases \subseteq URLs
  /\ PollTimeouts \subseteq Nat /\ Intervals \subseteq Int /\ Lifetimes \subseteq Int
  /\ DefaultInterval \in Nat \ {0}
  /\ PostTimeout \in Nat \ {0}
  /\ Plain \notin Keys /\ Nobody \notin Keys

VARIABLES
  setup,            \* the flags: base, skip, poll
  pc,               \* where login is
  now,              \* the clock
  initialInterval,  \* the interval of the first poll
  interval,         \* the interval of the next one
  expiry,           \* when the code's announced life is over
  deadline,         \* when polling gives up
  timer,            \* when the sleep or the request ends at the latest
  cancelled,        \* Ctrl-C or SIGTERM
  verdict,          \* what login reports
  code,             \* the device code at the server
  flight,           \* the request under way, or the answer to it
  peer,             \* the key of the last peer spoken to; Nobody after a poll
  moved,            \* it has followed a redirect
  stray,            \* a request given up, which may still reach the server
  lost              \* history: a token was issued into an abandoned request

loop  == <<initialInterval, expiry, deadline>>
route == <<peer, moved>>
wire  == <<flight, route, stray, lost>>
vars  == <<setup, pc, now, loop, interval, timer, cancelled, verdict, code, wire>>

Answers == {"authorization_pending", "slow_down", "grant", "access_denied",
            "expired_token", "invalid_device_code", "other"}

Setups == [base : Bases, skip : BOOLEAN, poll : PollTimeouts]

Init ==
  /\ setup \in Setups
  /\ pc = "code" /\ now = 0
  /\ initialInterval = Duration(DefaultInterval) /\ interval = Duration(DefaultInterval)
  /\ expiry = 0 /\ deadline = 0 /\ timer = 0
  /\ cancelled = FALSE /\ verdict = "none"
  /\ code = "none" /\ flight = "none" /\ peer = Nobody /\ moved = FALSE
  /\ stray = FALSE /\ lost = FALSE

\* The transport of an https base holds every TLS peer to the pins of the base;
\* the default transport, of any other base, holds nobody to any.
Admits(k) ==
  k \in Keys /\ (setup.base.scheme = "https" => VerifyPeerCertificate(setup.base.host, setup.skip, TRUE, {k}))

\* postJSON's own check, then TLS with the pins: whom a request is sent to.
Reaches(k) ==
  /\ requireSecure(setup.base, setup.skip) = "ok"
  /\ IF setup.base.scheme = "https" THEN Admits(k) ELSE k = Plain

\* Where a redirect may lead: the client has no CheckRedirect, so requireSecure is
\* not asked again.
Follows(k) == k = Plain \/ Admits(k)

\* The peer that answers, after any number of redirects.
Contacts(k, redirected) ==
  IF redirected THEN Follows(k) /\ (\E first \in Peers : Reaches(first)) ELSE Reaches(k)

HangsUp == peer' = Nobody /\ moved' = FALSE

Ends(v) == pc' = "done" /\ verdict' = v

\* Regression: the server's interval is taken as it comes.
PollIntervalAsIs(offered) == Duration(offered)

\* The default replaces what is not positive before the product, which may wrap.
PollInterval(offered) == Duration(IF offered <= 0 THEN DefaultInterval ELSE offered)

Deadline(life, poll) == IF poll > 0 /\ poll < life THEN poll ELSE life

\* time.After
Pause(duration) == IF duration > 0 THEN duration ELSE 0

-----------------------------------------------------------------------------
(* runLogin: POST /cli/device/code. *)

CodeIssued ==
  /\ pc = "code"
  /\ peer' \in Peers /\ moved' \in BOOLEAN /\ Contacts(peer', moved')
  /\ \E offered \in Intervals, lifetime \in Lifetimes :
       /\ interval' = PollInterval(offered)
       /\ initialInterval' = PollInterval(offered)
       /\ expiry' = Duration(lifetime)
       /\ deadline' = Deadline(Duration(lifetime), setup.poll)
  /\ code' = "pending"
  /\ pc' = "check"
  /\ UNCHANGED <<setup, now, timer, cancelled, verdict, flight, stray, lost>>

\* A refused URL, a pin mismatch, the network, an error status, a
\* cancellation, no configuration directory.
CodeFails ==
  /\ pc = "code"
  /\ Ends("no_code")
  /\ UNCHANGED <<setup, now, loop, interval, timer, cancelled, code, wire>>

-----------------------------------------------------------------------------
(* pollDeviceToken. *)

Cancelled ==
  /\ pc \in {"check", "sleep"} /\ cancelled
  /\ Ends("cancelled")
  /\ UNCHANGED <<setup, now, loop, interval, timer, cancelled, code, wire>>

\* Within one tick of the clock the check may fall on either side.
DeadlinePassed ==
  /\ pc = "check" /\ ~cancelled
  /\ now >= deadline
  /\ Ends("timed_out")
  /\ UNCHANGED <<setup, now, loop, interval, timer, cancelled, code, wire>>

\* Regression: the deadline is not looked at.
SleepsOn ==
  /\ pc = "check" /\ ~cancelled
  /\ pc' = "sleep"
  /\ timer' = now + Pause(interval)
  /\ UNCHANGED <<setup, now, loop, interval, cancelled, verdict, code, wire>>

Sleeps ==
  /\ pc = "check" /\ ~cancelled
  /\ now <= deadline
  /\ pc' = "sleep"
  /\ timer' = now + Pause(interval)
  /\ UNCHANGED <<setup, now, loop, interval, cancelled, verdict, code, wire>>

\* time.After fires: POST /cli/device/token.
Post ==
  /\ pc = "sleep" /\ now = timer
  /\ peer' \in Peers /\ Reaches(peer') /\ moved' = FALSE
  /\ flight' = "request"
  /\ pc' = "wait"
  /\ timer' = now + PostTimeout
  /\ UNCHANGED <<setup, now, loop, interval, cancelled, verdict, code, stray, lost>>

\* Nobody trustworthy answers: no connection, or a key that is not pinned.
\* The error is no apiError, and is retried.
ConnectFails ==
  /\ pc = "sleep" /\ now = timer
  /\ pc' = "check"
  /\ UNCHANGED <<setup, now, loop, interval, timer, cancelled, verdict, code, wire>>

\* The request is given up; it, or its answer, is still somewhere.
Abandons ==
  /\ pc' = "check"
  /\ flight' = "none"
  /\ stray' = (stray \/ flight = "request")
  /\ lost' = (lost \/ flight = "grant")
  /\ HangsUp
  /\ UNCHANGED <<setup, now, loop, interval, timer, cancelled, verdict, code>>

\* Regression: the request is not made under login's context.
PostUncancelled == pc = "wait" /\ ~cancelled /\ Abandons

\* A reset, a redirect to an unpinned key or to no URL at all, a truncated or
\* undecodable answer; a cancellation meanwhile.
PostBreaks == pc = "wait" /\ Abandons

\* Regression: the HTTP client has no timeout.
PostUntimed == pc = "wait" /\ now = timer /\ cancelled /\ Abandons

PostTimesOut == pc = "wait" /\ now = timer /\ Abandons

Heard(answers) == pc = "wait" /\ flight \in answers /\ flight' = "none"

\* Regression: the deadline is checked once more when the answer is there.
AuthorizedInTime ==
  /\ Heard({"grant"})
  /\ Ends(IF now > deadline THEN "timed_out" ELSE "token")
  /\ UNCHANGED <<setup, now, loop, interval, timer, cancelled, code, route, stray, lost>>

Authorized ==
  /\ Heard({"grant"})
  /\ Ends("token")
  /\ UNCHANGED <<setup, now, loop, interval, timer, cancelled, code, route, stray, lost>>

Pending ==
  /\ Heard({"authorization_pending"})
  /\ pc' = "check"
  /\ HangsUp
  /\ UNCHANGED <<setup, now, loop, interval, timer, cancelled, verdict, code, stray, lost>>

SlowDown ==
  /\ Heard({"slow_down"})
  /\ pc' = "check"
  /\ interval' = wrapped(2 * interval)
  /\ HangsUp
  /\ UNCHANGED <<setup, now, loop, timer, cancelled, verdict, code, stray, lost>>

\* Regression: an expired code is reported as one that is no longer valid.
VerdictOfExpiredAsInvalid(answer) ==
  CASE answer = "access_denied" -> "denied"
    [] answer \in {"expired_token", "invalid_device_code"} -> "no_longer_valid"
    [] OTHER                    -> "failed"

\* Regression: an unknown answer counts as a denial.
VerdictOfUnknownAsDenied(answer) ==
  CASE answer = "expired_token"       -> "code_expired"
    [] answer = "invalid_device_code" -> "no_longer_valid"
    [] OTHER                          -> "denied"

VerdictOf(answer) ==
  CASE answer = "access_denied"       -> "denied"
    [] answer = "expired_token"       -> "code_expired"
    [] answer = "invalid_device_code" -> "no_longer_valid"
    [] OTHER                          -> "failed"

\* Every other answer of the server is final.
TurnedDown ==
  /\ Heard({"access_denied", "expired_token", "invalid_device_code", "other"})
  /\ Ends(VerdictOf(flight))
  /\ UNCHANGED <<setup, now, loop, interval, timer, cancelled, code, route, stray, lost>>

-----------------------------------------------------------------------------
(* The operator, the clock, the network and the server. *)

Interrupted ==
  /\ pc # "done" /\ ~cancelled
  /\ cancelled' = TRUE
  /\ UNCHANGED <<setup, pc, now, loop, interval, timer, verdict, code, wire>>

\* Time passes in a sleep and a request, and over a loop that does not pause.
Tick ==
  /\ \/ pc \in {"sleep", "wait"} /\ now < timer
     \/ pc = "check" /\ now <= deadline
  /\ now' = now + 1
  /\ UNCHANGED <<setup, pc, loop, interval, timer, cancelled, verdict, code, wire>>

\* The user decides, or the code expires before the token is fetched.
CodeChanges ==
  /\ \/ code = "pending" /\ code' \in {"approved", "denied", "expired"}
     \/ code = "approved" /\ code' = "expired"
  /\ UNCHANGED <<setup, pc, now, loop, interval, timer, cancelled, verdict, wire>>

\* The server's answer to a request.  A token is issued once.
AnswersFor(state) == {answer \in Answers :
  \/ answer = "other"
  \/ answer \in {"authorization_pending", "slow_down"} /\ state = "pending"
  \/ answer = "grant" /\ state = "approved"
  \/ answer = "access_denied" /\ state = "denied"
  \/ answer = "expired_token" /\ state = "expired"
  \/ answer = "invalid_device_code" /\ state = "consumed"}

\* The answer is a redirect: 307 and 308 send the device code again, the others a
\* GET without it, whose answer is "other".
Redirected ==
  /\ flight = "request"
  /\ peer' \in Peers /\ Follows(peer')
  /\ moved' = TRUE
  /\ UNCHANGED <<setup, pc, now, loop, interval, timer, cancelled, verdict, code, flight, stray, lost>>

Answered(answer) == code' = IF answer = "grant" THEN "consumed" ELSE code

ServerAnswers ==
  /\ flight = "request"
  /\ \E answer \in AnswersFor(code) : flight' = answer /\ Answered(answer)
  /\ UNCHANGED <<setup, pc, now, loop, interval, timer, cancelled, verdict, route, stray, lost>>

\* An abandoned request arrives; nobody hears the answer.
StrayArrives ==
  /\ stray
  /\ stray' \in BOOLEAN
  /\ \E answer \in AnswersFor(code) :
       Answered(answer) /\ lost' = (lost \/ answer = "grant")
  /\ UNCHANGED <<setup, pc, now, loop, interval, timer, cancelled, verdict, flight, route>>

Poll ==
  \/ Cancelled
  \/ DeadlinePassed
  \/ Sleeps
  \/ Post
  \/ ConnectFails
  \/ PostTimesOut
  \/ Authorized
  \/ Pending
  \/ SlowDown
  \/ TurnedDown

Server == CodeChanges \/ ServerAnswers \/ Redirected \/ StrayArrives

Next == CodeIssued \/ CodeFails \/ Poll \/ PostBreaks \/ Interrupted \/ Tick \/ Server

Spec == Init /\ [][Next]_vars

\* The process runs, and the context aborts a request.
Promptness ==
  /\ WF_vars(CodeIssued \/ CodeFails)
  /\ WF_vars(Poll)
  /\ WF_vars(cancelled /\ PostBreaks)

\* No number of steps outruns the clock: strong, because a loop that does not pause
\* is in no place long.  Nothing is asked of the server, the network or the user.
Fairness == Promptness /\ SF_vars(Tick)

FairSpec == Spec /\ Fairness

-----------------------------------------------------------------------------
(* Properties *)

Flags ==
  /\ cancelled \in BOOLEAN /\ stray \in BOOLEAN /\ lost \in BOOLEAN /\ moved \in BOOLEAN
  /\ setup \in Setups

\* The first intervals there can be: products of positive numbers of seconds.
Announced == {Duration(seconds) : seconds \in {n \in Intervals : n > 0} \cup {DefaultInterval}}

\* The clock, the intervals and the states are what they say; a number of seconds
\* that is not positive is never multiplied (login.go:65-67).  What the product of
\* line 79 wraps to may be nothing, or less.
TypeOK ==
  /\ Flags
  /\ pc \in {"code", "check", "sleep", "wait", "done"}
  /\ now \in Nat /\ timer \in Nat
  /\ expiry \in Durations /\ deadline \in Durations
  /\ interval \in Durations /\ initialInterval \in Announced
  /\ verdict \in {"none", "no_code", "token", "timed_out", "cancelled", "denied",
                  "code_expired", "no_longer_valid", "failed"}
  /\ code \in {"none", "pending", "approved", "denied", "expired", "consumed"}
  /\ flight \in {"none", "request"} \cup Answers
  /\ peer \in Peers \cup {Nobody}

\* Nothing is near the end of a time.Duration (together the two times of the
\* server stay below 73 years), so no product wraps and no doubling does.
Ordinary ==
  /\ 0 < initialInterval /\ 0 <= deadline
  /\ 2 * (deadline + initialInterval) < Wrap \div 2

\* --poll-timeout and expires_in are looked at before the interval is slept and
\* the request made (login.go:141-151), and slow_down doubles the interval: the
\* loop may outlive its deadline, by at most the time it was given, one first
\* interval and one request.  Of times that wrap it is not true: a doubling may
\* then turn a negative interval into one of centuries.
BoundedOvershoot ==
  Ordinary => now <= deadline + (deadline + initialInterval) + PostTimeout

\* An agent whose token nobody holds exists only if the network, a timeout or
\* Ctrl-C lost the one answer that carried it: a login never throws a token
\* away that it was given (login.go:155-157).
OrphanOnlyByLoss ==
  pc = "done" /\ code = "consumed" /\ verdict # "token" => lost

\* What login passes on of the server's answers is what became of the code,
\* however answers were lost and requests repeated: "device code is no longer valid"
\* (login.go:172) means that it was redeemed and the token lost on the way, and a
\* token in hand is the only one issued.  Its own "device code expired before
\* authorization" (login.go:142) means less than it says: that the announced life
\* or --poll-timeout is over, and that no token arrived.  The code may be pending,
\* approved, denied or redeemed - then the token is lost.
VerdictHonest ==
  /\ verdict = "denied" => code = "denied"
  /\ verdict = "code_expired" => code = "expired"
  /\ verdict = "no_longer_valid" => code = "consumed" /\ lost
  /\ verdict = "token" => code = "consumed" /\ ~lost
  /\ verdict = "timed_out" => /\ now >= expiry \/ (setup.poll > 0 /\ now >= setup.poll)
                              /\ code = "consumed" => lost

\* The device code and the token only cross channels the policy is meant to
\* allow - TLS to a pinned key where the pins are real, plaintext on this machine
\* or where the operator switched the checks off - unless the server redirects the
\* request.  A redirect from an https base may lead to plaintext, which requireSecure
\* would refuse (api_client.go:72), but to no TLS peer without a pinned key of the
\* base; one from this machine may lead anywhere.
SecretsSealed ==
  peer # Nobody =>
    \/ setup.skip
    \/ /\ setup.base.scheme = "https"
       /\ peer = Plain => moved
       /\ peer # Plain /\ looksReal(PinForHost(setup.base.host)) => peer \in PinForHost(setup.base.host)
    \/ /\ setup.base.scheme = "http" /\ setup.base.host \in Loopback
       /\ peer # Plain => moved

\* Login waits for the clock at most, and not even for that once it was
\* interrupted.
NeverStuck ==
  /\ pc = "code" => ENABLED <<CodeIssued \/ CodeFails>>_vars
  /\ pc = "check" \/ (pc \in {"sleep", "wait"} /\ now = timer) => ENABLED <<Poll>>_vars
  /\ pc \in {"sleep", "wait"} /\ now < timer => ENABLED <<Tick>>_vars
  /\ pc = "sleep" /\ cancelled => ENABLED <<Poll>>_vars
  /\ pc = "wait" /\ cancelled => ENABLED <<cancelled /\ PostBreaks>>_vars

\* Ctrl-C ends a login wherever it is.
InterruptEnds == cancelled ~> pc = "done"

\* Every login ends, whatever the server, the network and the user do.
LoginEnds == <>(pc = "done")
=============================================================================
