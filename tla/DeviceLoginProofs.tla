------------------------- MODULE DeviceLoginProofs --------------------------
(***************************************************************************)
(* What holds of DeviceLogin for every interval, lifetime and timeout, and *)
(* of the URL and pinning policies for every URL and every set of pins.    *)
(***************************************************************************)
EXTENDS DeviceLogin, GoDurationProofs

-----------------------------------------------------------------------------
(* The policies. *)

\* A ws_url the daemon accepts always infers a REST base that logout accepts
\* under the same flag: an agent that could connect can be revoked.
THEOREM InferredBaseAccepted ==
  ASSUME NEW url \in URLs, NEW skip \in BOOLEAN,
         requireSecureScheme(url, skip) = "ok"
  PROVE  requireSecure(inferAPIBaseURL(url), skip) = "ok"
<1> USE DEF URLs, Schemes, requireSecureScheme, requireSecure, inferAPIBaseURL, PlaintextAllowed, isLoopbackHost
<1>1. CASE url.scheme = "ws"
  BY <1>1
<1>2. CASE url.scheme \in {"wss", "https", "http"}
  BY <1>2
<1>3. CASE url.scheme \in {"unparsable", "other"}
  BY <1>3
<1> QED
  BY <1>1, <1>2, <1>3

\* Inference never downgrades: logout speaks plaintext only to a host the
\* daemon speaks plaintext to.
THEOREM InferenceKeepsTLS ==
  ASSUME NEW url \in URLs, inferAPIBaseURL(url).scheme = "http"
  PROVE  url.scheme = "ws" /\ inferAPIBaseURL(url).host = url.host
BY DEF URLs, Schemes, inferAPIBaseURL

\* A release build that starts accepts, without the flag, only peers that show
\* a pinned key of a pinned host, although every caller allows missing pins
\* (pinning_prod_check.go:7-12).
THEOREM ReleaseIsStrict ==
  ASSUME prodBuildStarts, NEW host \in PinnedHosts, NEW chain,
         VerifyPeerCertificate(host, FALSE, TRUE, chain)
  PROVE  \E key \in chain : key \in hostPins[host]
BY DEF prodBuildStarts, VerifyPeerCertificate, allowed, PinForHost

-----------------------------------------------------------------------------
(* The login. *)

\* Time: where nothing wraps, a poll starts to sleep before the deadline, and the
\* doublings of the interval are paid for by the time already slept.
Timing ==
  /\ pc = "code" => now = 0
  /\ pc = "sleep" => now <= timer
  /\ pc = "wait" => now <= timer /\ timer <= now + PostTimeout
  /\ Ordinary =>
       /\ initialInterval <= interval
       /\ pc = "check" => interval <= initialInterval + now
       /\ pc = "sleep" => timer <= deadline + interval /\ 2 * interval <= initialInterval + timer
       /\ pc = "wait"  => /\ timer <= deadline + interval + PostTimeout
                          /\ 2 * interval + PostTimeout <= initialInterval + timer

\* The token is issued once, and is then in the answer, in login's hands or
\* lost; an answer under way says what the code has become.  The deadline is one of
\* the two it was made of.
Ledger ==
  /\ pc = "code" => code = "none" /\ ~stray
  /\ deadline = expiry \/ (setup.poll > 0 /\ deadline = setup.poll)
  /\ flight # "none" <=> pc = "wait"
  /\ verdict # "none" <=> pc = "done"
  /\ code = "consumed" => lost \/ flight = "grant" \/ verdict = "token"
  /\ lost => code = "consumed"
  /\ flight = "grant" => code = "consumed" /\ ~lost
  /\ flight = "access_denied" => code = "denied"
  /\ flight = "expired_token" => code = "expired"
  /\ flight = "invalid_device_code" => code = "consumed" /\ lost

\* Whoever is spoken to answers at the base or at the end of redirects, and those
\* began at a peer of the base.
Addressed ==
  /\ peer # Nobody => Contacts(peer, moved)
  /\ pc = "wait" => \E first \in Peers : Reaches(first)

IInv ==
  /\ TypeOK
  /\ Timing
  /\ Ledger
  /\ Addressed
  /\ BoundedOvershoot
  /\ VerdictHonest

\* What a number of seconds becomes, and what PollInterval and Deadline make of it.
LEMMA SecondsWrap ==
  ASSUME NEW seconds \in Int
  PROVE  Duration(seconds) \in Durations
<1>1. seconds * Second \in Int
  BY DurationAssumption
<1> QED
  BY <1>1, WrapsInto DEF Duration

LEMMA DurationsAreInts == Durations \subseteq Int
BY DurationAssumption DEF Durations

LEMMA Timers ==
  ASSUME NEW offered \in Intervals, NEW lifetime \in Lifetimes
  PROVE  /\ PollInterval(offered) \in Announced /\ PollInterval(offered) \in Durations
         /\ Duration(lifetime) \in Durations
BY LoginAssumption, SecondsWrap DEF PollInterval, Announced

LEMMA DefaultTimer == Duration(DefaultInterval) \in Announced /\ Duration(DefaultInterval) \in Durations
BY LoginAssumption, SecondsWrap DEF Announced

\* A --poll-timeout that is shorter than a duration is one.
LEMMA DeadlineOfTwo ==
  ASSUME NEW life \in Durations, NEW poll \in PollTimeouts
  PROVE  /\ Deadline(life, poll) \in Durations
         /\ Deadline(life, poll) = life \/ (poll > 0 /\ Deadline(life, poll) = poll)
<1>1. life \in Int /\ poll \in Nat
  BY DurationsAreInts, LoginAssumption
<1>2. CASE poll > 0 /\ poll < life
  BY <1>1, <1>2, DurationAssumption, SMT DEF Deadline, Durations
<1>3. CASE ~(poll > 0 /\ poll < life)
  BY <1>1, <1>3, SMT DEF Deadline
<1> QED
  BY <1>2, <1>3

LEMMA InvInit == Init => IInv
<1> SUFFICES ASSUME Init PROVE IInv
  OBVIOUS
<1>1. Flags
  BY Zenon DEF Init, Flags
<1>2. /\ initialInterval \in Announced /\ interval \in Durations /\ initialInterval = interval
      /\ initialInterval \in Int /\ interval \in Int
  BY DefaultTimer, DurationsAreInts DEF Init
<1>3. 0 \in Durations
  BY DurationAssumption, SMT DEF Durations
<1>4. TypeOK
  BY <1>1, <1>2, <1>3, LoginAssumption, SMT DEF Init, TypeOK, Answers
<1>5. Timing /\ BoundedOvershoot
  BY <1>2, LoginAssumption, SMT DEF Init, Timing, BoundedOvershoot, Ordinary
<1>6. Ledger /\ VerdictHonest
  BY LoginAssumption, SMT DEF Init, Ledger, VerdictHonest
<1>7. Addressed
  BY Zenon DEF Init, Addressed
<1> QED
  BY <1>4, <1>5, <1>6, <1>7 DEF IInv

\* The flags stay flags, and the setup what it was.
LEMMA FlagsStep == Flags /\ Next => Flags'
<1> SUFFICES ASSUME Flags, Next PROVE Flags'
  OBVIOUS
<1> USE DEF Flags, wire, route, loop, HangsUp
<1>1. CASE CodeIssued \/ CodeFails
  BY <1>1, Zenon DEF CodeIssued, CodeFails
<1>2. CASE Cancelled \/ DeadlinePassed \/ Sleeps \/ Post \/ ConnectFails
  BY <1>2, Zenon DEF Cancelled, DeadlinePassed, Sleeps, Post, ConnectFails
<1>3. CASE PostTimesOut \/ PostBreaks
  BY <1>3, Zenon DEF PostTimesOut, PostBreaks, Abandons
<1>4. CASE Authorized \/ Pending \/ SlowDown \/ TurnedDown
  BY <1>4, Zenon DEF Authorized, Pending, SlowDown, TurnedDown
<1>5. CASE Interrupted \/ Tick
  BY <1>5, Zenon DEF Interrupted, Tick
<1>6. CASE CodeChanges \/ ServerAnswers \/ StrayArrives \/ Redirected
  BY <1>6, Zenon DEF CodeChanges, ServerAnswers, StrayArrives, Redirected
<1> QED
  BY <1>1, <1>2, <1>3, <1>4, <1>5, <1>6 DEF Next, Poll, Server

\* Whom a request may go to depends on the setup alone.
LEMMA AddressedStable ==
  Addressed /\ UNCHANGED <<setup, peer, moved>> /\ (pc' = "wait" => pc = "wait") => Addressed'
<1> SUFFICES ASSUME Addressed, UNCHANGED <<setup, peer, moved>>, pc' = "wait" => pc = "wait"
             PROVE Addressed'
  OBVIOUS
<1>1. setup' = setup /\ peer' = peer /\ moved' = moved
  OBVIOUS
<1>2. (peer # Nobody => Contacts(peer, moved))'
  <2>1. CASE moved
    <3>1. peer # Nobody => Follows(peer) /\ \E first \in Peers : Reaches(first)
      BY <2>1, Zenon DEF Addressed, Contacts
    <3>2. (peer # Nobody => Follows(peer))'
      BY <1>1, <3>1, Zenon DEF Follows, Admits
    <3>3. (peer # Nobody => \E first \in Peers : Reaches(first))'
      BY <1>1, <3>1, Zenon DEF Reaches, Admits
    <3>4. moved'
      BY <1>1, <2>1
    <3> QED
      BY <3>2, <3>3, <3>4, Zenon DEF Contacts, Follows, Reaches, Admits
  <2>2. CASE ~moved
    <3>1. peer # Nobody => Reaches(peer)
      BY <2>2, Zenon DEF Addressed, Contacts
    <3>2. (peer # Nobody => Reaches(peer))'
      BY <1>1, <3>1, Zenon DEF Reaches, Admits
    <3>3. ~moved'
      BY <1>1, <2>2
    <3> QED
      BY <3>2, <3>3, Zenon DEF Contacts, Reaches, Admits
  <2> QED
    BY <2>1, <2>2
<1>3. (pc = "wait" => \E first \in Peers : Reaches(first))'
  BY <1>1, Zenon DEF Addressed, Reaches, Admits
<1> QED
  BY <1>2, <1>3, Zenon DEF Addressed

\* A request given up is spoken to nobody.
LEMMA AddressedHungUp == HangsUp /\ pc' # "wait" => Addressed'
BY DEF HangsUp, Addressed

\* What the types say of the numbers.
LEMMA NumbersAreInts ==
  TypeOK => /\ now \in Nat /\ timer \in Nat /\ expiry \in Int /\ deadline \in Int
            /\ interval \in Int /\ initialInterval \in Int /\ setup.poll \in Nat
<1> SUFFICES ASSUME TypeOK
             PROVE  /\ now \in Nat /\ timer \in Nat /\ expiry \in Int /\ deadline \in Int
                    /\ interval \in Int /\ initialInterval \in Int /\ setup.poll \in Nat
  OBVIOUS
<1>1. \A n \in Announced : n \in Durations
  BY LoginAssumption, SecondsWrap DEF Announced
<1>2. setup.poll \in Nat
  BY LoginAssumption DEF TypeOK, Flags, Setups
<1> QED
  BY <1>1, <1>2, DurationsAreInts DEF TypeOK

\* Of the first poll, at time 0.
LEMMA FirstPoll ==
  ASSUME NEW first \in Int, NEW end \in Int, NEW limit \in Nat
  PROVE  /\ first <= first /\ first <= first + 0
         /\ 0 < first /\ 0 <= end => 0 <= end + (end + first) + limit
OBVIOUS

\* runLogin begins.
LEMMA BeginStep == IInv /\ Flags' /\ (CodeIssued \/ CodeFails) => IInv'
<1> SUFFICES ASSUME IInv, Flags', CodeIssued \/ CodeFails PROVE IInv'
  OBVIOUS
<1>n. /\ now \in Nat /\ timer \in Nat /\ expiry \in Int /\ deadline \in Int
      /\ interval \in Int /\ initialInterval \in Int
  BY NumbersAreInts DEF IInv
<1>1. CASE CodeIssued
  <2>1. /\ interval' \in Durations /\ initialInterval' = interval' /\ initialInterval' \in Announced
        /\ expiry' \in Durations
        /\ deadline' = Deadline(expiry', setup.poll)
    BY <1>1, Timers DEF CodeIssued
  <2>2. /\ deadline' \in Durations
        /\ deadline' = expiry' \/ (setup'.poll > 0 /\ deadline' = setup'.poll)
    <3>1. setup.poll \in PollTimeouts /\ setup' = setup
      BY <1>1 DEF CodeIssued, IInv, TypeOK, Flags, Setups
    <3> QED
      BY <2>1, <3>1, DeadlineOfTwo
  <2>3. /\ pc = "code" /\ pc' = "check" /\ code' = "pending" /\ verdict' = verdict /\ flight' = flight
        /\ now' = now /\ timer' = timer /\ peer' \in Peers
    BY <1>1, Zenon DEF CodeIssued
  <2>4. lost' <=> lost
    BY <1>1, Zenon DEF CodeIssued
  <2>5. interval' \in Int /\ deadline' \in Int
    BY <2>1, <2>2, DurationsAreInts
  <2>6. TypeOK'
    BY <2>1, <2>2, <2>3 DEF IInv, TypeOK
  <2>7. Timing' /\ BoundedOvershoot'
    <3>1. now' = 0 /\ PostTimeout \in Nat /\ initialInterval' \in Int
      BY <2>1, <2>3, <2>5, LoginAssumption DEF IInv, Timing
    <3>2. initialInterval' <= interval' /\ interval' <= initialInterval' + now'
      BY <2>1, <2>5, <3>1, FirstPoll
    <3>3. Timing'
      BY <2>3, <3>2, Zenon DEF Timing
    <3>4. 0 < initialInterval' /\ 0 <= deadline'
            => now' <= deadline' + (deadline' + initialInterval') + PostTimeout
      BY <2>5, <3>1, FirstPoll
    <3> QED
      BY <3>3, <3>4, Zenon DEF BoundedOvershoot, Ordinary
  <2>8. Ledger'
    BY <2>2, <2>3, <2>4, SMT DEF IInv, Ledger
  <2>9. VerdictHonest'
    BY <2>3 DEF IInv, Ledger, VerdictHonest
  <2>10. Addressed'
    BY <1>1, <2>3, Zenon DEF CodeIssued, Addressed, Contacts, Follows, Reaches, Admits
  <2> QED
    BY <2>6, <2>7, <2>8, <2>9, <2>10 DEF IInv
<1>2. CASE CodeFails
  <2>1. /\ pc = "code" /\ pc' = "done" /\ verdict' = "no_code"
        /\ UNCHANGED <<setup, now, initialInterval, expiry, deadline, interval, timer, code, flight, peer, moved, stray, lost>>
    BY <1>2 DEF CodeFails, Ends, loop, wire, route
  <2>2. TypeOK'
    BY <2>1 DEF IInv, TypeOK
  <2>3. Timing' /\ BoundedOvershoot'
    BY <1>n, <2>1, LoginAssumption, SMT DEF IInv, Timing, BoundedOvershoot, Ordinary
  <2>4. Ledger' /\ VerdictHonest'
    BY <1>n, <2>1, SMT DEF IInv, Ledger, VerdictHonest
  <2>5. Addressed'
    BY <2>1, AddressedStable DEF IInv
  <2> QED
    BY <2>2, <2>3, <2>4, <2>5 DEF IInv
<1> QED
  BY <1>1, <1>2

\* The loop checks, sleeps and sends.
LEMMA LoopStep ==
  IInv /\ Flags' /\ (Cancelled \/ DeadlinePassed \/ Sleeps \/ Post \/ ConnectFails) => IInv'
<1> SUFFICES ASSUME IInv, Flags', Cancelled \/ DeadlinePassed \/ Sleeps \/ Post \/ ConnectFails
             PROVE IInv'
  OBVIOUS
<1>n. /\ now \in Nat /\ timer \in Nat /\ expiry \in Int /\ deadline \in Int
      /\ interval \in Int /\ initialInterval \in Int /\ setup.poll \in Nat
      /\ PostTimeout \in Nat \ {0}
  BY NumbersAreInts, LoginAssumption DEF IInv
<1> USE DEF IInv, loop, wire, route
<1>1. CASE Cancelled \/ DeadlinePassed
  <2>1. /\ pc \in {"check", "sleep"} /\ pc' = "done" /\ verdict' \in {"cancelled", "timed_out"}
        /\ verdict' = "timed_out" => pc = "check" /\ now >= deadline
        /\ UNCHANGED <<setup, now, initialInterval, expiry, deadline, interval, timer, code, flight, peer, moved, stray, lost>>
    BY <1>1, SMT DEF Cancelled, DeadlinePassed, Ends
  <2>2. TypeOK'
    BY <2>1 DEF TypeOK
  <2>3. Timing' /\ BoundedOvershoot'
    BY <1>n, <2>1, SMT DEF Timing, BoundedOvershoot, Ordinary
  <2>4. Ledger' /\ VerdictHonest'
    BY <1>n, <2>1, SMT DEF Ledger, VerdictHonest
  <2>5. Addressed'
    BY <2>1, AddressedStable
  <2> QED
    BY <2>2, <2>3, <2>4, <2>5
<1>2. CASE Sleeps
  <2>1. /\ pc = "check" /\ pc' = "sleep" /\ now <= deadline /\ timer' = now + Pause(interval)
        /\ UNCHANGED <<setup, now, initialInterval, expiry, deadline, interval, verdict, code, flight, peer, moved, stray, lost>>
    BY <1>2, SMT DEF Sleeps
  <2>2. Pause(interval) \in Nat /\ (interval > 0 => Pause(interval) = interval)
    BY <1>n, SMT DEF Pause
  <2>3. TypeOK'
    BY <1>n, <2>1, <2>2 DEF TypeOK
  <2>4. Timing' /\ BoundedOvershoot'
    BY <1>n, <2>1, <2>2, SMT DEF Timing, BoundedOvershoot, Ordinary
  <2>5. Ledger' /\ VerdictHonest'
    BY <1>n, <2>1, SMT DEF Ledger, VerdictHonest
  <2>6. Addressed'
    BY <2>1, AddressedStable
  <2> QED
    BY <2>3, <2>4, <2>5, <2>6
<1>3. CASE Post
  <2>1. /\ pc = "sleep" /\ pc' = "wait" /\ now = timer /\ timer' = now + PostTimeout /\ flight' = "request"
        /\ peer' \in Peers
        /\ UNCHANGED <<setup, now, initialInterval, expiry, deadline, interval, verdict, code, stray, lost>>
    BY <1>3, SMT DEF Post
  <2>2. TypeOK'
    BY <1>n, <2>1 DEF TypeOK
  <2>3. Timing' /\ BoundedOvershoot'
    BY <1>n, <2>1, SMT DEF Timing, BoundedOvershoot, Ordinary
  <2>4. Ledger' /\ VerdictHonest'
    BY <1>n, <2>1, SMT DEF Ledger, VerdictHonest
  <2>5. Addressed'
    BY <1>3, Zenon DEF Post, Addressed, Contacts, Reaches, Admits
  <2> QED
    BY <2>2, <2>3, <2>4, <2>5
<1>4. CASE ConnectFails
  <2>1. /\ pc = "sleep" /\ pc' = "check" /\ now = timer
        /\ UNCHANGED <<setup, now, initialInterval, expiry, deadline, interval, timer, verdict, code, flight, peer, moved, stray, lost>>
    BY <1>4, SMT DEF ConnectFails
  <2>2. TypeOK'
    BY <2>1 DEF TypeOK
  <2>3. Timing' /\ BoundedOvershoot'
    BY <1>n, <2>1, SMT DEF Timing, BoundedOvershoot, Ordinary
  <2>4. Ledger' /\ VerdictHonest'
    BY <1>n, <2>1, SMT DEF Ledger, VerdictHonest
  <2>5. Addressed'
    BY <2>1, AddressedStable
  <2> QED
    BY <2>2, <2>3, <2>4, <2>5
<1> QED
  BY <1>1, <1>2, <1>3, <1>4

\* A request ends without an answer, or with one.  A doubling that stays ordinary is
\* one.
LEMMA AnswerStep ==
  IInv /\ Flags' /\ (PostTimesOut \/ PostBreaks \/ Authorized \/ Pending \/ SlowDown \/ TurnedDown) => IInv'
<1> SUFFICES ASSUME IInv, Flags', PostTimesOut \/ PostBreaks \/ Authorized \/ Pending \/ SlowDown \/ TurnedDown
             PROVE IInv'
  OBVIOUS
<1>n. /\ now \in Nat /\ timer \in Nat /\ expiry \in Int /\ deadline \in Int
      /\ interval \in Int /\ initialInterval \in Int /\ setup.poll \in Nat
      /\ PostTimeout \in Nat \ {0}
  BY NumbersAreInts, LoginAssumption DEF IInv
<1> USE DEF IInv, loop, route
<1>1. CASE PostTimesOut \/ PostBreaks
  <2>1. /\ pc = "wait" /\ pc' = "check" /\ flight' = "none" /\ HangsUp
        /\ UNCHANGED <<setup, now, initialInterval, expiry, deadline, interval, timer, verdict, code>>
    BY <1>1, SMT DEF PostTimesOut, PostBreaks, Abandons
  <2>2. /\ lost' => lost \/ flight = "grant"
        /\ lost => lost'
        /\ flight = "grant" => lost'
    BY <1>1, Zenon DEF PostTimesOut, PostBreaks, Abandons
  <2>3. TypeOK'
    BY <2>1 DEF TypeOK, HangsUp
  <2>4. Timing' /\ BoundedOvershoot'
    BY <1>n, <2>1, SMT DEF Timing, BoundedOvershoot, Ordinary
  <2>5. Ledger' /\ VerdictHonest'
    BY <1>n, <2>1, <2>2, SMT DEF Ledger, VerdictHonest
  <2>6. Addressed'
    BY <2>1, AddressedHungUp
  <2> QED
    BY <2>3, <2>4, <2>5, <2>6
<1>2. CASE Authorized \/ TurnedDown
  <2>1. /\ pc = "wait" /\ pc' = "done" /\ flight' = "none"
        /\ \/ flight = "grant" /\ verdict' = "token"
           \/ flight = "access_denied" /\ verdict' = "denied"
           \/ flight = "expired_token" /\ verdict' = "code_expired"
           \/ flight = "invalid_device_code" /\ verdict' = "no_longer_valid"
           \/ flight = "other" /\ verdict' = "failed"
        /\ UNCHANGED <<setup, now, initialInterval, expiry, deadline, interval, timer, code, peer, moved, stray, lost>>
    BY <1>2 DEF Authorized, TurnedDown, Heard, Ends, VerdictOf
  <2>2. TypeOK'
    BY <2>1 DEF TypeOK
  <2>3. Timing' /\ BoundedOvershoot'
    BY <1>n, <2>1, SMT DEF Timing, BoundedOvershoot, Ordinary
  <2>4. Ledger' /\ VerdictHonest'
    BY <1>n, <2>1, SMT DEF Ledger, VerdictHonest
  <2>5. Addressed'
    BY <2>1, AddressedStable
  <2> QED
    BY <2>2, <2>3, <2>4, <2>5
<1>3. CASE Pending \/ SlowDown
  <2>1. /\ pc = "wait" /\ pc' = "check" /\ flight' = "none" /\ HangsUp
        /\ flight \in {"authorization_pending", "slow_down"}
        /\ interval' = interval \/ interval' = wrapped(2 * interval)
        /\ UNCHANGED <<setup, now, initialInterval, expiry, deadline, timer, verdict, code, stray, lost>>
    BY <1>3, SMT DEF Pending, SlowDown, Heard
  <2>2. interval' \in Durations /\ interval' \in Int
    <3>1. wrapped(2 * interval) \in Durations
      BY <1>n, WrapsInto
    <3> QED
      BY <2>1, <3>1, DurationsAreInts DEF TypeOK
  <2>3. Ordinary => interval' = interval \/ interval' = 2 * interval
    <3> SUFFICES ASSUME Ordinary PROVE wrapped(2 * interval) = 2 * interval
      BY <2>1
    <3>1. 2 * interval \in Nat /\ 2 * interval < Wrap \div 2
      <4>1. Wrap \div 2 \in Int
        BY DurationAssumption
      <4> QED
        BY <1>n, <2>1, <4>1, SMT DEF Timing, Ordinary
    <3> QED
      BY <3>1, Fits
  <2>4. TypeOK'
    BY <2>1, <2>2 DEF TypeOK, HangsUp
  <2>5. Timing' /\ BoundedOvershoot'
    BY <1>n, <2>1, <2>2, <2>3, SMT DEF Timing, BoundedOvershoot, Ordinary
  <2>6. Ledger' /\ VerdictHonest'
    BY <1>n, <2>1, SMT DEF Ledger, VerdictHonest
  <2>7. Addressed'
    BY <2>1, AddressedHungUp
  <2> QED
    BY <2>4, <2>5, <2>6, <2>7
<1> QED
  BY <1>1, <1>2, <1>3

\* The clock, the operator and the server.
LEMMA OutsideStep == IInv /\ Flags' /\ (Interrupted \/ Tick \/ Server) => IInv'
<1> SUFFICES ASSUME IInv, Flags', Interrupted \/ Tick \/ Server PROVE IInv'
  OBVIOUS
<1>n. /\ now \in Nat /\ timer \in Nat /\ expiry \in Int /\ deadline \in Int
      /\ interval \in Int /\ initialInterval \in Int /\ setup.poll \in Nat
      /\ PostTimeout \in Nat \ {0}
  BY NumbersAreInts, LoginAssumption DEF IInv
<1>r. UNCHANGED <<setup, pc, initialInterval, expiry, deadline, interval, timer, verdict>>
  BY SMT DEF Interrupted, Tick, Server, CodeChanges, ServerAnswers, StrayArrives, Redirected, loop
<1> USE DEF IInv, loop, wire, route
<1>1. CASE Interrupted \/ Tick
  <2>1. UNCHANGED <<code, flight, peer, moved, stray, lost>>
    BY <1>1 DEF Interrupted, Tick
  <2>2. \/ now' = now
        \/ /\ now' = now + 1
           /\ \/ pc \in {"sleep", "wait"} /\ now < timer
              \/ pc = "check" /\ now <= deadline
    BY <1>1 DEF Interrupted, Tick
  <2>3. TypeOK'
    <3>1. now' \in Nat
      BY <1>n, <2>2
    <3> QED
      BY <1>r, <2>1, <3>1, Zenon DEF TypeOK, Announced
  <2>4. Timing' /\ BoundedOvershoot'
    BY <1>n, <1>r, <2>1, <2>2, SMT DEF Timing, BoundedOvershoot, Ordinary
  <2>5. Ledger' /\ VerdictHonest'
    BY <1>n, <1>r, <2>1, <2>2, SMT DEF Ledger, VerdictHonest
  <2>6. Addressed'
    BY <1>r, <2>1, AddressedStable
  <2> QED
    BY <2>3, <2>4, <2>5, <2>6
<1>2. CASE CodeChanges
  <2>1. /\ code \in {"pending", "approved"} /\ code' \in {"approved", "denied", "expired"}
        /\ UNCHANGED <<now, flight, peer, moved, stray, lost>>
    BY <1>2 DEF CodeChanges
  <2>2. TypeOK' /\ Timing' /\ BoundedOvershoot'
    BY <1>n, <1>r, <2>1, SMT DEF TypeOK, Timing, BoundedOvershoot, Ordinary, Announced
  <2>3. Ledger' /\ VerdictHonest'
    BY <1>n, <1>r, <2>1, SMT DEF Ledger, VerdictHonest
  <2>4. Addressed'
    BY <1>r, <2>1, AddressedStable
  <2> QED
    BY <2>2, <2>3, <2>4
<1>3. CASE ServerAnswers
  <2>1. PICK answer \in AnswersFor(code) : flight' = answer /\ Answered(answer)
    BY <1>3 DEF ServerAnswers
  <2>2. flight = "request" /\ UNCHANGED <<now, peer, moved, stray>>
    BY <1>3, Zenon DEF ServerAnswers
  <2>3. lost' <=> lost
    BY <1>3, Zenon DEF ServerAnswers
  <2>4. /\ answer \in Answers
        /\ answer = "grant" => code = "approved"
        /\ answer = "access_denied" => code = "denied"
        /\ answer = "expired_token" => code = "expired"
        /\ answer = "invalid_device_code" => code = "consumed"
    BY <2>1, SMT DEF AnswersFor, Answers
  <2>5. code' = IF answer = "grant" THEN "consumed" ELSE code
    BY <2>1 DEF Answered
  <2>6. TypeOK' /\ Timing' /\ BoundedOvershoot'
    BY <1>n, <1>r, <2>1, <2>2, <2>4, <2>5, SMT DEF TypeOK, Timing, BoundedOvershoot, Ordinary, Announced
  <2>7. Ledger' /\ VerdictHonest'
    BY <1>n, <1>r, <2>1, <2>2, <2>3, <2>4, <2>5, SMT DEF Ledger, VerdictHonest, Answers
  <2>8. Addressed'
    BY <1>r, <2>2, AddressedStable
  <2> QED
    BY <2>6, <2>7, <2>8
<1>4. CASE Redirected
  <2>1. /\ flight = "request" /\ peer' \in Peers /\ Follows(peer')
        /\ UNCHANGED <<now, code, flight>>
    BY <1>4, Zenon DEF Redirected
  <2>2. (lost' <=> lost) /\ (stray' <=> stray) /\ moved'
    BY <1>4, Zenon DEF Redirected
  <2>3. TypeOK' /\ Timing' /\ BoundedOvershoot'
    BY <1>n, <1>r, <2>1, SMT DEF TypeOK, Timing, BoundedOvershoot, Ordinary, Announced
  <2>4. Ledger' /\ VerdictHonest'
    BY <1>n, <1>r, <2>1, <2>2, SMT DEF Ledger, VerdictHonest
  <2>5. Addressed'
    <3>1. \E first \in Peers : Reaches(first)
      BY <2>1 DEF Ledger, Addressed
    <3> QED
      BY <1>r, <2>1, <2>2, <3>1, Zenon DEF Addressed, Contacts, Follows, Reaches, Admits
  <2> QED
    BY <2>3, <2>4, <2>5
<1>5. CASE StrayArrives
  <2>1. PICK answer \in AnswersFor(code) : Answered(answer) /\ lost' = (lost \/ answer = "grant")
    BY <1>5 DEF StrayArrives
  <2>2. /\ lost' => lost \/ answer = "grant"
        /\ lost \/ answer = "grant" => lost'
    BY <2>1, Zenon
  <2>3. stray /\ UNCHANGED <<now, flight, peer, moved>>
    BY <1>5 DEF StrayArrives
  <2>4. /\ answer = "grant" => code = "approved"
        /\ code' = IF answer = "grant" THEN "consumed" ELSE code
    BY <2>1 DEF AnswersFor, Answered
  <2>5. TypeOK' /\ Timing' /\ BoundedOvershoot'
    BY <1>n, <1>r, <2>3, <2>4, SMT DEF TypeOK, Timing, BoundedOvershoot, Ordinary, Announced
  <2>6. Ledger' /\ VerdictHonest'
    BY <1>n, <1>r, <2>2, <2>3, <2>4, SMT DEF Ledger, VerdictHonest
  <2>7. Addressed'
    BY <1>r, <2>3, AddressedStable
  <2> QED
    BY <2>5, <2>6, <2>7
<1> QED
  BY <1>1, <1>2, <1>3, <1>4, <1>5 DEF Server

LEMMA InvNext == IInv /\ [Next]_vars => IInv'
<1> SUFFICES ASSUME IInv, [Next]_vars PROVE IInv'
  OBVIOUS
<1>1. CASE UNCHANGED vars
  <2> USE <1>1 DEF vars, loop, wire, route
  <2>f. Flags'
    BY Zenon DEF IInv, TypeOK, Flags
  <2>1. TypeOK'
    BY <2>f, SMT DEF IInv, TypeOK, Announced
  <2>2. Timing' /\ BoundedOvershoot'
    BY SMT DEF IInv, Timing, BoundedOvershoot, Ordinary
  <2>3. Ledger'
    BY SMT DEF IInv, Ledger
  <2>4. VerdictHonest'
    BY SMT DEF IInv, VerdictHonest
  <2>5. Addressed'
    BY AddressedStable DEF IInv
  <2> QED
    BY <2>1, <2>2, <2>3, <2>4, <2>5 DEF IInv
<1>2. CASE Next
  <2>1. Flags'
    BY <1>2, FlagsStep DEF IInv, TypeOK
  <2> QED
    BY <1>2, <2>1, BeginStep, LoopStep, AnswerStep, OutsideStep DEF Next, Poll
<1> QED
  BY <1>1, <1>2

\* The strengthened invariant holds throughout.
LEMMA InvHolds == Spec => []IInv
BY InvInit, InvNext, PTL DEF Spec

\* Whatever two numbers the server sends, and however their products and doublings
\* wrap, the loop runs on durations, and its first interval is the product of a
\* number of seconds above zero (login.go:65-80).
THEOREM TypeCorrect == Spec => []TypeOK
BY InvHolds, PTL DEF IInv

\* Where nothing wraps, every pause is one, and no shorter than the first: slow_down
\* only ever lengthens them (login.go:165).
THEOREM PausesNeverShrink == Spec => [](Ordinary => 0 < initialInterval /\ initialInterval <= interval)
<1>1. IInv => (Ordinary => 0 < initialInterval /\ initialInterval <= interval)
  BY DEF IInv, Timing, Ordinary
<1> QED
  BY <1>1, InvHolds, PTL

\* The ceiling of --poll-timeout is soft, by a bounded amount.
THEOREM OvershootIsBounded == Spec => []BoundedOvershoot
BY InvHolds, PTL DEF IInv

\* A token is only ever lost on the way, never by the loop.
THEOREM TokensAreNotDropped == Spec => []OrphanOnlyByLoss
<1>1. IInv => OrphanOnlyByLoss
  BY DEF IInv, Ledger, OrphanOnlyByLoss
<1> QED
  BY <1>1, InvHolds, PTL

\* The server's verdicts are passed on as they are and are true of the code; login's
\* own, that the code expired, only says that a time is over (login.go:142).
THEOREM VerdictsAreHonest == Spec => []VerdictHonest
BY InvHolds, PTL DEF IInv

\* What any number of redirects can and cannot do to the two secrets.
THEOREM TokensTravelSealed == Spec => []SecretsSealed
<1>1. ASSUME IInv, peer # Nobody, ~setup.skip PROVE SecretsSealed
  <2>1. /\ Contacts(peer, moved)
        /\ \A key : Reaches(key) => requireSecure(setup.base, setup.skip) = "ok"
    BY <1>1 DEF IInv, Addressed, Reaches
  <2>2. requireSecure(setup.base, setup.skip) = "ok"
    BY <2>1, Zenon DEF Contacts
  <2>3. CASE setup.base.scheme = "https"
    <3>1. peer = Plain => moved
      BY <2>1, <2>3, LoginAssumption, Zenon DEF Contacts, Reaches, Admits
    <3>2. peer # Plain => Admits(peer)
      BY <2>1, <2>3, Zenon DEF Contacts, Reaches, Follows
    <3>3. peer # Plain /\ looksReal(PinForHost(setup.base.host)) => peer \in PinForHost(setup.base.host)
      BY <1>1, <2>3, <3>2 DEF Admits, VerifyPeerCertificate, allowed
    <3> QED
      BY <2>3, <3>1, <3>3 DEF SecretsSealed
  <2>4. CASE setup.base.scheme # "https"
    <3>1. setup.base.scheme = "http" /\ setup.base.host \in Loopback
      BY <1>1, <2>2, <2>4 DEF requireSecure, PlaintextAllowed, isLoopbackHost
    <3>2. peer # Plain => moved
      BY <2>1, <2>4, Zenon DEF Contacts, Reaches
    <3> QED
      BY <3>1, <3>2 DEF SecretsSealed
  <2> QED
    BY <2>3, <2>4
<1>2. IInv => SecretsSealed
  BY <1>1 DEF SecretsSealed
<1> QED
  BY <1>2, InvHolds, PTL

\* Under a release build the pins cannot be bypassed without the flag by any peer
\* that speaks TLS, the ones at the end of redirects included; plaintext is only
\* spoken to where a redirect led there (api_client.go:54, 145).
THEOREM ReleasePinsLogin ==
  ASSUME prodBuildStarts
  PROVE  Spec =>
    [](peer # Nobody /\ ~setup.skip /\ setup.base.scheme = "https" /\ setup.base.host \in PinnedHosts
         => peer \in hostPins[setup.base.host] \/ (peer = Plain /\ moved))
<1> DEFINE Pinned ==
      peer # Nobody /\ ~setup.skip /\ setup.base.scheme = "https" /\ setup.base.host \in PinnedHosts
        => peer \in hostPins[setup.base.host] \/ (peer = Plain /\ moved)
<1>1. ASSUME IInv, peer # Nobody, ~setup.skip, setup.base.scheme = "https", setup.base.host \in PinnedHosts
      PROVE  peer \in hostPins[setup.base.host] \/ (peer = Plain /\ moved)
  <2>1. Contacts(peer, moved)
    BY <1>1 DEF IInv, Addressed
  <2>2. Admits(peer) \/ (peer = Plain /\ moved)
    BY <1>1, <2>1, Zenon DEF Contacts, Reaches, Follows
  <2>3. Admits(peer) => peer \in hostPins[setup.base.host]
    BY <1>1 DEF prodBuildStarts, Admits, VerifyPeerCertificate, allowed, PinForHost
  <2> QED
    BY <2>2, <2>3
<1>2. IInv => Pinned
  BY <1>1
<1> QED
  BY <1>2, InvHolds, PTL

-----------------------------------------------------------------------------
(* Polling is finite: a budget that only shrinks. *)

Polling == pc \in {"check", "sleep", "wait"}

\* No poll ends later than this (BoundedOvershoot).
Latest == deadline + (deadline + initialInterval) + PostTimeout

\* What may still happen before the clock moves: the sleep is over, the request
\* is out, it has ended, the next sleep has begun.
Rank ==
  CASE pc = "sleep" /\ now = timer -> 3
    [] pc = "wait"                 -> 2
    [] pc = "check"                -> 1
    [] OTHER                       -> 0

Budget == 4 * (Latest - now) + Rank

LEMMA BudgetIsNat == IInv /\ Ordinary /\ Polling => Budget \in Nat
<1> SUFFICES ASSUME IInv, Ordinary, Polling PROVE Budget \in Nat
  OBVIOUS
<1>1. now \in Nat /\ Latest \in Int /\ now <= Latest
  BY NumbersAreInts, LoginAssumption, SMT DEF IInv, BoundedOvershoot, Latest
<1>2. Rank \in Nat
  BY DEF Rank
<1> QED
  BY <1>1, <1>2, SMT DEF Budget

\* Each step of the loop and each tick of its clock spends some of the budget;
\* a signal, the server and a straggler do not touch it.
LEMMA BudgetStep ==
  ASSUME IInv, [Next]_vars, Ordinary, Polling, pc' # "done"
  PROVE  /\ Polling' /\ Ordinary'
         /\ Budget' < Budget \/ UNCHANGED <<pc, now, timer, interval, Budget>>
<1>t. /\ now \in Nat /\ timer \in Nat /\ deadline \in Int /\ PostTimeout \in Nat \ {0}
      /\ interval \in Int /\ initialInterval \in Int /\ 0 < interval
  BY NumbersAreInts, LoginAssumption, SMT DEF IInv, Timing, Ordinary
<1>s. UNCHANGED <<deadline, initialInterval>>
  BY SMT DEF Polling, Next, CodeIssued, CodeFails, Poll, Cancelled, DeadlinePassed, Sleeps, Post, ConnectFails,
     PostTimesOut, PostBreaks, Abandons, Authorized, Pending, SlowDown, TurnedDown, Interrupted, Tick, Server,
     CodeChanges, ServerAnswers, StrayArrives, Redirected, loop, vars
<1>o. Ordinary'
  BY <1>s DEF Ordinary
<1> USE DEF Polling, Budget, Latest, Rank
<1>1. CASE CodeIssued \/ CodeFails \/ Cancelled \/ DeadlinePassed \/ Authorized \/ TurnedDown
  BY <1>1 DEF CodeIssued, CodeFails, Cancelled, DeadlinePassed, Authorized, TurnedDown, Ends
<1>2. CASE Sleeps
  <2>1. pc = "check" /\ pc' = "sleep" /\ now' = now /\ timer' = now + interval
    BY <1>2, <1>t, SMT DEF Sleeps, Pause
  <2> QED
    BY <1>o, <1>s, <1>t, <2>1, SMT
<1>3. CASE Post
  <2>1. pc = "sleep" /\ now = timer /\ pc' = "wait" /\ now' = now
    BY <1>3, SMT DEF Post
  <2> QED
    BY <1>o, <1>s, <1>t, <2>1, SMT
<1>4. CASE ConnectFails
  <2>1. pc = "sleep" /\ now = timer /\ pc' = "check" /\ now' = now
    BY <1>4, SMT DEF ConnectFails
  <2> QED
    BY <1>o, <1>s, <1>t, <2>1, SMT
<1>5. CASE PostTimesOut \/ PostBreaks \/ Pending \/ SlowDown
  <2>1. pc = "wait" /\ pc' = "check" /\ now' = now
    BY <1>5, SMT DEF PostTimesOut, PostBreaks, Abandons, Pending, SlowDown, Heard
  <2> QED
    BY <1>o, <1>s, <1>t, <2>1, SMT
<1>6. CASE Tick
  <2>1. /\ now' = now + 1 /\ UNCHANGED <<pc, timer>>
        /\ (pc \in {"sleep", "wait"} /\ now < timer) \/ pc = "check"
    BY <1>6, SMT DEF Tick
  <2> QED
    BY <1>o, <1>s, <1>t, <2>1, SMT
<1>7. CASE Interrupted \/ Server \/ UNCHANGED vars
  <2>1. UNCHANGED <<pc, now, timer, interval>>
    BY <1>7, SMT DEF Interrupted, Server, CodeChanges, ServerAnswers, StrayArrives, Redirected, vars
  <2> QED
    BY <1>o, <1>s, <2>1
<1> QED
  BY <1>1, <1>2, <1>3, <1>4, <1>5, <1>6, <1>7 DEF Next, Poll

\* Polling cannot go on forever where nothing wraps: from the device code on, every
\* check, sleep, request and tick spends a budget of whole numbers that nothing
\* refills - no slow_down, no lost answer, no redirect, no reset and no signal
\* (login.go:137-176).
THEOREM PollingIsFinite ==
  Spec => /\ [](Ordinary /\ Polling => Budget \in Nat)
          /\ [][ Ordinary /\ Polling /\ pc' # "done"
                   => /\ Ordinary' /\ Polling'
                      /\ Budget' < Budget \/ UNCHANGED <<pc, now, timer, interval, Budget>> ]_vars
<1>1. IInv => (Ordinary /\ Polling => Budget \in Nat)
  BY BudgetIsNat
<1>2. IInv /\ [Next]_vars =>
        [ Ordinary /\ Polling /\ pc' # "done"
            => /\ Ordinary' /\ Polling'
               /\ Budget' < Budget \/ UNCHANGED <<pc, now, timer, interval, Budget>> ]_vars
  BY BudgetStep
<1> QED
  BY <1>1, <1>2, InvHolds, PTL DEF Spec

-----------------------------------------------------------------------------
(* Ctrl-C.                                                                 *)

\* Where the steps of login lead, and that no other step leads elsewhere or
\* takes the interruption back.
LEMMA LoginMoves ==
  ASSUME [Next]_vars
  PROVE  /\ cancelled => cancelled'
         /\ pc = "code"  => pc' \in {"code", "check", "done"}
         /\ pc = "check" /\ cancelled => pc' \in {"check", "done"}
         /\ pc = "sleep" => pc' \in {"sleep", "wait", "check", "done"}
         /\ pc = "wait"  => pc' \in {"wait", "check", "done"}
<1> USE DEF loop, wire, route, HangsUp, Ends
<1>1. CASE CodeIssued \/ CodeFails
  BY <1>1 DEF CodeIssued, CodeFails
<1>2. CASE Cancelled \/ DeadlinePassed \/ Sleeps
  BY <1>2 DEF Cancelled, DeadlinePassed, Sleeps
<1>3. CASE Post \/ ConnectFails \/ PostTimesOut \/ PostBreaks
  BY <1>3 DEF Post, ConnectFails, PostTimesOut, PostBreaks, Abandons
<1>4. CASE Authorized \/ Pending \/ SlowDown \/ TurnedDown
  BY <1>4 DEF Authorized, Pending, SlowDown, TurnedDown, Heard
<1>5. CASE Interrupted \/ Tick \/ Server
  <2>1. pc' = pc /\ (cancelled => cancelled')
    BY <1>5 DEF Interrupted, Tick, Server, CodeChanges, ServerAnswers, StrayArrives, Redirected
  <2> QED
    BY <2>1
<1>6. CASE UNCHANGED vars
  BY <1>6 DEF vars
<1> QED
  BY <1>1, <1>2, <1>3, <1>4, <1>5, <1>6 DEF Next, Poll

\* What each fair step does for an interrupted login.
LEMMA InterruptedSteps ==
  /\ pc = "code" /\ (CodeIssued \/ CodeFails) => pc' \in {"check", "done"}
  /\ pc = "check" /\ cancelled /\ Poll => pc' = "done"
  /\ pc = "sleep" /\ Poll => pc' \in {"wait", "check", "done"}
  /\ cancelled /\ PostBreaks => pc' = "check"
<1> USE DEF Ends
<1>1. pc = "code" /\ (CodeIssued \/ CodeFails) => pc' \in {"check", "done"}
  BY DEF CodeIssued, CodeFails
<1>2. pc = "check" /\ cancelled /\ Poll => pc' = "done"
  BY DEF Poll, Cancelled, DeadlinePassed, Sleeps, Post, ConnectFails, PostTimesOut, Authorized, Pending, SlowDown,
         TurnedDown, Heard
<1>3. pc = "sleep" /\ Poll => pc' \in {"wait", "check", "done"}
  BY DEF Poll, Cancelled, DeadlinePassed, Sleeps, Post, ConnectFails, PostTimesOut, Authorized, Pending, SlowDown,
         TurnedDown, Heard
<1>4. cancelled /\ PostBreaks => pc' = "check"
  BY DEF PostBreaks, Abandons
<1> QED
  BY <1>1, <1>2, <1>3, <1>4

\* An interrupted login ends - before the first code, between two polls, in the
\* middle of one - and needs neither the clock nor an answer for it.
THEOREM InterruptsEnd == Spec /\ Promptness /\ []NeverStuck => InterruptEnds
<1>1. Spec => [][Next]_vars /\ []IInv
  BY InvHolds, PTL DEF Spec
<1>2. IInv => pc = "code" \/ pc = "check" \/ pc = "sleep" \/ pc = "wait" \/ pc = "done"
  BY DEF IInv, TypeOK
<1>3. cancelled /\ [Next]_vars => cancelled'
  BY LoginMoves
<1>4. pc = "code" /\ [Next]_vars => (pc = "code")' \/ (pc = "check")' \/ (pc = "done")'
  BY LoginMoves
<1>5. pc = "code" /\ <<CodeIssued \/ CodeFails>>_vars => (pc = "check")' \/ (pc = "done")'
  BY InterruptedSteps
<1>6. pc = "sleep" /\ [Next]_vars => (pc = "sleep")' \/ (pc = "wait")' \/ (pc = "check")' \/ (pc = "done")'
  BY LoginMoves
<1>7. pc = "sleep" /\ <<Poll>>_vars => (pc = "wait")' \/ (pc = "check")' \/ (pc = "done")'
  BY InterruptedSteps
<1>8. pc = "wait" /\ [Next]_vars => (pc = "wait")' \/ (pc = "check")' \/ (pc = "done")'
  BY LoginMoves
<1>9. <<cancelled /\ PostBreaks>>_vars => (pc = "check")'
  BY InterruptedSteps
<1>10. pc = "check" /\ cancelled /\ [Next]_vars => (pc = "check")' \/ (pc = "done")'
  BY LoginMoves
<1>11. pc = "check" /\ cancelled /\ <<Poll>>_vars => (pc = "done")'
  BY InterruptedSteps
<1>12. NeverStuck => /\ pc = "code" => ENABLED <<CodeIssued \/ CodeFails>>_vars
                     /\ pc = "check" => ENABLED <<Poll>>_vars
                     /\ pc = "sleep" /\ cancelled => ENABLED <<Poll>>_vars
                     /\ pc = "wait" /\ cancelled => ENABLED <<cancelled /\ PostBreaks>>_vars
  BY DEF NeverStuck
<1> QED
  BY <1>1, <1>2, <1>3, <1>4, <1>5, <1>6, <1>7, <1>8, <1>9, <1>10, <1>11, <1>12, PTL DEF Promptness, InterruptEnds
=============================================================================
