----------------------------- MODULE KeepAlive ------------------------------
(***************************************************************************)
(* The clocks of one live session in internal/transport/ws_client.go: the  *)
(* heartbeats (runHeartbeats), the pings (runPings) and the read watchdog  *)
(* (readLoop), at the interval clampHeartbeat makes of the server's, over  *)
(* a network that may fall silent and against a server that may stop       *)
(* answering.  Discrete time; timers fire on time.  How a session that is  *)
(* left is torn down and redialled, without the clocks, is WSClient.       *)
(***************************************************************************)
EXTENDS GoDuration

CONSTANTS
  Offers,           \* heartbeat_interval as the server may send it, in seconds
  IntervalMin, IntervalMax, DefaultInterval,   \* of the heartbeat, in ticks
  AckDelay,         \* from a heartbeat's tick to its ack, at the latest
  PongDelay,        \* from a ping to its pong, at the latest
  CloseWait         \* Conn.Close waits that long for the peer's close

ASSUME KeepAliveAssumption ==
  /\ Offers \subseteq Int
  /\ IntervalMin \in Nat /\ IntervalMax \in Nat /\ DefaultInterval \in Nat
  /\ IntervalMin <= DefaultInterval /\ DefaultInterval <= IntervalMax
  /\ AckDelay \in Nat /\ PongDelay \in Nat /\ CloseWait \in Nat

\* A server and a network in order answer a heartbeat before the next one, and
\* a ping before the next one.
ASSUME PromptAssumption ==
  AckDelay < IntervalMin /\ PongDelay < IntervalMin \div 2

VARIABLES
  interval,   \* of this session
  session,    \* "live", "closing": inside Conn.Close, "left"
  why,        \* who closed it
  beat,       \* time since the heartbeat ticker fired
  unacked,    \* that heartbeat has no ack yet
  ping,       \* time since the ping ticker fired
  awaiting,   \* inside Conn.Ping
  dog,        \* time since the watchdog was reset
  quiet,      \* history: time since the last data frame
  closing,    \* time spent in Conn.Close
  network,    \* "up", or "silent": nothing arrives any more
  silence,    \* for how long
  server      \* "acks", or "stuck": its pongs are all it sends

clocks == <<beat, ping, dog, quiet, closing, silence>>
vars == <<interval, session, why, clocks, unacked, awaiting, network, server>>

\* Regression: no upper bound.
clampBelow(seconds) ==
  LET d == Duration(seconds) IN IF d < IntervalMin THEN DefaultInterval ELSE d

clampHeartbeat(seconds) ==
  LET d == Duration(seconds)
  IN  IF d < IntervalMin \/ d > IntervalMax THEN DefaultInterval ELSE d

\* Regression: pings as rare as heartbeats.
PingEveryInterval == interval

PingPeriod == interval \div 2

\* Regression: one missed ack is enough.
WatchdogSingle == interval

Watchdog == 3 * interval

\* server.hello has arrived: the first heartbeat goes out at once, both tickers
\* and the watchdog start.
Init ==
  /\ \E offer \in Offers : interval = clampHeartbeat(offer)
  /\ session = "live" /\ why = "none"
  /\ beat = 0 /\ unacked = TRUE
  /\ ping = 0 /\ awaiting = FALSE
  /\ dog = 0 /\ quiet = 0 /\ closing = 0
  /\ network = "up" /\ silence = 0 /\ server = "acks"

\* A session that was left is dialled again.
Reconnect ==
  /\ session = "left"
  /\ \E offer \in Offers : interval' = clampHeartbeat(offer)
  /\ session' = "live" /\ why' = "none"
  /\ beat' = 0 /\ unacked' = TRUE
  /\ ping' = 0 /\ awaiting' = FALSE
  /\ dog' = 0 /\ quiet' = 0 /\ closing' = 0
  /\ network' = "up" /\ silence' = 0 /\ server' = "acks"

-----------------------------------------------------------------------------
(* The goroutines. *)

Heartbeat ==
  /\ session = "live" /\ beat = interval
  /\ beat' = 0
  /\ unacked' = TRUE
  /\ UNCHANGED <<interval, session, why, ping, dog, quiet, closing, silence, awaiting, network, server>>

Ping ==
  /\ session = "live" /\ ping = PingPeriod /\ ~awaiting
  /\ ping' = 0
  /\ awaiting' = TRUE
  /\ UNCHANGED <<interval, session, why, beat, dog, quiet, closing, silence, unacked, network, server>>

Closes(reason) ==
  /\ session' = "closing"
  /\ why' = reason
  /\ closing' = 0
  /\ UNCHANGED <<interval, beat, ping, dog, quiet, silence, unacked, awaiting, network, server>>

\* Regression: a failed ping is logged, and the next one sent.
PingShrugged ==
  /\ session = "live" /\ ping = PingPeriod /\ awaiting
  /\ ping' = 0
  /\ UNCHANGED <<interval, session, why, beat, dog, quiet, closing, silence, unacked, awaiting, network, server>>

\* The pong has not come within a period.
PingFails ==
  /\ session = "live" /\ ping = PingPeriod /\ awaiting
  /\ Closes("ping")

WatchdogFires ==
  /\ session = "live" /\ dog = Watchdog
  /\ Closes("watchdog")

\* Conn.Close returns, and the blocked Read with it.
Leave ==
  /\ session = "closing" /\ (network = "up" \/ closing = CloseWait)
  /\ session' = "left"
  /\ UNCHANGED <<interval, why, clocks, unacked, awaiting, network, server>>

-----------------------------------------------------------------------------
(* What arrives. *)

\* An ack, or any other text or binary frame: readLoop resets the watchdog.
Frame ==
  /\ session = "live" /\ network = "up" /\ server = "acks"
  /\ dog' = 0 /\ quiet' = 0
  /\ unacked' \in {FALSE, unacked}
  /\ UNCHANGED <<interval, session, why, beat, ping, closing, silence, awaiting, network, server>>

\* Regression: a pong resets the watchdog.
PongFeedsWatchdog ==
  /\ session = "live" /\ network = "up" /\ awaiting
  /\ awaiting' = FALSE
  /\ dog' = 0
  /\ UNCHANGED <<interval, session, why, beat, ping, quiet, closing, silence, unacked, network, server>>

\* Read handles a pong without returning: the watchdog goes on.
Pong ==
  /\ session = "live" /\ network = "up" /\ awaiting
  /\ awaiting' = FALSE
  /\ UNCHANGED <<interval, session, why, clocks, unacked, network, server>>

FallsSilent ==
  /\ session = "live" /\ network = "up"
  /\ network' = "silent"
  /\ UNCHANGED <<interval, session, why, clocks, unacked, awaiting, server>>

GetsStuck ==
  /\ session = "live" /\ server = "acks"
  /\ server' = "stuck"
  /\ UNCHANGED <<interval, session, why, clocks, unacked, awaiting, network>>

\* What is due happens before time goes on.
NothingDue ==
  /\ session = "live" => beat < interval /\ ping < PingPeriod /\ dog < Watchdog
  /\ session = "closing" => closing < CloseWait
  /\ session = "live" /\ network = "up" =>
       /\ awaiting => ping < PongDelay
       /\ unacked /\ server = "acks" => beat < AckDelay

Tick ==
  /\ session # "left" /\ NothingDue
  /\ beat' = IF session = "live" THEN beat + 1 ELSE beat
  /\ ping' = IF session = "live" THEN ping + 1 ELSE ping
  /\ dog' = IF session = "live" THEN dog + 1 ELSE dog
  /\ quiet' = quiet + 1
  /\ closing' = IF session = "closing" THEN closing + 1 ELSE closing
  /\ silence' = IF network = "silent" THEN silence + 1 ELSE silence
  /\ UNCHANGED <<interval, session, why, unacked, awaiting, network, server>>

Goroutine == Heartbeat \/ Ping \/ PingFails \/ WatchdogFires \/ Leave

Next == Reconnect \/ Goroutine \/ Frame \/ Pong \/ FallsSilent \/ GetsStuck \/ Tick

Spec == Init /\ [][Next]_vars

-----------------------------------------------------------------------------
(* Properties *)

Flags == unacked \in BOOLEAN /\ awaiting \in BOOLEAN

\* The clocks are clocks, and the interval is in SPEC's window whatever the
\* server sent.
TypeOK ==
  /\ Flags
  /\ interval \in Int /\ IntervalMin <= interval /\ interval <= IntervalMax
  /\ session \in {"live", "closing", "left"}
  /\ why \in {"none", "ping", "watchdog"}
  /\ beat \in Nat /\ ping \in Nat /\ dog \in Nat /\ quiet \in Nat /\ closing \in Nat /\ silence \in Nat
  /\ network \in {"up", "silent"} /\ server \in {"acks", "stuck"}

\* Three timers watch a session, and each closes it only for what it is there
\* for - a session in order is never closed: the pings for a network that fell
\* silent, the watchdog for a server that pongs and says nothing else.  "A hung
\* server (silent NAT timeout, half-open conn) trips this watchdog before the
\* envelope-heartbeat path would" (ws_client.go:520-523).
TimersBlameRightly ==
  session # "live" =>
    \/ why = "ping" /\ network = "silent"
    \/ why = "watchdog" /\ server = "stuck"

\* A peer that is gone is left in time, whatever each timer was doing when it
\* went: a network that fell silent within one interval, a server that only
\* pongs - its pongs are no signs of life - within three, and either session is
\* over a close wait later.
DeadPeersLeft ==
  /\ session = "live" => silence <= interval /\ quiet <= 3 * interval
  /\ session = "closing" => silence <= interval + CloseWait /\ quiet <= 3 * interval + CloseWait
=============================================================================
