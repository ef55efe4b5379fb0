-------------------------- MODULE KeepAliveProofs ---------------------------
(***************************************************************************)
(* What holds of KeepAlive for every interval the server may ask for and   *)
(* every delay that keeps PromptAssumption.                                *)
(***************************************************************************)
EXTENDS KeepAlive, GoDurationProofs

InWindow(i) == i \in Int /\ IntervalMin <= i /\ i <= IntervalMax

\* Whatever number the server sends, and however its product with a second
\* wraps, the heartbeat runs at an interval of SPEC's window (ws_client.go:623).
THEOREM ClampInWindow ==
  ASSUME NEW seconds \in Int
  PROVE  InWindow(clampHeartbeat(seconds))
<1>1. seconds * Second \in Int
  BY DurationAssumption
<1>2. Duration(seconds) \in Durations
  BY <1>1, WrapsInto DEF Duration
<1>3. Duration(seconds) \in Int
  BY <1>2, DurationAssumption DEF Durations
<1> QED
  BY <1>3, KeepAliveAssumption DEF clampHeartbeat, InWindow

\* Two ping periods fit into an interval, and a pong into a ping period.
LEMMA PeriodFits ==
  ASSUME InWindow(interval)
  PROVE  /\ PingPeriod \in Nat
         /\ PingPeriod + PingPeriod <= interval
         /\ PongDelay < PingPeriod
BY KeepAliveAssumption, PromptAssumption, SMT DEF InWindow, PingPeriod

\* The pings: what has been silent is no older than the last answered ping, and
\* one period more while a ping waits.
PingClock ==
  session = "live" =>
    /\ ping <= PingPeriod
    /\ ~awaiting => silence <= ping
    /\ awaiting => silence <= PingPeriod + ping
    /\ network = "up" /\ awaiting => ping <= PongDelay

\* The heartbeats: while acks come, the last frame is no older than the last
\* heartbeat, or the one before it while its ack is on the way.
BeatClock ==
  session = "live" =>
    /\ beat <= interval
    /\ dog = quiet /\ dog <= Watchdog
    /\ server = "acks" => quiet <= interval + AckDelay + silence
    /\ server = "acks" /\ network = "up" =>
         IF unacked THEN beat <= AckDelay /\ quiet <= beat + interval ELSE quiet <= beat

Verdict ==
  /\ network = "up" => silence = 0
  /\ session = "live" <=> why = "none"
  /\ session = "closing" =>
       /\ closing <= CloseWait
       /\ silence <= interval + closing
       /\ quiet <= Watchdog + closing

IInv == TypeOK /\ PingClock /\ BeatClock /\ Verdict /\ TimersBlameRightly

LEMMA WindowIsNat == \A i : InWindow(i) => i \in Nat /\ i \div 2 \in Nat /\ 3 * i \in Nat
BY KeepAliveAssumption, SMT DEF InWindow

LEMMA InvInit == Init => IInv
<1> SUFFICES ASSUME Init PROVE IInv
  OBVIOUS
<1>1. Flags
  BY Zenon DEF Init, Flags
<1>2. InWindow(interval)
  BY ClampInWindow, KeepAliveAssumption DEF Init
<1> QED
  BY <1>1, <1>2, PeriodFits, KeepAliveAssumption, PromptAssumption, SMT
  DEF Init, InWindow, IInv, TypeOK, PingClock, BeatClock, Verdict, TimersBlameRightly, Watchdog

LEMMA FlagsStep == Flags /\ Next => Flags'
<1> SUFFICES ASSUME Flags, Next PROVE Flags'
  OBVIOUS
<1> USE DEF Flags
<1>1. CASE Reconnect \/ Goroutine
  BY <1>1, Zenon DEF Reconnect, Goroutine, Heartbeat, Ping, PingFails, WatchdogFires, Closes, Leave
<1>2. CASE Frame \/ Pong
  BY <1>2, Zenon DEF Frame, Pong
<1>3. CASE FallsSilent \/ GetsStuck \/ Tick
  BY <1>3, Zenon DEF FallsSilent, GetsStuck, Tick
<1> QED
  BY <1>1, <1>2, <1>3 DEF Next

LEMMA FrameAcks == Frame => (unacked' => unacked) /\ (awaiting' <=> awaiting)
<1> SUFFICES ASSUME Frame PROVE (unacked' => unacked) /\ (awaiting' <=> awaiting)
  OBVIOUS
<1>1. unacked' = FALSE \/ unacked' = unacked
  BY Zenon DEF Frame
<1>2. awaiting' = awaiting
  BY Zenon DEF Frame
<1>3. unacked' => unacked
  BY <1>1, Zenon
<1> QED
  BY <1>2, <1>3, Zenon

LEMMA InvStep == IInv /\ Flags' /\ Next => IInv'
<1> SUFFICES ASSUME IInv, Flags', Next PROVE IInv'
  OBVIOUS
<1>w. InWindow(interval)
  BY DEF IInv, TypeOK, InWindow
<1>1. CASE Reconnect
  <2>1. InWindow(interval')
    BY <1>1, ClampInWindow, KeepAliveAssumption DEF Reconnect
  <2>2. PingPeriod' \in Nat
    BY <2>1, WindowIsNat, Zenon DEF PingPeriod
  <2>3. /\ session' = "live" /\ why' = "none" /\ beat' = 0 /\ ping' = 0 /\ dog' = 0 /\ quiet' = 0
        /\ closing' = 0 /\ silence' = 0 /\ network' = "up" /\ server' = "acks"
    BY <1>1 DEF Reconnect
  <2>4. unacked' /\ ~awaiting'
    BY <1>1, Zenon DEF Reconnect
  <2>5. TypeOK'
    BY <2>1, <2>3, SMT DEF TypeOK, InWindow
  <2>0. 0 <= 0 /\ \A n \in Nat : 0 <= n
    OBVIOUS
  <2>6. PingClock'
    <3>1. ping' <= PingPeriod' /\ silence' <= ping'
      BY <2>0, <2>2, <2>3, Zenon
    <3> QED
      BY <3>1, <2>4, Zenon DEF PingClock
  <2>7. Verdict'
    BY <2>3, SMT DEF Verdict
  <2>8. TimersBlameRightly'
    BY <2>3 DEF TimersBlameRightly
  <2>9. Watchdog' \in Nat
    BY <2>1, WindowIsNat, Zenon DEF Watchdog
  <2>10. interval' \in Nat /\ AckDelay \in Nat
    BY <2>1, KeepAliveAssumption, SMT DEF InWindow
  <2>11. BeatClock'
    <3>1. beat' <= interval' /\ dog' = quiet' /\ dog' <= Watchdog' /\ beat' <= AckDelay
      BY <2>0, <2>3, <2>9, <2>10, Zenon
    <3>2. quiet' <= interval' + AckDelay + silence' /\ quiet' <= beat' + interval'
      <4>1. \A i, a \in Nat : 0 <= i + a + 0 /\ 0 <= 0 + i
        OBVIOUS
      <4> QED
        BY <4>1, <2>3, <2>10, Zenon
    <3> QED
      BY <3>1, <3>2, <2>4, Zenon DEF BeatClock
  <2> QED
    BY <2>5, <2>6, <2>7, <2>8, <2>11 DEF IInv
<1> USE <1>w, PeriodFits, KeepAliveAssumption, PromptAssumption
    DEF IInv, TypeOK, PingClock, BeatClock, Verdict, TimersBlameRightly, InWindow, Watchdog, clocks
<1>p. ASSUME interval' = interval PROVE PingPeriod' = PingPeriod
  BY <1>p DEF PingPeriod
<1> USE <1>p
<1>2. CASE Heartbeat
  BY <1>2, SMT DEF Heartbeat
<1>3. CASE Ping
  BY <1>3, SMT DEF Ping
<1>4. CASE PingFails
  BY <1>4, SMT DEF PingFails, Closes
<1>5. CASE WatchdogFires
  BY <1>5, SMT DEF WatchdogFires, Closes
<1>6. CASE Leave
  BY <1>6, SMT DEF Leave
<1>7. CASE Frame
  <2>1. UNCHANGED <<interval, session, why, beat, ping, closing, silence, network, server>>
    BY <1>7 DEF Frame
  <2>2. session = "live" /\ network = "up" /\ dog' = 0 /\ quiet' = 0
    BY <1>7 DEF Frame
  <2>3. (unacked' => unacked) /\ (awaiting' <=> awaiting)
    BY <1>7, FrameAcks
  <2>4. TypeOK' /\ PingClock'
    BY <2>1, <2>2, <2>3, SMT
  <2>5. BeatClock' /\ Verdict'
    BY <2>1, <2>2, <2>3, SMT
  <2> QED
    BY <2>1, <2>4, <2>5, SMT
<1>8. CASE Pong
  BY <1>8, SMT DEF Pong
<1>9. CASE FallsSilent \/ GetsStuck
  BY <1>9, SMT DEF FallsSilent, GetsStuck
<1>10. CASE Tick
  <2>1. UNCHANGED <<interval, session, why, network, server>> /\ quiet' = quiet + 1
    BY <1>10 DEF Tick
  <2>2. (unacked' <=> unacked) /\ (awaiting' <=> awaiting)
    BY <1>10, Zenon DEF Tick
  <2>3. silence' = IF network = "silent" THEN silence + 1 ELSE silence
    BY <1>10 DEF Tick
  <2>4. CASE session = "live"
    <3>1. /\ beat < interval /\ ping < PingPeriod /\ dog < Watchdog
          /\ network = "up" /\ awaiting => ping < PongDelay
          /\ network = "up" /\ unacked /\ server = "acks" => beat < AckDelay
      BY <1>10, <2>4 DEF Tick, NothingDue
    <3>2. beat' = beat + 1 /\ ping' = ping + 1 /\ dog' = dog + 1 /\ closing' = closing
      BY <1>10, <2>4 DEF Tick
    <3> QED
      BY <2>1, <2>2, <2>3, <2>4, <3>1, <3>2, SMT
  <2>5. CASE session = "closing"
    <3>1. closing < CloseWait
      BY <1>10, <2>5 DEF Tick, NothingDue
    <3>2. beat' = beat /\ ping' = ping /\ dog' = dog /\ closing' = closing + 1
      BY <1>10, <2>5 DEF Tick
    <3> QED
      BY <2>1, <2>2, <2>3, <2>5, <3>1, <3>2, SMT
  <2> QED
    BY <1>10, <2>4, <2>5 DEF Tick
<1> QED
  BY <1>1, <1>2, <1>3, <1>4, <1>5, <1>6, <1>7, <1>8, <1>9, <1>10 DEF Next, Goroutine

LEMMA InvNext == IInv /\ [Next]_vars => IInv'
<1> SUFFICES ASSUME IInv, [Next]_vars PROVE IInv'
  OBVIOUS
<1>1. CASE Next
  BY <1>1, FlagsStep, InvStep DEF IInv, TypeOK
<1>2. CASE UNCHANGED vars
  BY <1>2 DEF vars, clocks, IInv, TypeOK, Flags, PingClock, BeatClock, Verdict, TimersBlameRightly, Watchdog, PingPeriod
<1> QED
  BY <1>1, <1>2

\* The strengthened invariant holds throughout.
LEMMA InvHolds == Spec => []IInv
BY InvInit, InvNext, PTL DEF Spec

\* Every variable keeps its type, and the interval stays in its window.
THEOREM TypeCorrect == Spec => []TypeOK
BY InvHolds, PTL DEF IInv

\* No timer closes a session in order, and none for what another watches.
THEOREM TimersAreRight == Spec => []TimersBlameRightly
BY InvHolds, PTL DEF IInv

\* A silent network is noticed within one interval, a server that only answers
\* pings after three.
THEOREM DeadPeersAreLeft == Spec => []DeadPeersLeft
<1>1. IInv => DeadPeersLeft
  <2> SUFFICES ASSUME IInv PROVE DeadPeersLeft
    OBVIOUS
  <2>1. InWindow(interval)
    BY DEF IInv, TypeOK, InWindow
  <2>2. /\ session = "live" => silence <= interval
        /\ session = "closing" => silence <= interval + CloseWait
    BY <2>1, PeriodFits, KeepAliveAssumption, SMT DEF IInv, TypeOK, Flags, PingClock, Verdict, InWindow
  <2>3. /\ session = "live" => quiet <= 3 * interval
        /\ session = "closing" => quiet <= 3 * interval + CloseWait
    BY KeepAliveAssumption, SMT DEF IInv, TypeOK, BeatClock, Verdict, Watchdog
  <2> QED
    BY <2>2, <2>3 DEF DeadPeersLeft
<1> QED
  BY <1>1, InvHolds, PTL
=============================================================================
