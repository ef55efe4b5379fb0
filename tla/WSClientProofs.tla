--------------------------- MODULE WSClientProofs ---------------------------
(***************************************************************************)
(* What holds of WSClient for every vocabulary, inbox bound and jitter.    *)
(***************************************************************************)
EXTENDS WSClient, BackoffProofs

-----------------------------------------------------------------------------
(* The inductive strengthening: what the other parts of the state must be  *)
(* for the safety properties to survive every step.                        *)

\* A connection exists only inside runOnce, and is closed once readLoop left.
ConnPhase ==
  /\ pc \in {"loop", "dial", "classify", "purge", "backoff", "done"} =>
       conn = "none" /\ inbox = <<>>
  /\ pc = "join" => conn = "broken" /\ inbox = <<>>

\* What is in flight was said.
InboxSaid == \A i \in 1 .. Len(inbox) : inbox[i] \in said

\* A fresh attempt has been told nothing.
DialUntold == pc = "dial" => said = {}

\* The error of an attempt is one the server (or the URL) gave grounds for.
Grounds(e) ==
  /\ e = "revoked"   => "4401" \in said
  /\ e = "invalid"   => said \cap {"4403", "401"} # {}
  /\ e = "suspended" => said \cap {"4503", "403"} # {}
  /\ e = "insecure"  => cfg.url = "plaintext" /\ said = {}
  /\ e = "goingAway" => "1001" \in said
  /\ e = "shutdown" => "server.shutdown" \in said /\ held # "never"
  /\ e = "rateLimited" => said \cap {"4429", "429"} # {}

ErrGrounded ==
  pc \in {"join", "classify", "purge", "backoff"} => Grounds(err)

PurgeOnRejection == pc = "purge" => err \in Rejections

\* Nothing is returned, and the token is not touched, before the end.
OutcomeAtEnd ==
  /\ pc # "done" => tokenFile = "present"
  /\ pc = "done" => /\ result = "nil" => cancelled
                    /\ result # "nil" => result \in Rejections \cup Refusals /\ Grounds(result)
                    /\ tokenFile = "absent" => cfg.wired /\ result \in Rejections

\* The hook has not run yet in an attempt that can still run it, and once it
\* has, the context is done.
HookPhase ==
  cfg.hookCancels => /\ hellos <= 1
                     /\ hellos = 1 => cancelled
                     /\ pc \in {"dial", "greet", "await"} => hellos = 0

\* A callback of the watchdog that is not stale has its session still there.
DogPhase == dog = "begun" => pc \in {"read", "join"}

\* The read loop runs where server.hello has set connectedAt.
ReadHeld == pc = "read" => held # "never"

WaitGrounded ==
  pc = "backoff" /\ wait.why = "fast" => \/ "1001" \in said
                                         \/ "server.shutdown" \in said /\ held # "never"

-----------------------------------------------------------------------------
(* Type correctness. *)

\* A quarter of jitter keeps every base delay within LongestDelay.
LEMMA JitterBound ==
  ASSUME NEW b \in Int, 1 <= b, b <= 120,
         NEW j \in Int, -250 <= j, j <= 250
  PROVE  /\ Jittered(b, j) \in Int
         /\ 0 <= Jittered(b, j)
         /\ Jittered(b, j) <= 150000
<1> DEFINE k == 1000 + j
           d == Jittered(b, j)
<1>1. k \in Int /\ 750 <= k /\ k <= 1250
  OBVIOUS
<1>2. d = b * k
  BY DEF Jittered
<1> HIDE DEF k, d
<1>3. b * k \in Int /\ b * k >= 0
  BY <1>1
<1>4. (120 - b) * k >= 0
  BY <1>1
<1>5. b * k <= 120 * k
  <2>1. (120 - b) * k = 120 * k - b * k
    BY <1>1
  <2> QED
    BY <1>1, <1>3, <1>4, <2>1
<1>6. 120 * k <= 150000
  BY <1>1
<1>7. d \in Int /\ 0 <= d /\ d <= 150000
  BY <1>1, <1>2, <1>3, <1>5, <1>6
<1> QED
  BY <1>7 DEF d

\* Every delay Run can choose is a legal wait.
LEMMA WaitsTyped ==
  ASSUME NEW kind \in {"fast", "flap", "limited"}, NEW n \in Nat,
         NEW w \in Waits(kind, n)
  PROVE  w \in WaitRecords /\ w.ms <= LongestDelay
<1>1. CASE kind = "fast"
  <2>1. w = [why |-> "fast", ms |-> 50]
    BY <1>1, Zenon DEF Waits, FastReconnect
  <2> QED
    BY <2>1 DEF WaitRecords, LongestDelay
<1>2. CASE kind # "fast"
  <2>1. PICK j \in JitterPoints :
          w = [why |-> kind, ms |-> Jittered(BaseDelay(n, kind = "limited"), j)]
    BY <1>2, Zenon DEF Waits
  <2> DEFINE b == BaseDelay(n, kind = "limited")
  <2>2. b \in 1 .. 120
    <3> DEFINE limited == kind = "limited"
    <3>1. limited \in BOOLEAN
      OBVIOUS
    <3> HIDE DEF limited
    <3>2. BaseDelay(n, limited) \in 1 .. 120
      BY <3>1, DelayBounds
    <3> QED
      BY <3>2 DEF limited
  <2>3. w = [why |-> kind, ms |-> Jittered(b, j)]
    BY <2>1
  <2> HIDE DEF b
  <2>4. j \in Int /\ -250 <= j /\ j <= 250
    BY JitterAssumption DEF JitterPerMille
  <2> DEFINE d == Jittered(b, j)
  <2>5. d \in Int /\ 0 <= d /\ d <= 150000
    <3>1. b \in Int /\ 1 <= b /\ b <= 120
      BY <2>2
    <3> QED
      BY <3>1, <2>4, JitterBound
  <2>6. w = [why |-> kind, ms |-> d]
    BY <2>3
  <2> HIDE DEF d
  <2>7. d \in Nat /\ d <= LongestDelay
    BY <2>5 DEF LongestDelay
  <2>8. w.ms = d
    BY <2>6
  <2> QED
    BY <2>6, <2>7, <2>8 DEF WaitRecords
<1> QED
  BY <1>1, <1>2

TypeInv == TypeOK /\ PurgeOnRejection

LEMMA TypeStep == TypeInv /\ [Next]_vars => TypeInv'
<1> SUFFICES ASSUME TypeInv, [Next]_vars
             PROVE  TypeInv'
  OBVIOUS
<1> USE DEF TypeInv, TypeOK, PurgeOnRejection, loopVars, sessionVars, workers, outcome
<1>1. CASE StopAtLoopHead
  BY <1>1 DEF StopAtLoopHead, Returns
<1>2. CASE StartAttempt
  BY <1>2 DEF StartAttempt, BeginAttempt, Goes
<1>3. CASE RefuseURL
  BY <1>3 DEF RefuseURL, HandshakeEnds, schemeError, Errors, Refusals, Rejections
<1>4. ASSUME NEW status \in Statuses, DialRefused(status) PROVE TypeInv'
  BY <1>4 DEF DialRefused, HandshakeEnds, classifyHandshakeError, Statuses, Sayings, Errors, Refusals, Rejections
<1>5. CASE HandshakeFails
  BY <1>5 DEF HandshakeFails, HandshakeEnds, InterruptErrors, Errors
<1>6. CASE DialSucceeds
  BY <1>6 DEF DialSucceeds, Goes
<1>7. CASE WriteClientHello
  BY <1>7 DEF WriteClientHello, Goes
<1>8. CASE ReadOtherFirst
  BY <1>8 DEF ReadOtherFirst, HandshakeEnds, Errors
<1>9. CASE ReadCloseFirst
  BY <1>9 DEF ReadCloseFirst, HandshakeEnds, translateCloseErr, Errors, Refusals, Rejections
<1>10. CASE ReadServerHello
  BY <1>10 DEF ReadServerHello, HelloBound, Configs
<1>11. CASE ReadIgnored
  BY <1>11 DEF ReadIgnored
<1>12. CASE ReadShutdown
  BY <1>12 DEF ReadShutdown, SendsClose, LeaveReadLoop, Goes, Errors
<1>13. CASE ReadClose
  BY <1>13 DEF ReadClose, LeaveReadLoop, Goes, translateCloseErr, Errors, Refusals, Rejections
<1>14. CASE ReadFails
  BY <1>14 DEF ReadFails, LeaveReadLoop, Goes, InterruptErrors, Errors
<1>15. CASE Join
  BY <1>15 DEF Join, RunOnceReturns, Goes
<1>16. CASE ScheduleReconnect
  <2>1. attemptAfterReset \in 0 .. LastStep /\ LastStep = 5
    BY TableValues DEF attemptAfterReset
  <2>2. attempt' \in 0 .. LastStep
    BY <1>16, <2>1 DEF ScheduleReconnect, BackOff, Saturate
  <2>3. delayKind(err) \in {"fast", "flap", "limited"}
    BY DEF delayKind
  <2>4. wait' \in WaitRecords /\ wait'.ms <= LongestDelay
    BY <1>16, <2>1, <2>3, WaitsTyped DEF ScheduleReconnect, BackOff
  <2> QED
    BY <1>16, <2>2, <2>4 DEF ScheduleReconnect, BackOff, Goes
<1>17. CASE ReturnRefusal
  BY <1>17 DEF ReturnRefusal, Returns
<1>18. CASE DecidePurge
  BY <1>18 DEF DecidePurge, EnterPurge, Goes
<1>19. CASE PurgeToken
  BY <1>19 DEF PurgeToken, Returns
<1>20. CASE BackoffEnds
  BY <1>20 DEF BackoffEnds, Goes
<1>21. CASE StopInBackoff
  BY <1>21 DEF StopInBackoff, Returns
<1>22. CASE HeartbeatExits
  BY <1>22 DEF HeartbeatExits, workerFrame
<1>23. CASE PingStops
  BY <1>23 DEF PingStops, workerFrame
<1>24. CASE PingFails
  BY <1>24 DEF PingFails, workerFrame, SendsClose
<1>25. CASE PingCloseReturns
  BY <1>25 DEF PingCloseReturns, workerFrame
<1>26. CASE WatchdogFires \/ WatchdogCloses
  BY <1>26 DEF WatchdogFires, WatchdogCloses, workerFrame, SendsClose
<1>27. CASE CloseHandshakeEnds
  BY <1>27 DEF CloseHandshakeEnds, workerFrame
<1>28. CASE Cancel
  BY <1>28 DEF Cancel
<1>29. ASSUME NEW m \in Vocabulary, ServerSays(m) PROVE TypeInv'
  BY <1>29, VocabularyAssumption DEF ServerSays, Sayings
<1>30. CASE NetworkBreaks
  BY <1>30 DEF NetworkBreaks
<1>31. CASE StableWindowElapses
  BY <1>31 DEF StableWindowElapses
<1>32. CASE UNCHANGED vars
  BY <1>32 DEF vars
<1> QED
  BY <1>1, <1>2, <1>3, <1>4, <1>5, <1>6, <1>7, <1>8, <1>9, <1>10, <1>11, <1>12, <1>13, <1>14, <1>15, <1>16, <1>17, <1>18, <1>19, <1>20, <1>21, <1>22, <1>23, <1>24, <1>25, <1>26, <1>27, <1>28, <1>29, <1>30, <1>31, <1>32
     DEF Next, RunStep, WorkerStep, EnvStep, Returned

LEMMA TypeInit == Init => TypeInv
<1> SUFFICES ASSUME Init
             PROVE  TypeInv
  OBVIOUS
<1>1. attempt \in 0 .. LastStep
  BY TableValues DEF Init
<1>2. wait \in WaitRecords /\ wait.ms <= LongestDelay
  BY DEF Init, WaitRecords, LongestDelay
<1>3. inbox \in Seq(Frames \cup CloseCodes) /\ said \subseteq Sayings
  BY DEF Init
<1>4. hellos \in 0 .. HelloBound
  BY DEF Init, HelloBound
<1>5. err \in Errors /\ cancelled \in BOOLEAN
  BY DEF Init, Errors
<1> QED
  BY <1>1, <1>2, <1>3, <1>4, <1>5 DEF Init, TypeInv, TypeOK, PurgeOnRejection

\* Every reachable state is well typed: in particular the attempt counter never
\* leaves the backoff table and no wait exceeds LongestDelay, whatever jitter is
\* drawn and whatever the server says.
THEOREM TypeCorrect == Spec => []TypeOK
<1>1. Spec => []TypeInv
  BY TypeInit, TypeStep, PTL DEF Spec
<1>2. TypeInv => TypeOK
  BY DEF TypeInv
<1> QED
  BY <1>1, <1>2, PTL

-----------------------------------------------------------------------------
(* Safety. *)

\* The parts of the inductive invariant beyond the types.
Parts ==
  /\ JoinBeforeRedial
  /\ NoRedialAfterVerdict
  /\ ConnPhase
  /\ InboxSaid
  /\ DialUntold
  /\ ErrGrounded
  /\ OutcomeAtEnd
  /\ HookPhase
  /\ DogPhase
  /\ ReadHeld
  /\ WaitGrounded

LEMMA PartsStep == TypeInv /\ Parts /\ [Next]_vars => Parts'
<1> SUFFICES ASSUME TypeInv, Parts, [Next]_vars
             PROVE  Parts'
  OBVIOUS
<1> USE DEF TypeInv, TypeOK, PurgeOnRejection, Parts, JoinBeforeRedial, NoRedialAfterVerdict,
            ConnPhase, InboxSaid, DialUntold, ErrGrounded, Grounds, OutcomeAtEnd, HookPhase,
            DogPhase, ReadHeld, WaitGrounded, loopVars, sessionVars, workers, outcome, Rejections, Refusals
<1>1. CASE StopAtLoopHead
  BY <1>1 DEF StopAtLoopHead, Returns
<1>2. CASE StartAttempt
  BY <1>2 DEF StartAttempt, BeginAttempt, Goes, HelloBound
<1>3. CASE RefuseURL
  BY <1>3 DEF RefuseURL, HandshakeEnds, schemeError
<1>4. ASSUME NEW status \in Statuses, DialRefused(status) PROVE Parts'
  BY <1>4 DEF DialRefused, HandshakeEnds, classifyHandshakeError, Statuses
<1>5. CASE HandshakeFails
  BY <1>5 DEF HandshakeFails, HandshakeEnds, InterruptErrors
<1>6. CASE DialSucceeds
  BY <1>6 DEF DialSucceeds, Goes
<1>7. CASE WriteClientHello
  BY <1>7 DEF WriteClientHello, Goes
<1>8. CASE ReadOtherFirst
  BY <1>8 DEF ReadOtherFirst, HandshakeEnds
<1>9. CASE ReadCloseFirst
  BY <1>9 DEF ReadCloseFirst, HandshakeEnds, translateCloseErr
<1>10. CASE ReadServerHello
  BY <1>10 DEF ReadServerHello, HelloBound, Configs
<1>11. CASE ReadIgnored
  BY <1>11 DEF ReadIgnored
<1>12. CASE ReadShutdown
  BY <1>12 DEF ReadShutdown, SendsClose, LeaveReadLoop, Goes
<1>13. CASE ReadClose
  BY <1>13 DEF ReadClose, LeaveReadLoop, Goes, translateCloseErr
<1>14. CASE ReadFails
  BY <1>14 DEF ReadFails, LeaveReadLoop, Goes, InterruptErrors
<1>15. CASE Join
  BY <1>15 DEF Join, RunOnceReturns, Goes
<1>16. CASE ScheduleReconnect
  <2>1. wait'.why = delayKind(err)
    BY <1>16 DEF ScheduleReconnect, BackOff, Waits
  <2>2. wait'.why = "fast" => err \in {"shutdown", "goingAway"}
    BY <2>1 DEF delayKind
  <2>3. WaitGrounded'
    <3>1. pc = "classify" /\ UNCHANGED <<said, held>>
      BY <1>16 DEF ScheduleReconnect, BackOff
    <3>2. Grounds(err)
      BY <3>1
    <3> QED
      BY <2>2, <3>1, <3>2
  <2>4. ErrGrounded' /\ NoRedialAfterVerdict' /\ JoinBeforeRedial' /\ ConnPhase'
    BY <1>16 DEF ScheduleReconnect, BackOff, Goes
  <2>5. InboxSaid' /\ DialUntold' /\ OutcomeAtEnd' /\ HookPhase' /\ DogPhase' /\ ReadHeld'
    BY <1>16 DEF ScheduleReconnect, BackOff, Goes
  <2> QED
    BY <2>3, <2>4, <2>5
<1>17. CASE ReturnRefusal
  BY <1>17 DEF ReturnRefusal, Returns
<1>18. CASE DecidePurge
  BY <1>18 DEF DecidePurge, EnterPurge, Goes
<1>19. CASE PurgeToken
  BY <1>19 DEF PurgeToken, Returns
<1>20. CASE BackoffEnds
  BY <1>20 DEF BackoffEnds, Goes
<1>21. CASE StopInBackoff
  BY <1>21 DEF StopInBackoff, Returns
<1>22. CASE HeartbeatExits
  BY <1>22 DEF HeartbeatExits, workerFrame, LoopCtxDone
<1>23. CASE PingStops
  BY <1>23 DEF PingStops, workerFrame
<1>24. CASE PingFails
  BY <1>24 DEF PingFails, workerFrame, SendsClose
<1>25. CASE PingCloseReturns
  BY <1>25 DEF PingCloseReturns, workerFrame
<1>26. CASE WatchdogFires \/ WatchdogCloses
  BY <1>26 DEF WatchdogFires, WatchdogCloses, workerFrame, SendsClose
<1>27. CASE CloseHandshakeEnds
  BY <1>27 DEF CloseHandshakeEnds, workerFrame
<1>28. CASE Cancel
  BY <1>28 DEF Cancel
<1>29. ASSUME NEW m \in Vocabulary, ServerSays(m) PROVE Parts'
  BY <1>29 DEF ServerSays
<1>30. CASE NetworkBreaks
  BY <1>30 DEF NetworkBreaks
<1>31. CASE StableWindowElapses
  BY <1>31 DEF StableWindowElapses
<1>32. CASE UNCHANGED vars
  BY <1>32 DEF vars
<1> QED
  BY <1>1, <1>2, <1>3, <1>4, <1>5, <1>6, <1>7, <1>8, <1>9, <1>10, <1>11, <1>12, <1>13, <1>14, <1>15, <1>16, <1>17, <1>18, <1>19, <1>20, <1>21, <1>22, <1>23, <1>24, <1>25, <1>26, <1>27, <1>28, <1>29, <1>30, <1>31, <1>32
     DEF Next, RunStep, WorkerStep, EnvStep, Returned

LEMMA PartsInit == Init => Parts
BY DEF Init, Parts, JoinBeforeRedial, NoRedialAfterVerdict, ConnPhase, InboxSaid, DialUntold,
       ErrGrounded, OutcomeAtEnd, HookPhase, DogPhase, ReadHeld, WaitGrounded, Rejections, Refusals

LEMMA PartsInvariant == Spec => [](TypeInv /\ Parts)
<1>1. Init => TypeInv /\ Parts
  BY TypeInit, PartsInit
<1>2. TypeInv /\ Parts /\ [Next]_vars => (TypeInv /\ Parts)'
  BY TypeStep, PartsStep
<1> QED
  BY <1>1, <1>2, PTL DEF Spec

\* No goroutine of a session survives into the next attempt, but for the callback of
\* its watchdog, and that one does not touch the next connection.
THEOREM SessionsNeverOverlap == Spec => []JoinBeforeRedial
<1>1. TypeInv /\ Parts => JoinBeforeRedial
  BY DEF Parts
<1> QED
  BY <1>1, PartsInvariant, PTL

\* The token file disappears only after the server rejected the token on the
\* attempt that ended Run.
THEOREM PurgeOnlyOnRejection == Spec => []PurgeJustified
<1>1. TypeInv /\ Parts => PurgeJustified
  BY DEF TypeInv, TypeOK, Parts, OutcomeAtEnd, Grounds, PurgeJustified, Rejections
<1> QED
  BY <1>1, PartsInvariant, PTL

\* What Run returns is what the server (or the URL, or the caller) caused, and a
\* final verdict is never followed by another dial.
THEOREM ReturnsAreHonest == Spec => []ReturnJustified
<1>1. TypeInv /\ Parts => ReturnJustified
  BY DEF Parts, OutcomeAtEnd, Grounds, ReturnJustified, Rejections, Refusals
<1> QED
  BY <1>1, PartsInvariant, PTL

\* A cancelling OnServerHello runs at most once in the whole life of Run.
THEOREM HookRunsOnce == Spec => []HelloHookOnce
<1>1. TypeInv /\ Parts => HelloHookOnce
  BY DEF TypeInv, TypeOK, Parts, HookPhase, HelloHookOnce, HelloBound
<1> QED
  BY <1>1, PartsInvariant, PTL

\* The fast reconnect is reserved for announced departures.
THEOREM FastReconnectEarned == Spec => []FastOnlyAnnounced
<1>1. TypeInv /\ Parts => FastOnlyAnnounced
  BY DEF Parts, WaitGrounded, FastOnlyAnnounced
<1> QED
  BY <1>1, PartsInvariant, PTL

-----------------------------------------------------------------------------
(* WSClient implements ClientContract. *)

LEMMA ContractStep ==
  TypeInv /\ [Next]_vars => [Contract!Next]_(Contract!contractVars)
<1> SUFFICES ASSUME TypeInv, [Next]_vars
             PROVE  Contract!Next \/ UNCHANGED Contract!contractVars
  OBVIOUS
<1> USE DEF phase, loopVars, sessionVars, workers, outcome, Contract!contractVars
<1>1. ASSUME StopAtLoopHead PROVE Contract!EndStopped
  BY <1>1 DEF StopAtLoopHead, Returns, Contract!EndStopped, Contract!Ends
<1>2. ASSUME StartAttempt PROVE Contract!Try
  BY <1>2 DEF StartAttempt, BeginAttempt, Goes, Contract!Try
<1>3. ASSUME RefuseURL PROVE Contract!GiveUp
  BY <1>3 DEF RefuseURL, HandshakeEnds, Contract!GiveUp
<1>4. ASSUME NEW status \in Statuses, DialRefused(status) PROVE Contract!GiveUp
  BY <1>4 DEF DialRefused, HandshakeEnds, Contract!GiveUp
<1>5. ASSUME HandshakeFails PROVE Contract!GiveUp
  BY <1>5 DEF HandshakeFails, HandshakeEnds, Contract!GiveUp
<1>6. ASSUME DialSucceeds PROVE UNCHANGED Contract!contractVars
  BY <1>6 DEF DialSucceeds, Goes
<1>7. ASSUME WriteClientHello PROVE UNCHANGED Contract!contractVars
  BY <1>7 DEF WriteClientHello, Goes
<1>8. ASSUME ReadOtherFirst PROVE Contract!GiveUp
  BY <1>8 DEF ReadOtherFirst, HandshakeEnds, Contract!GiveUp
<1>9. ASSUME ReadCloseFirst PROVE Contract!GiveUp
  BY <1>9 DEF ReadCloseFirst, HandshakeEnds, Contract!GiveUp
<1>10. ASSUME ReadServerHello PROVE Contract!GoLive
  BY <1>10 DEF ReadServerHello, Contract!GoLive
<1>11. ASSUME ReadIgnored PROVE UNCHANGED Contract!contractVars
  BY <1>11 DEF ReadIgnored
<1>12. ASSUME ReadShutdown PROVE UNCHANGED Contract!contractVars
  BY <1>12 DEF ReadShutdown, LeaveReadLoop, Goes
<1>13. ASSUME ReadClose PROVE UNCHANGED Contract!contractVars
  BY <1>13 DEF ReadClose, LeaveReadLoop, Goes
<1>14. ASSUME ReadFails PROVE UNCHANGED Contract!contractVars
  BY <1>14 DEF ReadFails, LeaveReadLoop, Goes
<1>15. ASSUME Join PROVE Contract!GiveUp
  BY <1>15 DEF Join, RunOnceReturns, Goes, Contract!GiveUp
<1>16. ASSUME ScheduleReconnect PROVE UNCHANGED Contract!contractVars
  BY <1>16 DEF ScheduleReconnect, BackOff, Goes
<1>17. ASSUME ReturnRefusal PROVE Contract!EndRefused
  BY <1>17 DEF ReturnRefusal, Returns, Contract!EndRefused, Contract!Ends
<1>18. ASSUME DecidePurge PROVE UNCHANGED Contract!contractVars
  BY <1>18 DEF DecidePurge, EnterPurge, Goes
<1>19. ASSUME PurgeToken PROVE Contract!EndRejected
  BY <1>19 DEF PurgeToken, Returns, Contract!EndRejected, Contract!Ends, TypeInv, PurgeOnRejection
<1>20. ASSUME BackoffEnds PROVE UNCHANGED Contract!contractVars
  BY <1>20 DEF BackoffEnds, Goes
<1>21. ASSUME StopInBackoff PROVE Contract!EndStopped
  BY <1>21 DEF StopInBackoff, Returns, Contract!EndStopped, Contract!Ends
<1>22. ASSUME WorkerStep PROVE UNCHANGED Contract!contractVars
  BY <1>22 DEF WorkerStep, HeartbeatExits, PingStops, PingFails, PingCloseReturns, WatchdogFires, WatchdogCloses, CloseHandshakeEnds,
         workerFrame
<1>23. ASSUME Cancel PROVE Contract!Stop
  BY <1>23 DEF Cancel, Contract!Stop, TypeInv, TypeOK
<1>24. ASSUME NEW m \in Vocabulary, ServerSays(m) PROVE UNCHANGED Contract!contractVars
  BY <1>24 DEF ServerSays
<1>25. ASSUME NetworkBreaks PROVE UNCHANGED Contract!contractVars
  BY <1>25 DEF NetworkBreaks
<1>26. ASSUME StableWindowElapses PROVE UNCHANGED Contract!contractVars
  BY <1>26 DEF StableWindowElapses
<1>27. ASSUME UNCHANGED vars PROVE UNCHANGED Contract!contractVars
  BY <1>27 DEF vars
<1> QED
  BY <1>1, <1>2, <1>3, <1>4, <1>5, <1>6, <1>7, <1>8, <1>9, <1>10, <1>11, <1>12, <1>13, <1>14, <1>15, <1>16, <1>17, <1>18, <1>19, <1>20, <1>21, <1>22, <1>23, <1>24, <1>25, <1>26, <1>27
     DEF Next, RunStep, EnvStep, Returned, Contract!Next

\* Everything Run does is an allowed step of its contract with the daemon and
\* the one-shot commands, or none of their business.
THEOREM RunKeepsContract == Spec => KeepsContract
<1>1. Init => Contract!Init
  BY DEF Init, Contract!Init, phase, Configs
<1>2. Spec => [](TypeInv /\ Parts)
  BY PartsInvariant
<1> QED
  BY <1>1, <1>2, ContractStep, PTL DEF Spec, KeepsContract, Contract!Spec

-----------------------------------------------------------------------------
(* The ladder of delays. *)

\* A delay of the table lies in its window.
LEMMA WaitInWindow ==
  ASSUME NEW kind \in {"flap", "limited"}, NEW n \in Nat, NEW w \in Waits(kind, n)
  PROVE  /\ w.why = kind /\ w.ms \in Int
         /\ MinDelay(n, kind = "limited") <= w.ms /\ w.ms <= MaxDelay(n, kind = "limited")
<1> DEFINE b == BaseDelay(n, kind = "limited")
           lo == MinDelay(n, kind = "limited")
           hi == MaxDelay(n, kind = "limited")
<1>1. PICK j \in JitterPoints : w = [why |-> kind, ms |-> Jittered(b, j)]
  BY Zenon DEF Waits
<1>2. b \in 1 .. 120
  <2> DEFINE limited == kind = "limited"
  <2>1. limited \in BOOLEAN
    OBVIOUS
  <2> HIDE DEF limited
  <2>2. BaseDelay(n, limited) \in 1 .. 120
    BY <2>1, DelayBounds
  <2> QED
    BY <2>2 DEF limited
<1>3. lo = (1000 - JitterPerMille) * b
  BY DEF MinDelay
<1>4. hi = (1000 + JitterPerMille) * b
  BY DEF MaxDelay
<1>5. j \in Int /\ -250 <= j /\ j <= 250
  BY JitterAssumption DEF JitterPerMille
<1> DEFINE d == Jittered(b, j)
<1>6. d = b * (1000 + j)
  BY DEF Jittered
<1>7. w.why = kind /\ w.ms = d
  BY <1>1
<1> HIDE DEF b, lo, hi, d
<1>8. lo = 750 * b /\ hi = 1250 * b
  BY <1>3, <1>4 DEF JitterPerMille
<1>9. b * (1000 + j) = 750 * b + b * (250 + j) /\ b * (1000 + j) = 1250 * b - b * (250 - j)
  BY <1>2, <1>5
<1>10. b * (250 + j) >= 0 /\ b * (250 - j) >= 0 /\ b * (250 + j) \in Int /\ b * (250 - j) \in Int
  BY <1>2, <1>5
<1>11. d \in Int /\ lo <= d /\ d <= hi
  BY <1>2, <1>6, <1>8, <1>9, <1>10
<1> QED
  BY <1>7, <1>11 DEF lo, hi

\* Only ScheduleReconnect moves the counter and the delay.
LEMMA LadderStep ==
  [Next]_vars => \/ ScheduleReconnect
                 \/ UNCHANGED <<attempt, wait>> /\ ~(pc = "classify" /\ pc' = "backoff")
<1> SUFFICES ASSUME [Next]_vars, ~ScheduleReconnect
             PROVE  UNCHANGED <<attempt, wait>> /\ ~(pc = "classify" /\ pc' = "backoff")
  OBVIOUS
<1> USE DEF loopVars, Goes, Returns
<1>1. CASE UNCHANGED vars
  BY <1>1 DEF vars
<1>2. CASE WorkerStep
  BY <1>2 DEF WorkerStep, HeartbeatExits, PingStops, PingFails, PingCloseReturns, WatchdogFires, WatchdogCloses,
              CloseHandshakeEnds, workerFrame
<1>3. CASE EnvStep
  BY <1>3 DEF EnvStep, Cancel, ServerSays, NetworkBreaks, StableWindowElapses
<1>4. CASE StopAtLoopHead \/ StartAttempt \/ DialSucceeds \/ WriteClientHello \/ ReadServerHello
  BY <1>4 DEF StopAtLoopHead, StartAttempt, BeginAttempt, DialSucceeds, WriteClientHello, ReadServerHello
<1>5. CASE RefuseURL \/ (\E status \in Statuses : DialRefused(status)) \/ HandshakeFails \/ ReadOtherFirst \/ ReadCloseFirst
  BY <1>5 DEF RefuseURL, DialRefused, HandshakeFails, ReadOtherFirst, ReadCloseFirst, HandshakeEnds
<1>6. CASE ReadIgnored \/ ReadShutdown \/ ReadClose \/ ReadFails \/ Join
  BY <1>6 DEF ReadIgnored, ReadShutdown, ReadClose, ReadFails, Join, RunOnceReturns, LeaveReadLoop
<1>7. CASE ReturnRefusal \/ DecidePurge \/ PurgeToken \/ BackoffEnds \/ StopInBackoff
  BY <1>7 DEF ReturnRefusal, DecidePurge, EnterPurge, PurgeToken, BackoffEnds, StopInBackoff
<1>8. CASE Returned
  BY <1>8 DEF Returned, vars
<1> QED
  BY <1>1, <1>2, <1>3, <1>4, <1>5, <1>6, <1>7, <1>8 DEF Next, RunStep

\* The last delay was drawn one step below the counter, or both are at the end
\* of the table.
WaitPlaced ==
  wait.why = "flap" =>
    \E k \in Nat :
      /\ (k < LastStep /\ attempt = k + 1) \/ (k = LastStep /\ attempt = k)
      /\ MinDelay(k, FALSE) <= wait.ms /\ wait.ms <= MaxDelay(k, FALSE)

LEMMA ScheduleWaits ==
  ASSUME TypeInv, ScheduleReconnect
  PROVE  /\ attemptAfterReset \in 0 .. LastStep
         /\ attempt' = Saturate(attemptAfterReset + 1)
         /\ wait'.why = delayKind(err)
         /\ wait' \in Waits(wait'.why, attemptAfterReset)
         /\ wait'.why \in {"fast", "flap", "limited"}
<1>1. attemptAfterReset \in 0 .. LastStep
  BY TableValues DEF TypeInv, TypeOK, attemptAfterReset
<1>2. attempt' = Saturate(attemptAfterReset + 1) /\ wait' \in Waits(delayKind(err), attemptAfterReset)
  BY DEF ScheduleReconnect, BackOff
<1>3. delayKind(err) \in {"fast", "flap", "limited"}
  BY DEF delayKind
<1>4. wait'.why = delayKind(err)
  <2>1. CASE delayKind(err) = "fast"
    <3>1. wait' = [why |-> "fast", ms |-> FastReconnect]
      BY <1>2, <2>1, Zenon DEF Waits
    <3> QED
      BY <2>1, <3>1
  <2>2. CASE delayKind(err) # "fast"
    BY <1>1, <1>2, <1>3, <2>2, WaitInWindow, TableValues
  <2> QED
    BY <2>1, <2>2
<1> QED
  BY <1>1, <1>2, <1>3, <1>4

LEMMA WaitPlacedStep == TypeInv /\ WaitPlaced /\ [Next]_vars => WaitPlaced'
<1> SUFFICES ASSUME TypeInv, WaitPlaced, [Next]_vars PROVE WaitPlaced'
  OBVIOUS
<1>1. CASE ScheduleReconnect
  <2> SUFFICES ASSUME wait'.why = "flap"
               PROVE  \E k \in Nat :
                        /\ (k < LastStep /\ attempt' = k + 1) \/ (k = LastStep /\ attempt' = k)
                        /\ MinDelay(k, FALSE) <= wait'.ms /\ wait'.ms <= MaxDelay(k, FALSE)
    BY DEF WaitPlaced
  <2> DEFINE k == attemptAfterReset
  <2>1. k \in 0 .. LastStep /\ attempt' = Saturate(k + 1) /\ wait' \in Waits("flap", k)
    BY <1>1, ScheduleWaits
  <2> HIDE DEF k
  <2>2. k \in Nat /\ LastStep = 5 /\ k <= LastStep
    BY <2>1, TableValues
  <2>3. MinDelay(k, FALSE) <= wait'.ms /\ wait'.ms <= MaxDelay(k, FALSE)
    <3>1. ("flap" = "limited") = FALSE
      OBVIOUS
    <3> QED
      BY <2>1, <2>2, <3>1, WaitInWindow
  <2>4. (k < LastStep /\ attempt' = k + 1) \/ (k = LastStep /\ attempt' = k)
    BY <2>1, <2>2 DEF Saturate
  <2> QED
    BY <2>2, <2>3, <2>4
<1>2. CASE UNCHANGED <<attempt, wait>>
  BY <1>2 DEF WaitPlaced
<1> QED
  BY <1>1, <1>2, LadderStep

LEMMA WaitPlacedHolds == Spec => [](TypeInv /\ WaitPlaced)
<1>1. Init => TypeInv /\ WaitPlaced
  BY TypeInit DEF Init, WaitPlaced
<1>2. TypeInv /\ WaitPlaced /\ [Next]_vars => (TypeInv /\ WaitPlaced)'
  BY TypeStep, WaitPlacedStep
<1> QED
  BY <1>1, <1>2, PTL DEF Spec

\* A window of the table is not empty.
LEMMA WindowOrder ==
  ASSUME NEW n \in Nat
  PROVE  /\ MinDelay(n, FALSE) \in Int /\ MaxDelay(n, FALSE) \in Int /\ MinDelay(n, TRUE) \in Int
         /\ MinDelay(n, FALSE) <= MaxDelay(n, FALSE)
<1>1. BaseDelay(n, FALSE) \in 1 .. 120 /\ BaseDelay(n, TRUE) \in 1 .. 120
  BY DelayBounds
<1> DEFINE b == BaseDelay(n, FALSE)
           c == BaseDelay(n, TRUE)
           lo == MinDelay(n, FALSE)
           hi == MaxDelay(n, FALSE)
           limited == MinDelay(n, TRUE)
<1>2. lo = (1000 - JitterPerMille) * b
  BY DEF MinDelay
<1>3. hi = (1000 + JitterPerMille) * b
  BY DEF MaxDelay
<1>4. limited = (1000 - JitterPerMille) * c
  BY DEF MinDelay
<1>5. b \in 1 .. 120 /\ c \in 1 .. 120
  BY <1>1
<1> HIDE DEF b, c, lo, hi, limited
<1>6. 1000 + JitterPerMille = 1250 /\ 1000 - JitterPerMille = 750
  BY DEF JitterPerMille
<1>7. lo \in Int /\ hi \in Int /\ limited \in Int /\ lo <= hi
  BY <1>2, <1>3, <1>4, <1>5, <1>6
<1> QED
  BY <1>7 DEF lo, hi, limited

\* Losses of unstable sessions wait longer each time, up to the cap.
THEOREM DelaysClimb == Spec => LadderClimbs
<1> DEFINE Climbs ==
      (pc = "classify" /\ pc' = "backoff" /\ wait.why = "flap" /\ wait'.why \in {"flap", "limited"} /\ held # "stable")
      => \/ wait'.ms > wait.ms
         \/ wait.ms >= MinDelay(LastStep, FALSE) /\ wait'.ms >= MinDelay(LastStep, FALSE)
<1>1. TypeInv /\ WaitPlaced /\ [Next]_vars => Climbs
  <2> SUFFICES ASSUME TypeInv, WaitPlaced, [Next]_vars,
                      pc = "classify", pc' = "backoff", wait.why = "flap", wait'.why \in {"flap", "limited"}, held # "stable"
               PROVE  \/ wait'.ms > wait.ms
                      \/ wait.ms >= MinDelay(LastStep, FALSE) /\ wait'.ms >= MinDelay(LastStep, FALSE)
    OBVIOUS
  <2>1. ScheduleReconnect
    BY LadderStep
  <2>2. attempt \in Nat /\ attempt <= LastStep /\ attemptAfterReset = attempt /\ LastStep = 5
    BY TableValues DEF TypeInv, TypeOK, attemptAfterReset
  <2>3. wait' \in Waits(wait'.why, attempt)
    BY <2>1, <2>2, ScheduleWaits
  <2>4. wait'.ms \in Int /\ MinDelay(attempt, wait'.why = "limited") <= wait'.ms
    BY <2>2, <2>3, WaitInWindow
  <2>5. MinDelay(attempt, FALSE) <= wait'.ms
    <3>1. CASE wait'.why = "flap"
      <4>1. (wait'.why = "limited") = FALSE
        BY <3>1
      <4> QED
        BY <2>4, <4>1
    <3>2. CASE wait'.why = "limited"
      <4>1. (wait'.why = "limited") = TRUE
        BY <3>2
      <4>2. MinDelay(attempt, TRUE) <= wait'.ms
        BY <2>4, <4>1
      <4>3. MaxDelay(attempt, FALSE) < MinDelay(attempt, TRUE)
        BY <2>2, RateLimitWaitsLonger
      <4> DEFINE lo == MinDelay(attempt, FALSE)
                 hi == MaxDelay(attempt, FALSE)
                 limited == MinDelay(attempt, TRUE)
                 ms == wait'.ms
      <4>4. ms \in Int /\ limited <= ms /\ hi < limited
        BY <2>4, <4>2, <4>3
      <4>5. lo \in Int /\ hi \in Int /\ limited \in Int /\ lo <= hi
        BY <2>2, WindowOrder
      <4> HIDE DEF lo, hi, limited, ms
      <4>6. lo <= ms
        BY <4>4, <4>5
      <4> QED
        BY <4>6 DEF lo, ms
    <3> QED
      BY <3>1, <3>2
  <2>6. wait.ms \in Int
    BY DEF TypeInv, TypeOK, WaitRecords
  <2>7. PICK k \in Nat : /\ (k < LastStep /\ attempt = k + 1) \/ (k = LastStep /\ attempt = k)
                         /\ MinDelay(k, FALSE) <= wait.ms /\ wait.ms <= MaxDelay(k, FALSE)
    BY DEF WaitPlaced
  <2>8. CASE k < LastStep /\ attempt = k + 1
    <3>1. MaxDelay(k, FALSE) < MinDelay(attempt, FALSE)
      BY <2>8, JitterKeepsOrder
    <3> DEFINE hi == MaxDelay(k, FALSE)
               lo == MinDelay(attempt, FALSE)
               old == wait.ms
               new == wait'.ms
    <3>2. old \in Int /\ old <= hi /\ hi < lo /\ lo <= new /\ new \in Int
      BY <2>4, <2>5, <2>6, <2>7, <3>1
    <3>3. lo \in Int /\ hi \in Int
      BY <2>2, WindowOrder
    <3> HIDE DEF hi, lo, old, new
    <3>4. new > old
      BY <3>2, <3>3
    <3> QED
      BY <3>4 DEF old, new
  <2>9. CASE k = LastStep /\ attempt = k
    BY <2>5, <2>7, <2>9
  <2> QED
    BY <2>7, <2>8, <2>9
<1> QED
  BY <1>1, WaitPlacedHolds, PTL DEF Spec, LadderClimbs

\* After a stable session the ladder starts over.
THEOREM StabilityForgives == Spec => StableSessionForgives
<1> DEFINE Forgives ==
      pc = "classify" /\ pc' = "backoff" /\ held = "stable" => wait'.ms <= MaxDelay(0, wait'.why = "limited")
<1>1. TypeInv /\ [Next]_vars => Forgives
  <2> SUFFICES ASSUME TypeInv, [Next]_vars, pc = "classify", pc' = "backoff", held = "stable"
               PROVE  wait'.ms <= MaxDelay(0, wait'.why = "limited")
    OBVIOUS
  <2>1. attemptAfterReset = 0
    BY DEF attemptAfterReset
  <2>2. wait' \in Waits(wait'.why, 0) /\ wait'.why \in {"fast", "flap", "limited"}
    BY <2>1, LadderStep, ScheduleWaits
  <2>3. CASE wait'.why = "fast"
    <3>1. wait'.ms = 50
      <4>1. wait' = [why |-> "fast", ms |-> FastReconnect]
        BY <2>2, <2>3, Zenon DEF Waits
      <4> QED
        BY <4>1 DEF FastReconnect
    <3>2. MaxDelay(0, wait'.why = "limited") = 1250
      BY <2>3, Lookup DEF MaxDelay, BaseDelay, JitterPerMille
    <3> QED
      BY <3>1, <3>2
  <2>4. CASE wait'.why # "fast"
    <3>1. wait'.why \in {"flap", "limited"} /\ 0 \in Nat
      BY <2>2, <2>4
    <3> DEFINE w == wait'
               kind == wait'.why
    <3>2. w \in Waits(kind, 0) /\ kind \in {"flap", "limited"}
      BY <2>2, <3>1
    <3> HIDE DEF w, kind
    <3>3. w.ms <= MaxDelay(0, kind = "limited")
      BY <3>1, <3>2, WaitInWindow
    <3> QED
      BY <3>3 DEF w, kind
  <2> QED
    BY <2>3, <2>4
<1>2. Spec => []TypeInv
  BY TypeInit, TypeStep, PTL DEF Spec
<1> QED
  BY <1>1, <1>2, PTL DEF Spec, StableSessionForgives

\* Nothing but ScheduleReconnect enters the backoff, and nothing changes the
\* error or the delay within it.
LEMMA BackoffStep ==
  [Next]_vars /\ pc' = "backoff" => ScheduleReconnect \/ (pc = "backoff" /\ UNCHANGED <<err, wait>>)
<1> SUFFICES ASSUME [Next]_vars, pc' = "backoff", ~ScheduleReconnect
             PROVE  pc = "backoff" /\ err' = err
  BY LadderStep
<1> USE DEF Goes, Returns
<1>1. CASE UNCHANGED vars
  BY <1>1 DEF vars
<1>2. CASE WorkerStep
  BY <1>2 DEF WorkerStep, HeartbeatExits, PingStops, PingFails, PingCloseReturns, WatchdogFires, WatchdogCloses,
              CloseHandshakeEnds, workerFrame
<1>3. CASE EnvStep
  BY <1>3 DEF EnvStep, Cancel, ServerSays, NetworkBreaks, StableWindowElapses
<1>4. CASE StopAtLoopHead \/ StartAttempt \/ DialSucceeds \/ WriteClientHello \/ ReadServerHello
  BY <1>4 DEF StopAtLoopHead, StartAttempt, BeginAttempt, DialSucceeds, WriteClientHello, ReadServerHello
<1>5. CASE RefuseURL \/ (\E status \in Statuses : DialRefused(status)) \/ HandshakeFails \/ ReadOtherFirst \/ ReadCloseFirst
  BY <1>5 DEF RefuseURL, DialRefused, HandshakeFails, ReadOtherFirst, ReadCloseFirst, HandshakeEnds
<1>6. CASE ReadIgnored \/ ReadShutdown \/ ReadClose \/ ReadFails \/ Join
  BY <1>6 DEF ReadIgnored, ReadShutdown, ReadClose, ReadFails, Join, RunOnceReturns, LeaveReadLoop
<1>7. CASE ReturnRefusal \/ DecidePurge \/ PurgeToken \/ BackoffEnds \/ StopInBackoff
  BY <1>7 DEF ReturnRefusal, DecidePurge, EnterPurge, PurgeToken, BackoffEnds, StopInBackoff
<1>8. CASE Returned
  BY <1>8 DEF Returned, vars
<1> QED
  BY <1>1, <1>2, <1>3, <1>4, <1>5, <1>6, <1>7, <1>8 DEF Next, RunStep

\* The delay under way is the one the error asked for.
WaitDrawn == pc = "backoff" => \E n \in Nat : wait \in Waits(delayKind(err), n)

LEMMA WaitDrawnHolds == Spec => []WaitDrawn
<1>1. Init => WaitDrawn
  BY DEF Init, WaitDrawn
<1>2. TypeInv /\ WaitDrawn /\ [Next]_vars => WaitDrawn'
  <2> SUFFICES ASSUME TypeInv, WaitDrawn, [Next]_vars, pc' = "backoff"
               PROVE  \E n \in Nat : wait' \in Waits(delayKind(err'), n)
    BY DEF WaitDrawn, Waits, delayKind
  <2>1. CASE ScheduleReconnect
    <3>1. attemptAfterReset \in Nat
      BY <2>1, ScheduleWaits, TableValues
    <3>2. wait' \in Waits(delayKind(err), attemptAfterReset) /\ err' = err
      BY <2>1 DEF ScheduleReconnect, BackOff
    <3> QED
      BY <3>1, <3>2
  <2>2. CASE pc = "backoff" /\ UNCHANGED <<err, wait>>
    BY <2>2 DEF WaitDrawn
  <2> QED
    BY <2>1, <2>2, BackoffStep
<1>3. Spec => []TypeInv
  BY TypeInit, TypeStep, PTL DEF Spec
<1> QED
  BY <1>1, <1>2, <1>3, PTL DEF Spec

\* The shortest wait of a rate-limited attempt.
LEMMA LimitedIsSlow ==
  ASSUME NEW n \in Nat
  PROVE  MinDelay(n, TRUE) \in Int /\ MinDelay(n, TRUE) >= 3 * 1000
<1>1. TableAt(n + 1) \in 2 .. 60
  <2>1. n = 0 \/ n = 1 \/ n = 2 \/ n = 3 \/ n >= 4
    OBVIOUS
  <2>2. n >= 4 => n + 1 \in Nat /\ n + 1 >= 5
    OBVIOUS
  <2> QED
    BY <2>1, <2>2, Lookup
<1> DEFINE y == TableAt(n + 1)
           lo == MinDelay(n, TRUE)
<1>2. lo = (1000 - JitterPerMille) * (2 * y)
  BY DEF MinDelay, BaseDelay
<1>3. y \in 2 .. 60
  BY <1>1
<1> HIDE DEF y, lo
<1>4. lo \in Int /\ lo >= 3 * 1000
  BY <1>2, <1>3 DEF JitterPerMille
<1> QED
  BY <1>4 DEF lo

\* Run never dials in a tight loop, and each delay has its cause in what the
\* server said on the attempt that just ended: 50 ms after it announced its
\* departure, three seconds or more when it asked for fewer attempts, and at
\* least 750 ms after any other loss - the 5xx of a server that is down included.
THEOREM RedialsArePaced ==
  Spec => [](pc = "backoff" =>
               \/ wait.why = "fast" /\ wait.ms = FastReconnect /\ said \cap {"server.shutdown", "1001"} # {}
               \/ wait.why = "limited" /\ wait.ms >= 3 * 1000 /\ said \cap {"4429", "429"} # {}
               \/ wait.why = "flap" /\ wait.ms >= 750)
<1> DEFINE Paced ==
      pc = "backoff" =>
        \/ wait.why = "fast" /\ wait.ms = FastReconnect /\ said \cap {"server.shutdown", "1001"} # {}
        \/ wait.why = "limited" /\ wait.ms >= 3 * 1000 /\ said \cap {"4429", "429"} # {}
        \/ wait.why = "flap" /\ wait.ms >= 750
<1>1. TypeInv /\ Parts /\ WaitDrawn => Paced
  <2> SUFFICES ASSUME Parts, pc = "backoff", NEW n \in Nat, wait \in Waits(delayKind(err), n)
               PROVE  \/ wait.why = "fast" /\ wait.ms = FastReconnect /\ said \cap {"server.shutdown", "1001"} # {}
                      \/ wait.why = "limited" /\ wait.ms >= 3 * 1000 /\ said \cap {"4429", "429"} # {}
                      \/ wait.why = "flap" /\ wait.ms >= 750
    BY DEF WaitDrawn
  <2>1. Grounds(err)
    BY DEF Parts, ErrGrounded
  <2>2. CASE delayKind(err) = "fast"
    <3>1. wait = [why |-> "fast", ms |-> FastReconnect]
      BY <2>2, Zenon DEF Waits
    <3>2. err \in {"shutdown", "goingAway"}
      BY <2>2 DEF delayKind
    <3> QED
      BY <2>1, <3>1, <3>2 DEF Grounds
  <2>3. CASE delayKind(err) = "limited"
    <3>1. err = "rateLimited"
      BY <2>3 DEF delayKind
    <3>2. wait.why = "limited" /\ wait.ms \in Int /\ MinDelay(n, "limited" = "limited") <= wait.ms
      BY <2>3, WaitInWindow
    <3>3. ("limited" = "limited") = TRUE
      OBVIOUS
    <3> DEFINE lo == MinDelay(n, TRUE)
               ms == wait.ms
    <3>4. lo <= ms /\ ms \in Int
      BY <3>2, <3>3, Zenon
    <3>6. lo \in Int /\ lo >= 3 * 1000
      BY LimitedIsSlow
    <3> HIDE DEF lo, ms
    <3>5. ms >= 3 * 1000
      BY <3>4, <3>6
    <3> QED
      BY <2>1, <3>1, <3>2, <3>5 DEF Grounds, ms
  <2>4. CASE delayKind(err) = "flap"
    <3>1. wait.why = "flap" /\ wait.ms \in Int /\ MinDelay(n, "flap" = "limited") <= wait.ms
      BY <2>4, WaitInWindow
    <3>2. ("flap" = "limited") = FALSE
      OBVIOUS
    <3> DEFINE lo == MinDelay(n, FALSE)
               ms == wait.ms
    <3>3. lo <= ms /\ ms \in Int /\ lo \in Int /\ lo >= 750
      BY <3>1, <3>2, WindowOrder, DelayBounds
    <3> HIDE DEF lo, ms
    <3>4. ms >= 750
      BY <3>3
    <3> QED
      BY <3>1, <3>4 DEF ms
  <2> QED
    BY <2>2, <2>3, <2>4 DEF delayKind
<1> QED
  BY <1>1, WaitDrawnHolds, PartsInvariant, PTL

-----------------------------------------------------------------------------
(* Progress.  tlapm does not evaluate ENABLED, so that the theorems of this *)
(* section take NeverStuck, which TLC checks, as a hypothesis; all the rest *)
(* - that every fair step leads nearer to the end, and that no other step   *)
(* leads away from it - is proved.                                          *)

\* Where a step of Run's goroutine can lead.
LEMMA RunMoves ==
  ASSUME RunStep
  PROVE  /\ pc = "loop"     => (pc' = "dial" /\ ~cancelled) \/ pc' = "done"
         /\ pc = "dial"     => pc' \in {"greet", "classify"}
         /\ pc = "greet"    => pc' \in {"await", "classify"}
         /\ pc = "await"    => pc' \in {"read", "classify"}
         /\ pc = "read"     => pc' \in {"read", "join"} /\ (pc' = "read" => conn' = conn)
         /\ pc = "join"     => pc' = "classify"
         /\ pc = "classify" => pc' \in {"backoff", "purge", "done"}
         /\ pc = "purge"    => pc' = "done"
         /\ pc = "backoff"  => pc' \in {"loop", "done"}
         /\ pc # "done"
<1> USE DEF Goes, Returns
<1>1. CASE StopAtLoopHead \/ StartAttempt
  BY <1>1, Zenon DEF StopAtLoopHead, StartAttempt, BeginAttempt
<1>2. CASE RefuseURL \/ (\E status \in Statuses : DialRefused(status)) \/ HandshakeFails \/ ReadOtherFirst \/ ReadCloseFirst
  <2>1. pc \in {"dial", "greet", "await"} /\ pc' = "classify"
    BY <1>2 DEF RefuseURL, DialRefused, HandshakeFails, ReadOtherFirst, ReadCloseFirst, HandshakeEnds
  <2> QED
    BY <2>1
<1>3. CASE DialSucceeds \/ WriteClientHello \/ ReadServerHello
  BY <1>3 DEF DialSucceeds, WriteClientHello, ReadServerHello
<1>4. CASE ReadIgnored
  BY <1>4 DEF ReadIgnored
<1>5. CASE ReadShutdown \/ ReadClose \/ ReadFails
  <2>1. pc = "read" /\ pc' = "join"
    BY <1>5 DEF ReadShutdown, ReadClose, ReadFails, LeaveReadLoop
  <2> QED
    BY <2>1
<1>6. CASE Join
  BY <1>6 DEF Join, RunOnceReturns
<1>7. CASE ScheduleReconnect \/ ReturnRefusal \/ DecidePurge
  <2>1. pc = "classify" /\ pc' \in {"backoff", "purge", "done"}
    BY <1>7 DEF ScheduleReconnect, BackOff, ReturnRefusal, DecidePurge, EnterPurge
  <2> QED
    BY <2>1
<1>8. CASE PurgeToken \/ BackoffEnds \/ StopInBackoff
  BY <1>8 DEF PurgeToken, BackoffEnds, StopInBackoff
<1> QED
  BY <1>1, <1>2, <1>3, <1>4, <1>5, <1>6, <1>7, <1>8 DEF RunStep

\* Nobody else moves it, takes a cancellation back or repairs a connection.
LEMMA OthersLeaveRun ==
  ASSUME TypeInv, [Next]_vars
  PROVE  /\ RunStep \/ (pc' = pc /\ (conn = "broken" => conn' = "broken"))
         /\ cancelled => cancelled'
<1> USE DEF workers, sessionVars, loopVars, outcome
<1>1. CASE UNCHANGED vars \/ Returned
  BY <1>1 DEF vars, Returned
<1>2. CASE WorkerStep
  BY <1>2 DEF WorkerStep, HeartbeatExits, PingStops, PingFails, PingCloseReturns, WatchdogFires, WatchdogCloses,
              CloseHandshakeEnds, workerFrame
<1>3. CASE EnvStep
  BY <1>3 DEF EnvStep, Cancel, ServerSays, NetworkBreaks, StableWindowElapses
<1>4. CASE RunStep
  <2>1. CASE ReadServerHello
    <3>1. cancelled' = (cancelled \/ cfg.hookCancels)
      BY <2>1 DEF ReadServerHello
    <3> QED
      BY <1>4, <3>1, Zenon
  <2>2. CASE ~ReadServerHello
    <3>1. cancelled' = cancelled
      <4> USE <1>4, <2>2 DEF RunStep
      <4>1. CASE StopAtLoopHead \/ StartAttempt \/ DialSucceeds \/ WriteClientHello
        BY <4>1, Zenon DEF StopAtLoopHead, StartAttempt, BeginAttempt, DialSucceeds, WriteClientHello
      <4>2. CASE RefuseURL \/ (\E status \in Statuses : DialRefused(status)) \/ HandshakeFails \/ ReadOtherFirst \/ ReadCloseFirst
        BY <4>2 DEF RefuseURL, DialRefused, HandshakeFails, ReadOtherFirst, ReadCloseFirst, HandshakeEnds
      <4>3. CASE ReadIgnored \/ ReadShutdown \/ ReadClose \/ ReadFails \/ Join
        BY <4>3 DEF ReadIgnored, ReadShutdown, ReadClose, ReadFails, LeaveReadLoop, Join, RunOnceReturns
      <4>4. CASE ScheduleReconnect \/ ReturnRefusal \/ DecidePurge \/ PurgeToken \/ BackoffEnds \/ StopInBackoff
        BY <4>4 DEF ScheduleReconnect, BackOff, ReturnRefusal, DecidePurge, EnterPurge, PurgeToken, BackoffEnds, StopInBackoff
      <4> QED
        BY <4>1, <4>2, <4>3, <4>4
    <3> QED
      BY <1>4, <3>1
  <2> QED
    BY <2>1, <2>2, <1>4
<1> QED
  BY <1>1, <1>2, <1>3, <1>4 DEF Next

\* In wg.Wait the two goroutines only come nearer to their end, and Run moves
\* on when both are there.
LEMMA JoinNarrows ==
  ASSUME TypeInv, Parts, [Next]_vars, pc = "join"
  PROVE  /\ pc' = "join" \/ (pc' = "classify" /\ hb = "none" /\ ping = "none")
         /\ hb' \in {hb, "none"}
         /\ ping = "none"    => ping' = "none"
         /\ ping = "closing" => ping' \in {"closing", "none"}
<1> USE DEF Goes, Returns, workers, sessionVars, loopVars, outcome
<1>1. CASE UNCHANGED vars \/ Returned
  BY <1>1 DEF vars, Returned
<1>2. CASE WorkerStep
  BY <1>2 DEF WorkerStep, HeartbeatExits, PingStops, PingFails, PingCloseReturns, WatchdogFires, WatchdogCloses,
              CloseHandshakeEnds, workerFrame
<1>3. CASE EnvStep
  BY <1>3 DEF EnvStep, Cancel, ServerSays, NetworkBreaks, StableWindowElapses
<1>4. CASE Join
  BY <1>4 DEF Join, RunOnceReturns
<1>5. CASE RunStep /\ ~Join
  <2>1. ~StopAtLoopHead /\ ~StartAttempt /\ ~DialSucceeds /\ ~WriteClientHello
    BY DEF StopAtLoopHead, StartAttempt, BeginAttempt, DialSucceeds, WriteClientHello
  <2>2. ~RefuseURL /\ ~(\E status \in Statuses : DialRefused(status)) /\ ~HandshakeFails /\ ~ReadOtherFirst
        /\ ~ReadCloseFirst /\ ~ReadServerHello
    BY DEF RefuseURL, DialRefused, HandshakeFails, ReadOtherFirst, ReadCloseFirst, ReadServerHello
  <2>3. ~ReadIgnored /\ ~ReadShutdown /\ ~ReadClose /\ ~ReadFails
    BY DEF ReadIgnored, ReadShutdown, ReadClose, ReadFails, LeaveReadLoop
  <2>4. ~ScheduleReconnect /\ ~ReturnRefusal /\ ~DecidePurge
    BY DEF ScheduleReconnect, BackOff, ReturnRefusal, DecidePurge, EnterPurge
  <2>5. ~PurgeToken /\ ~BackoffEnds /\ ~StopInBackoff
    BY DEF PurgeToken, BackoffEnds, StopInBackoff
  <2> QED
    BY <1>5, <2>1, <2>2, <2>3, <2>4, <2>5 DEF RunStep
<1> QED
  BY <1>1, <1>2, <1>3, <1>4, <1>5 DEF Next

\* The stages of wg.Wait.
BothRun     == pc = "join" /\ hb = "run"
PingRuns    == pc = "join" /\ hb = "none" /\ ping = "run"
PingCloses  == pc = "join" /\ hb = "none" /\ ping = "closing"
NobodyRuns  == pc = "join" /\ hb = "none" /\ ping = "none"

\* wg.Wait returns: the read loop has left the connection dead, so that neither
\* a write nor Conn.Close holds a goroutine for ever.
LEMMA JoinEnds == FairSpec /\ []NeverStuck => (pc = "join" ~> pc = "classify")
<1> DEFINE I == TypeInv /\ Parts
           Waiting == PingRuns \/ PingCloses \/ NobodyRuns
<1>1. I /\ pc = "join" => BothRun \/ Waiting
  BY DEF TypeInv, TypeOK, BothRun, PingRuns, PingCloses, NobodyRuns
<1>2. I /\ BothRun /\ [Next]_vars => BothRun' \/ Waiting'
  <2> SUFFICES ASSUME I, BothRun, [Next]_vars PROVE BothRun' \/ Waiting'
    OBVIOUS
  <2>1. TypeInv'
    BY TypeStep
  <2>2. pc' = "join"
    BY JoinNarrows DEF BothRun
  <2> QED
    BY <2>1, <2>2 DEF TypeInv, TypeOK, BothRun, PingRuns, PingCloses, NobodyRuns
<1>3. I /\ BothRun /\ <<HeartbeatNotices>>_vars => Waiting'
  <2> SUFFICES ASSUME I, BothRun, HeartbeatNotices PROVE Waiting'
    OBVIOUS
  <2>1. pc' = "join" /\ hb' = "none" /\ ping' = ping
    BY DEF HeartbeatNotices, HeartbeatExits, workerFrame, BothRun
  <2> QED
    BY <2>1 DEF TypeInv, TypeOK, PingRuns, PingCloses, NobodyRuns
<1>4. I /\ PingRuns /\ [Next]_vars => PingRuns' \/ PingCloses' \/ NobodyRuns'
  <2> SUFFICES ASSUME I, PingRuns, [Next]_vars PROVE PingRuns' \/ PingCloses' \/ NobodyRuns'
    OBVIOUS
  <2>1. TypeInv'
    BY TypeStep
  <2>2. pc' = "join" /\ hb' = "none"
    BY JoinNarrows DEF PingRuns
  <2> QED
    BY <2>1, <2>2 DEF TypeInv, TypeOK, PingRuns, PingCloses, NobodyRuns
<1>5. I /\ PingRuns /\ <<PingStops>>_vars => NobodyRuns'
  BY DEF PingStops, workerFrame, PingRuns, NobodyRuns
<1>6. I /\ PingCloses /\ [Next]_vars => PingCloses' \/ NobodyRuns'
  <2> SUFFICES ASSUME I, PingCloses, [Next]_vars PROVE PingCloses' \/ NobodyRuns'
    OBVIOUS
  <2>1. pc' = "join" /\ hb' = "none" /\ ping' \in {"closing", "none"}
    BY JoinNarrows DEF PingCloses
  <2> QED
    BY <2>1 DEF PingCloses, NobodyRuns
<1>7. I /\ PingCloses /\ <<PingCloseReturns>>_vars => NobodyRuns'
  BY DEF PingCloseReturns, workerFrame, PingCloses, NobodyRuns
<1>8. I /\ NobodyRuns /\ [Next]_vars => NobodyRuns' \/ (pc = "classify")'
  <2> SUFFICES ASSUME I, NobodyRuns, [Next]_vars PROVE NobodyRuns' \/ pc' = "classify"
    OBVIOUS
  <2>1. pc' \in {"join", "classify"} /\ hb' = "none" /\ ping' = "none"
    BY JoinNarrows DEF NobodyRuns
  <2> QED
    BY <2>1 DEF NobodyRuns
<1>9. I /\ NobodyRuns /\ <<RunStep>>_vars => (pc = "classify")'
  BY RunMoves DEF NobodyRuns
<1>10. NeverStuck /\ BothRun => ENABLED <<HeartbeatNotices>>_vars
  BY DEF NeverStuck, BothRun
<1>11. NeverStuck /\ PingRuns => ENABLED <<PingStops>>_vars
  BY DEF NeverStuck, PingRuns
<1>12. NeverStuck /\ PingCloses => ENABLED <<PingCloseReturns>>_vars
  BY DEF NeverStuck, PingCloses
<1>13. NeverStuck /\ NobodyRuns => ENABLED <<RunStep>>_vars
  BY DEF NeverStuck, NobodyRuns
<1>14. FairSpec => []I
  BY PartsInvariant, PTL DEF FairSpec
<1>15. FairSpec => /\ [][Next]_vars /\ WF_vars(RunStep) /\ WF_vars(HeartbeatNotices)
                   /\ WF_vars(PingStops) /\ WF_vars(PingCloseReturns)
  BY PTL DEF FairSpec, Spec, Fairness
<1> HIDE DEF I
<1> QED
  BY <1>1, <1>2, <1>3, <1>4, <1>5, <1>6, <1>7, <1>8, <1>9, <1>10, <1>11, <1>12, <1>13, <1>14, <1>15, PTL

\* An attempt that is over is classified, purged if it must be, and leads to a
\* backoff or to the return of Run.
LEMMA VerdictComes == FairSpec /\ []NeverStuck => (pc = "classify" ~> pc \in {"backoff", "done"})
<1>1. TypeInv /\ pc = "classify" /\ [Next]_vars =>
        (pc = "classify")' \/ (pc = "purge")' \/ (pc \in {"backoff", "done"})'
  BY RunMoves, OthersLeaveRun
<1>2. TypeInv /\ pc = "classify" /\ <<RunStep>>_vars => (pc = "purge")' \/ (pc \in {"backoff", "done"})'
  BY RunMoves
<1>3. TypeInv /\ pc = "purge" /\ [Next]_vars => (pc = "purge")' \/ (pc \in {"backoff", "done"})'
  BY RunMoves, OthersLeaveRun
<1>4. TypeInv /\ pc = "purge" /\ <<RunStep>>_vars => (pc \in {"backoff", "done"})'
  BY RunMoves
<1>5. NeverStuck /\ (pc = "classify" \/ pc = "purge") => ENABLED <<RunStep>>_vars
  BY DEF NeverStuck
<1>6. FairSpec => []TypeInv
  BY TypeInit, TypeStep, PTL DEF FairSpec, Spec
<1>7. FairSpec => [][Next]_vars /\ WF_vars(RunStep)
  BY PTL DEF FairSpec, Spec, Fairness
<1> QED
  BY <1>1, <1>2, <1>3, <1>4, <1>5, <1>6, <1>7, PTL

\* A dead connection is noticed, its goroutines are gone and Run goes on.
THEOREM DeadSessionsEnd == FairSpec /\ []NeverStuck => DeadSessionEnds
<1> DEFINE Dead == pc = "read" /\ conn = "broken"
<1>1. TypeInv /\ Dead /\ [Next]_vars => Dead' \/ (pc = "join")'
  BY RunMoves, OthersLeaveRun
<1>2. TypeInv /\ Dead /\ <<ReadFails>>_vars => (pc = "join")'
  BY DEF ReadFails, LeaveReadLoop, Goes
<1>3. NeverStuck /\ Dead => ENABLED <<ReadFails>>_vars
  BY DEF NeverStuck
<1>4. FairSpec => []TypeInv
  BY TypeInit, TypeStep, PTL DEF FairSpec, Spec
<1>5. FairSpec => [][Next]_vars /\ WF_vars(ReadFails)
  BY PTL DEF FairSpec, Spec, Fairness
<1>6. Dead <=> pc = "read" /\ conn = "broken"
  OBVIOUS
<1> HIDE DEF Dead
<1> QED
  BY <1>1, <1>2, <1>3, <1>4, <1>5, <1>6, JoinEnds, VerdictComes, PTL DEF DeadSessionEnds

\* Run returns once its context is done: from the loop head, the dial, the
\* handshake, the session, wg.Wait, the purge and the backoff alike.
THEOREM CancelledRunsReturn == FairSpec /\ []NeverStuck => CancelReturns
<1>1. TypeInv /\ cancelled /\ [Next]_vars => cancelled'
  BY OthersLeaveRun
<1>2. TypeInv => \/ pc = "loop" \/ pc = "dial" \/ pc = "greet" \/ pc = "await" \/ pc = "read" \/ pc = "join"
                 \/ pc = "classify" \/ pc = "purge" \/ pc \in {"backoff", "done"}
  BY DEF TypeInv, TypeOK
<1>3. TypeInv /\ pc = "dial" /\ [Next]_vars => (pc = "dial")' \/ (pc = "greet")' \/ (pc = "classify")'
  BY RunMoves, OthersLeaveRun
<1>4. pc = "dial" /\ <<RunStep>>_vars => (pc = "greet")' \/ (pc = "classify")'
  BY RunMoves
<1>5. TypeInv /\ pc = "greet" /\ [Next]_vars => (pc = "greet")' \/ (pc = "await")' \/ (pc = "classify")'
  BY RunMoves, OthersLeaveRun
<1>6. pc = "greet" /\ <<RunStep>>_vars => (pc = "await")' \/ (pc = "classify")'
  BY RunMoves
<1>7. TypeInv /\ pc = "await" /\ [Next]_vars => (pc = "await")' \/ (pc = "read")' \/ (pc = "classify")'
  BY RunMoves, OthersLeaveRun
<1>8. pc = "await" /\ <<RunStep>>_vars => (pc = "read")' \/ (pc = "classify")'
  BY RunMoves
<1>9. TypeInv /\ pc = "read" /\ [Next]_vars => (pc = "read")' \/ (pc = "join")'
  BY RunMoves, OthersLeaveRun
<1>10. pc = "read" /\ <<ReadFails>>_vars => (pc = "join")'
  BY DEF ReadFails, LeaveReadLoop, Goes
<1>11. TypeInv /\ pc = "purge" /\ [Next]_vars => (pc = "purge")' \/ (pc \in {"backoff", "done"})'
  BY RunMoves, OthersLeaveRun
<1>12. pc = "purge" /\ <<RunStep>>_vars => (pc \in {"backoff", "done"})'
  BY RunMoves
<1>13. pc \in {"backoff", "done"} <=> pc = "backoff" \/ pc = "done"
  OBVIOUS
<1>14. TypeInv /\ pc = "backoff" /\ [Next]_vars => (pc = "backoff")' \/ (pc = "loop")' \/ (pc = "done")'
  BY RunMoves, OthersLeaveRun
<1>15. pc = "backoff" /\ <<RunStep>>_vars => (pc = "loop")' \/ (pc = "done")'
  BY RunMoves
<1>16. TypeInv /\ cancelled /\ pc = "loop" /\ [Next]_vars => (pc = "loop")' \/ (pc = "done")'
  BY RunMoves, OthersLeaveRun
<1>17. cancelled /\ pc = "loop" /\ <<RunStep>>_vars => (pc = "done")'
  BY RunMoves
<1>18. NeverStuck /\ (pc = "loop" \/ pc = "dial" \/ pc = "greet" \/ pc = "await" \/ pc = "purge" \/ pc = "backoff")
         => ENABLED <<RunStep>>_vars
  BY DEF NeverStuck
<1>19. NeverStuck /\ cancelled /\ pc = "read" => ENABLED <<ReadFails>>_vars
  BY DEF NeverStuck
<1>20. FairSpec => []TypeInv
  BY TypeInit, TypeStep, PTL DEF FairSpec, Spec
<1>21. FairSpec => [][Next]_vars /\ WF_vars(RunStep) /\ WF_vars(ReadFails)
  BY PTL DEF FairSpec, Spec, Fairness
<1> QED
  BY <1>1, <1>2, <1>3, <1>4, <1>5, <1>6, <1>7, <1>8, <1>9, <1>10, <1>11, <1>12, <1>13, <1>14, <1>15, <1>16, <1>17,
     <1>18, <1>19, <1>20, <1>21, JoinEnds, VerdictComes, PTL DEF CancelReturns

\* Once an attempt is over, nothing but the next one changes what it ended with.
LEMMA VerdictStays ==
  ASSUME [Next]_vars, pc \in {"join", "classify", "purge", "done"}
  PROVE  err' = err
<1> USE DEF Goes, workers, sessionVars, loopVars, outcome
<1>1. CASE UNCHANGED vars \/ Returned
  BY <1>1 DEF vars, Returned
<1>2. CASE WorkerStep
  BY <1>2 DEF WorkerStep, HeartbeatExits, PingStops, PingFails, PingCloseReturns, WatchdogFires, WatchdogCloses,
              CloseHandshakeEnds, workerFrame
<1>3. CASE EnvStep
  BY <1>3 DEF EnvStep, Cancel, ServerSays, NetworkBreaks, StableWindowElapses
<1>4. CASE RunStep
  <2>1. CASE StopAtLoopHead \/ StartAttempt \/ DialSucceeds \/ WriteClientHello \/ ReadServerHello
    BY <2>1, Zenon DEF StopAtLoopHead, StartAttempt, BeginAttempt, DialSucceeds, WriteClientHello, ReadServerHello
  <2>2. CASE RefuseURL \/ (\E status \in Statuses : DialRefused(status)) \/ HandshakeFails \/ ReadOtherFirst \/ ReadCloseFirst
    BY <2>2 DEF RefuseURL, DialRefused, HandshakeFails, ReadOtherFirst, ReadCloseFirst
  <2>3. CASE ReadIgnored \/ ReadShutdown \/ ReadClose \/ ReadFails \/ Join
    BY <2>3 DEF ReadIgnored, ReadShutdown, ReadClose, ReadFails, LeaveReadLoop, Join, RunOnceReturns
  <2>4. CASE ScheduleReconnect \/ ReturnRefusal \/ DecidePurge \/ PurgeToken \/ BackoffEnds \/ StopInBackoff
    BY <2>4 DEF ScheduleReconnect, BackOff, ReturnRefusal, DecidePurge, EnterPurge, PurgeToken, BackoffEnds, StopInBackoff
  <2> QED
    BY <1>4, <2>1, <2>2, <2>3, <2>4 DEF RunStep
<1> QED
  BY <1>1, <1>2, <1>3, <1>4 DEF Next

\* A verdict of the server, or a refused URL, ends Run: nothing is retried and
\* nothing - a goroutine, a close handshake, the purge - holds the sentinel back.
THEOREM VerdictsReturn == FairSpec /\ []NeverStuck => VerdictReturns
<1> DEFINE Final == err \in Rejections \cup Refusals
<1>1. TypeInv /\ Parts /\ Final => pc = "join" \/ pc = "classify" \/ pc = "purge" \/ pc = "done"
  BY DEF Parts, NoRedialAfterVerdict
<1>2. TypeInv /\ Parts /\ Final /\ [Next]_vars => Final'
  BY VerdictStays DEF Parts, NoRedialAfterVerdict
<1>3. TypeInv /\ pc = "purge" /\ [Next]_vars => (pc = "purge")' \/ (pc = "done")'
  BY RunMoves, OthersLeaveRun
<1>4. pc = "purge" /\ <<RunStep>>_vars => (pc = "done")'
  BY RunMoves
<1>5. NeverStuck /\ pc = "purge" => ENABLED <<RunStep>>_vars
  BY DEF NeverStuck
<1>6. pc \in {"backoff", "done"} /\ (pc = "join" \/ pc = "classify" \/ pc = "purge" \/ pc = "done") => pc = "done"
  OBVIOUS
<1>7. FairSpec => [](TypeInv /\ Parts)
  BY PartsInvariant, PTL DEF FairSpec
<1>8. FairSpec => [][Next]_vars /\ WF_vars(RunStep)
  BY PTL DEF FairSpec, Spec, Fairness
<1>9. Final <=> err \in Rejections \cup Refusals
  OBVIOUS
<1> HIDE DEF Final
<1> QED
  BY <1>1, <1>2, <1>3, <1>4, <1>5, <1>6, <1>7, <1>8, <1>9, JoinEnds, VerdictComes, PTL DEF VerdictReturns

\* Run returns, be it stopped or told by the server.
THEOREM RunsReturn == FairSpec /\ []NeverStuck => RunReturns
BY CancelledRunsReturn, VerdictsReturn, PTL DEF RunReturns

\* No attempt, and no wait between attempts, lasts forever: Run goes on trying
\* until it is stopped or told not to.
THEOREM RunsKeepTrying == FairSpec /\ []NeverStuck => KeepsTrying
<1>1. TypeInv /\ pc = "dial" /\ [Next]_vars => (pc = "dial")' \/ (pc = "greet")' \/ (pc = "classify")'
  BY RunMoves, OthersLeaveRun
<1>2. pc = "dial" /\ <<RunStep>>_vars => (pc = "greet")' \/ (pc = "classify")'
  BY RunMoves
<1>3. TypeInv /\ pc = "greet" /\ [Next]_vars => (pc = "greet")' \/ (pc = "await")' \/ (pc = "classify")'
  BY RunMoves, OthersLeaveRun
<1>4. pc = "greet" /\ <<RunStep>>_vars => (pc = "await")' \/ (pc = "classify")'
  BY RunMoves
<1>5. TypeInv /\ pc = "await" /\ [Next]_vars => (pc = "await")' \/ (pc = "read")' \/ (pc = "classify")'
  BY RunMoves, OthersLeaveRun
<1>6. pc = "await" /\ <<RunStep>>_vars => (pc = "read")' \/ (pc = "classify")'
  BY RunMoves
<1>7. TypeInv /\ pc = "purge" /\ [Next]_vars => (pc = "purge")' \/ (pc = "done")'
  BY RunMoves, OthersLeaveRun
<1>8. pc = "purge" /\ <<RunStep>>_vars => (pc = "done")'
  BY RunMoves
<1>9. TypeInv /\ pc = "backoff" /\ [Next]_vars => (pc = "backoff")' \/ (pc = "loop")' \/ (pc = "done")'
  BY RunMoves, OthersLeaveRun
<1>10. pc = "backoff" /\ <<RunStep>>_vars => (pc = "loop")' \/ (pc = "done")'
  BY RunMoves
<1>11. TypeInv /\ pc = "loop" /\ [Next]_vars => (pc = "loop")' \/ (pc = "dial")' \/ (pc = "done")'
  BY RunMoves, OthersLeaveRun
<1>12. pc = "loop" /\ <<RunStep>>_vars => (pc = "dial")' \/ (pc = "done")'
  BY RunMoves
<1>13. /\ pc \in {"dial", "greet", "await"} <=> pc = "dial" \/ pc = "greet" \/ pc = "await"
       /\ pc \in {"read", "backoff", "done"} <=> pc = "read" \/ pc = "backoff" \/ pc = "done"
       /\ pc \in {"backoff", "done"} <=> pc = "backoff" \/ pc = "done"
       /\ pc \in {"dial", "done"} <=> pc = "dial" \/ pc = "done"
       /\ pc \in {"loop", "join", "classify", "purge", "backoff"}
            <=> pc = "loop" \/ pc = "join" \/ pc = "classify" \/ pc = "purge" \/ pc = "backoff"
  OBVIOUS
<1>14. NeverStuck /\ (pc = "loop" \/ pc = "dial" \/ pc = "greet" \/ pc = "await" \/ pc = "purge" \/ pc = "backoff")
         => ENABLED <<RunStep>>_vars
  BY DEF NeverStuck
<1>15. FairSpec => []TypeInv
  BY TypeInit, TypeStep, PTL DEF FairSpec, Spec
<1>16. FairSpec => [][Next]_vars /\ WF_vars(RunStep)
  BY PTL DEF FairSpec, Spec, Fairness
<1> QED
  BY <1>1, <1>2, <1>3, <1>4, <1>5, <1>6, <1>7, <1>8, <1>9, <1>10, <1>11, <1>12, <1>13, <1>14, <1>15, <1>16,
     JoinEnds, VerdictComes, DeadSessionsEnd, PTL DEF KeepsTrying

\* What ServiceLifecycle assumes of the client it runs, WSClient delivers: a stop
\* is obeyed, and short of a session in order nothing lasts forever.
THEOREM RunIsLively == FairSpec /\ []NeverStuck => Contract!Lively
<1> DEFINE Over == phase \in {"live", "idle"}
<1>1. TypeInv => /\ phase = "ended" <=> pc = "done"
                 /\ phase = "trying" <=> pc = "dial" \/ pc = "greet" \/ pc = "await"
                 /\ phase = "idle" => pc \in {"loop", "join", "classify", "purge", "backoff"}
                 /\ pc \in {"dial", "done"} => phase \in {"trying", "ended"}
                 /\ pc = "classify" \/ pc = "read" => Over
  BY DEF TypeInv, TypeOK, phase
<1>2. TypeInv /\ pc = "dial" /\ [Next]_vars => (pc = "dial")' \/ (pc = "greet")' \/ (pc = "classify")'
  BY RunMoves, OthersLeaveRun
<1>3. pc = "dial" /\ <<RunStep>>_vars => (pc = "greet")' \/ (pc = "classify")'
  BY RunMoves
<1>4. TypeInv /\ pc = "greet" /\ [Next]_vars => (pc = "greet")' \/ (pc = "await")' \/ (pc = "classify")'
  BY RunMoves, OthersLeaveRun
<1>5. pc = "greet" /\ <<RunStep>>_vars => (pc = "await")' \/ (pc = "classify")'
  BY RunMoves
<1>6. TypeInv /\ pc = "await" /\ [Next]_vars => (pc = "await")' \/ (pc = "read")' \/ (pc = "classify")'
  BY RunMoves, OthersLeaveRun
<1>7. pc = "await" /\ <<RunStep>>_vars => (pc = "read")' \/ (pc = "classify")'
  BY RunMoves
<1>8. NeverStuck /\ (pc = "dial" \/ pc = "greet" \/ pc = "await") => ENABLED <<RunStep>>_vars
  BY DEF NeverStuck
<1>9. FairSpec => []TypeInv
  BY TypeInit, TypeStep, PTL DEF FairSpec, Spec
<1>10. FairSpec => [][Next]_vars /\ WF_vars(RunStep)
  BY PTL DEF FairSpec, Spec, Fairness
<1>11. FairSpec /\ []NeverStuck => (phase = "trying" ~> Over)
  BY <1>1, <1>2, <1>3, <1>4, <1>5, <1>6, <1>7, <1>8, <1>9, <1>10, PTL
<1>12. FairSpec /\ []NeverStuck => (cancelled ~> phase = "ended")
  BY <1>1, <1>9, CancelledRunsReturn, PTL DEF CancelReturns
<1>13. FairSpec /\ []NeverStuck => (phase = "idle" ~> phase \in {"trying", "ended"})
  BY <1>1, <1>9, RunsKeepTrying, PTL DEF KeepsTrying
<1> QED
  BY <1>11, <1>12, <1>13, PTL DEF Contract!Lively
=============================================================================
