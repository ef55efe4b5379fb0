--------------------------- MODULE ClientContract ---------------------------
(***************************************************************************)
(* What WSClient.Run promises the code that calls it (runner.go, login.go, *)
(* status.go): an alternation of attempts and live sessions that only ever *)
(* ends because the caller stopped it, because the server rejected the     *)
(* token, or because nothing can be retried; the token file is touched in  *)
(* the second case alone, and no attempt begins after a stop.              *)
(***************************************************************************)
CONSTANTS
  Rejected,    \* the verdicts after which the token file may go
  Refused      \* the other final verdicts

VARIABLES
  phase,       \* "idle", "trying", "live", "ended"
  stopped,     \* the caller's context is done
  wired,       \* the caller handed over a TokenStore
  hookStops,   \* the caller's OnServerHello stops the context
  token,       \* the token file, as far as Run changes it
  answer       \* what Run returned

contractVars == <<phase, stopped, wired, hookStops, token, answer>>

Init ==
  /\ phase = "idle"
  /\ stopped = FALSE
  /\ wired \in BOOLEAN
  /\ hookStops \in BOOLEAN
  /\ token = "present"
  /\ answer = "none"

Stop ==
  /\ phase # "ended"
  /\ stopped' = TRUE
  /\ UNCHANGED <<phase, wired, hookStops, token, answer>>

Try ==
  /\ phase = "idle"
  /\ ~stopped
  /\ phase' = "trying"
  /\ UNCHANGED <<stopped, wired, hookStops, token, answer>>

\* OnServerHello runs, and may stop the context.
GoLive ==
  /\ phase = "trying"
  /\ phase' = "live"
  /\ stopped' = (stopped \/ hookStops)
  /\ UNCHANGED <<wired, hookStops, token, answer>>

GiveUp ==
  /\ phase \in {"trying", "live"}
  /\ phase' = "idle"
  /\ UNCHANGED <<stopped, wired, hookStops, token, answer>>

Ends(a) == phase' = "ended" /\ answer' = a

EndStopped ==
  /\ phase = "idle"
  /\ stopped
  /\ Ends("nil")
  /\ UNCHANGED <<stopped, wired, hookStops, token>>

EndRejected ==
  /\ phase = "idle"
  /\ \E v \in Rejected : Ends(v)
  /\ token' \in IF wired THEN {"absent", token} ELSE {token}
  /\ UNCHANGED <<stopped, wired, hookStops>>

EndRefused ==
  /\ phase = "idle"
  /\ \E v \in Refused : Ends(v)
  /\ UNCHANGED <<stopped, wired, hookStops, token>>

Next ==
  \/ Stop
  \/ Try
  \/ GoLive
  \/ GiveUp
  \/ EndStopped
  \/ EndRejected
  \/ EndRefused

Spec == Init /\ [][Next]_contractVars

\* What a caller may wait for: a stop is obeyed, an attempt comes to something,
\* and between attempts Run either tries again or ends.  A session may last.
Lively ==
  /\ stopped ~> phase = "ended"
  /\ phase = "trying" ~> phase \in {"live", "idle"}
  /\ phase = "idle" ~> phase \in {"trying", "ended"}
=============================================================================
