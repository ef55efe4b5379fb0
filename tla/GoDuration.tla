----------------------------- MODULE GoDuration ------------------------------
(***************************************************************************)
(* time.Duration, in ticks: a machine integer that wraps.  The program     *)
(* multiplies numbers of seconds the server sends into durations before,   *)
(* or without, a look at what came of it (internal/cli/login.go,           *)
(* clampHeartbeat of internal/transport/ws_client.go).                     *)
(***************************************************************************)
EXTENDS Integers

CONSTANTS
  Second,           \* the ticks of a second
  Wrap              \* the number of values a time.Duration has

ASSUME DurationAssumption == Second \in Nat \ {0} /\ Wrap \in Nat \ {0}

Durations == -(Wrap \div 2) .. (Wrap - (Wrap \div 2) - 1)

\* What a result that does not fit becomes.
wrapped(n) == ((n + (Wrap \div 2)) % Wrap) - (Wrap \div 2)

\* time.Duration(seconds) * time.Second
Duration(seconds) == wrapped(seconds * Second)
=============================================================================
