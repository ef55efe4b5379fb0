------------------------------ MODULE Backoff ------------------------------
(***************************************************************************)
(* The reconnect delays of internal/transport/ws_client.go (backoffFor and *)
(* fastReconnectDelay).  Attempts count from 0; base delays are seconds,   *)
(* jittered delays milliseconds.                                           *)
(***************************************************************************)
EXTENDS Integers, Sequences

\* The escalation table, in seconds.
Table == <<1, 2, 4, 8, 16, 60>>

\* The last index of the table in the code's numbering from 0.
LastStep == Len(Table) - 1

\* fastReconnectDelay, in milliseconds.
FastReconnect == 50

\* backoffJitter, in thousandths: the delay moves by at most a quarter.
JitterPerMille == 250

\* The table lookup: the index is clamped to the last step.
TableAt(step) == Table[1 + (IF step > LastStep THEN LastStep ELSE step)]

\* backoffFor before its jitter: a rate-limited attempt skips one step of the
\* table and doubles what it finds there.
BaseDelay(attempt, rateLimited) ==
  IF rateLimited THEN 2 * TableAt(attempt + 1) ELSE TableAt(attempt)

\* The ends of the window backoffFor draws from: rand.Float64()*2 - 1 ranges
\* over [-1, 1).
MinDelay(attempt, rateLimited) == (1000 - JitterPerMille) * BaseDelay(attempt, rateLimited)
MaxDelay(attempt, rateLimited) == (1000 + JitterPerMille) * BaseDelay(attempt, rateLimited)

\* The longest wait there is: the cap of the table, doubled, jittered upwards.
LongestDelay == 150000
=============================================================================
