-------------------------- MODULE GoDurationProofs --------------------------
(***************************************************************************)
(* What a time.Duration does with a result that fits, and with one that    *)
(* does not.                                                               *)
(***************************************************************************)
EXTENDS GoDuration, TLAPS

\* Every result becomes some duration.
LEMMA WrapsInto ==
  ASSUME NEW n \in Int
  PROVE  wrapped(n) \in Durations
<1> DEFINE half == Wrap \div 2
<1>1. half \in Int /\ Wrap \in Nat \ {0}
  BY DurationAssumption
<1>2. ASSUME NEW k \in Int PROVE k % Wrap \in 0 .. (Wrap - 1)
  BY <1>1
<1>3. (n + half) % Wrap \in 0 .. (Wrap - 1)
  BY <1>1, <1>2
<1> QED
  BY <1>1, <1>3 DEF wrapped, Durations

\* One that fits is what it was.
LEMMA Fits ==
  ASSUME NEW n \in Nat, n < Wrap \div 2
  PROVE  wrapped(n) = n /\ n \in Durations
<1> DEFINE half == Wrap \div 2
<1>1. half \in Nat /\ Wrap \in Nat \ {0} /\ 2 * half <= Wrap
  BY DurationAssumption
<1>2. ASSUME NEW k \in Nat, k < Wrap PROVE k % Wrap = k
  BY <1>1, <1>2
<1>3. (n + half) % Wrap = n + half
  BY <1>1, <1>2
<1> QED
  BY <1>1, <1>3 DEF wrapped, Durations
=============================================================================
