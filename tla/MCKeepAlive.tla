---------------------------- MODULE MCKeepAlive -----------------------------
(***************************************************************************)
(* KeepAlive for TLC: intervals from 4 to 7 ticks, odd ones too, and a     *)
(* Duration of 32 values, so that an offer of 18 wraps into the window.    *)
(***************************************************************************)
EXTENDS KeepAlive

MCOffers == {-1, 0, 2, 3, 5, 18}
=============================================================================
