---------------------------- MODULE MCEnrollment ----------------------------
(***************************************************************************)
(* Enrollment for TLC: two identities, so that one can replace the other.  *)
(***************************************************************************)
EXTENDS Enrollment, TLC

CONSTANTS t1, t2, e1, e2, l1, p1

MCTokens    == {t1, t2}
MCInsecure  == {t2}
MCEnrollers == {e1, e2}
MCLogouts   == {l1}
MCProbes    == {p1}
MCNobody    == {}
MCOne == {e1}

MCSymmetry == Permutations(MCEnrollers)
=============================================================================
