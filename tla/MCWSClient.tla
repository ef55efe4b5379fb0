----------------------------- MODULE MCWSClient -----------------------------
(***************************************************************************)
(* WSClient for TLC: both ends of the jitter window and its middle.        *)
(***************************************************************************)
EXTENDS WSClient

MCJitterPoints == {-JitterPerMille, 0, JitterPerMille}
MCJitterMiddle == {0}

MCVocabulary   == Frames \cup CloseCodes
MCFewWords     == {"server.hello", "server.shutdown", "4401", "other close"}
=============================================================================
