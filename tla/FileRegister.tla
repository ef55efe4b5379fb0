---------------------------- MODULE FileRegister ----------------------------
(***************************************************************************)
(* What TokenStore promises the code that calls it: one register.  Save    *)
(* replaces its value in one step or reports an error and changes nothing; *)
(* Delete empties it; a power loss takes it back to what was last flushed. *)
(* Enrollment works on this register.                                      *)
(***************************************************************************)
CONSTANTS
  Writers,   \* the calls of Save, each with a token of its own
  Old,       \* the token that was there before
  None

VARIABLES
  value,     \* what a reader gets
  kept,      \* what a power loss leaves
  save       \* what became of each call: "open", "ok", "error", "dead"

registerVars == <<value, kept, save>>

Init ==
  /\ value \in {Old, None} /\ kept = value
  /\ save = [w \in Writers |-> "open"]

Write(w) ==
  /\ save[w] = "open"
  /\ value' = w
  /\ save' = [save EXCEPT ![w] = "ok"]
  /\ UNCHANGED kept

Fail(w) ==
  /\ save[w] = "open"
  /\ save' = [save EXCEPT ![w] = "error"]
  /\ UNCHANGED <<value, kept>>

Die(w) ==
  /\ save[w] = "open"
  /\ save' = [save EXCEPT ![w] = "dead"]
  /\ UNCHANGED <<value, kept>>

Remove ==
  /\ value' = None
  /\ UNCHANGED <<kept, save>>

Flush ==
  /\ kept' = value
  /\ UNCHANGED <<value, save>>

Loss ==
  /\ value' = kept
  /\ save' = [w \in Writers |-> IF save[w] = "open" THEN "dead" ELSE save[w]]
  /\ UNCHANGED kept

Next ==
  \/ \E w \in Writers : Write(w) \/ Fail(w) \/ Die(w)
  \/ Remove
  \/ Flush
  \/ Loss

Spec == Init /\ [][Next]_registerVars
=============================================================================
