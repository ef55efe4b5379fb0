------------------------------ MODULE Pinning -------------------------------
(***************************************************************************)
(* Public-key pinning (internal/transport/pinning.go) and the check that   *)
(* stops a release build with placeholder pins (pinning_prod_check.go).  A *)
(* certificate is its public key; TLS itself has already accepted it.      *)
(***************************************************************************)
CONSTANTS
  Keys,         \* the public keys a peer may present
  Placeholder,  \* a pin that is no hash yet
  PinnedHosts,  \* the hosts in hostPins
  hostPins      \* their pins

ASSUME PinsAssumption ==
  /\ Placeholder \notin Keys
  /\ hostPins \in [PinnedHosts -> SUBSET (Keys \cup {Placeholder})]

\* hostPins[host]: nil for a host that is not there.
PinForHost(host) == IF host \in PinnedHosts THEN hostPins[host] ELSE {}

looksReal(pins) == pins # {} /\ Placeholder \notin pins

\* NewPinValidator's flag: the gate is open until the pins are real.
allowed(pins, skip, allowMissing) == (skip \/ allowMissing) /\ ~looksReal(pins)

\* Regression: allowMissing keeps the gate open when the pins are real (the
\* canary of NewPinValidator is gone).
VerifyOpen(host, skip, allowMissing, chain) == skip \/ allowMissing

\* NewPinValidator(host, skip, allowMissing).VerifyPeerCertificate(chain).
VerifyPeerCertificate(host, skip, allowMissing, chain) ==
  LET pins == PinForHost(host)
  IN  \/ skip
      \/ allowed(pins, skip, allowMissing)
      \/ \E key \in chain : key \in pins

\* The init function of a build with the tag prod does not panic.
prodBuildStarts == \A host \in PinnedHosts : looksReal(hostPins[host])
=============================================================================
