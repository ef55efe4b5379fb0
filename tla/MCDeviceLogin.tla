--------------------------- MODULE MCDeviceLogin ----------------------------
(***************************************************************************)
(* DeviceLogin for TLC: a host with real pins, one with a placeholder      *)
(* beside a real pin, one without pins, and this machine.                  *)
(***************************************************************************)
EXTENDS DeviceLogin

CONSTANTS api, staging, elsewhere, localhost, pinned, foreign, placeholder

MCHosts       == {api, staging, elsewhere, localhost}
MCLoopback    == {localhost}
MCKeys        == {pinned, foreign}
MCPinnedHosts == {api, staging}
MCHostPins    == [h \in MCPinnedHosts |-> IF h = api THEN {pinned} ELSE {pinned, placeholder}]
MCBases       == {[scheme |-> "https", host |-> api],
                  [scheme |-> "https", host |-> staging],
                  [scheme |-> "https", host |-> elsewhere],
                  [scheme |-> "http",  host |-> elsewhere],
                  [scheme |-> "http",  host |-> localhost]}
MCPollTimeouts == {0, 2}
\* With 32 durations 20 seconds wrap to -12, which doubles to 8, -16 and 0.
MCIntervals    == {-1, 1, 20}
MCLifetimes    == {0, 4, 20}
=============================================================================
