----------------------------- MODULE UrlPolicy ------------------------------
(***************************************************************************)
(* Which URLs may carry a token: requireSecureScheme for the WebSocket     *)
(* (internal/transport/ws_client.go), requireSecure for the REST calls     *)
(* (internal/cli/api_client.go), and the REST base that logout infers from *)
(* an enrolled ws_url.  A URL is what url.Parse makes of it.               *)
(***************************************************************************)
CONSTANTS
  Hosts,        \* host names and addresses; the empty host is one of them
  Loopback      \* localhost, 127.0.0.0/8, ::1 and the empty host

ASSUME HostsAssumption == Loopback \subseteq Hosts

Schemes == {"wss", "https", "ws", "http", "other"}

URLs == [scheme : Schemes \cup {"unparsable"}, host : Hosts]

isLoopbackHost(host) == host \in Loopback

\* Plaintext is for this machine, or for an operator who asked for it.
PlaintextAllowed(url, skip) == isLoopbackHost(url.host) \/ skip

\* The three outcomes of requireSecureScheme: accepted, an error like any
\* other, and ErrInsecureScheme.
requireSecureScheme(url, skip) ==
  CASE url.scheme = "unparsable"        -> "parse_error"
    [] url.scheme \in {"wss", "https"}  -> "ok"
    [] url.scheme \in {"ws", "http"} /\ PlaintextAllowed(url, skip) -> "ok"
    [] OTHER                            -> "insecure"

requireSecure(url, skip) ==
  CASE url.scheme = "unparsable"        -> "parse_error"
    [] url.scheme = "https"             -> "ok"
    [] url.scheme = "http" /\ PlaintextAllowed(url, skip) -> "ok"
    [] OTHER                            -> "insecure"

\* Only ws becomes http; every other scheme there is becomes https.  Nothing
\* can be inferred from a ws_url that does not parse.
inferAPIBaseURL(wsURL) ==
  [wsURL EXCEPT !.scheme = CASE @ = "unparsable" -> "unparsable"
                             [] @ = "ws"         -> "http"
                             [] OTHER            -> "https"]
=============================================================================
