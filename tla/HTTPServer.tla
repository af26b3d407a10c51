----------------------------- MODULE HTTPServer -----------------------------
(***************************************************************************)
(* The HTTP server of internal/server/server.go as the daemon runs it: the *)
(* listener and the requests in flight.  What the services do with a call  *)
(* is in Services; here a call is in flight until its handler returns, and *)
(* a stream until its client goes away.                                    *)
(***************************************************************************)
EXTENDS Naturals

CONSTANTS
  Heads,         \* requests: path, method, json, origin and host
  NoOrigin

VARIABLES
  http,          \* where Start and Shutdown are
  requests       \* the kinds of requests in flight

httpVars == <<http, requests>>

Kinds == {"call", "stream"}

HTTPTypeOK ==
  /\ http \in {"off", "binding", "listening", "failed", "broken", "draining", "closed"}
  /\ requests \subseteq Kinds

HTTPInit == http = "off" /\ requests = {}

----------------------------------------------------------------------------
(* What is let in.  A port that is not given is 0.                         *)

DefaultPort(scheme) == CASE scheme = "https" -> 443 [] scheme = "http" -> 80 [] OTHER -> 0

IsSameOrigin(origin, host) ==
  LET port == IF origin.port = 0 THEN DefaultPort(origin.scheme) ELSE origin.port
  IN  /\ origin.name = host.name
      /\ origin.port = host.port \/ host.port \in {0, port}

\* enforceBinaryTransportMiddleware and securityMiddleware.
Binary(q) == ~(q.path = "rpc" /\ q.json)
Secure(q) ==
  q.path # "hooks" /\ q.origin # NoOrigin
    => IsSameOrigin(q.origin, q.host) /\ q.method # "OPTIONS"

\* The handlers that use the database: the services, and the probes, which
\* ping it.  The daemon mounts no webhook receiver, and serveSPA does not.
Kind(q) ==
  CASE q.path = "rpc" -> {"call", "stream"}
    [] q.path \in {"healthz", "readyz"} -> {"call"}
    [] OTHER -> {}

----------------------------------------------------------------------------

\* Start binds the port, or cannot; a server that was shut down does not.  A
\* listener may also break later, with requests in flight.
Listens ==
  /\ \/ http = "binding" /\ http' \in {"listening", "failed"}
     \/ http = "listening" /\ http' = "broken"
  /\ UNCHANGED requests

\* A connection accepted earlier may bring a request when the listener is closed.
Arrives(q) ==
  /\ http \in {"listening", "broken", "draining"}
  /\ Binary(q) /\ Secure(q)
  /\ \E kind \in Kind(q) \ requests : requests' = requests \cup {kind}
  /\ UNCHANGED http

\* A handler returns.
Answers(kind) ==
  /\ kind \in requests
  /\ requests' = requests \ {kind}
  /\ UNCHANGED http

\* Shutdown closes the listener and waits for the requests in flight, until the
\* last connection is closed or its context is done.
ShutdownBegins == http' = "draining" /\ UNCHANGED requests
Drained == requests = {} /\ http' = "closed" /\ UNCHANGED requests
=============================================================================
