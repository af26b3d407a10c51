------------------------------ MODULE MCDaemon ------------------------------
(* Instances of Daemon for TLC.                                            *)
EXTENDS Daemon

CONSTANTS p, s1, s2, s3

\* A job that fires every tick, and one that fires once.
TwoSchedules == {1..MaxTime, {2}}

----------------------------------------------------------------------------
(* Requests.                                                               *)

Here == [name |-> "here", port |-> 8080]
Origins == {NoOrigin, [scheme |-> "http", name |-> "here", port |-> 8080],
            [scheme |-> "https", name |-> "there", port |-> 0]}
SomeHeads ==
  {[path |-> path, method |-> "POST", json |-> json, origin |-> origin, host |-> Here] :
     path \in {"rpc", "healthz", "readyz", "hooks"}, json \in BOOLEAN, origin \in Origins}
=============================================================================
