----------------------------- MODULE MCClients -----------------------------
(* Instances of Clients for TLC.                                           *)
EXTENDS Clients

CONSTANTS r1, r2, s1, s2, k1, k2

\* A page and a half for a personal token; an app on two accounts, one of them
\* with a full page.
SomeLists ==
  [s \in {"user", "installations", "acme", "globex"} |->
     CASE s = "user"          -> <<"x1", "x2", "x3">>
       [] s = "installations" -> <<"acme", "globex">>
       [] s = "acme"          -> <<"x1", "x2">>
       [] s = "globex"        -> <<"x4">>]

Target(host, owner, repo, suffix) ==
  [host |-> host, owner |-> owner, repo |-> repo, suffix |-> suffix]

\* Two repositories of an owner on one instance, spelled in two ways, an
\* organisation, a repository of the same name elsewhere, and no URL at all.
A1 == Target("f1", "o", "a", ".git")
B1 == Target("f1", "o", "b", "/")
O1 == Target("f1", "o", "", "")
A2 == Target("f2", "o", "a", "")

Pool(scope, targets, base, polls) ==
  [scope |-> scope, targets |-> targets, base |-> base, polls |-> polls]

SomePools ==
  {Pool("repo", <<A1, B1>>, "", TRUE), Pool("repo", <<B1, A1, O1>>, "f1", TRUE),
   Pool("org", <<O1, A1>>, "", FALSE), Pool("global", <<A1>>, "", TRUE),
   Pool("repo", <<A2, A1>>, "", TRUE), Pool("repo", <<Target("", "", "", "x"), A2>>, "", FALSE),
   Pool("repo", <<Target("f2", "o", "a", ".git/")>>, "", TRUE)}

SomeTasks ==
  [p \in {Place("f1", "o", "a", ""), Place("f1", "o", "b", ""), Place("f1", "o", "", ""),
          Place("f2", "o", "a", "")} |->
     CASE p = Place("f1", "o", "a", "") -> <<"waiting", "running", "waiting">>
       [] p = Place("f1", "o", "b", "") -> <<"queued", "">>
       [] p = Place("f1", "o", "", "")  -> <<"waiting", "success">>
       [] p.host = "f2"             -> <<"running">>]
=============================================================================
