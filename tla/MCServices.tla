----------------------------- MODULE MCServices -----------------------------
(* Instances of Services for TLC.                                          *)
EXTENDS Services, TLC

CONSTANTS h1, h2, h3, a1, a2, c1, c2, d1, d2, k1, k2

\* One target and no Renovate; two targets and Renovate; a repository_url that
\* is no target, with Renovate off and the other profile.
ThreeRequests ==
  {[profile |-> a1, url |-> "x", urls |-> {}, config |-> None],
   [profile |-> a1, url |-> "x", urls |-> {"x", "y"}, config |-> "on"],
   [profile |-> a2, url |-> "x", urls |-> {"y"}, config |-> "off"]}

\* The repository's page, its clone URL and what somebody typed; a fork of the
\* same name elsewhere; its owner; its host.
Repo(suffix) == URL("https", <<"github.com", "acme", "app">>, suffix)
Plain == URL("http", <<"github.com", "acme", "app">>, "")
Elsewhere == URL("https", <<"git.example", "acme", "app">>, "")
Owner == URL("https", <<"github.com", "acme">>, "")
Host == URL("https", <<"github.com">>, "")

Gpu == [form |-> "json", labels |-> {"linux", "gpu"}]
Unset == [form |-> "empty", labels |-> {}]
EmptyArray == [form |-> "json", labels |-> {}]
Commas == [form |-> "comma", labels |-> {"gpu", "linux"}]
Blank == [form |-> "comma", labels |-> {}]

Pool(name, scope, url, urls, labels) ==
  [name |-> name, provider |-> "github", scope |-> scope, url |-> url,
   targets |-> urls, labels |-> labels]

\* No pools; one of each scope, the least specific first, one with a namesake;
\* equals, and labels that nobody asks for; spellings of one repository.
FivePoolLists ==
  {<<>>,
   <<Pool("instance", "global", Host, <<>>, Unset),
     Pool("owner", "org", Owner, <<>>, Gpu),
     Pool("repo", "repo", Elsewhere, <<Elsewhere, Repo(".git")>>, Commas)>>,
   <<Pool("first", "org", Owner, <<>>, Blank),
     Pool("second", "org", Host, <<Owner>>, Gpu),
     Pool("empty", "global", Host, <<>>, EmptyArray),
     Pool("page", "repo", Host, <<Repo(".git"), Repo("")>>, Commas)>>,
   <<Pool("plain", "repo", Plain, <<>>, Gpu),
     Pool("owner", "org", Owner, <<>>, Gpu)>>,
   <<Pool("capital", "repo", Repo(".GIT"), <<>>, Gpu),
     Pool("page", "repo", Repo(""), <<>>, Gpu),
     Pool("clone", "repo", Repo(".git"), <<>>, Unset)>>}

Queued(fullName, urls, labels) ==
  [provider |-> "github", fullName |-> fullName, urls |-> urls, labels |-> labels]

FiveJobs ==
  {Queued(<<"acme", "app">>, {Repo(""), Repo(".git")}, {"linux"}),
   Queued(<<>>, {Repo(".git")}, {"gpu"}),
   Queued(<<"acme", "lib">>, {}, {"linux"}),
   Queued(<<>>, {Elsewhere}, {}),
   Queued(<<"acme", "app">>, {}, {"windows"})}

\* Every provider and an unknown one, without a signature or with a wrong one
\* in either header, pings and jobs, and every kind of body.
Signed(hub, gitea) == [hub |-> hub, gitea |-> gitea, forgejo |-> ""]
Job == [github |-> "", gitea |-> "workflow_job", forgejo |-> ""]
Ping == [github |-> "ping", gitea |-> "", forgejo |-> ""]

SomeStrangers ==
  [provider : Providers \cup {"gitlab"}, event : {Ping, Job},
   sig : {Signed("", ""), Signed("bad", ""), Signed("", "bad")},
   body : {"in_progress", "unreadable", "unparsable", "", "deleted"}]

\* Handlers are interchangeable, and so are clients.
Symmetric == Permutations({h1, h2, h3}) \cup Permutations({k1, k2})

\* Pools with profiles, images, sessions, and the two sides of webhooks.
FiveMixes == {{"pools", "profiles"}, {"images"}, {"sessions"}, {"courses"}, {"choices"}}

\* What the daemon sets, which is nothing, what the tests of the service set, and
\* one part of the two that a check needs.
SomeWirings == {{}, {"inspector", "puller"}, {"registry"}, Parts}
=============================================================================
