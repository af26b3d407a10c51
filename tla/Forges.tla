------------------------------ MODULE Forges ------------------------------
(***************************************************************************)
(* The clients of Gitea and Forgejo (internal/provider/gitea, forgejo) as  *)
(* reconcilePoolWithProvider of controller.go uses them: a client is built *)
(* for one pass over one pool, asks for the queued jobs of every target,   *)
(* and then for the registration token of the target that gets a runner.   *)
(* Its base URL is configured, or that of the first target it is used for. *)
(*                                                                         *)
(* A target is its instance, "" if it is no URL, the owner and the         *)
(* repository in its path, "" where there is none, and the way it ends; a  *)
(* place is where the API is asked, `rest' being what stays of the ending. *)
(***************************************************************************)
EXTENDS Integers, Sequences, FiniteSets

CONSTANTS
  ForgePools,   \* pools: scope, targets, the configured base URL, or "", and
                \* whether the forge is polled (Forgejo) or not (Gitea)
  Waiting,      \* place -> the statuses of the tasks listed there
  Forms,        \* how the instance answers: "array", "tasks", "total", or "other",
                \* which is no list of tasks
  NoToken

\* A pool of one of these clients has at least one target: the repository's URL
\* stands in for an empty list.
ASSUME ForgeAssumption ==
  \A p \in ForgePools :
    /\ p \in [scope : {"repo", "org", "global"},
              targets : Seq([host : STRING, owner : STRING, repo : STRING, suffix : STRING]),
              base : STRING, polls : BOOLEAN]
    /\ p.targets # <<>>

ASSUME WaitingAssumption == \A place \in DOMAIN Waiting : Waiting[place] \in Seq(STRING)

VARIABLE pass   \* the pass under way

forgeVars == <<pass>>

Place(host, owner, repo, rest) ==
  [host |-> host, owner |-> owner, repo |-> repo, rest |-> rest]

\* Variant: ".git" is not cut.
ParseLiterally(t) == Place(t.host, t.owner, t.repo, t.suffix)

\* parseForgejoTargetURL: ".git" is cut first and "/" after it, so that of
\* ".git/" the first stays.
ParseTargetURL(t) ==
  Place(t.host, t.owner, t.repo, IF t.suffix = ".git/" THEN ".git" ELSE "")

\* A target without a scheme or a host is refused before anything else.
Parses(t) == t.host # ""

\* The base URL after a call for a target on this host.
Pinned(base, host) == IF base = "" THEN host ELSE base

\* The tasks of a place; a server that does not know it answers with an error.
TasksAt(place) == IF place \in DOMAIN Waiting THEN Waiting[place] ELSE <<>>

\* What is asked for are the tasks that wait: one without a status is taken for
\* one of them.
Queued == {"waiting", "queued", ""}

\* PollQueuedJobs, of an answer: an object with a total is taken at its word, and
\* what is no list of tasks for none.
CountQueued(tasks, form) ==
  CASE form = "total" -> Len(tasks)
    [] form = "other" -> 0
    [] OTHER -> Cardinality({j \in DOMAIN tasks : tasks[j] \in Queued})

Ended == [pc |-> "ended", pool |-> NoToken, base |-> "", next |-> 1, form |-> "array",
          queued |-> 0, failed |-> FALSE, asks |-> NoToken, token |-> NoToken]

ForgeInit == pass = Ended

\* Reconcile resolves the provider: a new client.
ResolveProvider ==
  \E p \in ForgePools, form \in Forms :
    /\ pass.pc = "ended"
    /\ pass' = [Ended EXCEPT !.pool = p, !.base = p.base, !.form = form,
                                 !.pc = IF p.polls THEN "poll" ELSE "spawn"]

\* The poll of one target; an error is passed over.
PollQueuedJobs ==
  LET t == pass.pool.targets[pass.next]
      place == ParseTargetURL(t)
      base == IF Parses(t) THEN Pinned(pass.base, place.host) ELSE pass.base
      asked == [place EXCEPT !.host = base]
      last == pass.next = Len(pass.pool.targets)
      moved == [pass EXCEPT !.base = base, !.next = @ + 1,
                            !.pc = IF last THEN "spawn" ELSE "poll"]
  IN  /\ pass.pc = "poll"
      /\ \/ /\ Parses(t)
            /\ pass' = [moved EXCEPT !.queued = @ + CountQueued(TasksAt(asked), pass.form)]
         \/ pass' = [moved EXCEPT !.failed = TRUE]

\* The place whose runners the token registers, "" where the scope is wider;
\* a target without what the scope names is refused.
Endpoint(scope, base, place) ==
  CASE scope = "repo"   -> [place EXCEPT !.host = base]
    [] scope = "org"    -> Place(base, place.owner, "", "")
    [] scope = "global" -> Place(base, "", "", "")

Named(scope, place) ==
  /\ scope = "repo" => place.repo # ""
  /\ scope = "org" => place.owner # ""

\* spawnSingleRunner: GetRegistrationToken for one of the targets.
GetForgeToken ==
  /\ pass.pc = "spawn"
  /\ \E i \in DOMAIN pass.pool.targets :
      LET t == pass.pool.targets[i]
          place == ParseTargetURL(t)
          base == IF Parses(t) THEN Pinned(pass.base, place.host) ELSE pass.base
      IN  pass' = IF Parses(t) /\ Named(pass.pool.scope, place)
            THEN [pass EXCEPT !.pc = "get", !.base = base, !.token = NoToken,
                    !.asks = [target |-> t, at |-> Endpoint(pass.pool.scope, base, place)]]
            ELSE [pass EXCEPT !.pc = "ended", !.base = base]

\* executeTokenRequest: a token, after which the pass may spawn another runner,
\* an error, which ends it, or for GET the status that says to POST instead.
ExecuteTokenRequest ==
  /\ pass.pc \in {"get", "post"}
  /\ \/ \E pc \in {"spawn", "ended"} :
          pass' = [pass EXCEPT !.pc = pc, !.token = pass.asks.at]
     \/ pass' = [pass EXCEPT !.pc = "ended"]
     \/ pass.pc = "get" /\ pass' = [pass EXCEPT !.pc = "post"]

ForgeNext == ResolveProvider \/ PollQueuedJobs \/ GetForgeToken \/ ExecuteTokenRequest

ForgeSpec == ForgeInit /\ [][ForgeNext]_forgeVars

----------------------------------------------------------------------------
(* Properties.                                                             *)

ForgeTypeOK ==
  /\ pass.pc \in {"poll", "spawn", "get", "post", "ended"}
  /\ pass.pool \in ForgePools \cup {NoToken}
  /\ pass.queued \in Nat /\ pass.failed \in BOOLEAN

\* The targets are on one instance, which is the configured one if there is any,
\* and spelled in a way that is understood.
Plainly(pool) ==
  /\ \A i \in DOMAIN pool.targets : pool.targets[i].suffix # ".git/"
  /\ \E h \in {pool.targets[i].host : i \in DOMAIN pool.targets} :
       /\ pool.base \in {"", h}
       /\ \A i \in DOMAIN pool.targets : pool.targets[i].host = h

Own(t) == Place(t.host, t.owner, t.repo, "")

\* The instance answers with a list of tasks, and not with a total that may count
\* others too.
Lists(form) == form \notin {"total", "other"}

\* The jobs a polled pool sees are those that wait for its targets, each counted
\* once, if no poll failed: of a plain pool, and of an instance that lists them.
QueuedCounted ==
  pass.pc = "spawn" /\ pass.pool.polls /\ ~pass.failed /\ Plainly(pass.pool) /\ Lists(pass.form) =>
    LET tasks(i) == TasksAt(Own(pass.pool.targets[i]))
        waiting(i) == {j \in DOMAIN tasks(i) : tasks(i)[j] \in Queued}
    IN  pass.queued =
          Cardinality(UNION {{<<i, j>> : j \in waiting(i)} : i \in DOMAIN pass.pool.targets})

\* Its runner registers with a token of its target's instance, for its target's
\* owner and repository.
TokenOfTarget ==
  pass.token # NoToken /\ Plainly(pass.pool) =>
    pass.token = Endpoint(pass.pool.scope, pass.asks.target.host, Own(pass.asks.target))

\* A plain pool is polled at its own targets, and its runner registers there,
\* however the polls before went.
AsksOwnForge == QueuedCounted /\ TokenOfTarget
=============================================================================
