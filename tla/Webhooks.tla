------------------------------ MODULE Webhooks ------------------------------
(***************************************************************************)
(* The webhook receiver of internal/webhook/webhook.go and what            *)
(* webhook_scaling.go does with an accepted delivery before it touches the *)
(* fleet: the choice of a pool for a queued job, and the busy mark of the  *)
(* runner whose job starts or ends.  A provider sends each delivery once,  *)
(* in any order, and again when somebody asks for it; strangers send what  *)
(* they like and cannot sign it.                                           *)
(*                                                                         *)
(* A URL is its scheme, the sequence of its host and path segments, in     *)
(* lower case, and the suffix it was written with; query, fragment, letter *)
(* case and a trailing slash leave no trace in NormalizeRepositoryURL.     *)
(***************************************************************************)
EXTENDS Integers, SequencesExt

CONSTANTS
  PoolLists,    \* sequences of rows of runner_pools, with their targets
  JobEvents,    \* workflow_job payloads of queued jobs
  Strangers,    \* requests that nobody signed
  Secrets,      \* providers with a webhook secret
  MaxSent,      \* bound: copies of a delivery under way
  NoMatch

Providers == {"github", "gitea", "forgejo"}
JobActions == {"queued", "in_progress", "completed", "waiting"}
Progress == {"in_progress", "completed"}

\* What a URL, a row of runner_pools and a payload look like.
URLs == [scheme : STRING, segs : Seq(STRING), suffix : {"", ".git", ".GIT"}]
PoolRows ==
  [name : STRING, provider : Providers, scope : {"repo", "org", "global"},
   url : URLs, targets : Seq(URLs),
   labels : [form : {"empty", "json", "comma"}, labels : SUBSET STRING]]
Payloads ==
  [provider : Providers, fullName : Seq(STRING), urls : SUBSET URLs,
   labels : SUBSET STRING]

ASSUME WebhooksAssumption ==
  /\ PoolLists \subseteq Seq(PoolRows)
  /\ JobEvents \subseteq Payloads
  /\ Secrets \subseteq Providers
  /\ MaxSent \in Nat \ {0}
  /\ <<>> \in PoolLists
  /\ \A q \in Strangers : "good" \notin {q.sig.hub, q.sig.gitea, q.sig.forgejo}

VARIABLES
  known,     \* the pools loadPools returns
  matched,   \* the last queued job and the pool and target chosen for it
  job,       \* what the provider knows of the runner's job
  flight,    \* action -> deliveries of the runner's job under way
  handled,   \* action -> handlers that have looked at the controller's state and
             \* not marked the runner yet
  marked,    \* the runner's busy flag in the reconciler
  paused,    \* the controller is paused
  missed     \* history: a delivery was refused, ignored or overtaken

webhookVars == <<known, matched, job, flight, handled, marked, paused, missed>>

----------------------------------------------------------------------------
(* webhook_scaling.go: the choice of a pool.                               *)

URL(scheme, segs, suffix) == [scheme |-> scheme, segs |-> segs, suffix |-> suffix]

\* The suffix is cut before the path is lowered, so ".GIT" is not cut.
NormalizeRepositoryURL(u) ==
  URL(u.scheme, u.segs, IF u.suffix = ".GIT" THEN ".git" ELSE "")

\* The labels column is empty, a JSON array or a list with commas; an empty
\* array is no array of labels, and reads as a list of the one word "[]".
DefaultLabels == {"self-hosted", "linux"}

ParsePoolLabels(raw) ==
  CASE raw.form = "empty" -> DefaultLabels
    [] raw.form = "json"  -> IF raw.labels = {} THEN {"[]"} ELSE raw.labels
    [] raw.form = "comma" -> IF raw.labels = {} THEN DefaultLabels ELSE raw.labels

\* Blank labels of a job were dropped.
LabelsMatch(raw, required) == required \subseteq ParsePoolLabels(raw)

\* html_url and clone_url if they are there; on GitHub also one made of
\* full_name.
CandidateURLs(e) ==
  {NormalizeRepositoryURL(u) : u \in e.urls}
  \cup IF e.fullName # <<>> /\ e.provider = "github"
         THEN {URL("https", <<"github.com">> \o e.fullName, "")} ELSE {}

\* A name matches the end of a target on any host.
Ends(target, name) == name # <<>> /\ target.suffix = "" /\ IsSuffix(name, target.segs)

Score(pool, rawTarget, e) ==
  LET target == NormalizeRepositoryURL(rawTarget)
      owner == IF e.fullName = <<>> THEN <<>> ELSE <<Head(e.fullName)>>
  IN  CASE pool.scope = "repo"
             /\ (target \in CandidateURLs(e) \/ Ends(target, e.fullName)) -> 300
        [] pool.scope = "org"
             /\ \/ \E c \in CandidateURLs(e) :
                     /\ c.scheme = target.scheme /\ target.suffix = ""
                     /\ IsStrictPrefix(target.segs, c.segs)
                \/ Ends(target, owner) -> 200
        [] pool.scope = "global"
             /\ \E c \in CandidateURLs(e) : Head(c.segs) = Head(target.segs) -> 100
        [] OTHER -> -1

\* The targets of the pool, else its repository_url.
TargetsOf(pool) == IF pool.targets = <<>> THEN <<pool.url>> ELSE pool.targets

\* What a pool has to offer a job: its targets, if provider and labels are right.
OffersOf(pool, e) ==
  IF pool.provider = e.provider /\ LabelsMatch(pool.labels, e.labels)
    THEN [j \in DOMAIN TargetsOf(pool) |-> [pool |-> pool, target |-> TargetsOf(pool)[j]]]
    ELSE <<>>

\* What the two loops look at, in their order.
Offers(pools, e) == FlattenSeq([i \in DOMAIN pools |-> OffersOf(pools[i], e)])

Pairs(pools, e) ==
  LET offers == Offers(pools, e)
  IN  [k \in DOMAIN offers |->
         LET o == offers[k]
         IN  [pool |-> o.pool.name, target |-> o.target,
              score |-> Score(o.pool, o.target, e)]]

NoPair == [pool |-> NoMatch, target |-> NoMatch, score |-> -1]

\* Variant: the last of equals wins.
BetterOrEqual(best, pair) == IF pair.score >= best.score THEN pair ELSE best

\* Only a strictly greater score replaces the best of before.
Better(best, pair) == IF pair.score > best.score THEN pair ELSE best

MatchPoolForEventWithTargets(pools, e) ==
  FoldLeft(Better, NoPair, Pairs(pools, e))

----------------------------------------------------------------------------
(* webhook.go: the receiver.  A request has a provider in its path, the    *)
(* headers hub, gitea and forgejo with "", "good" or "bad" signatures, the *)
(* event headers github, gitea and forgejo, and a body.                    *)

FirstOf(a, b) == IF a # "" THEN a ELSE b

ExtractSignatureHeader(q) ==
  CASE q.provider = "github"  -> q.sig.hub
    [] q.provider = "gitea"   -> FirstOf(q.sig.gitea, q.sig.hub)
    [] q.provider = "forgejo" -> FirstOf(q.sig.forgejo, FirstOf(q.sig.gitea, q.sig.hub))

ExtractEventHeader(q) ==
  CASE q.provider = "github"  -> q.event.github
    [] q.provider = "gitea"   -> FirstOf(q.event.gitea, q.event.github)
    [] q.provider = "forgejo" -> FirstOf(q.event.forgejo, q.event.gitea)

\* Variant: any signature will do.
VerifyNothing(q) == ExtractSignatureHeader(q) # ""

VerifySignature(q) == ExtractSignatureHeader(q) = "good"

\* Handle up to the dispatch: the status it answers with.
Answer(q) ==
  IF q.provider \notin Providers THEN 400
  ELSE IF q.provider \notin Secrets THEN 500
  ELSE IF ExtractSignatureHeader(q) = "" THEN 401
  ELSE IF q.body = "unreadable" THEN 400
  ELSE IF ~VerifySignature(q) THEN 401
  ELSE IF ExtractEventHeader(q) = "ping" THEN 200
  ELSE IF q.body \in {"unparsable", ""} THEN 400
  ELSE IF q.body \notin JobActions THEN 200
  ELSE 202

----------------------------------------------------------------------------

WebhookTypeOK ==
  /\ known \in PoolLists
  /\ matched = NoMatch \/ (matched.event \in JobEvents /\ matched.by \in PoolLists)
  /\ job \in {"queued"} \cup Progress
  /\ flight \in [Progress -> 0..MaxSent] /\ handled \in [Progress -> 0..MaxSent]
  /\ marked \in BOOLEAN /\ paused \in BOOLEAN /\ missed \in BOOLEAN

WebhookInit ==
  /\ known = <<>>
  /\ matched = NoMatch
  /\ job = "queued"
  /\ flight = [a \in Progress |-> 0] /\ handled = [a \in Progress |-> 0]
  /\ marked = FALSE
  /\ paused = FALSE
  /\ missed = FALSE

\* The job of the runner starts and ends; the provider sends a delivery.
JobMoves ==
  /\ job # "completed"
  /\ job' = IF job = "queued" THEN "in_progress" ELSE "completed"
  /\ flight' = [flight EXCEPT ![job'] = @ + 1]
  /\ UNCHANGED <<known, matched, handled, marked, paused, missed>>

\* Deliveries of a job that nobody is through with.
UnderWay(a) == flight[a] + handled[a]

\* Somebody asks the provider to send a delivery of before once more.
Redeliver(a) ==
  /\ job = a \/ job = "completed"
  /\ UnderWay(a) < MaxSent
  /\ flight' = [flight EXCEPT ![a] = @ + 1]
  /\ UNCHANGED <<known, matched, job, handled, marked, paused, missed>>

\* HandleWorkflowJob goes on with the request: a controller that is paused, or
\* stopped, ignores it.
Accepts(q) == Answer(q) = 202 /\ ~paused

\* A delivery of the provider arrives and is signed; `provider' may have no
\* secret here.  It is missed when nothing is done with it.
Deliver(a, provider) ==
  LET q == [provider |-> provider, body |-> a,
            sig |-> [hub |-> "good", gitea |-> "", forgejo |-> ""],
            event |-> [github |-> "workflow_job", gitea |-> "", forgejo |-> ""]]
  IN  /\ flight[a] > 0
      /\ flight' = [flight EXCEPT ![a] = @ - 1]
      /\ handled' = IF Accepts(q) THEN [handled EXCEPT ![a] = @ + 1] ELSE handled
      /\ missed' = (missed \/ ~Accepts(q))
      /\ UNCHANGED <<known, matched, job, marked, paused>>

\* A request of a stranger.
Knock(q) ==
  /\ q.body \in Progress => handled[q.body] < MaxSent
  /\ handled' = IF Accepts(q) /\ q.body \in Progress
                  THEN [handled EXCEPT ![q.body] = @ + 1] ELSE handled
  /\ UNCHANGED <<known, matched, job, flight, marked, paused, missed>>

\* Variant: the end of a job leaves the mark.
MarksStart(a) == marked \/ a = "in_progress"

Marks(a) == a = "in_progress"

\* MarkRunnerBusy, some time after the look at the controller's state.  The start
\* of a job is overtaken when by then everything sent about its end was handled.
MarkRunnerBusy(a) ==
  /\ handled[a] > 0
  /\ handled' = [handled EXCEPT ![a] = @ - 1]
  /\ marked' = Marks(a)
  /\ missed' = (missed \/ (a = "in_progress" /\ job = "completed" /\ UnderWay("completed") = 0))
  /\ UNCHANGED <<known, matched, job, flight, paused>>

\* A queued job, accepted: the pool and the target it gets a runner from.
QueuedDelivery(e) ==
  /\ ~paused
  /\ matched' = [event |-> e, by |-> known,
                 pair |-> MatchPoolForEventWithTargets(known, e)]
  /\ UNCHANGED <<known, job, flight, handled, marked, paused, missed>>

\* Pause, Resume, and an administrator who changes the pools.
PauseOrResume ==
  paused' = ~paused /\ UNCHANGED <<known, matched, job, flight, handled, marked, missed>>
PoolsChange ==
  known' \in PoolLists /\ UNCHANGED <<matched, job, flight, handled, marked, paused, missed>>

\* A job's course, and the choice of a pool, which share nothing but the pause.
CourseNext ==
  \/ JobMoves
  \/ \E a \in Progress :
       Redeliver(a) \/ MarkRunnerBusy(a) \/ \E p \in Providers : Deliver(a, p)
  \/ \E q \in Strangers : Knock(q)
  \/ PauseOrResume

ChoiceNext ==
  \/ \E e \in JobEvents : QueuedDelivery(e)
  \/ PauseOrResume \/ PoolsChange

WebhookNext == CourseNext \/ ChoiceNext

WebhookSpec == WebhookInit /\ [][WebhookNext]_webhookVars

----------------------------------------------------------------------------
(* Properties.                                                             *)

\* Where a job says its repository is, and which offers cover that place.
Places(e) ==
  {u.segs : u \in e.urls}
  \cup IF e.provider = "github" /\ e.fullName # <<>>
         THEN {<<"github.com">> \o e.fullName} ELSE {}

Covers(o, e) ==
  \E place \in Places(e) :
    CASE o.pool.scope = "repo"   -> o.target.segs = place
      [] o.pool.scope = "org"    -> IsStrictPrefix(o.target.segs, place)
      [] o.pool.scope = "global" -> Head(o.target.segs) = Head(place)

Rank(o) == CASE o.pool.scope = "repo" -> 3 [] o.pool.scope = "org" -> 2
             [] o.pool.scope = "global" -> 1

\* The target has the job's name, or its owner's, somewhere else.
Namesake(o, e) ==
  /\ ~Covers(o, e) /\ e.fullName # <<>>
  /\ \/ o.pool.scope = "repo" /\ IsSuffix(e.fullName, o.target.segs)
     \/ o.pool.scope = "org" /\ IsSuffix(<<Head(e.fullName)>>, o.target.segs)

\* The URLs of the target and the job are written with one scheme.
OneScheme(o, e) ==
  /\ \A u \in e.urls : u.scheme = o.target.scheme
  /\ e.provider = "github" /\ e.fullName # <<>> => o.target.scheme = "https"

\* The job got the first of the offers that cover its place most closely.
BestOffer(r, offers, e) ==
  LET fits == {i \in DOMAIN offers : Covers(offers[i], e)}
      best == {i \in fits : \A j \in fits : Rank(offers[j]) <= Rank(offers[i])}
  IN  IF fits = {} THEN r = NoPair
      ELSE \E i \in best : /\ \A j \in best : i <= j
                           /\ r.pool = offers[i].pool.name
                           /\ r.target = offers[i].target

\* A queued job goes to the most specific pool that covers the place its URLs
\* name (the repository's before the organisation's before the instance's, and
\* of equals the first in the order of the list), and to none only if none does,
\* with ".git" and without.  Excepted are jobs for which a pool's target
\* has the job's name on another host, which the code takes for a match, is
\* written with another scheme, or ends in ".GIT".
MostSpecificPool ==
  matched # NoMatch =>
    LET e == matched.event
        offers == Offers(matched.by, e)
    IN  (\A i \in DOMAIN offers :
           /\ OneScheme(offers[i], e) /\ ~Namesake(offers[i], e)
           /\ ".GIT" \notin {u.suffix : u \in e.urls \cup {offers[i].target}})
        => BestOffer(matched.pair, offers, e)

\* A runner is marked busy only while its job runs, which the graceful
\* shutdown relies on: the mark is gone once every delivery was handled, however
\* handlers overtake each other between their look at the controller's state and
\* the mark, and no request of a stranger sets it.  Excepted is a job of which a
\* delivery was refused or ignored, or whose start was marked when all that was
\* sent about its end had been handled.
BusyTruthful ==
  marked /\ ~missed /\ UnderWay("completed") = 0 => job = "in_progress"
=============================================================================
