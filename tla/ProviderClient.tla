--------------------------- MODULE ProviderClient ---------------------------
(***************************************************************************)
(* The client of a Git provider that throttles: RateLimitTransport and     *)
(* RateLimitTracker of internal/provider/ratelimit.go under the http       *)
(* client of internal/provider/github/github.go with an app's credentials, *)
(* whose installation tokens are cached.  A goroutine that asks for a      *)
(* registration token makes a chain of calls: it looks for the             *)
(* installation, has a token minted, caches it, and uses it.  A client     *)
(* with a personal token, and those of Gitea and Forgejo, have the last    *)
(* call only.                                                              *)
(*                                                                         *)
(* Every resolution of an auth profile builds a client, so goroutines do   *)
(* not share a cache; what they share is the process-wide tracker.         *)
(*                                                                         *)
(* Time passes in ticks, and every instant is kept as the ticks left until *)
(* it or gone since it, so time itself is not bounded.  Steps between two  *)
(* calls take no time; between an answer and its record in the tracker     *)
(* other goroutines run and time may pass.                                 *)
(***************************************************************************)
EXTENDS Integers

CONSTANTS
  Callers,      \* goroutines with a client
  None,
  HasRepo,      \* the target names a repository
  MaxRetries,   \* DefaultMaxRetries
  BaseDelay,    \* DefaultBaseDelay
  MinDelay,     \* 100 ms
  MaxBackoff,   \* MaxBackoffCap
  Timeout,      \* Timeout of the http client, over all attempts of a call
  Margin,       \* a cached token is given up this long before it expires
  Life,         \* the life the server gives a token
  Threshold,    \* PersistentAlertThreshold
  Headers       \* the delays a server asks for; 0 if its header is missing
                \* or says nothing

ASSUME ProviderAssumption ==
  /\ {MaxRetries, BaseDelay, MinDelay, MaxBackoff} \cup Headers \subseteq Nat
  /\ 0 \in Headers
  /\ {Timeout, Margin, Life, Threshold} \subseteq Nat \ {0}
  /\ MinDelay <= MaxBackoff
  /\ HasRepo \in BOOLEAN
  /\ None \notin Int

\* What the provers do not know of exponentiation.
ASSUME PowerAssumption == \A n \in 0..MaxRetries : 2^n \in Nat

\* The client's timeout is shorter than the margin of its cache, and a token
\* lives longer than it takes to mint and to use it.
ASSUME TimeoutAssumption == Timeout <= Margin /\ 2 * Timeout <= Life

VARIABLES
  call,      \* caller -> its calls
  tracker,   \* RateLimitTracker, for this provider
  healthy    \* history: ticks since the last answer that was no rate limit

vars == <<call, tracker, healthy>>

\* A rate limit: the ticks in Retry-After, and those until the date that it or,
\* if it says nothing, X-RateLimit-Reset names.
Limits == {limit \in [after : Headers, reset : Headers] : 0 \in {limit.after, limit.reset}}
NoLimit == [after |-> 0, reset |-> 0]

\* The endpoints findInstallationID asks: repository, organisation, user.
Endpoints == 1..3
FirstEndpoint == IF HasRepo THEN 1 ELSE 2

\* step: which call; pc: where RoundTrip is; limit: the rate limit it has in
\* hand; left: of the timeout; wait: of the back-off; token: of the life of the
\* token in the client's cache.
CallType ==
  [step : {"idle", "find", "mint", "use", "over"},
   pc : {"idle", "send", "flight", "answered", "limited", "sleep"},
   endpoint : Endpoints, attempt : 0..MaxRetries, left : 0..Timeout,
   limit : [after : Nat, reset : Nat], wait : 0..MaxBackoff, token : 0..Life \cup {None}]

\* A goroutine between two attempts.
Fresh(step, pc, endpoint, left, token) ==
  [step |-> step, pc |-> pc, endpoint |-> endpoint, attempt |-> 0, left |-> left,
   limit |-> NoLimit, wait |-> 0, token |-> token]

\* Type correctness of the client.
TypeOK ==
  /\ call \in [Callers -> CallType]
  /\ tracker \in [on : BOOLEAN, since : 0..Threshold, raised : BOOLEAN]
  /\ healthy \in 0..Threshold

NotLimited == [on |-> FALSE, since |-> 0, raised |-> FALSE]

Init ==
  /\ call = [r \in Callers |-> Fresh("idle", "idle", 1, 0, None)]
  /\ tracker = NotLimited
  /\ healthy = 0

----------------------------------------------------------------------------
(* Delays.                                                                 *)

ClampDelay(d) == IF d > MaxBackoff THEN MaxBackoff
                 ELSE IF d < MinDelay THEN MinDelay ELSE d

\* calculateDelay: Retry-After, else X-RateLimit-Reset, else exponential with
\* up to a quarter of jitter.
CalculateDelay(limit, attempt) ==
  LET backoff == BaseDelay * 2^attempt
  IN  IF limit.after > 0 THEN {ClampDelay(limit.after)}
      ELSE IF limit.reset > 0 THEN {ClampDelay(limit.reset)}
      ELSE {ClampDelay(backoff + jitter) : jitter \in 0..(backoff \div 4)}

----------------------------------------------------------------------------
(* The tracker.                                                            *)

\* Variant: an answer that is no rate limit clears the alert only.
ClearAlert == [tracker EXCEPT !.raised = FALSE]

RecordSuccess == NotLimited

RecordRateLimit ==
  LET since == IF tracker.on THEN tracker.since ELSE 0
  IN  [on |-> TRUE, since |-> since,
       raised |-> (tracker.on /\ tracker.raised) \/ since >= Threshold]

----------------------------------------------------------------------------
(* The chain of calls.                                                     *)

\* A call of the http client, with a timeout of its own.
Begin(r, step, endpoint, token) ==
  call' = [call EXCEPT ![r] = Fresh(step, "send", endpoint, Timeout, token)]

\* GetRegistrationToken returns.  The caller goes on with its client, or drops
\* it and has another one built, at the next tick at the earliest.
Return(r) ==
  \E token \in {call[r].token, None} :
    call' = [call EXCEPT ![r] = Fresh("over", "idle", 1, 0, token)]

\* Variant: a token is served from the cache until it expires.
CachedToExpiry(r) == call[r].token # None /\ call[r].token > 0

\* time.Now().Before(cached.expiresAt).
Cached(r) == call[r].token # None /\ call[r].token > Margin

\* GetRegistrationToken: look into the cache, and find the installation if it
\* holds no token.
GetRegistrationToken(r) ==
  /\ call[r].step = "idle"
  /\ IF Cached(r) THEN Begin(r, "use", 1, call[r].token)
     ELSE Begin(r, "find", FirstEndpoint, call[r].token)
  /\ UNCHANGED <<tracker, healthy>>

\* Variant: the endpoint that failed is asked again.
NextEndpointSame(n) == n

NextEndpoint(n) == n + 1

\* The call failed: findInstallationID asks the next endpoint whatever the
\* reason, anything else gives up.
CallFails(r) ==
  LET next == NextEndpoint(call[r].endpoint)
  IN  IF call[r].step = "find" /\ next \in Endpoints
        THEN Begin(r, "find", next, call[r].token)
        ELSE Return(r)

\* The call succeeded.  A minted token has lived since the server made it, at
\* some instant of the call.
CallSucceeds(r) ==
  CASE call[r].step = "find" -> Begin(r, "mint", 1, call[r].token)
    [] call[r].step = "mint" -> \E age \in 0..(Timeout - call[r].left) :
                                  Begin(r, "use", 1, Life - age)
    [] OTHER -> Return(r)

----------------------------------------------------------------------------
(* RoundTrip.                                                              *)

Send(r) ==
  /\ call[r].pc = "send"
  /\ call[r].left > 0
  /\ call' = [call EXCEPT ![r].pc = "flight"]
  /\ UNCHANGED <<tracker, healthy>>

Arrives(r) == call[r].pc = "flight" /\ call[r].left > 0

\* The server is not reached, or the connection breaks.
Unreachable(r) ==
  /\ Arrives(r)
  /\ CallFails(r)
  /\ UNCHANGED <<tracker, healthy>>

\* An answer that is no rate limit arrives.
Answered(r) ==
  /\ Arrives(r)
  /\ call' = [call EXCEPT ![r].pc = "answered"]
  /\ healthy' = 0
  /\ UNCHANGED tracker

\* It is recorded and returned, with the status the caller wants or not; its
\* body cannot be read once the timeout is over.
Answer(r) ==
  /\ call[r].pc = "answered"
  /\ tracker' = RecordSuccess
  /\ CallFails(r) \/ (call[r].left > 0 /\ CallSucceeds(r))
  /\ UNCHANGED healthy

\* A rate limit arrives.
Limited(r) ==
  /\ Arrives(r)
  /\ \E limit \in Limits :
       call' = [call EXCEPT ![r].pc = "limited", ![r].limit = limit]
  /\ UNCHANGED <<tracker, healthy>>

\* It is recorded, and the delay computed at that time.  After the last attempt
\* it is returned as it is, and the caller fails on its status.
BackOff(r) ==
  /\ call[r].pc = "limited"
  /\ tracker' = RecordRateLimit
  /\ \/ call[r].attempt = MaxRetries /\ CallFails(r)
     \/ /\ call[r].attempt < MaxRetries
        /\ \E d \in CalculateDelay(call[r].limit, call[r].attempt) :
             call' = [call EXCEPT ![r].pc = "sleep", ![r].wait = d, ![r].limit = NoLimit]
  /\ UNCHANGED healthy

Wake(r) ==
  /\ call[r].pc = "sleep"
  /\ call[r].wait = 0
  /\ call' = [call EXCEPT ![r].pc = "send", ![r].attempt = @ + 1]
  /\ UNCHANGED <<tracker, healthy>>

\* The timeout ends the call, unless it has an answer in hand, which is recorded
\* first.
Expire(r) ==
  /\ call[r].pc \in {"send", "flight", "sleep"}
  /\ call[r].left = 0
  /\ CallFails(r)
  /\ UNCHANGED <<tracker, healthy>>

----------------------------------------------------------------------------

Less(n) == IF n > 0 THEN n - 1 ELSE 0
More(n) == IF n < Threshold THEN n + 1 ELSE n

\* Time passes while nobody is about to send and no timeout is overdue; an answer
\* in hand may wait for its record as long as it likes.
Tick ==
  /\ \A r \in Callers :
       \/ call[r].pc \in {"idle", "answered", "limited"}
       \/ call[r].pc # "send" /\ call[r].left > 0
  /\ call' = [r \in Callers |->
       [call[r] EXCEPT !.step = IF @ = "over" THEN "idle" ELSE @,
                       !.left = Less(@), !.wait = Less(@), !.limit.reset = Less(@),
                       !.token = IF @ = None THEN None ELSE Less(@)]]
  /\ tracker' = IF tracker.on THEN [tracker EXCEPT !.since = More(@)] ELSE tracker
  /\ healthy' = More(healthy)

Step(r) ==
  \/ Send(r) \/ Unreachable(r) \/ Answered(r) \/ Answer(r) \/ Limited(r) \/ BackOff(r)
  \/ Wake(r) \/ Expire(r)

\* What a goroutine and its timers do by themselves.
Runs(r) == Send(r) \/ Answer(r) \/ BackOff(r) \/ Wake(r) \/ Expire(r)

Next == Tick \/ \E r \in Callers : GetRegistrationToken(r) \/ Step(r)

Spec == Init /\ [][Next]_vars

\* Time passes, timers fire and goroutines run; a server need not answer.
Fairness ==
  /\ WF_vars(Tick)
  /\ \A r \in Callers : WF_vars(Runs(r))

FairSpec == Spec /\ Fairness

----------------------------------------------------------------------------
(* Properties.                                                             *)

\* A token that is sent has not expired, neither by lying in the cache of a
\* client that is kept, nor while its call was throttled and retried.
TokenValidWhenSent ==
  \A r \in Callers :
    call[r].pc = "send" /\ call[r].step = "use" /\ call[r].left > 0
      => call[r].token > 0

\* An alert means that for PersistentAlertThreshold no answer of the provider
\* was anything but a rate limit, or that a goroutine has the answer in hand whose
\* record clears it, although concurrent callers record what they were answered
\* in any order and at any later time.
AlertJustified ==
  tracker.raised => healthy >= Threshold \/ \E r \in Callers : call[r].pc = "answered"

\* A caller comes back, also if the server never answers or asks for a delay
\* far beyond the timeout.
CallerReturns == \A r \in Callers : call[r].step # "idle" ~> call[r].step = "over"
=============================================================================
