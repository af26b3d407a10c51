--------------------------- MODULE ClientsProofs ---------------------------
(* Theorems about Clients, for any number of goroutines and any delays,    *)
(* timeouts and thresholds that satisfy its assumptions: those of the      *)
(* provider's client, which hold of the composition too, and what the      *)
(* clients of the engine, the registry and the forges promise whatever     *)
(* fails.                                                                  *)
EXTENDS Clients, Induction, TLAPS

----------------------------------------------------------------------------
(* The provider's client.                                                  *)

\* While a call with a token is under way and not over its time, what is left of
\* the token's life exceeds what is left of the timeout; a goroutine sleeps only if it has a
\* retry left, and is in RoundTrip exactly while it makes a call.
Sound(c) ==
  /\ c.step = "use" /\ c.pc # "idle" => c.token # None /\ (c.left > 0 => c.token > c.left)
  /\ c.pc = "sleep" => c.attempt < MaxRetries
  /\ c.step \in {"idle", "over"} <=> c.pc = "idle"

\* Somebody has an answer in hand that clears the tracker.
Clearing == \E r \in Callers : call[r].pc = "answered"

\* The tracker never counts more than the time without a healthy answer, unless
\* that answer has still to be recorded, and an alert needs the threshold.
TrackerInv ==
  /\ tracker.on => tracker.since <= healthy \/ Clearing
  /\ tracker.raised => tracker.on /\ tracker.since >= Threshold

IInv == TypeOK /\ TrackerInv /\ \A r \in Callers : Sound(call[r])

USE DEF Endpoints, Less, More

----------------------------------------------------------------------------
(* Delays and the tracker.                                                 *)

\* A clamped delay is within its bounds.
LEMMA ClampBounds ==
  ASSUME NEW d \in Int PROVE ClampDelay(d) \in 0..MaxBackoff
  BY ProviderAssumption DEF ClampDelay

\* No back-off is longer than the cap, whatever the server asks for.
LEMMA DelayBounds ==
  ASSUME NEW limit \in [after : Nat, reset : Nat], NEW n \in 0..MaxRetries,
         NEW d \in CalculateDelay(limit, n)
  PROVE  d \in 0..MaxBackoff
<1>1. limit.after \in Int /\ limit.reset \in Int  OBVIOUS
<1>2. DEFINE backoff == BaseDelay * 2^n
<1>3. backoff \in Int
  <2>1. BaseDelay \in Nat  BY ProviderAssumption
  <2>2. 2^n \in Nat  BY PowerAssumption
  <2> QED  BY <2>1, <2>2
<1>4. CASE limit.after > 0  BY <1>1, <1>4, ClampBounds DEF CalculateDelay
<1>5. CASE ~(limit.after > 0) /\ limit.reset > 0
  BY <1>1, <1>5, ClampBounds DEF CalculateDelay
<1>6. CASE ~(limit.after > 0) /\ ~(limit.reset > 0)
  <2>1. PICK jitter \in 0..(backoff \div 4) : d = ClampDelay(backoff + jitter)
    BY <1>6 DEF CalculateDelay
  <2>2. backoff + jitter \in Int  BY <1>3
  <2> QED  BY <2>1, <2>2, ClampBounds
<1> QED  BY <1>4, <1>5, <1>6

----------------------------------------------------------------------------
(* What a step does to the calls of one goroutine.                         *)

\* The calls are sound, and those of the others than r as they were.
CallsSound(r) ==
  /\ call' \in [Callers -> CallType] /\ \A q \in Callers : Sound(call[q])'
  /\ \A q \in Callers \ {r} : call'[q] = call[q]

\* A goroutine whose call becomes c.
LEMMA OneCaller ==
  ASSUME IInv, NEW r \in Callers, NEW c \in CallType, Sound(c),
         call' = [call EXCEPT ![r] = c]
  PROVE  CallsSound(r)
<1>1. call \in [Callers -> CallType] /\ \A q \in Callers : Sound(call[q])  BY DEF IInv, TypeOK
<1>2. call' \in [Callers -> CallType]  BY <1>1
<1>3. \A q \in Callers : call'[q] = IF q = r THEN c ELSE call[q]  BY <1>1
<1> QED  BY <1>1, <1>2, <1>3 DEF CallsSound, Sound

\* A call that begins with a token begins with one that outlives its
\* timeout.
LEMMA BeginSound ==
  ASSUME IInv, NEW r \in Callers, NEW step \in {"find", "mint", "use"},
         NEW n \in Endpoints, NEW token \in 0..Life \cup {None},
         step = "use" => token # None /\ token > Timeout,
         Begin(r, step, n, token)
  PROVE  CallsSound(r)
<1>1. Fresh(step, "send", n, Timeout, token) \in CallType
        /\ Sound(Fresh(step, "send", n, Timeout, token))
  BY ProviderAssumption DEF Sound, CallType, Fresh, NoLimit
<1> QED  BY <1>1, OneCaller DEF Begin

\* A caller that goes home knows nothing that could be stale.
LEMMA ReturnSound ==
  ASSUME IInv, NEW r \in Callers, Return(r)
  PROVE  CallsSound(r)
<1>1. PICK token \in {call[r].token, None} :
        call' = [call EXCEPT ![r] = Fresh("over", "idle", 1, 0, token)]
  BY DEF Return
<1>2. token \in 0..Life \cup {None}  BY <1>1 DEF IInv, TypeOK, CallType
<1>3. Fresh("over", "idle", 1, 0, token) \in CallType
        /\ Sound(Fresh("over", "idle", 1, 0, token))
  BY <1>2, ProviderAssumption DEF Sound, CallType, Fresh, NoLimit
<1> QED  BY <1>1, <1>3, OneCaller

\* After a failed call the next endpoint, or the end, is sound.
LEMMA FailsSound ==
  ASSUME IInv, NEW r \in Callers, CallFails(r)
  PROVE  CallsSound(r)
<1> DEFINE next == NextEndpoint(call[r].endpoint)
<1>1. CASE call[r].step = "find" /\ next \in Endpoints
  <2>1. Begin(r, "find", next, call[r].token)  BY <1>1 DEF CallFails
  <2>2. call[r].token \in 0..Life \cup {None}  BY DEF IInv, TypeOK, CallType
  <2> HIDE DEF next
  <2> QED  BY <1>1, <2>1, <2>2, BeginSound
<1>2. CASE ~(call[r].step = "find" /\ next \in Endpoints)
  BY <1>2, ReturnSound DEF CallFails
<1> QED  BY <1>1, <1>2

\* After a successful call the next one of the chain is sound: a token that
\* is used was minted or looked up just now.
LEMMA SucceedsSound ==
  ASSUME IInv, NEW r \in Callers, call[r].left > 0, CallSucceeds(r)
  PROVE  CallsSound(r)
<1>1. /\ call[r].token \in 0..Life \cup {None}
      /\ call[r].left \in 1..Timeout
  BY DEF IInv, TypeOK, CallType
<1>2. CASE call[r].step = "find"
  <2>1. Begin(r, "mint", 1, call[r].token)  BY <1>2 DEF CallSucceeds
  <2>2. 1 \in Endpoints /\ "mint" \in {"find", "mint", "use"} /\ "mint" # "use"
    OBVIOUS
  <2> HIDE DEF Endpoints
  <2> QED  BY <1>1, <2>1, <2>2, BeginSound
<1>3. CASE call[r].step = "mint"
  <2>1. PICK age \in 0..(Timeout - call[r].left) : Begin(r, "use", 1, Life - age)
    BY <1>3 DEF CallSucceeds
  <2>2. Life - age \in 0..Life /\ Life - age # None /\ Life - age > Timeout
    BY <1>1, ProviderAssumption, TimeoutAssumption
  <2> QED  BY <2>1, <2>2, BeginSound
<1>4. CASE call[r].step # "find" /\ call[r].step # "mint"
  BY <1>4, ReturnSound DEF CallSucceeds
<1> QED  BY <1>2, <1>3, <1>4

----------------------------------------------------------------------------
(* The inductive invariant.                                                *)

\* At the start nobody has called and the tracker has seen nothing.
LEMMA InitHolds == Init => IInv
<1> SUFFICES ASSUME Init PROVE IInv  OBVIOUS
<1>1. TypeOK
  BY ProviderAssumption DEF Init, TypeOK, CallType, Fresh, NoLimit, NotLimited
<1>2. TrackerInv  BY DEF Init, TrackerInv, NotLimited
<1>3. \A r \in Callers : Sound(call[r])  BY DEF Init, Fresh, Sound
<1> QED  BY <1>1, <1>2, <1>3 DEF IInv

\* A step that leaves the tracker alone, of a goroutine without an answer in hand.
LEMMA SameTracker ==
  ASSUME IInv, UNCHANGED <<tracker, healthy>>, NEW r \in Callers, call[r].pc # "answered",
         CallsSound(r)
  PROVE  IInv'
<1>1. Clearing => Clearing'  BY DEF Clearing, CallsSound
<1>2. TypeOK'  BY DEF IInv, TypeOK, CallsSound
<1>3. TrackerInv'  BY <1>1 DEF IInv, TrackerInv
<1> QED  BY <1>2, <1>3 DEF IInv, CallsSound

\* The chain begins with a cached token that is fresh, or without one.
LEMMA GetRegistrationTokenKeeps ==
  ASSUME IInv, NEW r \in Callers, GetRegistrationToken(r)
  PROVE  IInv'
<1>0. call[r].pc # "answered"  BY DEF IInv, Sound, GetRegistrationToken
<1>1. call[r].token \in 0..Life \cup {None}  BY DEF IInv, TypeOK, CallType
<1>2. CASE Cached(r)
  <2>1. Begin(r, "use", 1, call[r].token)  BY <1>2 DEF GetRegistrationToken
  <2>2. call[r].token # None /\ call[r].token > Timeout
    BY <1>1, <1>2, ProviderAssumption, TimeoutAssumption DEF Cached
  <2>3. 1 \in Endpoints /\ "use" \in {"find", "mint", "use"}  OBVIOUS
  <2> HIDE DEF Endpoints
  <2> QED  BY <1>0, <1>1, <2>1, <2>2, <2>3, BeginSound, SameTracker DEF GetRegistrationToken
<1>3. CASE ~Cached(r)
  <2>1. Begin(r, "find", FirstEndpoint, call[r].token)
    BY <1>3 DEF GetRegistrationToken
  <2>2. FirstEndpoint \in Endpoints /\ "find" # "use"  BY DEF FirstEndpoint
  <2> HIDE DEF Endpoints
  <2> QED  BY <1>0, <1>1, <2>1, <2>2, BeginSound, SameTracker DEF GetRegistrationToken
<1> QED  BY <1>2, <1>3

\* A request goes out: the tracker learns nothing yet.
LEMMA SendKeeps ==
  ASSUME IInv, NEW r \in Callers, Send(r)
  PROVE  IInv'
<1> DEFINE c == [call[r] EXCEPT !.pc = "flight"]
<1>1. c \in CallType /\ Sound(c)  BY DEF IInv, TypeOK, Sound, CallType, Send
<1>2. call' = [call EXCEPT ![r] = c]  BY DEF Send, IInv, TypeOK
<1> HIDE DEF c
<1> QED  BY <1>1, <1>2, OneCaller, SameTracker DEF Send

\* Waking up from a back-off uses the retry that was left for it.
LEMMA WakeKeeps ==
  ASSUME IInv, NEW r \in Callers, Wake(r)
  PROVE  IInv'
<1> DEFINE c == [call[r] EXCEPT !.pc = "send", !.attempt = @ + 1]
<1>1. c \in CallType /\ Sound(c)
  BY ProviderAssumption DEF IInv, TypeOK, Sound, CallType, Wake
<1>2. call' = [call EXCEPT ![r] = c]  BY DEF Wake, IInv, TypeOK
<1> HIDE DEF c
<1> QED  BY <1>1, <1>2, OneCaller, SameTracker DEF Wake

\* No answer at all leaves the tracker as it was.
LEMMA UnreachableKeeps ==
  ASSUME IInv, NEW r \in Callers, Unreachable(r)
  PROVE  IInv'
<1>1. call[r].pc # "answered"  BY DEF Unreachable, Arrives
<1> QED  BY <1>1, FailsSound, SameTracker DEF Unreachable

\* The timeout of the client ends a call like a failure.
LEMMA ExpireKeeps ==
  ASSUME IInv, NEW r \in Callers, Expire(r)
  PROVE  IInv'
<1>1. call[r].pc # "answered"  BY DEF Expire
<1> QED  BY <1>1, FailsSound, SameTracker DEF Expire

\* An answer that is no rate limit is in hand.
LEMMA AnsweredKeeps ==
  ASSUME IInv, NEW r \in Callers, Answered(r)
  PROVE  IInv'
<1> DEFINE c == [call[r] EXCEPT !.pc = "answered"]
<1>1. c \in CallType /\ Sound(c)  BY DEF IInv, TypeOK, Sound, CallType, Answered, Arrives
<1>2. call' = [call EXCEPT ![r] = c]  BY DEF Answered, IInv, TypeOK
<1>3. c.pc = "answered"  BY <1>1 DEF IInv, TypeOK, CallType
<1> HIDE DEF c
<1>4. CallsSound(r)  BY <1>1, <1>2, OneCaller
<1>5. Clearing'  BY <1>2, <1>3 DEF Clearing, IInv, TypeOK
<1>6. tracker' = tracker /\ healthy' = 0  BY DEF Answered
<1>7. TypeOK'  BY <1>4, <1>6, ProviderAssumption DEF IInv, TypeOK, CallsSound
<1>8. TrackerInv'  BY <1>5, <1>6 DEF IInv, TrackerInv
<1> QED  BY <1>4, <1>7, <1>8 DEF IInv, CallsSound

\* Its record clears the tracker, whatever others have recorded since.
LEMMA AnswerKeeps ==
  ASSUME IInv, NEW r \in Callers, Answer(r)
  PROVE  IInv'
<1>1. CallsSound(r)  BY FailsSound, SucceedsSound DEF Answer
<1>2. tracker' = NotLimited /\ healthy' = healthy  BY DEF Answer, RecordSuccess
<1>3. TypeOK'  BY <1>1, <1>2, ProviderAssumption DEF IInv, TypeOK, NotLimited, CallsSound
<1>4. TrackerInv'  BY <1>2 DEF TrackerInv, NotLimited
<1> QED  BY <1>1, <1>3, <1>4 DEF IInv, CallsSound

\* A rate limit is in hand: the tracker learns nothing yet.
LEMMA LimitedKeeps ==
  ASSUME IInv, NEW r \in Callers, Limited(r)
  PROVE  IInv'
<1>1. PICK limit \in Limits : call' = [call EXCEPT ![r].pc = "limited", ![r].limit = limit]
  BY DEF Limited
<1>2. limit \in [after : Nat, reset : Nat]
  <2>1. Headers \subseteq Nat  BY ProviderAssumption
  <2> QED  BY <2>1 DEF Limits
<1> DEFINE c == [call[r] EXCEPT !.pc = "limited", !.limit = limit]
<1>3. c \in CallType /\ Sound(c)
  <2>1. call[r] \in CallType /\ Sound(call[r])  BY DEF IInv, TypeOK
  <2>2. call[r].pc # "idle"  BY DEF Limited, Arrives
  <2>3. c \in CallType  BY <1>2, <2>1 DEF CallType
  <2>4. Sound(c)  BY <2>1, <2>2 DEF CallType, Sound
  <2> QED  BY <2>3, <2>4
<1>4. call' = [call EXCEPT ![r] = c]  BY <1>1 DEF IInv, TypeOK
<1> HIDE DEF c
<1>5. CallsSound(r)  BY <1>3, <1>4, OneCaller
<1>6. call[r].pc # "answered"  BY DEF Limited, Arrives
<1> QED  BY <1>5, <1>6, SameTracker DEF Limited

\* Its record starts the clock of the tracker no earlier than now.
LEMMA BackOffKeeps ==
  ASSUME IInv, NEW r \in Callers, BackOff(r)
  PROVE  IInv'
<1>1. CallsSound(r)
  <2>1. CASE CallFails(r)  BY <2>1, FailsSound
  <2>2. CASE /\ call[r].attempt < MaxRetries
             /\ \E d \in CalculateDelay(call[r].limit, call[r].attempt) :
                  call' = [call EXCEPT ![r].pc = "sleep", ![r].wait = d, ![r].limit = NoLimit]
    <3>1. PICK d \in CalculateDelay(call[r].limit, call[r].attempt) :
            call' = [call EXCEPT ![r].pc = "sleep", ![r].wait = d, ![r].limit = NoLimit]
      BY <2>2
    <3>2. call[r].attempt \in 0..MaxRetries /\ call[r].limit \in [after : Nat, reset : Nat]
      BY DEF IInv, TypeOK, CallType
    <3>3. d \in 0..MaxBackoff  BY <3>2, DelayBounds
    <3> DEFINE c == [call[r] EXCEPT !.pc = "sleep", !.wait = d, !.limit = NoLimit]
    <3>4. c \in CallType /\ Sound(c)
      <4>1. call[r] \in CallType /\ Sound(call[r])  BY DEF IInv, TypeOK
      <4>2. call[r].pc # "idle" /\ call[r].attempt < MaxRetries  BY <2>2 DEF BackOff
      <4>3. NoLimit \in [after : Nat, reset : Nat]  BY DEF NoLimit
      <4>4. c \in CallType  BY <3>3, <4>1, <4>3 DEF CallType
      <4>5. Sound(c)  BY <4>1, <4>2 DEF CallType, Sound
      <4> QED  BY <4>4, <4>5
    <3>5. call' = [call EXCEPT ![r] = c]  BY <3>1 DEF IInv, TypeOK
    <3> HIDE DEF c
    <3> QED  BY <3>4, <3>5, OneCaller
  <2> QED  BY <2>1, <2>2 DEF BackOff
<1>2. tracker' = RecordRateLimit /\ healthy' = healthy /\ call[r].pc = "limited"
  BY DEF BackOff
<1>3. Clearing => Clearing'  BY <1>1, <1>2 DEF Clearing, CallsSound
<1>4. TypeOK'
  <2>1. tracker' \in [on : BOOLEAN, since : 0..Threshold, raised : BOOLEAN]
    BY <1>2, ProviderAssumption DEF IInv, TypeOK, RecordRateLimit
  <2> QED  BY <1>1, <1>2, <2>1 DEF IInv, TypeOK, CallsSound
<1>5. TrackerInv'
  BY <1>2, <1>3, ProviderAssumption DEF IInv, TypeOK, TrackerInv, RecordRateLimit
<1> QED  BY <1>1, <1>4, <1>5 DEF IInv, CallsSound

\* Time shortens a token and the timeout of the call that uses it alike.
LEMMA TickKeeps ==
  ASSUME IInv, Tick
  PROVE  IInv'
<1>1. ASSUME NEW r \in Callers
      PROVE  call'[r] \in CallType /\ Sound(call'[r])
  <2> DEFINE c == call[r]
             d == [c EXCEPT !.step = IF @ = "over" THEN "idle" ELSE @,
                            !.left = Less(@), !.wait = Less(@), !.limit.reset = Less(@),
                            !.token = IF @ = None THEN None ELSE Less(@)]
  <2>1. call'[r] = d  BY DEF Tick
  <2>2. c \in CallType /\ Sound(c)  BY DEF IInv, TypeOK
  <2>3. c.left \in Nat  BY <2>2 DEF CallType
  <2> HIDE DEF c
  <2>4. d.step = (IF c.step = "over" THEN "idle" ELSE c.step)  BY <2>2 DEF CallType
  <2>5. d.pc = c.pc /\ d.attempt = c.attempt  BY <2>2 DEF CallType
  <2>6. d.left = Less(c.left) /\ d.wait = Less(c.wait)  BY <2>2 DEF CallType
  <2>7. d.token = IF c.token = None THEN None ELSE Less(c.token)
    BY <2>2 DEF CallType
  <2>8. d \in CallType
    <3>1. Less(c.left) \in 0..Timeout /\ Less(c.wait) \in 0..MaxBackoff
      BY <2>2, ProviderAssumption DEF CallType
    <3>4. [c.limit EXCEPT !.reset = Less(@)] \in [after : Nat, reset : Nat]
      BY <2>2 DEF CallType
    <3>2. (IF c.token = None THEN None ELSE Less(c.token)) \in 0..Life \cup {None}
      BY <2>2, ProviderAssumption DEF CallType
    <3>3. (IF c.step = "over" THEN "idle" ELSE c.step)
            \in {"idle", "find", "mint", "use", "over"}
      BY <2>2 DEF CallType
    <3> HIDE DEF Less
    <3> QED  BY <2>2, <3>1, <3>2, <3>3, <3>4 DEF CallType
  <2> HIDE DEF d
  <2>9. Sound(d)
    BY <2>2, <2>3, <2>4, <2>5, <2>6, <2>7, ProviderAssumption DEF Sound, CallType
  <2> QED  BY <2>1, <2>8, <2>9
<1>2. call' \in [Callers -> CallType] /\ \A q \in Callers : Sound(call[q])'
  <2>1. call' = [q \in Callers |-> call'[q]]  BY DEF Tick
  <2> QED  BY <1>1, <2>1
<1>3. healthy \in 0..Threshold /\ healthy' = More(healthy)
  BY DEF IInv, TypeOK, Tick
<1>4. Clearing => Clearing'
  <2>1. ASSUME NEW r \in Callers PROVE call'[r].pc = call[r].pc
    BY DEF Tick, IInv, TypeOK, CallType
  <2> QED  BY <2>1 DEF Clearing
<1>5. /\ tracker' \in [on : BOOLEAN, since : 0..Threshold, raised : BOOLEAN]
      /\ TrackerInv'
  <2>1. tracker \in [on : BOOLEAN, since : 0..Threshold, raised : BOOLEAN]
    BY DEF IInv, TypeOK
  <2>2. CASE ~tracker.on
    <3>1. tracker' = tracker  BY <2>2 DEF Tick
    <3> QED  BY <1>4, <2>1, <2>2, <3>1 DEF IInv, TrackerInv
  <2>3. CASE tracker.on
    <3>1. tracker' = [tracker EXCEPT !.since = More(@)]  BY <2>3 DEF Tick
    <3>2. /\ tracker'.on = tracker.on /\ tracker'.raised = tracker.raised
          /\ tracker'.since = More(tracker.since)
      BY <2>1, <3>1
    <3>3. More(tracker.since) \in 0..Threshold  BY <2>1, ProviderAssumption
    <3>4. tracker' \in [on : BOOLEAN, since : 0..Threshold, raised : BOOLEAN]
      <4> HIDE DEF More
      <4> QED  BY <2>1, <3>1, <3>3
    <3>5. TrackerInv'
      BY <1>3, <1>4, <2>1, <2>3, <3>2, ProviderAssumption DEF IInv, TrackerInv
    <3> QED  BY <3>4, <3>5
  <2> QED  BY <2>2, <2>3
<1>6. TypeOK'
  BY <1>2, <1>3, <1>5, ProviderAssumption DEF TypeOK
<1> QED  BY <1>2, <1>5, <1>6 DEF IInv

\* Every step of the client keeps its invariant.
LEMMA StepKeeps == IInv /\ [Next]_vars => IInv'
<1> SUFFICES ASSUME IInv, [Next]_vars PROVE IInv'  OBVIOUS
<1>1. CASE Tick  BY <1>1, TickKeeps
<1>2. ASSUME NEW r \in Callers, GetRegistrationToken(r) \/ Step(r) PROVE IInv'
  BY <1>2, GetRegistrationTokenKeeps, SendKeeps, UnreachableKeeps, AnsweredKeeps,
     AnswerKeeps, LimitedKeeps, BackOffKeeps, WakeKeeps, ExpireKeeps DEF Step
<1>3. CASE UNCHANGED vars
  BY <1>3 DEF vars, IInv, TypeOK, TrackerInv, Clearing
<1> QED  BY <1>1, <1>2, <1>3 DEF Next

----------------------------------------------------------------------------

\* The inductive invariant of the provider's client: types, the life of the tokens in
\* use (Sound) and what the tracker has seen (TrackerInv).
THEOREM Invariance == Spec => []IInv
  BY InitHolds, StepKeeps, PTL DEF Spec

\* The calls, the tracker and the delays keep their types: no delay exceeds the
\* cap and no attempt the number of retries, whatever headers a server sends.
THEOREM TypeCorrect == Spec => []TypeOK
<1>1. IInv => TypeOK  BY DEF IInv
<1> QED  BY <1>1, Invariance, PTL

\* No expired token is sent.
THEOREM TokensValid == Spec => []TokenValidWhenSent
<1>1. IInv => TokenValidWhenSent
  BY ProviderAssumption DEF IInv, TypeOK, Sound, TokenValidWhenSent, CallType
<1> QED  BY <1>1, Invariance, PTL

\* An alert of the tracker is never raised, or kept, without its reason.
THEOREM AlertsJustified == Spec => []AlertJustified
<1>1. IInv => AlertJustified
  BY ProviderAssumption DEF IInv, TypeOK, TrackerInv, AlertJustified, Clearing
<1> QED  BY <1>1, Invariance, PTL

----------------------------------------------------------------------------
(* Steps of the composition are steps of the components.                   *)

\* A step of the composition is one of the engine, of a spawn or of a removal, or
\* leaves them alone.
LEMMA EngineSteps ==
  ASSUME [ClientNext]_clientVars
  PROVE  \/ Engine
         \/ \E s \in Spawners : SpawnStep(s)
         \/ \E k \in Killers : KillStep(k) \/ \E s \in Spawners : Terminate(k, s)
         \/ UNCHANGED engineVars
<1>1. OneSpawner \subseteq Spawners  BY EngineAssumption DEF OneSpawner
<1>2. CASE OfEngine({"spawn", "kill"}, Engine)  BY <1>2 DEF OfEngine
<1>3. CASE OfEngine({"spawn"}, Spawns(Spawners))  BY <1>3 DEF OfEngine, Spawns
<1>4. CASE OfEngine({"kill"}, Spawns(OneSpawner) \/ Kills(OneSpawner))
  BY <1>1, <1>4 DEF OfEngine, Spawns, Kills
<1>5. CASE OfProvider(Next)  BY <1>5 DEF OfProvider
<1>6. CASE OfRegistry(RegistryNext)  BY <1>6 DEF OfRegistry
<1>7. CASE OfDiscovery(DiscoveryNext)  BY <1>7 DEF OfDiscovery
<1>8. CASE OfForge(ForgeNext)  BY <1>8 DEF OfForge
<1>9. CASE UNCHANGED clientVars  BY <1>9 DEF clientVars
<1> QED  BY <1>2, <1>3, <1>4, <1>5, <1>6, <1>7, <1>8, <1>9 DEF ClientNext

\* It is a step of the provider's client, ...
LEMMA ProviderSteps == [ClientNext]_clientVars => [Next]_vars
  BY DEF ClientNext, clientVars, OfProvider, OfEngine, OfRegistry, OfDiscovery, OfForge

\* ... of the registry's client, ...
LEMMA RegistrySteps == [ClientNext]_clientVars => [RegistryNext]_registryVars
  BY DEF ClientNext, clientVars, OfProvider, OfEngine, OfRegistry, OfDiscovery, OfForge

\* ... of a discovery, ...
LEMMA DiscoverySteps == [ClientNext]_clientVars => [DiscoveryNext]_discoveryVars
  BY DEF ClientNext, clientVars, OfProvider, OfEngine, OfRegistry, OfDiscovery, OfForge

\* ... and of the forges' clients, or leaves them alone.
LEMMA ForgeSteps == [ClientNext]_clientVars => [ForgeNext]_forgeVars
  BY DEF ClientNext, clientVars, OfProvider, OfEngine, OfRegistry, OfDiscovery, OfForge

\* The composition implements the provider's client.
THEOREM ClientsImplementProvider == ClientSpec => Spec
<1>1. ClientInit => Init  BY DEF ClientInit
<1> QED  BY <1>1, ProviderSteps, PTL DEF ClientSpec, Spec

----------------------------------------------------------------------------
(* The engine's client.                                                    *)

\* Where a spawn and its container can be.  A container is removed for good, so
\* a spawn that finds it so knows that somebody terminated it.
SpawnInv(s) ==
  /\ spawner[s].pc \in {"idle", "list", "network", "again", "create", "degraded",
                         "unparsed"}
       => container[s] = "none"
  /\ At(s, "again") /\ ~spawner[s].disturbed => network
  /\ At(s, "start") => container[s] \in {"created", "removed"}
  /\ At(s, "remove") /\ ~spawner[s].disturbed => container[s] = "removed"
  /\ At(s, "failed") /\ ~spawner[s].disturbed => container[s] = "removed"
  /\ At(s, "failed") /\ ~spawner[s].left => container[s] \in {"none", "removed"}

\* What is terminated was there, and what is reported as terminated is not.
KillInv(k) ==
  /\ killer[k].pc # "idle" => container[killer[k].of] # "none"
  /\ killer[k].pc = "gone" => container[killer[k].of] = "removed"

\* The tracker never counts more than the time without a successful ping.
HealthInv ==
  /\ health.raised => health.down /\ health.since >= Persistent
  /\ health.down => health.since <= quiet \/ monitor = "success"

EngineInv ==
  /\ EngineTypeOK /\ HealthInv
  /\ \A s \in Spawners : SpawnInv(s)
  /\ \A k \in Killers : KillInv(k)

\* At first there is nothing to keep.
LEMMA EngineInitHolds == EngineInit => EngineInv
<1> SUFFICES ASSUME EngineInit PROVE EngineInv  OBVIOUS
<1> USE DEF EngineInit
<1>1. (CHOOSE s \in Spawners : TRUE) \in Spawners  BY EngineAssumption
<1>2. EngineTypeOK
  <2>1. health \in [down : BOOLEAN, since : 0..Persistent, raised : BOOLEAN]
    BY EngineAssumption DEF Ok
  <2>2. /\ killer \in [Killers -> [pc : {"idle", "stop", "force", "remove", "gone", "failed"},
                                  of : Spawners]]
        /\ quiet \in 0..Persistent
    BY <1>1, EngineAssumption
  <2> QED  BY <2>1, <2>2 DEF EngineTypeOK, Idle
<1>3. HealthInv  BY DEF HealthInv, Ok
<1>4. \A s \in Spawners : SpawnInv(s)  BY DEF SpawnInv, At, Idle
<1>5. \A k \in Killers : KillInv(k)  BY DEF KillInv
<1> QED  BY <1>2, <1>3, <1>4, <1>5 DEF EngineInv

\* What is left alone.
LEMMA HealthAlone ==
  ASSUME EngineInv, UNCHANGED <<health, monitor, quiet>>
  PROVE  HealthInv'
  BY DEF EngineInv, HealthInv

\* A removal is not disturbed by what a spawn does to its container.
LEMMA KillersAlone ==
  ASSUME EngineInv, UNCHANGED killer,
         \A s \in Spawners : container[s] # "none" => container'[s] # "none",
         \A s \in Spawners : container[s] = "removed" => container'[s] = "removed"
  PROVE  \A k \in Killers : KillInv(k)'
  BY DEF EngineInv, EngineTypeOK, KillInv

\* A spawn knows of its container only that somebody else may have removed it.
LEMMA SpawnersAlone ==
  ASSUME EngineInv, UNCHANGED <<spawner, network>>,
         \A s \in Spawners : container'[s] = container[s]
                               \/ (container[s] # "none" /\ container'[s] = "removed")
  PROVE  \A s \in Spawners : SpawnInv(s)'
  BY DEF EngineInv, EngineTypeOK, SpawnInv, At

SpawnerType ==
  [pc : {"idle", "list", "network", "again", "create", "start", "remove", "started",
         "failed", "degraded", "unparsed"},
   disturbed : BOOLEAN, left : BOOLEAN]

ContainerStates == {"none", "created", "running", "removed"}

\* A step of one spawn disturbs no other, and no goroutine that terminates: a
\* container never goes back to none, nor comes back once it is removed.
LEMMA OneSpawn ==
  ASSUME EngineInv, NEW s \in Spawners, NEW c \in SpawnerType, NEW b \in ContainerStates,
         spawner' = [spawner EXCEPT ![s] = c],
         container' = [container EXCEPT ![s] = b],
         network' \in BOOLEAN, network => network',
         container[s] # "none" => b # "none",
         container[s] = "removed" => b = "removed",
         UNCHANGED <<engine, health, monitor, killer, quiet>>,
         SpawnInv(s)'
  PROVE  EngineInv'
<1>1. EngineTypeOK'
  <2>1. spawner' \in [Spawners -> SpawnerType] /\ container' \in [Spawners -> ContainerStates]
    BY DEF EngineInv, EngineTypeOK, SpawnerType, ContainerStates
  <2> QED  BY <2>1 DEF EngineInv, EngineTypeOK, SpawnerType, ContainerStates
<1>2. \A q \in Spawners : q # s => spawner'[q] = spawner[q] /\ container'[q] = container[q]
  BY DEF EngineInv, EngineTypeOK
<1>3. container'[s] = b  BY DEF EngineInv, EngineTypeOK
<1>4. \A q \in Spawners : SpawnInv(q)'
  <2> SUFFICES ASSUME NEW q \in Spawners, q # s PROVE SpawnInv(q)'  OBVIOUS
  <2>1. SpawnInv(q)  BY DEF EngineInv
  <2> QED  BY <1>2, <2>1 DEF SpawnInv, At
<1>5. \A k \in Killers : KillInv(k)'  BY <1>2, <1>3, KillersAlone
<1> QED  BY <1>1, <1>4, <1>5, HealthAlone DEF EngineInv

\* A call of a spawn that is not the last to tell of the container.
Calling(s, o, next, otherwise) == Spawning(s, o, next, otherwise, FALSE)

\* What such a call leaves it at.
LEMMA SpawningSets ==
  ASSUME EngineInv, NEW s \in Spawners, NEW o,
         NEW next \in {"network", "again", "create", "remove", "started", "failed"},
         NEW otherwise \in {"network", "again", "remove", "failed"},
         Calling(s, o, next, otherwise)
  PROVE  \E c \in SpawnerType :
           /\ spawner' = [spawner EXCEPT ![s] = c] /\ spawner'[s] = c
           /\ c.pc = IF o = "done" THEN next ELSE otherwise
           /\ c.disturbed = (spawner[s].disturbed \/ o # "done")
           /\ c.left = spawner[s].left
<1> DEFINE d == spawner[s]
           pc == IF o = "done" THEN next ELSE otherwise
           disturbed == d.disturbed \/ o # "done"
           left == d.left
           c == [d EXCEPT !.pc = pc, !.disturbed = disturbed, !.left = left]
<1>1. d \in SpawnerType  BY DEF EngineInv, EngineTypeOK, SpawnerType
<1>2. pc \in {"network", "again", "create", "start", "remove", "started", "failed"}
  OBVIOUS
<1>3. disturbed \in BOOLEAN /\ left \in BOOLEAN  BY <1>1 DEF SpawnerType
<1>4. spawner' = [spawner EXCEPT ![s] = c]  BY <1>1 DEF Calling, Spawning, SpawnerType
<1>5. c \in SpawnerType /\ c.pc = pc /\ c.disturbed = disturbed /\ c.left = left
  <2> HIDE DEF pc, disturbed, left, d
  <2> QED  BY <1>1, <1>2, <1>3 DEF SpawnerType
<1>6. spawner'[s] = c  BY <1>4 DEF EngineInv, EngineTypeOK
<1> HIDE DEF c
<1> QED  BY <1>4, <1>5, <1>6

\* The same, of a call that is the last to tell of the container.
LEMMA LastCallSets ==
  ASSUME EngineInv, NEW s \in Spawners, NEW o,
         NEW next \in {"start", "failed"},
         NEW otherwise \in {"failed"},
         Spawning(s, o, next, otherwise, TRUE)
  PROVE  \E c \in SpawnerType :
           /\ spawner' = [spawner EXCEPT ![s] = c] /\ spawner'[s] = c
           /\ c.pc = IF o = "done" THEN next ELSE otherwise
           /\ c.disturbed = (spawner[s].disturbed \/ o # "done")
           /\ c.left = (spawner[s].left \/ o # "done")
<1> DEFINE d == spawner[s]
           pc == IF o = "done" THEN next ELSE otherwise
           disturbed == d.disturbed \/ o # "done"
           left == (d.left \/ o # "done")
           c == [d EXCEPT !.pc = pc, !.disturbed = disturbed, !.left = left]
<1>1. d \in SpawnerType  BY DEF EngineInv, EngineTypeOK, SpawnerType
<1>2. pc \in {"network", "again", "create", "start", "remove", "started", "failed"}
  OBVIOUS
<1>3. disturbed \in BOOLEAN /\ left \in BOOLEAN  BY <1>1 DEF SpawnerType
<1>4. spawner' = [spawner EXCEPT ![s] = c]  BY <1>1 DEF Spawning, SpawnerType
<1>5. c \in SpawnerType /\ c.pc = pc /\ c.disturbed = disturbed /\ c.left = left
  <2> HIDE DEF pc, disturbed, left, d
  <2> QED  BY <1>1, <1>2, <1>3 DEF SpawnerType
<1>6. spawner'[s] = c  BY <1>4 DEF EngineInv, EngineTypeOK
<1> HIDE DEF c
<1> QED  BY <1>4, <1>5, <1>6

\* One lemma per call of SpawnRunner, ...
LEMMA SpawnKeeps ==
  ASSUME EngineInv, NEW s \in Spawners, Spawn(s) PROVE EngineInv'
<1>1. PICK next \in {"list", "create", "degraded", "unparsed"} :
        spawner' = [spawner EXCEPT ![s].pc = next]
  BY DEF Spawn
<1> DEFINE c == [spawner[s] EXCEPT !.pc = next]
<1>2. spawner[s] \in SpawnerType  BY DEF EngineInv, EngineTypeOK, SpawnerType
<1>3. c \in SpawnerType /\ c.pc = next  BY <1>2 DEF SpawnerType
<1>4. spawner' = [spawner EXCEPT ![s] = c]  BY <1>1
<1>5. container' = [container EXCEPT ![s] = "none"] /\ spawner'[s] = c /\ container'[s] = "none"
  BY <1>4 DEF Spawn, EngineInv, EngineTypeOK
<1> HIDE DEF c
<1>6. SpawnInv(s)'  BY <1>3, <1>5 DEF SpawnInv, At
<1>7. /\ network' \in BOOLEAN /\ network' = network /\ container[s] = "none"
      /\ UNCHANGED <<engine, health, monitor, killer, quiet>>
  BY DEF Spawn, EngineInv, EngineTypeOK
<1> QED  BY <1>3, <1>4, <1>5, <1>6, <1>7, OneSpawn DEF ContainerStates

\* A call that does not touch the container.
LEMMA NetworkCallKeeps ==
  ASSUME EngineInv, NEW s \in Spawners, NEW o, NEW next \in {"network", "again", "create", "failed"},
         NEW otherwise \in {"network", "again", "failed"},
         container[s] = "none",
         Calling(s, o, next, otherwise),
         network' \in BOOLEAN, network => network',
         next = "again" /\ o = "done" => network',
         ~(next = "failed" /\ o = "done" /\ ~spawner[s].disturbed),
         UNCHANGED <<engine, health, monitor, killer, container, quiet>>
  PROVE  EngineInv'
<1>0. /\ next \in {"network", "again", "create", "remove", "started", "failed"}
      /\ otherwise \in {"network", "again", "remove", "failed"}
  OBVIOUS
<1>1. PICK c \in SpawnerType :
        /\ spawner' = [spawner EXCEPT ![s] = c] /\ spawner'[s] = c
        /\ c.pc = IF o = "done" THEN next ELSE otherwise
        /\ c.disturbed = (spawner[s].disturbed \/ o # "done")
        /\ c.left = spawner[s].left
  BY <1>0, SpawningSets
<1>2. container' = [container EXCEPT ![s] = "none"] /\ container'[s] = "none"
  BY DEF EngineInv, EngineTypeOK
<1>3. SpawnInv(s)'  BY <1>1, <1>2 DEF SpawnInv, At
<1> QED  BY <1>1, <1>2, <1>3, OneSpawn DEF ContainerStates

\* Another goroutine may create the network between this listing and the call.
LEMMA ListNetworksKeeps ==
  ASSUME EngineInv, NEW s \in Spawners, ListNetworks(s) PROVE EngineInv'
<1>1. container[s] = "none" /\ network \in BOOLEAN
  BY DEF ListNetworks, EngineInv, EngineTypeOK, SpawnInv, At
<1>2. PICK o \in Outcomes :
        Spawning(s, o, IF network THEN "create" ELSE "network", "network", FALSE)
  BY DEF ListNetworks
<1> DEFINE next == IF network THEN "create" ELSE "network"
<1>3. next \in {"network", "create"}  OBVIOUS
<1> HIDE DEF next
<1> QED  BY <1>1, <1>2, <1>3, NetworkCallKeeps DEF ListNetworks, Calling, next

\* A create that fails because the network exists is looked up again.
LEMMA CreateNetworkKeeps ==
  ASSUME EngineInv, NEW s \in Spawners, CreateNetwork(s) PROVE EngineInv'
<1>1. container[s] = "none" /\ network \in BOOLEAN
  BY DEF CreateNetwork, EngineInv, EngineTypeOK, SpawnInv, At
<1>2. PICK o \in Outcomes :
        /\ network' = (network \/ Done(o))
        /\ Spawning(s, o, IF network THEN "again" ELSE "create", "again", FALSE)
  BY DEF CreateNetwork
<1> DEFINE next == IF network THEN "again" ELSE "create"
<1>3. next \in {"again", "create"} /\ (next = "again" => network)  OBVIOUS
<1>4. network' \in BOOLEAN /\ (network => network')  BY <1>1, <1>2 DEF Done
<1> HIDE DEF next
<1> QED  BY <1>1, <1>2, <1>3, <1>4, NetworkCallKeeps DEF CreateNetwork, Calling, next

\* The second listing finds it, or the spawn fails on a failed call.
LEMMA ListAgainKeeps ==
  ASSUME EngineInv, NEW s \in Spawners, ListAgain(s) PROVE EngineInv'
<1>1. container[s] = "none" /\ network \in BOOLEAN /\ (~spawner[s].disturbed => network)
  BY DEF ListAgain, EngineInv, EngineTypeOK, SpawnInv, At
<1>2. PICK o \in Outcomes :
        Spawning(s, o, IF network THEN "create" ELSE "failed", "failed", FALSE)
  BY DEF ListAgain
<1> DEFINE next == IF network THEN "create" ELSE "failed"
<1>3. next \in {"create", "failed"} /\ (next = "failed" => ~network)  OBVIOUS
<1> HIDE DEF next
<1> QED  BY <1>1, <1>2, <1>3, NetworkCallKeeps DEF ListAgain, Calling, next
\* From here on there is a container to leave behind.
LEMMA CreateContainerKeeps ==
  ASSUME EngineInv, NEW s \in Spawners, CreateContainer(s) PROVE EngineInv'
<1>1. PICK o \in Outcomes :
        /\ container' = [container EXCEPT ![s] = IF Done(o) THEN "created" ELSE @]
        /\ Spawning(s, o, "start", "failed", TRUE)
  BY DEF CreateContainer
<1>2. PICK c \in SpawnerType :
        /\ spawner' = [spawner EXCEPT ![s] = c] /\ spawner'[s] = c
        /\ c.pc = IF o = "done" THEN "start" ELSE "failed"
        /\ c.disturbed = (spawner[s].disturbed \/ o # "done")
        /\ c.left = (spawner[s].left \/ o # "done")
  BY <1>1, LastCallSets
<1> DEFINE b == IF Done(o) THEN "created" ELSE "none"
<1>3. container[s] = "none"  BY DEF CreateContainer, EngineInv, SpawnInv, At
<1>4. container' = [container EXCEPT ![s] = b] /\ container'[s] = b
  BY <1>1, <1>3 DEF EngineInv, EngineTypeOK
<1>5. b \in ContainerStates /\ (o = "done" => b = "created")  BY DEF ContainerStates, Done
<1> HIDE DEF b
<1>6. SpawnInv(s)'  BY <1>2, <1>4, <1>5 DEF SpawnInv, At
<1>7. /\ network' \in BOOLEAN /\ network' = network
      /\ UNCHANGED <<engine, health, monitor, killer, quiet>>
  BY DEF CreateContainer, EngineInv, EngineTypeOK
<1> QED  BY <1>2, <1>3, <1>4, <1>5, <1>6, <1>7, OneSpawn

\* A start that fails must be followed by the removal, ...
LEMMA StartContainerKeeps ==
  ASSUME EngineInv, NEW s \in Spawners, StartContainer(s) PROVE EngineInv'
<1>1. PICK o \in Outcomes :
        /\ container' = [container EXCEPT ![s] = IF Started(s, o) THEN "running" ELSE @]
        /\ Spawning(s, o, IF Started(s, o) THEN "started" ELSE "remove", "remove", FALSE)
  BY DEF StartContainer
<1> DEFINE next == IF Started(s, o) THEN "started" ELSE "remove"
           b == IF Started(s, o) THEN "running" ELSE container[s]
<1>2. next \in {"started", "remove"} /\ next \in {"network", "again", "create", "remove", "started", "failed"}
  OBVIOUS
<1>3. container[s] \in {"created", "removed"}  BY DEF StartContainer, EngineInv, SpawnInv, At
<1>4. /\ b \in ContainerStates /\ b # "none" /\ (container[s] = "removed" => b = "removed")
      /\ next = "remove" /\ o = "done" => b = "removed"
  BY <1>3 DEF ContainerStates, Started, Done
<1>5. container' = [container EXCEPT ![s] = b] /\ container'[s] = b
  BY <1>1 DEF EngineInv, EngineTypeOK
<1>6. Calling(s, o, next, "remove")  BY <1>1 DEF Calling
<1> HIDE DEF b, next
<1>7. PICK c \in SpawnerType :
        /\ spawner' = [spawner EXCEPT ![s] = c] /\ spawner'[s] = c
        /\ c.pc = IF o = "done" THEN next ELSE "remove"
        /\ c.disturbed = (spawner[s].disturbed \/ o # "done")
        /\ c.left = spawner[s].left
  BY <1>2, <1>6, SpawningSets
<1>8. SpawnInv(s)'  BY <1>2, <1>4, <1>5, <1>7 DEF SpawnInv, At
<1>9. /\ network' \in BOOLEAN /\ network' = network
      /\ UNCHANGED <<engine, health, monitor, killer, quiet>>
  BY DEF StartContainer, EngineInv, EngineTypeOK
<1> QED  BY <1>4, <1>5, <1>7, <1>8, <1>9, OneSpawn

\* ... which notes what it could not remove.
LEMMA RemoveUnstartedKeeps ==
  ASSUME EngineInv, NEW s \in Spawners, RemoveUnstarted(s) PROVE EngineInv'
<1>1. PICK o \in Outcomes : Removed(s, o) /\ Spawning(s, o, "failed", "failed", TRUE)
  BY DEF RemoveUnstarted
<1>2. PICK c \in SpawnerType :
        /\ spawner' = [spawner EXCEPT ![s] = c] /\ spawner'[s] = c
        /\ c.pc = IF o = "done" THEN "failed" ELSE "failed"
        /\ c.disturbed = (spawner[s].disturbed \/ o # "done")
        /\ c.left = (spawner[s].left \/ o # "done")
  BY <1>1, LastCallSets
<1> DEFINE b == IF Done(o) THEN "removed" ELSE container[s]
<1>3. /\ b \in ContainerStates /\ (o = "done" => b = "removed")
      /\ b = container[s] \/ b = "removed"
  BY DEF ContainerStates, Done, EngineInv, EngineTypeOK
<1>4. container' = [container EXCEPT ![s] = b] /\ container'[s] = b
  BY <1>1 DEF Removed, EngineInv, EngineTypeOK
<1> HIDE DEF b
<1>5. SpawnInv(s)'  BY <1>2, <1>3, <1>4 DEF SpawnInv, At
<1>6. /\ network' \in BOOLEAN /\ network' = network
      /\ UNCHANGED <<engine, health, monitor, killer, quiet>>
  BY DEF RemoveUnstarted, EngineInv, EngineTypeOK
<1> QED  BY <1>2, <1>3, <1>4, <1>5, <1>6, OneSpawn
KillerType == [pc : {"idle", "stop", "force", "remove", "gone", "failed"}, of : Spawners]

\* A step of one that terminates: the container stays as it is or is removed.
LEMMA OneKiller ==
  ASSUME EngineInv, NEW k \in Killers, NEW c \in KillerType,
         killer' = [killer EXCEPT ![k] = c],
         container' \in [Spawners -> ContainerStates],
         \A s \in Spawners : container'[s] = container[s]
                               \/ (container[s] # "none" /\ container'[s] = "removed"),
         container'[c.of] # "none",
         c.pc = "gone" => container'[c.of] = "removed",
         UNCHANGED <<engine, health, monitor, network, spawner, quiet>>
  PROVE  EngineInv'
<1>1. EngineTypeOK'
  <2>1. killer' \in [Killers -> KillerType]  BY DEF EngineInv, EngineTypeOK, KillerType
  <2> QED  BY <2>1 DEF EngineInv, EngineTypeOK, KillerType, ContainerStates
<1>2. \A q \in Killers : KillInv(q)'
  <2> SUFFICES ASSUME NEW q \in Killers PROVE KillInv(q)'  OBVIOUS
  <2>1. CASE q = k
    <3>1. killer'[q] = c  BY <2>1 DEF EngineInv, EngineTypeOK
    <3> QED  BY <3>1 DEF KillInv
  <2>2. CASE q # k
    <3>1. killer'[q] = killer[q] /\ killer[q].of \in Spawners
      BY <2>2 DEF EngineInv, EngineTypeOK
    <3>2. KillInv(q)  BY DEF EngineInv
    <3> QED  BY <3>1, <3>2 DEF KillInv
  <2> QED  BY <2>1, <2>2
<1> QED  BY <1>1, <1>2, SpawnersAlone, HealthAlone DEF EngineInv

\* One lemma per call of TerminateRunner.
LEMMA TerminateKeeps ==
  ASSUME EngineInv, NEW k \in Killers, NEW s \in Spawners, Terminate(k, s) PROVE EngineInv'
<1> DEFINE c == [pc |-> "stop", of |-> s]
<1>1. c \in KillerType /\ c.of = s /\ c.pc = "stop"  BY DEF KillerType
<1>2. /\ killer' = [killer EXCEPT ![k] = c] /\ container[s] # "none"
      /\ UNCHANGED <<engine, health, monitor, network, spawner, container, quiet>>
  BY DEF Terminate
<1>3. container' \in [Spawners -> ContainerStates]
  BY <1>2 DEF EngineInv, EngineTypeOK, ContainerStates
<1> HIDE DEF c
<1>4. container'[c.of] # "none" /\ c.pc # "gone"  BY <1>1, <1>2
<1>5. \A q \in Spawners : container'[q] = container[q]  BY <1>2
<1> QED  BY <1>1, <1>2, <1>3, <1>4, <1>5, OneKiller

\* A removal goes on with the container it began with.
LEMMA KillingSets ==
  ASSUME EngineInv, NEW k \in Killers, NEW pc \in {"force", "remove", "gone", "failed"},
         Killing(k, pc)
  PROVE  \E c \in KillerType :
           killer' = [killer EXCEPT ![k] = c] /\ c.pc = pc /\ c.of = killer[k].of
<1> DEFINE c == [killer[k] EXCEPT !.pc = pc]
<1>1. killer[k] \in KillerType  BY DEF EngineInv, EngineTypeOK, KillerType
<1>2. c \in KillerType /\ c.pc = pc /\ c.of = killer[k].of  BY <1>1 DEF KillerType
<1>3. killer' = [killer EXCEPT ![k] = c]  BY DEF Killing
<1> HIDE DEF c
<1> QED  BY <1>2, <1>3

\* A container that does not stop is removed by force.
LEMMA StopContainerKeeps ==
  ASSUME EngineInv, NEW k \in Killers, StopContainer(k) PROVE EngineInv'
<1>1. PICK pc \in {"remove", "force"} : Killing(k, pc)  BY DEF StopContainer
<1>2. PICK c \in KillerType :
        killer' = [killer EXCEPT ![k] = c] /\ c.pc = pc /\ c.of = killer[k].of
  BY <1>1, KillingSets
<1>3. container[killer[k].of] # "none"  BY DEF EngineInv, KillInv, StopContainer
<1>4. UNCHANGED <<engine, health, monitor, network, spawner, container, quiet>>
  BY DEF StopContainer
<1>5. container' \in [Spawners -> ContainerStates]
  BY <1>4 DEF EngineInv, EngineTypeOK, ContainerStates
<1>6. container'[c.of] # "none" /\ c.pc # "gone"  BY <1>1, <1>2, <1>3, <1>4
<1>7. \A q \in Spawners : container'[q] = container[q]  BY <1>4
<1> QED  BY <1>2, <1>4, <1>5, <1>6, <1>7, OneKiller

\* The removal of a container that a goroutine terminates.
LEMMA RemovalKeeps ==
  ASSUME EngineInv, NEW k \in Killers, killer[k].pc # "idle", NEW o \in Outcomes,
         Removed(killer[k].of, o), NEW pc \in {"gone", "failed"}, Killing(k, pc),
         pc = "gone" => o = "done",
         UNCHANGED <<engine, health, monitor, network, spawner, quiet>>
  PROVE  EngineInv'
<1> DEFINE s == killer[k].of
           b == IF Done(o) THEN "removed" ELSE container[s]
<1>1. PICK c \in KillerType :
        killer' = [killer EXCEPT ![k] = c] /\ c.pc = pc /\ c.of = killer[k].of
  BY KillingSets
<1>2. s \in Spawners /\ container[s] # "none"  BY DEF EngineInv, EngineTypeOK, KillInv
<1>3. /\ b \in ContainerStates /\ b # "none" /\ (pc = "gone" => b = "removed")
      /\ b = container[s] \/ b = "removed"
  BY <1>2 DEF Done, ContainerStates, EngineInv, EngineTypeOK
<1>4. container' = [container EXCEPT ![s] = b]  BY DEF Removed
<1> HIDE DEF b, s
<1>5. /\ container' \in [Spawners -> ContainerStates]
      /\ \A q \in Spawners : container'[q] = IF q = s THEN b ELSE container[q]
  BY <1>2, <1>3, <1>4 DEF EngineInv, EngineTypeOK, ContainerStates
<1>6. container'[c.of] # "none" /\ (c.pc = "gone" => container'[c.of] = "removed")
  BY <1>1, <1>2, <1>3, <1>5 DEF s
<1>7. \A q \in Spawners : container'[q] = container[q]
                           \/ (container[q] # "none" /\ container'[q] = "removed")
  BY <1>2, <1>3, <1>5
<1> QED  BY <1>1, <1>5, <1>6, <1>7, OneKiller

\* The forced removal reports an error whatever it does, ...
LEMMA ForceRemoveKeeps ==
  ASSUME EngineInv, NEW k \in Killers, ForceRemove(k) PROVE EngineInv'
  BY RemovalKeeps DEF ForceRemove

\* ... the orderly one reports success only for a container that is gone.
LEMMA RemoveContainerKeeps ==
  ASSUME EngineInv, NEW k \in Killers, RemoveContainer(k) PROVE EngineInv'
<1>1. PICK o \in Outcomes :
        Removed(killer[k].of, o) /\ Killing(k, IF o = "done" THEN "gone" ELSE "failed")
  BY DEF RemoveContainer
<1>2. CASE o = "done"  BY <1>1, <1>2, RemovalKeeps DEF RemoveContainer
<1>3. CASE o # "done"  BY <1>1, <1>3, RemovalKeeps DEF RemoveContainer
<1> QED  BY <1>2, <1>3

----------------------------------------------------------------------------

\* The tracker, the monitor and the engine itself.
LEMMA EngineKeeps ==
  ASSUME EngineInv, Engine PROVE EngineInv'
<1>1. UNCHANGED <<network, spawner, killer, container>>
  BY DEF Engine, Ping, CheckHealth, EngineFails, EngineReturns, EngineTick
<1>2. (\A s \in Spawners : SpawnInv(s)') /\ (\A k \in Killers : KillInv(k)')
  BY <1>1 DEF EngineInv, SpawnInv, KillInv, At
<1>3. /\ engine \in {"up", "away", "hung"} /\ quiet \in 0..Persistent /\ Persistent \in Nat \ {0}
      /\ monitor \in {"wait", "success", "failure"}
      /\ health \in [down : BOOLEAN, since : 0..Persistent, raised : BOOLEAN]
      /\ HealthInv
  BY EngineAssumption DEF EngineInv, EngineTypeOK
<1> DEFINE Typed ==
      /\ engine \in {"up", "away", "hung"} /\ quiet \in 0..Persistent
      /\ monitor \in {"wait", "success", "failure"}
      /\ health \in [down : BOOLEAN, since : 0..Persistent, raised : BOOLEAN]
<1>4. CASE Ping
  <2>1. Typed'  BY <1>3, <1>4 DEF Ping
  <2>2. HealthInv'  BY <1>3, <1>4 DEF Ping, HealthInv
  <2> QED  BY <1>1, <1>2, <2>1, <2>2 DEF EngineInv, EngineTypeOK
<1>5. CASE CheckHealth
  <2>1. CASE monitor = "success"
    BY <1>1, <1>2, <1>3, <1>5, <2>1 DEF CheckHealth, RecordHealthy, Ok, HealthInv, EngineInv, EngineTypeOK
  <2>2. CASE monitor = "failure"
    <3> DEFINE since == IF health.down THEN health.since ELSE 0
               raised == (health.down /\ health.raised) \/ since >= Persistent
    <3>1. /\ since \in 0..Persistent /\ raised \in BOOLEAN
          /\ since <= quiet /\ (raised => since >= Persistent)
      BY <1>3, <2>2 DEF HealthInv
    <3>2. health' = [down |-> TRUE, since |-> since, raised |-> raised]
      BY <1>5, <2>2 DEF CheckHealth, RecordFailure
    <3> HIDE DEF since, raised
    <3>3. health' \in [down : BOOLEAN, since : 0..Persistent, raised : BOOLEAN]
      BY <3>1, <3>2
    <3>4. HealthInv'  BY <1>5, <3>1, <3>2 DEF CheckHealth, HealthInv
    <3>5. Typed'  BY <1>3, <1>5, <3>3 DEF CheckHealth
    <3> QED  BY <1>1, <1>2, <3>4, <3>5 DEF EngineInv, EngineTypeOK
  <2> QED  BY <1>3, <1>5, <2>1, <2>2 DEF CheckHealth
<1>6. CASE EngineFails \/ EngineReturns
  <2>1. Typed'  BY <1>3, <1>6 DEF EngineFails, EngineReturns
  <2>2. HealthInv'  BY <1>3, <1>6 DEF EngineFails, EngineReturns, HealthInv
  <2> QED  BY <1>1, <1>2, <2>1, <2>2 DEF EngineInv, EngineTypeOK
<1>7. CASE EngineTick
  <2>1. quiet' = Later(quiet) /\ Later(quiet) \in 0..Persistent
    BY <1>3, <1>7 DEF EngineTick, Later
  <2>2. CASE ~health.down
    <3>1. Typed'  BY <1>3, <1>7, <2>1, <2>2 DEF EngineTick
    <3>2. HealthInv'  BY <1>3, <1>7, <2>2 DEF EngineTick, HealthInv
    <3> QED  BY <1>1, <1>2, <3>1, <3>2 DEF EngineInv, EngineTypeOK
  <2>3. CASE health.down
    <3>1. Later(health.since) \in 0..Persistent /\ Later(health.since) <= Later(quiet)
            /\ (health.since >= Persistent => Later(health.since) >= Persistent)
      BY <1>3, <1>7, <2>3 DEF Later, EngineTick, HealthInv
    <3>2. health' = [health EXCEPT !.since = Later(health.since)]
      BY <1>7, <2>3 DEF EngineTick
    <3>3. /\ health'.down = health.down /\ health'.raised = health.raised
          /\ health'.since = Later(health.since)
          /\ health' \in [down : BOOLEAN, since : 0..Persistent, raised : BOOLEAN]
      BY <1>3, <3>1, <3>2
    <3>4. Typed'  BY <1>3, <1>7, <2>1, <3>3 DEF EngineTick
    <3>5. HealthInv'  BY <1>3, <1>7, <2>1, <3>1, <3>3 DEF EngineTick, HealthInv
    <3> QED  BY <1>1, <1>2, <3>4, <3>5 DEF EngineInv, EngineTypeOK
  <2> QED  BY <2>2, <2>3
<1> QED  BY <1>4, <1>5, <1>6, <1>7 DEF Engine

\* Whatever the composition does keeps the engine's invariant.
LEMMA EngineStepKeeps == EngineInv /\ [ClientNext]_clientVars => EngineInv'
<1> SUFFICES ASSUME EngineInv, [ClientNext]_clientVars PROVE EngineInv'  OBVIOUS
<1>1. CASE Engine  BY <1>1, EngineKeeps
<1>2. ASSUME NEW s \in Spawners, SpawnStep(s) PROVE EngineInv'
  BY <1>2, SpawnKeeps, ListNetworksKeeps, CreateNetworkKeeps, ListAgainKeeps,
     CreateContainerKeeps, StartContainerKeeps, RemoveUnstartedKeeps DEF SpawnStep
<1>3. ASSUME NEW k \in Killers, KillStep(k) PROVE EngineInv'
  BY <1>3, StopContainerKeeps, ForceRemoveKeeps, RemoveContainerKeeps DEF KillStep
<1>4. ASSUME NEW k \in Killers, NEW s \in Spawners, Terminate(k, s) PROVE EngineInv'
  BY <1>4, TerminateKeeps
<1>5. CASE UNCHANGED engineVars
  BY <1>5 DEF engineVars, EngineInv, EngineTypeOK, HealthInv, SpawnInv, KillInv, At
<1> QED  BY <1>1, <1>2, <1>3, <1>4, <1>5, EngineSteps

\* The inductive invariant of the engine's client holds in the composition: where a
\* spawn and a removal are, what their container is and what has been noted.
THEOREM EngineInvariance == ClientSpec => []EngineInv
<1>1. ClientInit => EngineInv  BY EngineInitHolds DEF ClientInit
<1> QED  BY <1>1, EngineStepKeeps, PTL DEF ClientSpec

\* However many goroutines create the managed network at once, a spawn fails only
\* on a failed call or because its container was terminated.
THEOREM SpawnsUndisturbed == ClientSpec => []SpawnUndisturbed
<1>1. EngineInv => SpawnUndisturbed  BY DEF EngineInv, SpawnInv, SpawnUndisturbed
<1> QED  BY <1>1, EngineInvariance, PTL

\* Neither a failed spawn nor a termination that reports success leaves a
\* container, whichever goroutines terminate it meanwhile.
THEOREM NothingIsLeftBehind == ClientSpec => []NothingLeftBehind
<1>1. EngineInv => NothingLeftBehind  BY DEF EngineInv, SpawnInv, KillInv, NothingLeftBehind
<1> QED  BY <1>1, EngineInvariance, PTL

\* The outage alert is never raised, or kept, without its reason: the safety half
\* of OutageNoticed.
THEOREM OutagesJustified == ClientSpec => []OutageJustified
<1>1. EngineInv => OutageJustified
  BY EngineAssumption DEF EngineInv, EngineTypeOK, HealthInv, OutageJustified
<1> QED  BY <1>1, EngineInvariance, PTL

----------------------------------------------------------------------------
(* The registry's client.                                                  *)

\* A call began when the tag named an older version or this one.
RegistryInv ==
  /\ RegistryTypeOK
  /\ \A l \in Lookups : lookup[l].from <= tag
  /\ DigestOfCall

LookupType ==
  [pc : {"idle", "head", "token", "get", "found", "error"},
   token : BOOLEAN, from : 0..MaxPushed, digest : 0..Garbage]

\* A step of one call.
LEMMA OneLookup ==
  ASSUME RegistryInv, NEW l \in Lookups, NEW c \in LookupType,
         lookup' = [lookup EXCEPT ![l] = c], UNCHANGED tag,
         c.from <= tag, c.pc = "found" => Seen(c.digest, c.from..tag)
  PROVE  RegistryInv'
<1>1. lookup' \in [Lookups -> LookupType]
  BY DEF RegistryInv, RegistryTypeOK, LookupType
<1>2. \A q \in Lookups : lookup'[q] = IF q = l THEN c ELSE lookup[q]
  BY DEF RegistryInv, RegistryTypeOK
<1>3. RegistryTypeOK'  BY <1>1 DEF RegistryInv, RegistryTypeOK, LookupType
<1>4. (\A q \in Lookups : lookup[q].from <= tag)'  BY <1>2 DEF RegistryInv
<1>5. DigestOfCall'  BY <1>2 DEF RegistryInv, DigestOfCall
<1> QED  BY <1>3, <1>4, <1>5 DEF RegistryInv

\* A lookup goes on with no digest yet, ...
LEMMA LookingKeeps ==
  ASSUME RegistryInv, NEW l \in Lookups, NEW pc \in {"head", "token", "get", "error"},
         Looking(l, pc)
  PROVE  RegistryInv'
<1> DEFINE c == [lookup[l] EXCEPT !.pc = pc]
<1>1. lookup[l] \in LookupType /\ lookup[l].from <= tag
  BY DEF RegistryInv, RegistryTypeOK, LookupType
<1>2. c \in LookupType /\ c.pc = pc /\ c.from = lookup[l].from  BY <1>1 DEF LookupType
<1>3. lookup' = [lookup EXCEPT ![l] = c] /\ UNCHANGED tag  BY DEF Looking
<1> HIDE DEF c
<1> QED  BY <1>1, <1>2, <1>3, OneLookup

\* ... or ends with the digest the tag has now, or with that of its first part.
LEMMA FoundKeeps ==
  ASSUME RegistryInv, NEW l \in Lookups, NEW d \in {tag, Hash(tag)}, Found(l, d)
  PROVE  RegistryInv'
<1> DEFINE c == [lookup[l] EXCEPT !.pc = "found", !.digest = d]
<1>1. /\ lookup[l] \in LookupType /\ lookup[l].from <= tag
      /\ tag \in 0..MaxPushed /\ d \in 0..Garbage
  BY RegistryAssumption DEF RegistryInv, RegistryTypeOK, LookupType, Garbage, Hash
<1>2. c \in LookupType /\ c.digest = d /\ c.from = lookup[l].from
  BY <1>1 DEF LookupType
<1>3. lookup' = [lookup EXCEPT ![l] = c] /\ UNCHANGED tag  BY DEF Found
<1>4. lookup[l].from \in 0..MaxPushed  BY <1>1 DEF LookupType
<1>5. tag \in lookup[l].from..tag  BY <1>1, <1>4, RegistryAssumption
<1>6. Seen(d, lookup[l].from..tag)  BY <1>5 DEF Seen, Hash
<1> HIDE DEF c
<1> QED  BY <1>1, <1>2, <1>3, <1>6, OneLookup

\* No step of the registry breaks what its lookups saw.
LEMMA RegistryStepKeeps == RegistryInv /\ [RegistryNext]_registryVars => RegistryInv'
<1> SUFFICES ASSUME RegistryInv, [RegistryNext]_registryVars PROVE RegistryInv'  OBVIOUS
<1>1. ASSUME NEW l \in Lookups, GetRemoteImageDigest(l) PROVE RegistryInv'
  <2> DEFINE c == [NoLookup EXCEPT !.pc = "head", !.from = tag]
  <2>1. tag \in 0..MaxPushed  BY DEF RegistryInv, RegistryTypeOK
  <2>2. c \in LookupType /\ c.pc = "head" /\ c.from = tag
    <3>1. NoLookup \in LookupType
      BY RegistryAssumption DEF LookupType, NoLookup, Garbage
    <3> QED  BY <2>1, <3>1 DEF LookupType
  <2>3. lookup' = [lookup EXCEPT ![l] = c] /\ UNCHANGED tag
    BY <1>1 DEF GetRemoteImageDigest
  <2>4. tag <= tag  BY <2>1, RegistryAssumption
  <2> HIDE DEF c
  <2> QED  BY <2>2, <2>3, <2>4, OneLookup
<1>2. ASSUME NEW l \in Lookups, HeadManifest(l) PROVE RegistryInv'
  <2>1. \/ \E pc \in {"token", "get", "error"} : Looking(l, pc)
        \/ Found(l, tag)
    BY <1>2 DEF HeadManifest
  <2> QED  BY <2>1, LookingKeeps, FoundKeeps
<1>3. ASSUME NEW l \in Lookups, ResolveAuthToken(l) PROVE RegistryInv'
  <2>1. CASE Looking(l, "error")  BY <2>1, LookingKeeps
  <2>2. CASE lookup' = [lookup EXCEPT ![l].pc = "head", ![l].token = TRUE] /\ UNCHANGED tag
    <3> DEFINE c == [lookup[l] EXCEPT !.pc = "head", !.token = TRUE]
    <3>1. lookup[l] \in LookupType /\ lookup[l].from <= tag
      BY DEF RegistryInv, RegistryTypeOK, LookupType
    <3>2. c \in LookupType /\ c.pc = "head" /\ c.from = lookup[l].from
      BY <3>1 DEF LookupType
    <3>3. lookup' = [lookup EXCEPT ![l] = c] /\ UNCHANGED tag  BY <2>2
    <3> HIDE DEF c
    <3> QED  BY <3>1, <3>2, <3>3, OneLookup
  <2> QED  BY <1>3, <2>1, <2>2 DEF ResolveAuthToken
<1>4. ASSUME NEW l \in Lookups, GetManifest(l) PROVE RegistryInv'
  BY <1>4, LookingKeeps, FoundKeeps DEF GetManifest
<1>5. CASE Push
  <2>1. /\ tag \in 0..MaxPushed /\ tag' = tag + 1 /\ tag < MaxPushed /\ UNCHANGED lookup
        /\ \A l \in Lookups : lookup[l].from \in 0..MaxPushed
    BY <1>5 DEF Push, RegistryInv, RegistryTypeOK
  <2>2. tag' \in 0..MaxPushed /\ RegistryTypeOK'
    BY <2>1, RegistryAssumption DEF RegistryInv, RegistryTypeOK
  <2>3. \A l \in Lookups : lookup[l].from <= tag'
    BY <2>1, RegistryAssumption DEF RegistryInv
  <2>4. \A l \in Lookups : lookup[l].from..tag \subseteq lookup[l].from..tag'
    BY <2>1, RegistryAssumption
  <2>5. DigestOfCall'  BY <2>1, <2>4 DEF RegistryInv, DigestOfCall, Seen
  <2> QED  BY <2>1, <2>2, <2>3, <2>5 DEF RegistryInv
<1>6. CASE UNCHANGED registryVars
  BY <1>6 DEF registryVars, RegistryInv, RegistryTypeOK, DigestOfCall
<1> QED  BY <1>1, <1>2, <1>3, <1>4, <1>5, <1>6 DEF RegistryNext

\* The inductive invariant of the registry's client: a lookup began no
\* later than the tag's present digest, and a result is one the tag had since.
THEOREM RegistryInvariance == ClientSpec => []RegistryInv
<1>1. ClientInit => RegistryInv
  <2> SUFFICES ASSUME RegistryInit PROVE RegistryInv  BY DEF ClientInit
  <2>1. NoLookup \in LookupType /\ NoLookup.pc = "idle" /\ NoLookup.from = 0
    BY RegistryAssumption DEF NoLookup, LookupType, Garbage
  <2> QED
    BY <2>1, RegistryAssumption
    DEF RegistryInit, RegistryInv, RegistryTypeOK, LookupType, DigestOfCall
<1> QED  BY <1>1, RegistryStepKeeps, RegistrySteps, PTL DEF ClientSpec

\* A digest is one that the tag had during the call, however often it moves.
THEOREM DigestsOfCall == ClientSpec => []DigestOfCall
<1>1. RegistryInv => DigestOfCall  BY DEF RegistryInv
<1> QED  BY <1>1, RegistryInvariance, PTL

----------------------------------------------------------------------------
(* The clients of Gitea and Forgejo.                                       *)

\* The base URL of a client that is used for a plain pool is that of its targets
\* as soon as there is one, and the token is that of the last request.
ForgeInv ==
  /\ pass = [pc |-> pass.pc, pool |-> pass.pool, base |-> pass.base, next |-> pass.next,
             form |-> pass.form, queued |-> pass.queued, failed |-> pass.failed,
             asks |-> pass.asks, token |-> pass.token]
  /\ pass.pc \in {"poll", "spawn", "get", "post", "ended"}
  /\ pass.pc # "ended" => pass.pool \in ForgePools
  /\ pass.pc = "poll" => pass.next \in DOMAIN pass.pool.targets
  /\ pass.pc # "ended" /\ Plainly(pass.pool) =>
       \A i \in DOMAIN pass.pool.targets : pass.base \in {"", pass.pool.targets[i].host}
  /\ pass.pc \in {"get", "post"} /\ Plainly(pass.pool) =>
       pass.asks.at = Endpoint(pass.pool.scope, pass.asks.target.host, Own(pass.asks.target))
  /\ TokenOfTarget

\* A plain pool's targets are all on one instance.
LEMMA PlainPool ==
  ASSUME NEW p \in ForgePools, Plainly(p), NEW i \in DOMAIN p.targets
  PROVE  /\ p.base \in {"", p.targets[i].host}
         /\ \A j \in DOMAIN p.targets : p.targets[j].host = p.targets[i].host
         /\ ParseTargetURL(p.targets[i]) = Own(p.targets[i])
  BY DEF Plainly, ParseTargetURL, Own

\* A pool has a first target.
LEMMA FirstTarget ==
  ASSUME NEW p \in ForgePools PROVE 1 \in DOMAIN p.targets /\ Len(p.targets) \in Nat
                                   /\ DOMAIN p.targets = 1..Len(p.targets)
  BY ForgeAssumption

\* A pass begins with the instance its pool is configured with.
LEMMA ResolveProviderKeeps == ASSUME ForgeInv, ResolveProvider PROVE ForgeInv'
<1>1. PICK p \in ForgePools, form \in Forms :
        pass' = [Ended EXCEPT !.pool = p, !.base = p.base, !.form = form,
                              !.pc = IF p.polls THEN "poll" ELSE "spawn"]
  BY DEF ResolveProvider
<1>2. pass' = [pc |-> IF p.polls THEN "poll" ELSE "spawn", pool |-> p, base |-> p.base,
               next |-> 1, form |-> form, queued |-> 0, failed |-> FALSE,
               asks |-> NoToken, token |-> NoToken]
  BY <1>1 DEF Ended
<1>3. 1 \in DOMAIN p.targets  BY FirstTarget
<1>4. Plainly(p) => \A i \in DOMAIN p.targets : p.base \in {"", p.targets[i].host}
  BY PlainPool
<1> QED  BY <1>2, <1>3, <1>4 DEF ForgeInv, TokenOfTarget
\* The base URL after a call for one of the pool's targets.
LEMMA BaseOfTargets ==
  ASSUME NEW p \in ForgePools, Plainly(p), NEW i \in DOMAIN p.targets, NEW base,
         \A j \in DOMAIN p.targets : base \in {"", p.targets[j].host},
         NEW b,
         b = IF Parses(p.targets[i]) THEN Pinned(base, p.targets[i].host) ELSE base
  PROVE  /\ \A j \in DOMAIN p.targets : b \in {"", p.targets[j].host}
         /\ Parses(p.targets[i]) => b = p.targets[i].host
  BY PlainPool DEF Pinned, Parses

\* The URL of a target has the host of the target.
LEMMA HostParsed ==
  ASSUME NEW t PROVE ParseTargetURL(t).host = t.host
  BY DEF ParseTargetURL, Place

\* A poll asks, and pins, the client of the pass for one target after the other.
LEMMA PollQueuedJobsKeeps == ASSUME ForgeInv, PollQueuedJobs PROVE ForgeInv'
<1> DEFINE p == pass.pool
           t == p.targets[pass.next]
           base == IF Parses(t) THEN Pinned(pass.base, ParseTargetURL(t).host) ELSE pass.base
           pc == IF pass.next = Len(p.targets) THEN "spawn" ELSE "poll"
<1>1. pass.pc = "poll" /\ p \in ForgePools /\ pass.next \in DOMAIN p.targets
  BY DEF PollQueuedJobs, ForgeInv
<1>2. \E queued, failed :
        pass' = [pass EXCEPT !.base = base, !.next = @ + 1, !.pc = pc,
                             !.queued = queued, !.failed = failed]
  <2> DEFINE moved == [pass EXCEPT !.base = base, !.next = @ + 1, !.pc = pc]
             asked == [ParseTargetURL(t) EXCEPT !.host = base]
             counted == pass.queued + CountQueued(TasksAt(asked), pass.form)
  <2>1. \/ pass' = [moved EXCEPT !.queued = @ + CountQueued(TasksAt(asked), pass.form)]
        \/ pass' = [moved EXCEPT !.failed = TRUE]
    BY DEF PollQueuedJobs
  <2>2. moved.queued = pass.queued /\ moved.failed = pass.failed  BY DEF ForgeInv
  <2>3. CASE pass' = [moved EXCEPT !.queued = @ + CountQueued(TasksAt(asked), pass.form)]
    <3>1. pass' = [pass EXCEPT !.base = base, !.next = @ + 1, !.pc = pc,
                               !.queued = counted, !.failed = pass.failed]
      BY <2>2, <2>3 DEF ForgeInv
    <3> QED  BY <3>1
  <2>4. CASE pass' = [moved EXCEPT !.failed = TRUE]
    <3>1. pass' = [pass EXCEPT !.base = base, !.next = @ + 1, !.pc = pc,
                               !.queued = pass.queued, !.failed = TRUE]
      BY <2>2, <2>4 DEF ForgeInv
    <3> QED  BY <3>1
  <2> QED  BY <2>1, <2>3, <2>4
<1>3. PICK queued, failed :
        pass' = [pass EXCEPT !.base = base, !.next = @ + 1, !.pc = pc,
                             !.queued = queued, !.failed = failed]
  BY <1>2
<1>4. pc \in {"poll", "spawn"} /\ (pc = "poll" => pass.next + 1 \in DOMAIN p.targets)
  BY <1>1, FirstTarget
<1>5. Plainly(p) => \A j \in DOMAIN p.targets : base \in {"", p.targets[j].host}
  <2>1. base = IF Parses(t) THEN Pinned(pass.base, t.host) ELSE pass.base  BY HostParsed
  <2>2. Plainly(p) => \A j \in DOMAIN p.targets : pass.base \in {"", p.targets[j].host}
    BY <1>1 DEF ForgeInv
  <2> DEFINE n == pass.next
  <2>3. n \in DOMAIN p.targets /\ t = p.targets[n]  BY <1>1
  <2> HIDE DEF base, p, t, n
  <2> QED  BY <1>1, <2>1, <2>2, <2>3, BaseOfTargets
<1> HIDE DEF base, pc
<1>6. /\ pass'.pc = pc /\ pass'.pool = p /\ pass'.base = base /\ pass'.next = pass.next + 1
      /\ pass'.asks = pass.asks /\ pass'.token = pass.token
      /\ pass' = [pc |-> pass'.pc, pool |-> pass'.pool, base |-> pass'.base,
                  next |-> pass'.next, form |-> pass'.form, queued |-> pass'.queued,
                  failed |-> pass'.failed, asks |-> pass'.asks, token |-> pass'.token]
  BY <1>3 DEF ForgeInv
<1> QED  BY <1>1, <1>4, <1>5, <1>6 DEF ForgeInv, TokenOfTarget
\* A token is asked for at the host the client has, or is pinned to by now.
LEMMA GetForgeTokenKeeps == ASSUME ForgeInv, GetForgeToken PROVE ForgeInv'
<1> DEFINE p == pass.pool
<1>1. pass.pc = "spawn" /\ p \in ForgePools  BY DEF GetForgeToken, ForgeInv
<1>2. PICK i \in DOMAIN p.targets :
        LET t == p.targets[i]
            place == ParseTargetURL(t)
            base == IF Parses(t) THEN Pinned(pass.base, place.host) ELSE pass.base
        IN  pass' = IF Parses(t) /\ Named(p.scope, place)
              THEN [pass EXCEPT !.pc = "get", !.base = base, !.token = NoToken,
                      !.asks = [target |-> t, at |-> Endpoint(p.scope, base, place)]]
              ELSE [pass EXCEPT !.pc = "ended", !.base = base]
  BY DEF GetForgeToken
<1> DEFINE t == p.targets[i]
           place == ParseTargetURL(t)
           base == IF Parses(t) THEN Pinned(pass.base, place.host) ELSE pass.base
           asks == [target |-> t, at |-> Endpoint(p.scope, base, place)]
<1>3. CASE ~(Parses(t) /\ Named(p.scope, place))
  <2>1. pass' = [pass EXCEPT !.pc = "ended", !.base = base]  BY <1>2, <1>3
  <2> HIDE DEF base
  <2>2. /\ pass'.pc = "ended" /\ pass'.pool = p
        /\ pass'.asks = pass.asks /\ pass'.token = pass.token
        /\ pass' = [pc |-> pass'.pc, pool |-> pass'.pool, base |-> pass'.base,
                    next |-> pass'.next, form |-> pass'.form, queued |-> pass'.queued,
                    failed |-> pass'.failed, asks |-> pass'.asks, token |-> pass'.token]
    BY <2>1 DEF ForgeInv
  <2> QED  BY <2>2 DEF ForgeInv, TokenOfTarget
<1>4. CASE Parses(t) /\ Named(p.scope, place)
  <2>1. pass' = [pass EXCEPT !.pc = "get", !.base = base, !.token = NoToken, !.asks = asks]
    BY <1>2, <1>4
  <2>2. ASSUME Plainly(p)
        PROVE  /\ \A j \in DOMAIN p.targets : base \in {"", p.targets[j].host}
               /\ asks.at = Endpoint(p.scope, t.host, Own(t)) /\ asks.target = t
    <3>1. base = IF Parses(t) THEN Pinned(pass.base, t.host) ELSE pass.base
      BY HostParsed
    <3>2. \A j \in DOMAIN p.targets : pass.base \in {"", p.targets[j].host}
      BY <1>1, <2>2 DEF ForgeInv
    <3>3. place = Own(t)  BY <1>1, <1>2, <2>2, PlainPool
    <3> HIDE DEF base, p
    <3>4. base = t.host /\ \A j \in DOMAIN p.targets : base \in {"", p.targets[j].host}
      BY <1>1, <1>2, <1>4, <2>2, <3>1, <3>2, BaseOfTargets
    <3> QED  BY <3>3, <3>4
  <2> HIDE DEF base, asks
  <2>3. /\ pass'.pc = "get" /\ pass'.pool = p /\ pass'.base = base
        /\ pass'.asks = asks /\ pass'.token = NoToken
        /\ pass' = [pc |-> pass'.pc, pool |-> pass'.pool, base |-> pass'.base,
                    next |-> pass'.next, form |-> pass'.form, queued |-> pass'.queued,
                    failed |-> pass'.failed, asks |-> pass'.asks, token |-> pass'.token]
    BY <2>1 DEF ForgeInv
  <2> QED  BY <1>1, <2>2, <2>3 DEF ForgeInv, TokenOfTarget
<1> QED  BY <1>3, <1>4

\* The token is of the host that was asked.
LEMMA ExecuteTokenRequestKeeps == ASSUME ForgeInv, ExecuteTokenRequest PROVE ForgeInv'
<1>1. pass.pc \in {"get", "post"}  BY DEF ExecuteTokenRequest
<1>2. CASE \E pc \in {"spawn", "ended"} : pass' = [pass EXCEPT !.pc = pc, !.token = pass.asks.at]
  <2>1. PICK pc \in {"spawn", "ended"} :
          pass' = [pass EXCEPT !.pc = pc, !.token = pass.asks.at]
    BY <1>2
  <2>2. /\ pass'.pc = pc /\ pass'.pool = pass.pool /\ pass'.base = pass.base
        /\ pass'.asks = pass.asks /\ pass'.token = pass.asks.at
        /\ pass' = [pc |-> pass'.pc, pool |-> pass'.pool, base |-> pass'.base,
                    next |-> pass'.next, form |-> pass'.form, queued |-> pass'.queued,
                    failed |-> pass'.failed, asks |-> pass'.asks, token |-> pass'.token]
    BY <2>1 DEF ForgeInv
  <2> QED  BY <1>1, <2>2 DEF ForgeInv, TokenOfTarget
<1>3. CASE \E pc \in {"post", "ended"} : pass' = [pass EXCEPT !.pc = pc]
  <2>1. PICK pc \in {"post", "ended"} : pass' = [pass EXCEPT !.pc = pc]  BY <1>3
  <2>2. /\ pass'.pc = pc /\ pass'.pool = pass.pool /\ pass'.base = pass.base
        /\ pass'.asks = pass.asks /\ pass'.token = pass.token
        /\ pass' = [pc |-> pass'.pc, pool |-> pass'.pool, base |-> pass'.base,
                    next |-> pass'.next, form |-> pass'.form, queued |-> pass'.queued,
                    failed |-> pass'.failed, asks |-> pass'.asks, token |-> pass'.token]
    BY <2>1 DEF ForgeInv
  <2> QED  BY <1>1, <2>2 DEF ForgeInv, TokenOfTarget
<1> QED  BY <1>2, <1>3 DEF ExecuteTokenRequest

\* The inductive invariant of the forges' clients: which instance a client is made
\* for or pinned to, and which one is being asked for a token.
THEOREM ForgeInvariance == ClientSpec => []ForgeInv
<1>1. ClientInit => ForgeInv
  <2> SUFFICES ASSUME pass = Ended PROVE ForgeInv  BY DEF ClientInit, ForgeInit
  <2>1. pass.pc = "ended" /\ pass.token = NoToken  BY DEF Ended
  <2>2. pass = [pc |-> pass.pc, pool |-> pass.pool, base |-> pass.base, next |-> pass.next,
                form |-> pass.form, queued |-> pass.queued, failed |-> pass.failed,
                asks |-> pass.asks, token |-> pass.token]
    BY DEF Ended
  <2> QED  BY <2>1, <2>2 DEF ForgeInv, TokenOfTarget
<1>2. ForgeInv /\ [ForgeNext]_forgeVars => ForgeInv'
  <2> SUFFICES ASSUME ForgeInv, [ForgeNext]_forgeVars PROVE ForgeInv'  OBVIOUS
  <2>1. CASE UNCHANGED forgeVars
    BY <2>1 DEF forgeVars, ForgeInv, TokenOfTarget, Plainly
  <2> QED
    BY <2>1, ResolveProviderKeeps, PollQueuedJobsKeeps, GetForgeTokenKeeps,
       ExecuteTokenRequestKeeps DEF ForgeNext
<1> QED  BY <1>1, <1>2, ForgeSteps, PTL DEF ClientSpec

\* The tasks that wait for target i of a pool, and those of its first n targets.
WaitingFor(p, i) ==
  {j \in DOMAIN TasksAt(Own(p.targets[i])) : TasksAt(Own(p.targets[i]))[j] \in Queued}
Polled(p, n) == UNION {{<<i, j>> : j \in WaitingFor(p, i)} : i \in 1..n}

\* What was counted so far is what waits for the targets polled so far.
Counted(q) ==
  q.pc # "ended" /\ q.pool.polls /\ ~q.failed /\ Plainly(q.pool) /\ Lists(q.form)
    => q.queued =
         Cardinality(Polled(q.pool, IF q.pc = "poll" THEN q.next - 1 ELSE Len(q.pool.targets)))
CountInv == Counted(pass)

\* There are finitely many tasks.
LEMMA TasksListed ==
  ASSUME NEW place
  PROVE  IsFiniteSet(DOMAIN TasksAt(place))
<1>1. CASE place \in DOMAIN Waiting
  <2>1. Waiting[place] \in Seq(STRING) /\ TasksAt(place) = Waiting[place]
    BY <1>1, WaitingAssumption DEF TasksAt
  <2>2. DOMAIN Waiting[place] = 1..Len(Waiting[place]) /\ Len(Waiting[place]) \in Nat
    BY <2>1, SeqDomain
  <2>3. IsFiniteSet(1..Len(Waiting[place]))  BY <2>2, FS_Interval
  <2> QED  BY <2>1, <2>2, <2>3
<1>2. CASE place \notin DOMAIN Waiting
  <2>1. TasksAt(place) = <<>>  BY <1>2 DEF TasksAt
  <2>2. DOMAIN TasksAt(place) = {}  BY <2>1
  <2> QED  BY <2>2, FS_EmptySet
<1> QED  BY <1>1, <1>2

\* The poll of one more target.
LEMMA PolledOneMore ==
  ASSUME NEW p, NEW n \in Nat
  PROVE  /\ IsFiniteSet(Polled(p, n)) => IsFiniteSet(Polled(p, n + 1))
         /\ IsFiniteSet(Polled(p, n)) =>
              Cardinality(Polled(p, n + 1)) = Cardinality(Polled(p, n))
                                              + Cardinality(WaitingFor(p, n + 1))
<1> DEFINE S == WaitingFor(p, n + 1)
           New == {<<n + 1, j>> : j \in S}
<1>1. IsFiniteSet(S) /\ Cardinality(S) \in Nat
  <2>1. S \subseteq DOMAIN TasksAt(Own(p.targets[n + 1]))  BY DEF WaitingFor
  <2> QED  BY <2>1, TasksListed, FS_Subset, FS_CardinalityType
<1>2. IsFiniteSet(New) /\ Cardinality(New) = Cardinality(S)
  <2> DEFINE f == [j \in S |-> <<n + 1, j>>]
  <2> HIDE DEF S
  <2>1. f \in Bijection(S, New)
    <3>1. f \in [S -> New]  OBVIOUS
    <3>2. \A a, b \in S : f[a] = f[b] => a = b  OBVIOUS
    <3>3. \A y \in New : \E a \in S : f[a] = y  OBVIOUS
    <3> QED  BY <3>1, <3>2, <3>3 DEF Bijection, Injection, Surjection, IsInjective
  <2>2. ExistsBijection(S, New)  BY <2>1 DEF ExistsBijection
  <2> QED  BY <1>1, <2>2, FS_Bijection
<1>3. Polled(p, n + 1) = Polled(p, n) \cup New
  <2>1. 1..(n + 1) = (1..n) \cup {n + 1}  OBVIOUS
  <2> HIDE DEF S
  <2>2. UNION {{<<i, j>> : j \in WaitingFor(p, i)} : i \in (1..n) \cup {n + 1}}
          = (UNION {{<<i, j>> : j \in WaitingFor(p, i)} : i \in 1..n})
            \cup {<<n + 1, j>> : j \in WaitingFor(p, n + 1)}
    BY Zenon
  <2> QED  BY <2>1, <2>2 DEF Polled, S
<1>4. Polled(p, n) \cap New = {}
  <2> HIDE DEF S
  <2>1. \A x \in Polled(p, n) : x[1] \in 1..n  BY DEF Polled
  <2>2. \A x \in New : x[1] = n + 1  OBVIOUS
  <2> QED  BY <2>1, <2>2
<1> HIDE DEF New, S
<1>5. ASSUME IsFiniteSet(Polled(p, n))
      PROVE  /\ IsFiniteSet(Polled(p, n + 1))
             /\ Cardinality(Polled(p, n + 1)) = Cardinality(Polled(p, n)) + Cardinality(S)
  <2>1. Cardinality(Polled(p, n)) \in Nat /\ Cardinality(Polled(p, n) \cap New) = 0
    BY <1>4, <1>5, FS_CardinalityType, FS_EmptySet
  <2>2. /\ IsFiniteSet(Polled(p, n) \cup New)
        /\ Cardinality(Polled(p, n) \cup New)
             = Cardinality(Polled(p, n)) + Cardinality(New) - Cardinality(Polled(p, n) \cap New)
    BY <1>2, <1>5, FS_Union
  <2> DEFINE u == Cardinality(Polled(p, n) \cup New)
             o == Cardinality(Polled(p, n))
             w == Cardinality(S)
  <2>3. u = o + w - 0 /\ o \in Nat /\ w \in Nat  BY <1>1, <1>2, <2>1, <2>2
  <2>4. u = o + w
    <3> HIDE DEF u, o, w
    <3> QED  BY <2>3
  <2> QED  BY <1>3, <2>2, <2>4
<1> QED  BY <1>5 DEF S

\* Nothing is polled at first, and finitely much at any time.
LEMMA PolledFinite ==
  ASSUME NEW p
  PROVE  Polled(p, 0) = {} /\ \A n \in Nat : IsFiniteSet(Polled(p, n))
<1>1. Polled(p, 0) = {}  BY DEF Polled
<1> DEFINE T == {n \in Nat : IsFiniteSet(Polled(p, n))}
<1>2. 0 \in T  BY <1>1, FS_EmptySet
<1>3. \A n \in Nat : n \in T => n + 1 \in T  BY PolledOneMore
<1> HIDE DEF T
<1>4. \A n \in Nat : n \in T  BY <1>2, <1>3, NatSet
<1> QED  BY <1>1, <1>4 DEF T

\* The host of a target's own place.
LEMMA OwnHost ==
  ASSUME NEW t PROVE [Own(t) EXCEPT !.host = t.host] = Own(t)
<1>1. ASSUME NEW own, NEW host, NEW owner, NEW repo, NEW new,
             own = [host |-> host, owner |-> owner, repo |-> repo, rest |-> ""],
             new = [own EXCEPT !.host = host]
      PROVE  new = [host |-> host, owner |-> owner, repo |-> repo, rest |-> ""]
  BY <1>1
<1> QED  BY <1>1 DEF Own, Place

\* A plain pool's target is asked for at its own place.
LEMMA AskedAtOwn ==
  ASSUME ForgeInv, pass.pc = "poll", Plainly(pass.pool),
         Parses(pass.pool.targets[pass.next])
  PROVE  LET t == pass.pool.targets[pass.next]
             base == IF Parses(t) THEN Pinned(pass.base, ParseTargetURL(t).host) ELSE pass.base
         IN  [ParseTargetURL(t) EXCEPT !.host = base] = Own(t)
<1> DEFINE p == pass.pool
           n == pass.next
           t == p.targets[n]
           b == IF Parses(t) THEN Pinned(pass.base, t.host) ELSE pass.base
<1>1. p \in ForgePools /\ n \in DOMAIN p.targets  BY DEF ForgeInv
<1>2. \A j \in DOMAIN p.targets : pass.base \in {"", p.targets[j].host}  BY <1>1 DEF ForgeInv
<1>3. ParseTargetURL(t) = Own(t) /\ ParseTargetURL(t).host = t.host
  BY <1>1, PlainPool, HostParsed
<1>4. b = t.host  BY <1>1, <1>2 DEF Pinned
<1>5. [Own(t) EXCEPT !.host = t.host] = Own(t)  BY OwnHost
<1> QED  BY <1>3, <1>4, <1>5

\* The count of a place whose answer lists its tasks.
LEMMA CountsWaiting ==
  ASSUME NEW p, NEW i, NEW form, Lists(form)
  PROVE  CountQueued(TasksAt(Own(p.targets[i])), form) = Cardinality(WaitingFor(p, i))
  BY DEF CountQueued, WaitingFor, Lists

\* A pass whose pool, answers and count stay the same and which polls no more.
LEMMA CountKept ==
  ASSUME NEW q, NEW r, Counted(q), q.pc \in {"spawn", "get", "post"}, r.pc # "poll",
         r.pool = q.pool, r.form = q.form, r.queued = q.queued, r.failed = q.failed
  PROVE  Counted(r)
  BY DEF Counted

\* Every step keeps the count.
LEMMA CountKeeps == ASSUME ForgeInv, CountInv, [ForgeNext]_forgeVars PROVE CountInv'
<1>1. CASE UNCHANGED forgeVars
  BY <1>1 DEF forgeVars, CountInv
<1>2. CASE ResolveProvider
  <2>1. PICK p \in ForgePools, form \in Forms :
          pass' = [Ended EXCEPT !.pool = p, !.base = p.base, !.form = form,
                                !.pc = IF p.polls THEN "poll" ELSE "spawn"]
    BY <1>2 DEF ResolveProvider
  <2>2. /\ pass'.pool = p /\ pass'.next = 1 /\ pass'.queued = 0
        /\ pass'.pc = IF p.polls THEN "poll" ELSE "spawn"
    BY <2>1 DEF Ended
  <2>3. Cardinality(Polled(p, 0)) = 0  BY PolledFinite, FS_EmptySet
  <2> QED  BY <2>2, <2>3 DEF CountInv, Counted
<1>3. CASE PollQueuedJobs
  <2> SUFFICES ASSUME pass'.pool.polls, ~pass'.failed, Plainly(pass'.pool), Lists(pass'.form)
               PROVE  pass'.queued =
                        Cardinality(Polled(pass'.pool, IF pass'.pc = "poll" THEN pass'.next - 1
                                                       ELSE Len(pass'.pool.targets)))
    BY DEF CountInv, Counted
  <2> DEFINE p == pass.pool
             n == pass.next
             t == p.targets[n]
             base == IF Parses(t) THEN Pinned(pass.base, ParseTargetURL(t).host) ELSE pass.base
             asked == [ParseTargetURL(t) EXCEPT !.host = base]
             pc == IF n = Len(p.targets) THEN "spawn" ELSE "poll"
             moved == [pass EXCEPT !.base = base, !.next = @ + 1, !.pc = pc]
  <2>1. /\ pass.pc = "poll"
        /\ \/ /\ Parses(t)
              /\ pass' = [moved EXCEPT !.queued = @ + CountQueued(TasksAt(asked), pass.form)]
           \/ pass' = [moved EXCEPT !.failed = TRUE]
    BY <1>3 DEF PollQueuedJobs
  <2>2. p \in ForgePools /\ n \in DOMAIN p.targets  BY <2>1 DEF ForgeInv
  <2>3. DOMAIN p.targets = 1..Len(p.targets) /\ Len(p.targets) \in Nat  BY <2>2, FirstTarget
  <2> HIDE DEF base, asked, pc
  <2>4. moved = [pc |-> pc, pool |-> p, base |-> base, next |-> n + 1, form |-> pass.form,
                 queued |-> pass.queued, failed |-> pass.failed, asks |-> pass.asks,
                 token |-> pass.token]
    <3>1. pass = [pc |-> pass.pc, pool |-> p, base |-> pass.base, next |-> n, form |-> pass.form,
                  queued |-> pass.queued, failed |-> pass.failed, asks |-> pass.asks,
                  token |-> pass.token]
      BY DEF ForgeInv
    <3>2. ASSUME NEW r, r = [pass EXCEPT !.base = base, !.next = n + 1, !.pc = pc]
          PROVE  r = [pc |-> pc, pool |-> p, base |-> base, next |-> n + 1, form |-> pass.form,
                      queued |-> pass.queued, failed |-> pass.failed, asks |-> pass.asks,
                      token |-> pass.token]
      BY <3>1, <3>2
    <3>3. moved = [pass EXCEPT !.base = base, !.next = n + 1, !.pc = pc]  BY Zenon
    <3> HIDE DEF moved
    <3> QED  BY <3>2, <3>3, Zenon
  <2> HIDE DEF moved
  <2>5. ~(pass' = [moved EXCEPT !.failed = TRUE])  BY <2>4
  <2>6. /\ Parses(t)
        /\ pass'.queued = pass.queued + CountQueued(TasksAt(asked), pass.form)
        /\ pass'.pool = p /\ pass'.form = pass.form /\ pass'.failed = pass.failed
        /\ pass'.next = n + 1 /\ pass'.pc = pc
    BY <2>1, <2>4, <2>5
  <2>7. asked = Own(t)
    BY <2>1, <2>6, AskedAtOwn DEF asked, base
  <2>8. pass.queued = Cardinality(Polled(p, n - 1))  BY <2>1, <2>6 DEF CountInv, Counted
  <2>9. CountQueued(TasksAt(asked), pass.form) = Cardinality(WaitingFor(p, n))
    BY <2>6, <2>7, CountsWaiting
  <2>10. n - 1 \in Nat /\ (n - 1) + 1 = n  BY <2>2, <2>3
  <2>11. Cardinality(Polled(p, n)) = Cardinality(Polled(p, n - 1)) + Cardinality(WaitingFor(p, n))
    <3> DEFINE m == n - 1
    <3> HIDE DEF m
    <3>1. m \in Nat /\ n = m + 1  BY <2>10 DEF m
    <3>2. Cardinality(Polled(p, m + 1)) = Cardinality(Polled(p, m)) + Cardinality(WaitingFor(p, m + 1))
      BY <3>1, PolledOneMore, PolledFinite
    <3> QED  BY <3>1, <3>2 DEF m
  <2>12. n = IF pc = "poll" THEN (n + 1) - 1 ELSE Len(p.targets)
    BY <2>2, <2>3 DEF pc
  <2> QED  BY <2>6, <2>8, <2>9, <2>11, <2>12
<1>4. CASE GetForgeToken
  <2>1. /\ pass.pc = "spawn" /\ pass'.pc # "poll"
        /\ pass'.pool = pass.pool /\ pass'.form = pass.form /\ pass'.queued = pass.queued
        /\ pass'.failed = pass.failed
    BY <1>4 DEF GetForgeToken, ForgeInv
  <2> QED  BY <2>1, CountKept DEF CountInv
<1>5. CASE ExecuteTokenRequest
  <2>1. /\ pass.pc \in {"get", "post"} /\ pass'.pc # "poll"
        /\ pass'.pool = pass.pool /\ pass'.form = pass.form /\ pass'.queued = pass.queued
        /\ pass'.failed = pass.failed
    BY <1>5 DEF ExecuteTokenRequest, ForgeInv
  <2> QED  BY <2>1, CountKept DEF CountInv
<1> QED  BY <1>1, <1>2, <1>3, <1>4, <1>5 DEF ForgeNext

\* A plain pool is polled at its own targets, its runners register there, and of an
\* instance that lists the tasks each one that waits is counted once.
THEOREM PoolsAskTheirForge == ClientSpec => []AsksOwnForge
<1>1. ClientInit => CountInv
  <2>1. Ended.pc = "ended"  BY DEF Ended
  <2>2. ClientInit => pass = Ended  BY DEF ClientInit, ForgeInit
  <2> QED  BY <2>1, <2>2 DEF CountInv, Counted
<1>2. ForgeInv /\ CountInv => AsksOwnForge
  <2> SUFFICES ASSUME ForgeInv, CountInv PROVE QueuedCounted
    BY DEF AsksOwnForge, ForgeInv
  <2> SUFFICES ASSUME pass.pc = "spawn", pass.pool.polls, ~pass.failed, Plainly(pass.pool),
                      Lists(pass.form)
               PROVE  pass.queued =
                        Cardinality(UNION {{<<i, j>> : j \in WaitingFor(pass.pool, i)} :
                                             i \in DOMAIN pass.pool.targets})
    BY DEF QueuedCounted, WaitingFor
  <2>1. DOMAIN pass.pool.targets = 1..Len(pass.pool.targets)  BY FirstTarget DEF ForgeInv
  <2> QED  BY <2>1 DEF CountInv, Counted, Polled
<1> QED  BY <1>1, <1>2, CountKeeps, ForgeInvariance, ForgeSteps, PTL DEF ClientSpec

----------------------------------------------------------------------------
(* DiscoverTargets.  The invariant: what a request is owed it has found,   *)
(* or it is in a list that is still to be read, on the next page or later. *)

\* What the lists may ever hold.
Entry == (UNION {ToSet(Listed[s]) : s \in DOMAIN Listed}) \cup Newcomers

ListsTyped(ls) ==
  /\ ls \in [DOMAIN Listed -> Seq(Entry)]
  /\ ls["installations"] \in Seq(Accounts)

\* An app lists repositories installation by installation.
Deep(w) == w.app /\ w.repos

NoRepeats(s) == \A i, j \in DOMAIN s : s[i] = s[j] => i = j

\* x is on the pages of list s that request w has still to read.
Ahead(w, s, x) == \E i \in DOMAIN s : i > (w.page - 1) * PageLen /\ s[i] = x

\* The request has still to read account a's list.
AccountAhead(w, ls, a) ==
  \/ a \in ToSet(w.todo)
  \/ w.pc = "page" /\ w.source = "installations" /\ Ahead(w, ls["installations"], a)

ToCome(w, ls, x) ==
  \/ /\ w.pc = "page" /\ ~(Deep(w) /\ w.source = "installations")
     /\ Ahead(w, ls[w.source], x)
  \/ Deep(w) /\ \E a \in Accounts : x \in ToSet(ls[a]) /\ AccountAhead(w, ls, a)

RequestTyped(w) ==
  /\ w = [pc |-> w.pc, app |-> w.app, repos |-> w.repos, source |-> w.source, page |-> w.page,
          todo |-> w.todo, found |-> w.found, shown |-> w.shown, owed |-> w.owed, cut |-> w.cut]
  /\ w.pc \in {"page", "mint", "slug", "meta", "done", "failed"}
  /\ w.app \in BOOLEAN /\ w.repos \in BOOLEAN /\ w.cut \in BOOLEAN
  /\ w.page \in 1..MaxPages /\ w.source \in DOMAIN Listed
  /\ w.todo \in Seq(Accounts) /\ w.found \in Seq(Entry)

RequestPlaced(w) ==
  /\ w.todo # <<>> => Deep(w)
  /\ w.pc = "mint" => w.todo # <<>>
  /\ w.pc \in {"slug", "meta", "done"} => w.todo = <<>>
  /\ w.pc = "page" => \/ w.source = "installations" /\ w.app
                      \/ w.source = "user" /\ ~w.app
                      \/ w.source \in Accounts /\ Deep(w)

NothingMissed(w, ls) ==
  w.pc # "failed" /\ ~w.cut => \A x \in w.owed : x \in ToSet(w.found) \/ ToCome(w, ls, x)

WalkInv(w, ls) ==
  /\ RequestTyped(w) /\ RequestPlaced(w) /\ NoRepeats(w.found) /\ NothingMissed(w, ls)

DiscoveryInv == ListsTyped(lists) /\ WalkInv(walk, lists)

\* Of a list and a page, AddNew makes a list without repetitions that has the
\* entries of both.
LEMMA AddNewOnce ==
  ASSUME NEW S, NEW f \in Seq(S), NEW e \in Seq(S), NoRepeats(f)
  PROVE  /\ AddNew(f, e) \in Seq(S) /\ NoRepeats(AddNew(f, e))
         /\ ToSet(f) \cup ToSet(e) \subseteq ToSet(AddNew(f, e))
<1> DEFINE n == Len(e)
           D == DOMAIN e
           M(s) == CHOOSE x \in s : \A y \in s : x >= y
           op(acc, x) == IF (\E i \in 1..Len(acc) : acc[i] = x) THEN acc ELSE Append(acc, x)
           Fold(g) == [s \in SUBSET D |-> IF s = {} THEN f ELSE op(g[s \ {M(s)}], e[M(s)])]
           iter == CHOOSE g : g = Fold(g)
<1>1. AddNew(f, e) = iter[D]
  BY Zenon DEF AddNew, FoldLeft, MapThenFoldSet, Max, Contains
<1>2. n \in Nat /\ D = 1..n /\ \A i \in D : e[i] \in S  BY SeqDomain
<1>3. \A s \in SUBSET D : s # {} => M(s) \in s  BY <1>2, GreatestNumber
<1>4. ASSUME NEW x \in Seq(S), NEW y \in S PROVE op(x, y) \in Seq(S)  OBVIOUS
<1>5. IsFiniteSet(D)  BY <1>2, FS_Interval
<1> HIDE DEF D, n, op, M
<1>6. iter = Fold(iter)
  <2> DEFINE pick == [s \in SUBSET D |-> M(s)]
             step == [x \in Seq(S) |-> [i \in D |-> op(x, e[i])]]
  <2>1. \A s \in SUBSET D : s # {} => pick[s] \in s  BY <1>3
  <2>2. step \in [Seq(S) -> [D -> Seq(S)]]  BY <1>2, <1>4
  <2>3. \A x \in Seq(S), i \in D : step[x][i] = op(x, e[i])  OBVIOUS
  <2>4. \A s \in SUBSET D : pick[s] = M(s)  OBVIOUS
  <2> HIDE DEF pick, step
  <2>5. PICK g \in [SUBSET D -> Seq(S)] : IsFold(g, D, f, pick, step)
    BY <1>5, <2>1, <2>2, FoldExists
  <2>7. ASSUME NEW s \in SUBSET D, s # {}
        PROVE  step[g[s \ {pick[s]}]][pick[s]] = op(g[s \ {M(s)}], e[M(s)])
    <3>1. s \ {M(s)} \in SUBSET D /\ M(s) \in D  BY <1>3, <2>7
    <3>2. g[s \ {M(s)}] \in Seq(S)  BY <3>1
    <3> QED  BY <2>3, <2>4, <3>1, <3>2
  <2>8. \A s \in SUBSET D : g[s] = IF s = {} THEN f ELSE op(g[s \ {M(s)}], e[M(s)])
    BY <2>5, <2>7 DEF IsFold
  <2>9. g = Fold(g)  BY <2>8
  <2> QED  BY <2>9
<1> HIDE DEF iter
<1>7. iter[1..0] = f  BY <1>2, <1>6
<1>8. ASSUME NEW k \in Nat, k + 1 <= n PROVE iter[1..(k + 1)] = op(iter[1..k], e[k + 1])
  <2>1. 1..(k + 1) \in SUBSET D /\ 1..(k + 1) # {} /\ k + 1 \in Nat \ {0}
    <3>1. 1 \in 1..(k + 1) /\ k + 1 \in Nat \ {0}  OBVIOUS
    <3>2. \A i \in 1..(k + 1) : i \in 1..n  BY <1>2, <1>8
    <3> QED  BY <1>2, <3>1, <3>2
  <2>2. M(1..(k + 1)) = k + 1  BY <2>1, GreatestOf, Zenon DEF M
  <2>3. (1..(k + 1)) \ {k + 1} = 1..k  OBVIOUS
  <2>4. iter[1..(k + 1)] = op(iter[(1..(k + 1)) \ {M(1..(k + 1))}], e[M(1..(k + 1))])
    BY <1>6, <2>1
  <2> QED  BY <2>2, <2>3, <2>4
<1> DEFINE Good(k) == /\ iter[1..k] \in Seq(S) /\ NoRepeats(iter[1..k])
                      /\ ToSet(f) \subseteq ToSet(iter[1..k])
                      /\ \A i \in 1..k : e[i] \in ToSet(iter[1..k])
           T == {k \in Nat : k <= n => Good(k)}
<1>9. 0 \in T  BY <1>7
<1>10. ASSUME NEW x \in Seq(S), NoRepeats(x), NEW y \in S
       PROVE  NoRepeats(op(x, y)) /\ ToSet(x) \cup {y} \subseteq ToSet(op(x, y))
  <2>1. CASE \E i \in 1..Len(x) : x[i] = y  BY <1>10, <2>1 DEF op, ToSet
  <2>2. CASE ~\E i \in 1..Len(x) : x[i] = y
    <3>1. op(x, y) = Append(x, y)  BY <2>2 DEF op
    <3>2. /\ Append(x, y) \in Seq(S) /\ Len(Append(x, y)) = Len(x) + 1
          /\ \A i \in 1..Len(x) : Append(x, y)[i] = x[i]
          /\ Append(x, y)[Len(x) + 1] = y /\ Len(x) \in Nat
          /\ DOMAIN Append(x, y) = 1..(Len(x) + 1) /\ DOMAIN x = 1..Len(x)
      OBVIOUS
    <3> DEFINE z == Append(x, y)
    <3> HIDE DEF z
    <3>3. NoRepeats(z)  BY <1>10, <2>2, <3>2 DEF NoRepeats, z
    <3>4. ToSet(x) \cup {y} \subseteq ToSet(z)  BY <3>2 DEF ToSet, z
    <3> QED  BY <3>1, <3>3, <3>4 DEF z
  <2> QED  BY <2>1, <2>2
<1>11. ASSUME NEW k \in Nat, k \in T PROVE k + 1 \in T
  <2> SUFFICES ASSUME k + 1 <= n PROVE Good(k + 1)  OBVIOUS
  <2>1. Good(k)  BY <1>2, <1>11
  <2>2. e[k + 1] \in S  BY <1>2
  <2> DEFINE x == iter[1..k]
             y == e[k + 1]
  <2>3. iter[1..(k + 1)] = op(x, y)  BY <1>8
  <2>4. x \in Seq(S) /\ NoRepeats(x) /\ ToSet(f) \subseteq ToSet(x) /\ \A i \in 1..k : e[i] \in ToSet(x)
    BY <2>1
  <2>5. \A i \in 1..(k + 1) : i \in 1..k \/ e[i] = y  OBVIOUS
  <2> HIDE DEF x, y
  <2>6. op(x, y) \in Seq(S) /\ NoRepeats(op(x, y)) /\ ToSet(x) \cup {y} \subseteq ToSet(op(x, y))
    BY <1>4, <1>10, <2>2, <2>4 DEF y
  <2>7. \A i \in 1..(k + 1) : e[i] \in ToSet(op(x, y))  BY <2>4, <2>5, <2>6
  <2> QED  BY <2>3, <2>4, <2>6, <2>7
<1>12. n \in T
  <2> HIDE DEF T
  <2> QED  BY <1>2, <1>9, <1>11, NatSet
<1>13. Good(n)  BY <1>2, <1>12
<1>14. ToSet(e) \subseteq ToSet(iter[1..n])  BY <1>2, <1>13 DEF ToSet, D
<1> QED  BY <1>1, <1>2, <1>13, <1>14

\* A part of a sequence.
LEMMA Slice ==
  ASSUME NEW S, NEW s \in Seq(S), NEW m \in Nat, NEW n \in Nat, m <= n, n <= Len(s)
  PROVE  /\ SubSeq(s, m + 1, n) \in Seq(S) /\ Len(SubSeq(s, m + 1, n)) = n - m
         /\ \A j \in 1..(n - m) : SubSeq(s, m + 1, n)[j] = s[m + j]
  OBVIOUS

\* What is not on a page is on the next ones, if the page is full.
LEMMA PageEntries ==
  ASSUME NEW S, NEW s \in Seq(S), NEW p \in Nat \ {0}
  PROVE  /\ PageOf(s, p) \in Seq(S)
         /\ \A i \in DOMAIN s : i > (p - 1) * PageLen =>
              \/ s[i] \in ToSet(PageOf(s, p))
              \/ Len(PageOf(s, p)) = PageLen /\ i > ((p + 1) - 1) * PageLen
<1> DEFINE from == (p - 1) * PageLen
           to == IF Len(s) < from + PageLen THEN Len(s) ELSE from + PageLen
           e == PageOf(s, p)
<1>1. from \in Nat /\ PageLen \in Nat \ {0} /\ ((p + 1) - 1) * PageLen = from + PageLen
  BY DiscoveryAssumption
<1>2. Len(s) \in Nat /\ DOMAIN s = 1..Len(s)  BY SeqDomain
<1> HIDE DEF from
<1>3. e = SubSeq(s, from + 1, to)  BY DEF PageOf, from
<1>4. to \in Nat /\ to <= Len(s) /\ to <= from + PageLen  BY <1>1, <1>2
<1>5. e \in Seq(S)  BY <1>1, <1>2, <1>3, <1>4
<1>6. ASSUME NEW i \in DOMAIN s, i > from
      PROVE  s[i] \in ToSet(e) \/ (Len(e) = PageLen /\ i > from + PageLen)
  <2>1. CASE i <= to
    <3>1. /\ Len(e) = to - from /\ DOMAIN e = 1..(to - from)
          /\ \A j \in 1..(to - from) : e[j] = s[from + j]
      <4>1. from <= to  BY <1>1, <1>2, <1>4, <1>6, <2>1
      <4> HIDE DEF to, e
      <4>2. Len(e) = to - from /\ \A j \in 1..(to - from) : e[j] = s[from + j]
        BY <1>1, <1>3, <1>4, <4>1, Slice
      <4> QED  BY <1>5, <4>2, SeqDomain
    <3>2. i - from \in 1..(to - from) /\ from + (i - from) = i  BY <1>1, <1>2, <1>4, <1>6, <2>1
    <3>3. e[i - from] = s[i]  BY <3>1, <3>2
    <3> HIDE DEF e
    <3> QED  BY <3>1, <3>2, <3>3 DEF ToSet
  <2>2. CASE ~(i <= to)
    <3>1. to = from + PageLen /\ i > from + PageLen  BY <1>1, <1>2, <1>4, <2>2
    <3>2. Len(e) = PageLen
      <4> HIDE DEF to
      <4> QED  BY <1>1, <1>2, <1>3, <1>4, <3>1
    <3> QED  BY <3>1, <3>2
  <2> QED  BY <2>1, <2>2
<1> HIDE DEF e
<1> QED  BY <1>1, <1>5, <1>6 DEF from, e

\* A request whose list is at its end has found what it is owed, or has an account
\* to go to.
LEMMA ListEnds ==
  ASSUME NEW w, NEW ls, RequestTyped(w), w.todo # <<>> => Deep(w), NoRepeats(w.found),
         ~w.cut => \A x \in w.owed :
           \/ x \in ToSet(w.found)
           \/ Deep(w) /\ \E a \in Accounts : a \in ToSet(w.todo) /\ x \in ToSet(ls[a])
  PROVE  WalkInv(NextList(w), ls)
<1> DEFINE pc == IF w.todo # <<>> THEN "mint" ELSE IF w.app THEN "slug" ELSE "done"
           v == NextList(w)
<1>1. v = [w EXCEPT !.pc = pc]  BY DEF NextList
<1>2. pc \in {"mint", "slug", "done"} /\ (pc = "mint" <=> w.todo # <<>>)  OBVIOUS
<1> HIDE DEF v, pc
<1>3. /\ v.pc = pc /\ v.app = w.app /\ v.repos = w.repos /\ v.source = w.source
      /\ v.page = w.page /\ v.todo = w.todo /\ v.found = w.found /\ v.owed = w.owed
      /\ v.cut = w.cut
      /\ v = [pc |-> v.pc, app |-> v.app, repos |-> v.repos, source |-> v.source, page |-> v.page,
              todo |-> v.todo, found |-> v.found, shown |-> v.shown, owed |-> v.owed, cut |-> v.cut]
  BY <1>1 DEF RequestTyped
<1>4. RequestTyped(v)  BY <1>2, <1>3 DEF RequestTyped
<1>5. RequestPlaced(v)  BY <1>2, <1>3 DEF RequestPlaced, Deep
<1>6. NothingMissed(v, ls)
  <2> SUFFICES ASSUME ~w.cut, NEW x \in w.owed, x \notin ToSet(w.found) PROVE ToCome(v, ls, x)
    BY <1>3 DEF NothingMissed
  <2> QED  BY <1>3 DEF ToCome, AccountAhead, Deep
<1> QED  BY <1>3, <1>4, <1>5, <1>6 DEF WalkInv, v

\* Nothing is to come in a request whose lists are read.
LEMMA Unmoved ==
  ASSUME NEW w, NEW ls, WalkInv(w, ls), w.pc \in {"slug", "meta"},
         NEW v, RequestTyped(v), v.pc \in {"slug", "meta", "done"},
         v.app = w.app, v.repos = w.repos, v.todo = w.todo, v.found = w.found,
         v.owed = w.owed, v.cut = w.cut
  PROVE  WalkInv(v, ls)
<1>1. w.todo = <<>> /\ v.todo = <<>>  BY DEF WalkInv, RequestPlaced
<1>2. \A a : a \notin ToSet(w.todo)  BY <1>1 DEF ToSet
<1>3. RequestPlaced(v)  BY <1>1 DEF RequestPlaced
<1>4. NothingMissed(v, ls)
  <2> SUFFICES ASSUME ~w.cut, NEW x \in w.owed PROVE x \in ToSet(w.found)
    BY DEF NothingMissed
  <2>1. ~ToCome(w, ls, x)  BY <1>2 DEF ToCome, AccountAhead
  <2> QED  BY <2>1 DEF WalkInv, NothingMissed
<1> QED  BY <1>3, <1>4 DEF WalkInv

\* What it has.
LEMMA ToSetConcat ==
  ASSUME NEW S, NEW s \in Seq(S), NEW t \in Seq(S)
  PROVE  /\ s \o t \in Seq(S)
         /\ ToSet(s) \subseteq ToSet(s \o t) /\ ToSet(t) \subseteq ToSet(s \o t)
<1> DEFINE u == s \o t
<1>1. /\ u \in Seq(S) /\ Len(u) = Len(s) + Len(t)
      /\ \A i \in 1..Len(s) : u[i] = s[i]
      /\ \A i \in 1..Len(t) : u[Len(s) + i] = t[i]
  BY Concatenation
<1> HIDE DEF u
<1>2. /\ Len(s) \in Nat /\ Len(t) \in Nat /\ DOMAIN s = 1..Len(s) /\ DOMAIN t = 1..Len(t)
      /\ DOMAIN u = 1..(Len(s) + Len(t))
  BY <1>1, SeqDomain
<1>3. \A i \in DOMAIN s : i \in DOMAIN u /\ u[i] = s[i]  BY <1>1, <1>2
<1>4. \A i \in DOMAIN t : Len(s) + i \in DOMAIN u /\ u[Len(s) + i] = t[i]  BY <1>1, <1>2
<1>5. ToSet(s) \subseteq ToSet(u) /\ ToSet(t) \subseteq ToSet(u)  BY <1>3, <1>4 DEF ToSet
<1> QED  BY <1>1, <1>5 DEF u

\* A page of a request's list.
LEMMA PageRead ==
  ASSUME NEW w, NEW ls, ListsTyped(ls), WalkInv(w, ls), w.pc = "page"
  PROVE  WalkInv(WithPage(w, PageOf(ls[w.source], w.page)), ls)
<1> DEFINE s == ls[w.source]
           e == PageOf(s, w.page)
           accounts == Deep(w) /\ w.source = "installations"
           todo == IF accounts THEN w.todo \o e ELSE w.todo
           found == IF accounts THEN w.found ELSE AddNew(w.found, e)
           read == IF accounts THEN [w EXCEPT !.todo = w.todo \o e]
                   ELSE [w EXCEPT !.found = AddNew(w.found, e)]
           stopped == w.page = MaxPages /\ Len(e) = PageLen
           next == [read EXCEPT !.page = w.page + 1]
           last == [read EXCEPT !.cut = w.cut \/ stopped]
<1>1. w.page \in Nat \ {0} /\ w.page \in 1..MaxPages /\ MaxPages \in Nat /\ PageLen \in Nat
  BY DiscoveryAssumption DEF WalkInv, RequestTyped
<1>2. s \in Seq(Entry) /\ (w.source = "installations" => s \in Seq(Accounts))
  BY DEF ListsTyped, WalkInv, RequestTyped
<1>3. e \in Seq(Entry) /\ (w.source = "installations" => e \in Seq(Accounts))
  BY <1>1, <1>2, PageEntries
<1>4. \A i \in DOMAIN s : i > (w.page - 1) * PageLen =>
        s[i] \in ToSet(e) \/ (Len(e) = PageLen /\ i > ((w.page + 1) - 1) * PageLen)
  BY <1>1, <1>2, PageEntries
<1>5. WithPage(w, e) = IF ~LastPage(e, w.page) THEN next ELSE NextList(last)
  <2>1. read.page = w.page /\ read.cut = w.cut  BY DEF WalkInv, RequestTyped
  <2>2. WithPage(w, e) = IF ~LastPage(e, w.page) THEN [read EXCEPT !.page = read.page + 1]
                         ELSE NextList([read EXCEPT !.cut = read.cut \/ (w.pc = "page" /\ stopped)])
    BY DEF WithPage, Deep
  <2> QED  BY <2>1, <2>2
<1> HIDE DEF e, s, accounts
<1>6. /\ todo \in Seq(Accounts) /\ found \in Seq(Entry) /\ NoRepeats(found)
      /\ ToSet(w.todo) \subseteq ToSet(todo) /\ ToSet(w.found) \subseteq ToSet(found)
      /\ accounts => ToSet(e) \subseteq ToSet(todo)
      /\ ~accounts => ToSet(e) \subseteq ToSet(found)
      /\ todo # <<>> => Deep(w)
  <2>1. w.todo \in Seq(Accounts) /\ w.found \in Seq(Entry) /\ NoRepeats(w.found)
    BY DEF WalkInv, RequestTyped
  <2>2. CASE accounts
    <3>1. e \in Seq(Accounts)  BY <1>3, <2>2 DEF accounts
    <3>2. /\ w.todo \o e \in Seq(Accounts)
          /\ ToSet(w.todo) \subseteq ToSet(w.todo \o e) /\ ToSet(e) \subseteq ToSet(w.todo \o e)
      BY <2>1, <3>1, ToSetConcat
    <3> QED  BY <2>1, <2>2, <3>2 DEF accounts
  <2>3. CASE ~accounts
    <3>1. /\ AddNew(w.found, e) \in Seq(Entry) /\ NoRepeats(AddNew(w.found, e))
          /\ ToSet(w.found) \cup ToSet(e) \subseteq ToSet(AddNew(w.found, e))
      BY <1>3, <2>1, AddNewOnce
    <3> QED  BY <2>1, <2>3, <3>1 DEF WalkInv, RequestPlaced
  <2> QED  BY <2>2, <2>3
<1>7. read = [pc |-> w.pc, app |-> w.app, repos |-> w.repos, source |-> w.source,
              page |-> w.page, todo |-> todo, found |-> found, shown |-> w.shown,
              owed |-> w.owed, cut |-> w.cut]
  <2> DEFINE more == w.todo \o e
             new == AddNew(w.found, e)
  <2> HIDE DEF more, new
  <2>1. CASE accounts
    <3>1. read = [w EXCEPT !.todo = more] /\ todo = more /\ found = w.found  BY <2>1 DEF more
    <3> HIDE DEF read, todo, found
    <3> QED  BY <3>1 DEF WalkInv, RequestTyped
  <2>2. CASE ~accounts
    <3>1. read = [w EXCEPT !.found = new] /\ todo = w.todo /\ found = new  BY <2>2 DEF new
    <3> HIDE DEF read, todo, found
    <3> QED  BY <3>1 DEF WalkInv, RequestTyped
  <2> QED  BY <2>1, <2>2
<1> HIDE DEF read, todo, found
\* What is owed is found, or in an account's list, or on a later page.
<1>8. ASSUME ~w.cut, NEW x \in w.owed, x \notin ToSet(found),
             ~(Deep(w) /\ \E a \in Accounts : a \in ToSet(todo) /\ x \in ToSet(ls[a])),
             NEW v, v.pc = "page", v.page = w.page + 1, v.source = w.source, v.app = w.app,
             v.repos = w.repos, v.todo = todo
      PROVE  Len(e) = PageLen /\ ToCome(v, ls, x)
  <2>1. ToCome(w, ls, x)  BY <1>6, <1>8 DEF WalkInv, NothingMissed
  <2>2. CASE accounts
    <3>1. PICK a \in Accounts : x \in ToSet(ls[a]) /\ AccountAhead(w, ls, a)
      BY <2>1, <2>2 DEF ToCome, accounts
    <3>2. a \notin ToSet(todo) /\ a \notin ToSet(w.todo) /\ a \notin ToSet(e)
      BY <1>6, <1>8, <2>2, <3>1 DEF accounts
    <3>3. PICK i \in DOMAIN s : i > (w.page - 1) * PageLen /\ s[i] = a
      BY <2>2, <3>1, <3>2 DEF AccountAhead, Ahead, accounts, s
    <3>4. Len(e) = PageLen /\ i > ((w.page + 1) - 1) * PageLen  BY <1>4, <3>2, <3>3
    <3>5. Ahead(v, ls["installations"], a)
      BY <1>8, <2>2, <3>3, <3>4 DEF Ahead, accounts, s
    <3>6. AccountAhead(v, ls, a)  BY <1>8, <2>2, <3>5 DEF AccountAhead, accounts
    <3> QED  BY <1>8, <2>2, <3>1, <3>4, <3>6 DEF ToCome, accounts, Deep
  <2>3. CASE ~accounts
    <3>1. ASSUME NEW a \in Accounts, Deep(w), AccountAhead(w, ls, a), x \in ToSet(ls[a]) PROVE FALSE
      BY <1>6, <1>8, <2>3, <3>1 DEF AccountAhead, accounts
    <3>2. PICK i \in DOMAIN s : i > (w.page - 1) * PageLen /\ s[i] = x
      BY <2>1, <3>1 DEF ToCome, Ahead, s
    <3>3. Len(e) = PageLen /\ i > ((w.page + 1) - 1) * PageLen  BY <1>4, <1>6, <1>8, <2>3, <3>2
    <3>4. Ahead(v, ls[v.source], x)  BY <1>8, <3>2, <3>3 DEF Ahead, s
    <3> QED  BY <1>8, <2>3, <3>3, <3>4 DEF ToCome, accounts, Deep
  <2> QED  BY <2>2, <2>3
<1>9. CASE ~LastPage(e, w.page)
  <2>1. /\ next.pc = "page" /\ next.page = w.page + 1 /\ next.source = w.source
        /\ next.app = w.app /\ next.repos = w.repos /\ next.todo = todo /\ next.found = found
        /\ next.owed = w.owed /\ next.cut = w.cut
        /\ next = [pc |-> next.pc, app |-> next.app, repos |-> next.repos, source |-> next.source,
                   page |-> next.page, todo |-> next.todo, found |-> next.found,
                   shown |-> next.shown, owed |-> next.owed, cut |-> next.cut]
    BY <1>7
  <2> HIDE DEF next
  <2>2. w.page + 1 \in 1..MaxPages  BY <1>1, <1>9 DEF LastPage
  <2>3. RequestTyped(next)  BY <1>6, <2>1, <2>2 DEF RequestTyped, WalkInv
  <2>4. RequestPlaced(next)  BY <1>6, <2>1 DEF RequestPlaced, WalkInv, Deep
  <2>5. NothingMissed(next, ls)
    <3> SUFFICES ASSUME ~w.cut, NEW x \in w.owed, x \notin ToSet(found) PROVE ToCome(next, ls, x)
      BY <2>1 DEF NothingMissed
    <3>1. CASE Deep(w) /\ \E a \in Accounts : a \in ToSet(todo) /\ x \in ToSet(ls[a])
      BY <2>1, <3>1 DEF ToCome, AccountAhead, Deep
    <3>2. CASE ~(Deep(w) /\ \E a \in Accounts : a \in ToSet(todo) /\ x \in ToSet(ls[a]))
      BY <1>8, <2>1, <3>2
    <3> QED  BY <3>1, <3>2
  <2> QED  BY <1>5, <1>6, <1>9, <2>1, <2>3, <2>4, <2>5 DEF WalkInv, e, s
<1>10. CASE LastPage(e, w.page)
  <2> DEFINE cut == w.cut \/ stopped
  <2>0. cut \in BOOLEAN  BY DEF WalkInv, RequestTyped
  <2> HIDE DEF cut
  <2>1. /\ last.pc = "page" /\ last.page = w.page /\ last.source = w.source
        /\ last.app = w.app /\ last.repos = w.repos /\ last.todo = todo /\ last.found = found
        /\ last.owed = w.owed /\ last.cut = cut
        /\ last = [pc |-> last.pc, app |-> last.app, repos |-> last.repos, source |-> last.source,
                   page |-> last.page, todo |-> last.todo, found |-> last.found,
                   shown |-> last.shown, owed |-> last.owed, cut |-> last.cut]
    <3>1. last = [read EXCEPT !.cut = cut]  BY DEF cut
    <3> HIDE DEF last
    <3> QED  BY <1>7, <3>1
  <2> HIDE DEF last
  <2>2. RequestTyped(last)  BY <1>6, <2>0, <2>1 DEF RequestTyped, WalkInv
  <2>3. ASSUME ~last.cut, NEW x \in last.owed, x \notin ToSet(last.found)
        PROVE  Deep(last) /\ \E a \in Accounts : a \in ToSet(last.todo) /\ x \in ToSet(ls[a])
    <3>1. ~w.cut /\ Len(e) # PageLen
      <4>1. Len(e) \in Nat  BY <1>3, SeqDomain
      <4>2. ~w.cut /\ ~stopped  BY <2>1, <2>3 DEF cut
      <4>3. Len(e) < PageLen \/ w.page = MaxPages  BY <1>10 DEF LastPage
      <4> QED  BY <1>1, <4>1, <4>2, <4>3
    <3> DEFINE v == [pc |-> "page", page |-> w.page + 1, source |-> w.source, app |-> w.app,
                     repos |-> w.repos, todo |-> todo]
    <3>2. /\ v.pc = "page" /\ v.page = w.page + 1 /\ v.source = w.source /\ v.app = w.app
          /\ v.repos = w.repos /\ v.todo = todo
      OBVIOUS
    <3> HIDE DEF v
    <3>3. Deep(w) /\ \E a \in Accounts : a \in ToSet(todo) /\ x \in ToSet(ls[a])
      BY <1>8, <2>1, <2>3, <3>1, <3>2
    <3> QED  BY <2>1, <3>3 DEF Deep
  <2>4. last.todo # <<>> => Deep(last)  BY <1>6, <2>1 DEF Deep
  <2>5. WalkInv(NextList(last), ls)
    BY <1>6, <2>1, <2>2, <2>3, <2>4, ListEnds
  <2> QED  BY <1>5, <1>10, <2>5 DEF e, s
<1> QED  BY <1>9, <1>10
\* A token for the next account, or none.
LEMMA MintKeeps ==
  ASSUME NEW w, NEW ls, ListsTyped(ls), WalkInv(w, ls), w.pc = "mint",
         NEW v, \/ v = [[w EXCEPT !.todo = Tail(w.todo)] EXCEPT
                          !.pc = "page", !.source = Head(w.todo), !.page = 1]
                \/ v = NextList([[w EXCEPT !.todo = Tail(w.todo)] EXCEPT !.cut = TRUE])
  PROVE  WalkInv(v, ls)
<1> DEFINE todo == Tail(w.todo)
           head == Head(w.todo)
           u == [w EXCEPT !.todo = todo]
<1>1. w.todo \in Seq(Accounts) /\ w.todo # <<>> /\ Deep(w)
  BY DEF WalkInv, RequestTyped, RequestPlaced
<1>2. /\ todo \in Seq(Accounts) /\ head \in Accounts
      /\ \A a \in ToSet(w.todo) : a = head \/ a \in ToSet(todo)
  <2>1. /\ todo \in Seq(Accounts) /\ head \in Accounts /\ w.todo[1] = head
        /\ Len(todo) = Len(w.todo) - 1 /\ \A i \in 1..(Len(w.todo) - 1) : todo[i] = w.todo[i + 1]
    BY <1>1
  <2>2. DOMAIN w.todo = 1..Len(w.todo) /\ DOMAIN todo = 1..Len(todo) /\ Len(w.todo) \in Nat
    BY <1>1, <2>1, SeqDomain
  <2> HIDE DEF todo, head
  <2>3. ASSUME NEW i \in DOMAIN w.todo, i # 1
        PROVE  i - 1 \in DOMAIN todo /\ todo[i - 1] = w.todo[i]
    <3>1. i - 1 \in 1..(Len(w.todo) - 1) /\ (i - 1) + 1 = i  BY <2>2, <2>3
    <3> QED  BY <2>1, <2>2, <3>1
  <2> QED  BY <2>1, <2>3 DEF ToSet
<1>3. w.app /\ w.repos /\ head \in DOMAIN Listed /\ head # "installations" /\ 1 \in 1..MaxPages
  BY <1>1, <1>2, DiscoveryAssumption, ListedAssumption DEF Deep
<1> HIDE DEF todo, head
<1>4. u = [pc |-> w.pc, app |-> w.app, repos |-> w.repos, source |-> w.source, page |-> w.page,
           todo |-> todo, found |-> w.found, shown |-> w.shown, owed |-> w.owed, cut |-> w.cut]
  <2> DEFINE r == u
  <2>1. r = [w EXCEPT !.todo = todo]  OBVIOUS
  <2> HIDE DEF r
  <2>2. r = [pc |-> w.pc, app |-> w.app, repos |-> w.repos, source |-> w.source, page |-> w.page,
             todo |-> todo, found |-> w.found, shown |-> w.shown, owed |-> w.owed, cut |-> w.cut]
    BY <2>1 DEF WalkInv, RequestTyped
  <2> QED  BY <2>2 DEF r
<1> HIDE DEF u
<1>5. CASE v = [u EXCEPT !.pc = "page", !.source = head, !.page = 1]
  <2>1. /\ v.pc = "page" /\ v.app = w.app /\ v.repos = w.repos /\ v.source = head /\ v.page = 1
        /\ v.todo = todo /\ v.found = w.found /\ v.owed = w.owed /\ v.cut = w.cut
        /\ v = [pc |-> v.pc, app |-> v.app, repos |-> v.repos, source |-> v.source, page |-> v.page,
                todo |-> v.todo, found |-> v.found, shown |-> v.shown, owed |-> v.owed, cut |-> v.cut]
    BY <1>4, <1>5
  <2>2. RequestTyped(v)  BY <1>2, <1>3, <2>1 DEF WalkInv, RequestTyped
  <2>3. RequestPlaced(v) /\ Deep(v)  BY <1>1, <1>2, <2>1 DEF RequestPlaced, Deep
  <2>4. NothingMissed(v, ls)
    <3> SUFFICES ASSUME ~w.cut, NEW x \in w.owed, x \notin ToSet(w.found) PROVE ToCome(v, ls, x)
      BY <2>1 DEF NothingMissed
    <3>1. PICK a \in Accounts : x \in ToSet(ls[a]) /\ a \in ToSet(w.todo)
      BY DEF WalkInv, NothingMissed, ToCome, AccountAhead
    <3>2. CASE a = head
      <4>1. Ahead(v, ls[head], x)
        <5>1. PICK i \in DOMAIN ls[head] : ls[head][i] = x  BY <3>1, <3>2 DEF ToSet
        <5>2. ls[head] \in Seq(Entry)  BY <1>3 DEF ListsTyped
        <5>3. i > 0  BY <5>1, <5>2, SeqDomain
        <5>4. (1 - 1) * PageLen = 0  BY DiscoveryAssumption
        <5> QED  BY <2>1, <5>1, <5>3, <5>4 DEF Ahead
      <4> QED  BY <1>3, <2>1, <4>1 DEF ToCome
    <3>3. CASE a \in ToSet(todo)  BY <2>1, <2>3, <3>1, <3>3 DEF ToCome, AccountAhead
    <3> QED  BY <1>2, <3>1, <3>2, <3>3
  <2> QED  BY <2>1, <2>2, <2>3, <2>4 DEF WalkInv
<1>6. CASE v = NextList([u EXCEPT !.cut = TRUE])
  <2> DEFINE r == [u EXCEPT !.cut = TRUE]
  <2>0. r = [u EXCEPT !.cut = TRUE]  OBVIOUS
  <2>1. v = NextList(r)  BY <1>6
  <2> HIDE DEF r
  <2>2. /\ r.pc = w.pc /\ r.app = w.app /\ r.repos = w.repos /\ r.source = w.source
        /\ r.page = w.page /\ r.todo = todo /\ r.found = w.found /\ r.cut = TRUE
        /\ r = [pc |-> r.pc, app |-> r.app, repos |-> r.repos, source |-> r.source, page |-> r.page,
                todo |-> r.todo, found |-> r.found, shown |-> r.shown, owed |-> r.owed, cut |-> r.cut]
    BY <1>4, <2>0
  <2>3. RequestTyped(r) /\ Deep(r) /\ NoRepeats(r.found)
    BY <1>1, <1>2, <2>2 DEF WalkInv, RequestTyped, Deep
  <2> QED  BY <2>1, <2>2, <2>3, ListEnds
<1> QED  BY <1>5, <1>6 DEF u, todo, head

\* A list that cannot be read.
LEMMA FailKeeps ==
  ASSUME NEW w, NEW ls, WalkInv(w, ls), w.pc \in {"page", "meta"},
         NEW v, v = IF w.pc = "meta" THEN [w EXCEPT !.pc = "done", !.shown = <<>>]
                    ELSE IF w.source \in Accounts THEN NextList([w EXCEPT !.cut = TRUE])
                    ELSE [w EXCEPT !.pc = "failed", !.found = <<>>]
  PROVE  WalkInv(v, ls)
<1>1. RequestTyped(w)  BY DEF WalkInv
<1>2. CASE w.pc = "meta"
  <2>1. v = [w EXCEPT !.pc = "done", !.shown = <<>>]  BY <1>2
  <2>2. /\ v.pc = "done" /\ v.app = w.app /\ v.repos = w.repos /\ v.source = w.source
        /\ v.page = w.page /\ v.todo = w.todo /\ v.found = w.found /\ v.owed = w.owed
        /\ v.cut = w.cut
        /\ v = [pc |-> v.pc, app |-> v.app, repos |-> v.repos, source |-> v.source, page |-> v.page,
                todo |-> v.todo, found |-> v.found, shown |-> v.shown, owed |-> v.owed, cut |-> v.cut]
    BY <1>1, <2>1 DEF RequestTyped
  <2>3. RequestTyped(v)  BY <1>1, <2>2 DEF RequestTyped
  <2> QED  BY <1>2, <2>2, <2>3, Unmoved
<1>3. CASE w.pc = "page" /\ w.source \in Accounts
  <2> DEFINE r == [w EXCEPT !.cut = TRUE]
  <2>0. r = [w EXCEPT !.cut = TRUE]  OBVIOUS
  <2>1. v = NextList(r)  BY <1>3
  <2> HIDE DEF r
  <2>2. /\ r.pc = w.pc /\ r.app = w.app /\ r.repos = w.repos /\ r.source = w.source
        /\ r.page = w.page /\ r.todo = w.todo /\ r.found = w.found /\ r.cut = TRUE
        /\ r = [pc |-> r.pc, app |-> r.app, repos |-> r.repos, source |-> r.source, page |-> r.page,
                todo |-> r.todo, found |-> r.found, shown |-> r.shown, owed |-> r.owed, cut |-> r.cut]
    BY <1>1, <2>0 DEF RequestTyped
  <2>3. RequestTyped(r) /\ NoRepeats(r.found) /\ (r.todo # <<>> => Deep(r))
    BY <1>1, <2>2 DEF WalkInv, RequestTyped, RequestPlaced, Deep
  <2> QED  BY <2>1, <2>2, <2>3, ListEnds
<1>4. CASE w.pc = "page" /\ w.source \notin Accounts
  <2>1. v = [w EXCEPT !.pc = "failed", !.found = <<>>]  BY <1>4
  <2>2. /\ v.pc = "failed" /\ v.app = w.app /\ v.repos = w.repos /\ v.source = w.source
        /\ v.page = w.page /\ v.todo = w.todo /\ v.found = <<>> /\ v.owed = w.owed
        /\ v.cut = w.cut
        /\ v = [pc |-> v.pc, app |-> v.app, repos |-> v.repos, source |-> v.source, page |-> v.page,
                todo |-> v.todo, found |-> v.found, shown |-> v.shown, owed |-> v.owed, cut |-> v.cut]
    BY <1>1, <2>1 DEF RequestTyped
  <2>3. RequestTyped(v)
    <3>1. <<>> \in Seq(Entry)  OBVIOUS
    <3> QED  BY <1>1, <2>2, <3>1 DEF RequestTyped
  <2>4. NoRepeats(v.found)  BY <2>2 DEF NoRepeats
  <2>5. RequestPlaced(v)  BY <2>2 DEF WalkInv, RequestPlaced, Deep
  <2> QED  BY <2>2, <2>3, <2>4, <2>5 DEF WalkInv, NothingMissed
<1> QED  BY <1>2, <1>3, <1>4
\* A change of list s that leaves all its entries in it, and those that are not in
\* `out' no earlier than they were.
MovedOn(ls, ms, s, out) ==
  /\ \A r \in DOMAIN Listed : r # s => ms[r] = ls[r]
  /\ \A j \in DOMAIN ls[s] : \E k \in DOMAIN ms[s] : ms[s][k] = ls[s][j]
  /\ \A j \in DOMAIN ls[s] : ls[s][j] \notin out =>
       \E k \in DOMAIN ms[s] : k >= j /\ ms[s][k] = ls[s][j]

\* What is owed to w has nothing to do with the entries `out' of list s.
OwedElsewhere(w, ls, s, out, owed) ==
  /\ owed \subseteq w.owed
  /\ s = "installations" /\ w.repos =>
       \A x \in owed : \A a \in Accounts : x \in ToSet(ls[a]) => a \notin out
  /\ ~(s = "installations" /\ w.repos) => owed \cap out = {}

\* Such a change leaves to come what was to come.
LEMMA ListMoved ==
  ASSUME NEW w, NEW ls, NEW ms, ListsTyped(ls), ListsTyped(ms), WalkInv(w, ls),
         NEW s \in DOMAIN Listed, NEW out, NEW owed,
         MovedOn(ls, ms, s, out), OwedElsewhere(w, ls, s, out, owed),
         NEW v, v = [w EXCEPT !.owed = owed]
  PROVE  WalkInv(v, ms)
<1>1. /\ v.pc = w.pc /\ v.app = w.app /\ v.repos = w.repos /\ v.source = w.source
      /\ v.page = w.page /\ v.todo = w.todo /\ v.found = w.found /\ v.owed = owed
      /\ v.cut = w.cut
      /\ v = [pc |-> v.pc, app |-> v.app, repos |-> v.repos, source |-> v.source, page |-> v.page,
              todo |-> v.todo, found |-> v.found, shown |-> v.shown, owed |-> v.owed, cut |-> v.cut]
  BY DEF WalkInv, RequestTyped
<1>2. RequestTyped(v)  BY <1>1 DEF WalkInv, RequestTyped
<1>3. RequestPlaced(v)  BY <1>1 DEF WalkInv, RequestPlaced, Deep
<1>4. ASSUME NEW r \in DOMAIN Listed PROVE ToSet(ls[r]) \subseteq ToSet(ms[r])
  BY <1>4 DEF ToSet, MovedOn
<1>5. ASSUME NEW r \in DOMAIN Listed, NEW x, Ahead(w, ls[r], x), r = s => x \notin out
      PROVE  Ahead(v, ms[r], x)
  <2>1. PICK j \in DOMAIN ls[r] : j > (w.page - 1) * PageLen /\ ls[r][j] = x  BY <1>5 DEF Ahead
  <2>2. CASE r # s  BY <1>1, <2>1, <2>2 DEF Ahead, MovedOn
  <2>3. CASE r = s
    <3>1. PICK k \in DOMAIN ms[r] : k >= j /\ ms[r][k] = x  BY <1>5, <2>1, <2>3 DEF MovedOn
    <3>2. k \in Int /\ j \in Int /\ (w.page - 1) * PageLen \in Int
      <4>1. ls[r] \in Seq(Entry) /\ ms[r] \in Seq(Entry)  BY DEF ListsTyped
      <4>2. j \in Int /\ k \in Int  BY <2>1, <3>1, <4>1, SeqDomain
      <4>3. w.page \in Int /\ PageLen \in Int  BY DiscoveryAssumption DEF WalkInv, RequestTyped
      <4> QED  BY <4>2, <4>3
    <3> DEFINE from == (w.page - 1) * PageLen
    <3> HIDE DEF from
    <3>3. k > from  BY <2>1, <3>1, <3>2 DEF from
    <3> QED  BY <1>1, <3>1, <3>3 DEF Ahead, from
  <2> QED  BY <2>2, <2>3
<1>6. NothingMissed(v, ms)
  <2> SUFFICES ASSUME ~w.cut, w.pc # "failed", NEW x \in owed, x \notin ToSet(w.found)
               PROVE ToCome(v, ms, x)
    BY <1>1 DEF NothingMissed
  <2>1. ToCome(w, ls, x)  BY DEF WalkInv, NothingMissed, OwedElsewhere
  <2>2. CASE /\ w.pc = "page" /\ ~(Deep(w) /\ w.source = "installations")
             /\ Ahead(w, ls[w.source], x)
    <3>1. w.source \in DOMAIN Listed  BY DEF WalkInv, RequestTyped
    <3>2. w.source = s => x \notin out
      BY <2>2 DEF WalkInv, RequestPlaced, Deep, OwedElsewhere
    <3>3. Ahead(v, ms[w.source], x)  BY <1>5, <2>2, <3>1, <3>2
    <3> QED  BY <1>1, <2>2, <3>3 DEF ToCome, Deep
  <2>3. CASE Deep(w) /\ \E a \in Accounts : x \in ToSet(ls[a]) /\ AccountAhead(w, ls, a)
    <3>1. PICK a \in Accounts : x \in ToSet(ls[a]) /\ AccountAhead(w, ls, a)  BY <2>3
    <3>2. a \in DOMAIN Listed /\ "installations" \in DOMAIN Listed  BY DiscoveryAssumption
    <3>3. x \in ToSet(ms[a])  BY <1>4, <3>1, <3>2
    <3>4. "installations" = s => a \notin out  BY <2>3, <3>1 DEF Deep, OwedElsewhere
    <3>5. AccountAhead(v, ms, a)  BY <1>1, <1>5, <3>1, <3>2, <3>4 DEF AccountAhead
    <3> QED  BY <1>1, <2>3, <3>3, <3>5 DEF ToCome, Deep
  <2> QED  BY <2>1, <2>2, <2>3 DEF ToCome
<1> QED  BY <1>1, <1>2, <1>3, <1>6 DEF WalkInv

\* An entry taken out of a sequence, ...
LEMMA EntryRemoved ==
  ASSUME NEW S, NEW s \in Seq(S), NEW i \in DOMAIN s
  PROVE  /\ RemoveAt(s, i) \in Seq(S) /\ Len(RemoveAt(s, i)) = Len(s) - 1
         /\ \A j \in 1..(i - 1) : RemoveAt(s, i)[j] = s[j]
         /\ \A j \in i..(Len(s) - 1) : RemoveAt(s, i)[j] = s[j + 1]
         /\ Len(s) \in Nat /\ i \in 1..Len(s)
<1>1. Len(s) \in Nat /\ i \in 1..Len(s)  BY SeqDomain
<1> DEFINE a == SubSeq(s, 1, i - 1)
           b == SubSeq(s, i + 1, Len(s))
<1>2. a \in Seq(S) /\ Len(a) = i - 1 /\ \A j \in 1..(i - 1) : a[j] = s[j]  BY <1>1
<1>3. b \in Seq(S) /\ Len(b) = Len(s) - i /\ \A j \in 1..(Len(s) - i) : b[j] = s[i + j]
  BY <1>1
<1> HIDE DEF a, b
<1>4. /\ a \o b \in Seq(S) /\ Len(a \o b) = Len(s) - 1
      /\ \A j \in 1..(i - 1) : (a \o b)[j] = s[j]
      /\ \A j \in i..(Len(s) - 1) : (a \o b)[j] = b[j - (i - 1)]
  BY <1>1, <1>2, <1>3
<1>5. ASSUME NEW j \in i..(Len(s) - 1) PROVE b[j - (i - 1)] = s[j + 1]
  <2>1. j - (i - 1) \in 1..(Len(s) - i) /\ i + (j - (i - 1)) = j + 1  BY <1>1
  <2> QED  BY <1>3, <2>1
<1>6. RemoveAt(s, i) = a \o b  BY DEF RemoveAt, a, b
<1> QED  BY <1>1, <1>4, <1>5, <1>6

\* ... put in front of it, ...
LEMMA InFront ==
  ASSUME NEW S, NEW s \in Seq(S), NEW x \in S
  PROVE  /\ <<x>> \o s \in Seq(S) /\ Len(<<x>> \o s) = Len(s) + 1 /\ (<<x>> \o s)[1] = x
         /\ \A j \in 1..Len(s) : (<<x>> \o s)[j + 1] = s[j]
         /\ Len(s) \in Nat
<1> DEFINE u == <<x>>
<1>1. u \in Seq(S) /\ Len(u) = 1 /\ u[1] = x  OBVIOUS
<1> HIDE DEF u
<1>2. Len(s) \in Nat  BY SeqDomain
<1>3. /\ u \o s \in Seq(S) /\ Len(u \o s) = 1 + Len(s)
      /\ \A j \in 1..1 : (u \o s)[j] = u[j]
      /\ \A j \in 1..Len(s) : (u \o s)[1 + j] = s[j]
  <2>1. u \in Seq(S)  BY <1>1
  <2>2. /\ u \o s \in Seq(S) /\ Len(u \o s) = Len(u) + Len(s)
        /\ \A j \in 1..Len(u) : (u \o s)[j] = u[j]
        /\ \A j \in 1..Len(s) : (u \o s)[Len(u) + j] = s[j]
    BY <2>1, Concatenation
  <2> QED  BY <1>1, <2>2
<1>4. \A j \in 1..Len(s) : (u \o s)[j + 1] = s[j]
  <2>1. \A j \in 1..Len(s) : j + 1 = 1 + j  BY <1>2
  <2> QED  BY <1>3, <2>1
<1>5. Len(u \o s) = Len(s) + 1 /\ (u \o s)[1] = x  BY <1>1, <1>2, <1>3
<1> QED  BY <1>2, <1>3, <1>4, <1>5 DEF u

\* t has the entries of s, and all but x no earlier.
NoEarlier(s, t, x) ==
  /\ \A j \in DOMAIN s : \E k \in DOMAIN t : t[k] = s[j]
  /\ \A j \in DOMAIN s : s[j] # x => \E k \in DOMAIN t : k >= j /\ t[k] = s[j]

\* ... or both: the others keep their place or move on.
LEMMA ToFront ==
  ASSUME NEW S, NEW s \in Seq(S), NEW i \in DOMAIN s, NEW t, t = <<s[i]>> \o RemoveAt(s, i)
  PROVE  t \in Seq(S) /\ NoEarlier(s, t, s[i])
<1> DEFINE r == RemoveAt(s, i)
<1>1. s[i] \in S /\ DOMAIN s = 1..Len(s)  BY SeqDomain
<1>2. /\ r \in Seq(S) /\ Len(r) = Len(s) - 1
      /\ \A j \in 1..(i - 1) : r[j] = s[j]
      /\ \A j \in i..(Len(s) - 1) : r[j] = s[j + 1]
      /\ Len(s) \in Nat /\ i \in 1..Len(s)
  BY EntryRemoved
<1> HIDE DEF r
<1>3. /\ t \in Seq(S) /\ Len(t) = Len(r) + 1 /\ t[1] = s[i]
      /\ \A j \in 1..Len(r) : t[j + 1] = r[j]
  <2> DEFINE x == s[i]
  <2>1. t = <<x>> \o r /\ x \in S  BY <1>1 DEF r
  <2> HIDE DEF x
  <2>2. /\ <<x>> \o r \in Seq(S) /\ Len(<<x>> \o r) = Len(r) + 1 /\ (<<x>> \o r)[1] = x
        /\ \A j \in 1..Len(r) : (<<x>> \o r)[j + 1] = r[j]
    BY <1>2, <2>1, InFront
  <2> QED  BY <2>1, <2>2, Zenon DEF x
<1>4. DOMAIN t = 1..Len(s)  BY <1>2, <1>3, SeqDomain
<1>5. ASSUME NEW j \in DOMAIN s, j # i
      PROVE  \E k \in DOMAIN t : k >= j /\ t[k] = s[j]
  <2>1. CASE j < i
    <3>1. j \in 1..(i - 1) /\ j \in 1..Len(r)  BY <1>1, <1>2, <2>1
    <3>2. t[j + 1] = s[j]  BY <1>2, <1>3, <3>1
    <3>3. j + 1 \in DOMAIN t /\ j + 1 >= j  BY <1>2, <1>4, <3>1
    <3> QED  BY <3>2, <3>3
  <2>2. CASE ~(j < i)
    <3>1. j - 1 \in i..(Len(s) - 1) /\ j - 1 \in 1..Len(r) /\ (j - 1) + 1 = j
      BY <1>1, <1>2, <1>5, <2>2
    <3>2. t[j] = s[j]  BY <1>2, <1>3, <3>1
    <3>3. j \in 1..Len(s)  BY <1>1
    <3>4. j \in DOMAIN t /\ j >= j  BY <1>2, <1>4, <3>3
    <3> QED  BY <3>2, <3>4
  <2> QED  BY <2>1, <2>2
<1>6. 1 \in DOMAIN t  BY <1>2, <1>4
<1> QED  BY <1>3, <1>5, <1>6 DEF NoEarlier
\* A new request has everything to come.
LEMMA RequestBegins ==
  ASSUME NEW app \in BOOLEAN, NEW repos \in BOOLEAN, ListsTyped(lists)
  PROVE  WalkInv(Request(app, repos), lists)
<1> DEFINE w == Request(app, repos)
           source == IF app THEN "installations" ELSE "user"
           owed == CASE ~app           -> ToSet(lists["user"])
                     [] app /\ repos  -> UNION {ToSet(lists[a]) : a \in ToSet(lists["installations"])}
                     [] app /\ ~repos -> ToSet(lists["installations"])
<1>1. w = [pc |-> "page", app |-> app, repos |-> repos, source |-> source, page |-> 1,
           todo |-> <<>>, found |-> <<>>, shown |-> <<>>, owed |-> owed, cut |-> FALSE]
  BY DEF Request
<1>2. /\ ~app => owed = ToSet(lists["user"]) /\ source = "user"
      /\ app => source = "installations"
      /\ app /\ repos => owed = UNION {ToSet(lists[a]) : a \in ToSet(lists["installations"])}
      /\ app /\ ~repos => owed = ToSet(lists["installations"])
  OBVIOUS
<1> HIDE DEF w, source, owed
<1>3. /\ w.pc = "page" /\ w.app = app /\ w.repos = repos /\ w.source = source /\ w.page = 1
      /\ w.todo = <<>> /\ w.found = <<>> /\ w.owed = owed /\ w.cut = FALSE
      /\ w = [pc |-> w.pc, app |-> w.app, repos |-> w.repos, source |-> w.source, page |-> w.page,
              todo |-> w.todo, found |-> w.found, shown |-> w.shown, owed |-> w.owed, cut |-> w.cut]
  BY <1>1
<1>4. RequestTyped(w)
  <2>1. <<>> \in Seq(Entry) /\ <<>> \in Seq(Accounts)  OBVIOUS
  <2>2. 1 \in 1..MaxPages /\ {"user", "installations"} \subseteq DOMAIN Listed
    BY DiscoveryAssumption
  <2>3. source \in {"user", "installations"}  BY <1>2
  <2> QED  BY <1>3, <2>1, <2>2, <2>3 DEF RequestTyped
<1>5. RequestPlaced(w)  BY <1>2, <1>3 DEF RequestPlaced
<1>6. NoRepeats(w.found)  BY <1>3 DEF NoRepeats
<1>7. ASSUME NEW s, NEW S, s \in Seq(S), NEW x \in ToSet(s) PROVE Ahead(w, s, x)
  <2>1. PICK i \in DOMAIN s : s[i] = x  BY <1>7 DEF ToSet
  <2>2. i > 0  BY <1>7, <2>1, SeqDomain
  <2>3. (1 - 1) * PageLen = 0  BY DiscoveryAssumption
  <2> QED  BY <1>3, <2>1, <2>2, <2>3 DEF Ahead
<1>8. ASSUME NEW x \in owed PROVE ToCome(w, lists, x)
  <2>1. lists["user"] \in Seq(Entry) /\ lists["installations"] \in Seq(Accounts)
    BY DiscoveryAssumption DEF ListsTyped
  <2>2. CASE ~Deep(w)
    <3>1. x \in ToSet(lists[source]) /\ source \in {"user", "installations"}
      BY <1>2, <1>3, <2>2 DEF Deep
    <3>2. Ahead(w, lists[source], x)  BY <1>7, <2>1, <3>1
    <3> QED  BY <1>3, <2>2, <3>2 DEF ToCome
  <2>3. CASE Deep(w)
    <3>1. PICK a \in ToSet(lists["installations"]) : x \in ToSet(lists[a])
      BY <1>2, <1>3, <2>3 DEF Deep
    <3>2. a \in Accounts
      <4>1. \A i \in DOMAIN lists["installations"] : lists["installations"][i] \in Accounts
        BY <2>1, SeqDomain
      <4> QED  BY <4>1 DEF ToSet
    <3>3. Ahead(w, lists["installations"], a)  BY <1>7, <2>1
    <3> QED  BY <1>2, <1>3, <2>3, <3>1, <3>2, <3>3 DEF ToCome, AccountAhead, Deep
  <2> QED  BY <2>2, <2>3
<1>9. NothingMissed(w, lists)  BY <1>3, <1>8 DEF NothingMissed
<1> QED  BY <1>4, <1>5, <1>6, <1>9 DEF WalkInv, w

\* An entry that is updated, ...
LEMMA TouchKeeps == ASSUME DiscoveryInv, Touch PROVE DiscoveryInv'
<1>1. PICK s \in Sources : \E i \in DOMAIN lists[s] :
        /\ lists' = [lists EXCEPT ![s] = <<@[i]>> \o RemoveAt(@, i)]
        /\ walk' = [walk EXCEPT !.owed = StillOwed(walk, s, lists[s][i])]
  BY DEF Touch
<1>2. PICK i \in DOMAIN lists[s] :
        /\ lists' = [lists EXCEPT ![s] = <<@[i]>> \o RemoveAt(@, i)]
        /\ walk' = [walk EXCEPT !.owed = StillOwed(walk, s, lists[s][i])]
  BY <1>1
<1>3. lists \in [DOMAIN Listed -> Seq(Entry)] /\ lists["installations"] \in Seq(Accounts)
  BY DEF DiscoveryInv, ListsTyped
<1>4. s \in DOMAIN Listed /\ "installations" \in DOMAIN Listed
  BY <1>3, DiscoveryAssumption DEF Sources
<1> DEFINE t == <<lists[s][i]>> \o RemoveAt(lists[s], i)
           but == lists[s][i]
           owed == StillOwed(walk, s, but)
<1>0. t = <<lists[s][i]>> \o RemoveAt(lists[s], i)  OBVIOUS
<1>7. lists' = [lists EXCEPT ![s] = t]  BY <1>2
<1>11. walk' = [walk EXCEPT !.owed = owed]  BY <1>2
<1> HIDE DEF t
<1>5. /\ t \in Seq(Entry)
      /\ \A j \in DOMAIN lists[s] : \E k \in DOMAIN t : t[k] = lists[s][j]
      /\ \A j \in DOMAIN lists[s] :
           lists[s][j] # but => \E k \in DOMAIN t : k >= j /\ t[k] = lists[s][j]
  <2> DEFINE l == lists[s]
  <2>1. l \in Seq(Entry) /\ i \in DOMAIN l /\ t = <<l[i]>> \o RemoveAt(l, i)
    BY <1>0, <1>2, <1>3, <1>4
  <2> HIDE DEF l
  <2>2. t \in Seq(Entry) /\ NoEarlier(l, t, l[i])  BY <2>1, ToFront
  <2> QED  BY <2>2 DEF l, NoEarlier
<1>6. s = "installations" => t \in Seq(Accounts)  BY <1>0, <1>2, <1>3, ToFront
<1>8. ListsTyped(lists')  BY <1>3, <1>4, <1>5, <1>6, <1>7 DEF ListsTyped
<1>9. lists'[s] = t /\ \A r \in DOMAIN Listed : r # s => lists'[r] = lists[r]
  BY <1>3, <1>4, <1>7
<1>10. OwedElsewhere(walk, lists, s, {but}, owed)  BY DEF StillOwed, OwedElsewhere
<1> HIDE DEF owed, but
<1>12. WalkInv(walk', lists')
  <2> DEFINE ms == lists'
             v == walk'
  <2>1. MovedOn(lists, ms, s, {but})  BY <1>5, <1>9 DEF MovedOn, but
  <2>2. /\ ListsTyped(lists) /\ WalkInv(walk, lists) /\ ListsTyped(ms)
        /\ v = [walk EXCEPT !.owed = owed]
    BY <1>8, <1>11 DEF DiscoveryInv
  <2> HIDE DEF ms, v
  <2>3. WalkInv(v, ms)  BY <1>4, <1>10, <2>1, <2>2, ListMoved
  <2> QED  BY <2>3 DEF v, ms
<1> QED  BY <1>8, <1>12 DEF DiscoveryInv

\* ... appears, ...
LEMMA AppearKeeps == ASSUME DiscoveryInv, Appear PROVE DiscoveryInv'
<1>1. PICK s \in Sources \ {"installations"}, x \in Newcomers :
        lists' = [lists EXCEPT ![s] = <<x>> \o @] /\ walk' = walk
  BY DEF Appear
<1>2. lists \in [DOMAIN Listed -> Seq(Entry)] /\ lists["installations"] \in Seq(Accounts)
  BY DEF DiscoveryInv, ListsTyped
<1>3. s \in DOMAIN Listed /\ s # "installations"  BY <1>2, DiscoveryAssumption DEF Sources
<1> DEFINE t == <<x>> \o lists[s]
<1>4. x \in Entry /\ lists[s] \in Seq(Entry)  BY <1>2, <1>3 DEF Entry
<1>5. /\ t \in Seq(Entry) /\ Len(t) = Len(lists[s]) + 1 /\ Len(lists[s]) \in Nat
      /\ \A j \in 1..Len(lists[s]) : t[j + 1] = lists[s][j]
  BY <1>4, InFront
<1>6. lists' = [lists EXCEPT ![s] = t]  BY <1>1
<1> HIDE DEF t
<1>7. \A j \in DOMAIN lists[s] : \E k \in DOMAIN t : k >= j /\ t[k] = lists[s][j]
  <2> SUFFICES ASSUME NEW j \in DOMAIN lists[s]
               PROVE  \E k \in DOMAIN t : k >= j /\ t[k] = lists[s][j]
    OBVIOUS
  <2>1. j \in 1..Len(lists[s])  BY <1>4, SeqDomain
  <2>2. DOMAIN t = 1..(Len(lists[s]) + 1)  BY <1>5, SeqDomain
  <2>3. j + 1 \in DOMAIN t /\ j + 1 >= j  BY <1>5, <2>1, <2>2
  <2> QED  BY <1>5, <2>1, <2>3
<1>8. ListsTyped(lists')  BY <1>2, <1>3, <1>5, <1>6 DEF ListsTyped
<1>9. lists'[s] = t /\ \A r \in DOMAIN Listed : r # s => lists'[r] = lists[r]
  BY <1>2, <1>3, <1>6
<1>11. walk' = [walk EXCEPT !.owed = walk.owed]
  <2>1. RequestTyped(walk)  BY DEF DiscoveryInv, WalkInv
  <2>2. ASSUME NEW v, v = [walk EXCEPT !.owed = walk.owed]
        PROVE  v = [pc |-> walk.pc, app |-> walk.app, repos |-> walk.repos, source |-> walk.source,
                    page |-> walk.page, todo |-> walk.todo, found |-> walk.found,
                    shown |-> walk.shown, owed |-> walk.owed, cut |-> walk.cut]
    BY <2>1, <2>2 DEF RequestTyped
  <2>3. walk = [pc |-> walk.pc, app |-> walk.app, repos |-> walk.repos, source |-> walk.source,
                page |-> walk.page, todo |-> walk.todo, found |-> walk.found,
                shown |-> walk.shown, owed |-> walk.owed, cut |-> walk.cut]
    BY <2>1 DEF RequestTyped
  <2>4. [walk EXCEPT !.owed = walk.owed] = walk  BY <2>2, <2>3, Zenon
  <2> QED  BY <1>1, <2>4
<1>12. WalkInv(walk', lists')
  <2> DEFINE ms == lists'
             v == walk'
  <2>1. MovedOn(lists, ms, s, {})  BY <1>7, <1>9 DEF MovedOn
  <2>2. /\ ListsTyped(lists) /\ WalkInv(walk, lists) /\ ListsTyped(ms)
        /\ v = [walk EXCEPT !.owed = walk.owed]
    BY <1>8, <1>11 DEF DiscoveryInv
  <2> HIDE DEF ms, v
  <2>3. OwedElsewhere(walk, lists, s, {}, walk.owed)  BY DEF OwedElsewhere
  <2>4. WalkInv(v, ms)  BY <1>3, <2>1, <2>2, <2>3, ListMoved
  <2> QED  BY <2>4 DEF v, ms
<1> QED  BY <1>8, <1>12 DEF DiscoveryInv

\* ... or is removed.
LEMMA DisappearKeeps == ASSUME DiscoveryInv, Disappear PROVE DiscoveryInv'
<1>1. PICK s \in Sources : \E i \in DOMAIN lists[s] :
        lists' = [lists EXCEPT ![s] = RemoveAt(@, i)] /\ walk' = [walk EXCEPT !.cut = TRUE]
  BY DEF Disappear
<1>2. PICK i \in DOMAIN lists[s] :
        lists' = [lists EXCEPT ![s] = RemoveAt(@, i)] /\ walk' = [walk EXCEPT !.cut = TRUE]
  BY <1>1
<1>3. lists \in [DOMAIN Listed -> Seq(Entry)] /\ lists["installations"] \in Seq(Accounts)
  BY DEF DiscoveryInv, ListsTyped
<1>4. s \in DOMAIN Listed /\ "installations" \in DOMAIN Listed
  BY <1>3, DiscoveryAssumption DEF Sources
<1> DEFINE t == RemoveAt(lists[s], i)
<1>5. t \in Seq(Entry) /\ (s = "installations" => t \in Seq(Accounts))
  BY <1>2, <1>3, <1>4, EntryRemoved
<1>6. lists' = [lists EXCEPT ![s] = t]  BY <1>2
<1> HIDE DEF t
<1>7. ListsTyped(lists')  BY <1>3, <1>4, <1>5, <1>6 DEF ListsTyped
<1>8. WalkInv(walk, lists)  BY DEF DiscoveryInv
<1>9. WalkInv(walk', lists')
  <2> DEFINE v == walk'
  <2>1. v = [walk EXCEPT !.cut = TRUE]  BY <1>2
  <2> HIDE DEF v
  <2>2. /\ v.pc = walk.pc /\ v.app = walk.app /\ v.repos = walk.repos /\ v.source = walk.source
        /\ v.page = walk.page /\ v.todo = walk.todo /\ v.found = walk.found /\ v.cut = TRUE
        /\ v = [pc |-> v.pc, app |-> v.app, repos |-> v.repos, source |-> v.source, page |-> v.page,
                todo |-> v.todo, found |-> v.found, shown |-> v.shown, owed |-> v.owed, cut |-> v.cut]
    BY <1>8, <2>1 DEF WalkInv, RequestTyped
  <2>3. RequestTyped(v)  BY <1>8, <2>2 DEF WalkInv, RequestTyped
  <2>4. RequestPlaced(v)  BY <1>8, <2>2 DEF WalkInv, RequestPlaced, Deep
  <2>5. WalkInv(v, lists')  BY <1>8, <2>2, <2>3, <2>4 DEF WalkInv, NothingMissed
  <2> QED  BY <2>5 DEF v
<1> QED  BY <1>7, <1>9 DEF DiscoveryInv

\* A page of the list that describes the app.
LEMMA MetaRead ==
  ASSUME NEW w, NEW ls, ListsTyped(ls), WalkInv(w, ls), w.pc = "meta"
  PROVE  WalkInv(WithPage(w, PageOf(ls[w.source], w.page)), ls)
<1> DEFINE e == PageOf(ls[w.source], w.page)
           v == WithPage(w, e)
           shown == w.shown \o e
           read == [w EXCEPT !.shown = shown]
<1>1. v = IF ~LastPage(e, w.page) THEN [read EXCEPT !.page = read.page + 1]
          ELSE [read EXCEPT !.pc = "done"]
  BY DEF WithPage
<1>2. RequestTyped(w)  BY DEF WalkInv
<1>3. w.page \in 1..MaxPages /\ MaxPages \in Nat  BY <1>2, DiscoveryAssumption DEF RequestTyped
<1> HIDE DEF e, v, shown
<1>4. /\ read.pc = w.pc /\ read.app = w.app /\ read.repos = w.repos /\ read.source = w.source
      /\ read.page = w.page /\ read.todo = w.todo /\ read.found = w.found
      /\ read.owed = w.owed /\ read.cut = w.cut
      /\ read = [pc |-> read.pc, app |-> read.app, repos |-> read.repos, source |-> read.source,
                 page |-> read.page, todo |-> read.todo, found |-> read.found,
                 shown |-> read.shown, owed |-> read.owed, cut |-> read.cut]
  <2> DEFINE r == read
  <2>1. r = [w EXCEPT !.shown = shown]  OBVIOUS
  <2> HIDE DEF r
  <2>2. /\ r.pc = w.pc /\ r.app = w.app /\ r.repos = w.repos /\ r.source = w.source
        /\ r.page = w.page /\ r.todo = w.todo /\ r.found = w.found
        /\ r.owed = w.owed /\ r.cut = w.cut
        /\ r = [pc |-> r.pc, app |-> r.app, repos |-> r.repos, source |-> r.source,
                page |-> r.page, todo |-> r.todo, found |-> r.found,
                shown |-> r.shown, owed |-> r.owed, cut |-> r.cut]
    BY <1>2, <2>1 DEF RequestTyped
  <2> QED  BY <2>2 DEF r
<1> HIDE DEF read
<1>5. /\ v.pc \in {"meta", "done"} /\ v.app = w.app /\ v.repos = w.repos /\ v.source = w.source
      /\ v.page \in 1..MaxPages /\ v.todo = w.todo /\ v.found = w.found /\ v.owed = w.owed
      /\ v.cut = w.cut
      /\ v = [pc |-> v.pc, app |-> v.app, repos |-> v.repos, source |-> v.source, page |-> v.page,
              todo |-> v.todo, found |-> v.found, shown |-> v.shown, owed |-> v.owed, cut |-> v.cut]
  <2>1. CASE ~LastPage(e, w.page)
    <3>1. v = [read EXCEPT !.page = w.page + 1] /\ w.page + 1 \in 1..MaxPages
      BY <1>1, <1>3, <1>4, <2>1 DEF LastPage
    <3> QED  BY <1>4, <3>1
  <2>2. CASE LastPage(e, w.page)
    <3>1. v = [read EXCEPT !.pc = "done"]  BY <1>1, <2>2
    <3> QED  BY <1>3, <1>4, <3>1
  <2> QED  BY <2>1, <2>2
<1>6. RequestTyped(v)  BY <1>2, <1>5 DEF RequestTyped
<1> QED  BY <1>5, <1>6, Unmoved DEF v, e

\* Every step of a request, and every change of the lists, keeps the invariant.
LEMMA DiscoveryKeeps == ASSUME DiscoveryInv, [DiscoveryNext]_discoveryVars PROVE DiscoveryInv'
<1>1. ListsTyped(lists) /\ WalkInv(walk, lists)  BY DEF DiscoveryInv
<1>2. ASSUME lists' = lists, WalkInv(walk', lists) PROVE DiscoveryInv'
  BY <1>1, <1>2 DEF DiscoveryInv
<1>3. CASE DiscoverTargets
  <2>1. PICK app \in BOOLEAN, repos \in BOOLEAN : walk' = Request(app, repos) /\ lists' = lists
    BY <1>3 DEF DiscoverTargets
  <2> QED  BY <1>1, <1>2, <2>1, RequestBegins
<1>4. CASE ReadPage
  <2>1. /\ walk.pc \in {"page", "meta"} /\ lists' = lists
        /\ walk' = WithPage(walk, PageOf(lists[walk.source], walk.page))
    BY <1>4 DEF ReadPage
  <2>2. WalkInv(WithPage(walk, PageOf(lists[walk.source], walk.page)), lists)
    BY <1>1, <2>1, PageRead, MetaRead
  <2> QED  BY <1>2, <2>1, <2>2
<1>5. CASE PageFails
  <2>1. WalkInv(walk', lists) /\ lists' = lists
    <3> DEFINE v == walk'
    <3>1. /\ walk.pc \in {"page", "meta"} /\ lists' = lists
          /\ v = IF walk.pc = "meta" THEN [walk EXCEPT !.pc = "done", !.shown = <<>>]
                 ELSE IF walk.source \in Accounts THEN NextList([walk EXCEPT !.cut = TRUE])
                 ELSE [walk EXCEPT !.pc = "failed", !.found = <<>>]
      BY <1>5 DEF PageFails
    <3> HIDE DEF v
    <3>2. WalkInv(v, lists)  BY <1>1, <3>1, FailKeeps
    <3> QED  BY <3>1, <3>2 DEF v
  <2> QED  BY <1>2, <2>1
<1>6. CASE MintToken
  <2>1. WalkInv(walk', lists) /\ lists' = lists
    <3> DEFINE v == walk'
    <3>1. /\ walk.pc = "mint" /\ lists' = lists
          /\ \/ v = [[walk EXCEPT !.todo = Tail(walk.todo)] EXCEPT
                       !.pc = "page", !.source = Head(walk.todo), !.page = 1]
             \/ v = NextList([[walk EXCEPT !.todo = Tail(walk.todo)] EXCEPT !.cut = TRUE])
      BY <1>6 DEF MintToken
    <3> HIDE DEF v
    <3>2. WalkInv(v, lists)  BY <1>1, <3>1, MintKeeps
    <3> QED  BY <3>1, <3>2 DEF v
  <2> QED  BY <1>2, <2>1
<1>7. CASE GetAppMetadata
  <2>1. walk.pc = "slug" /\ lists' = lists  BY <1>7 DEF GetAppMetadata
  <2> DEFINE v == walk'
  <2>2. \/ v = [walk EXCEPT !.pc = "meta", !.source = "installations", !.page = 1]
        \/ v = [walk EXCEPT !.pc = "done"]
    BY <1>7 DEF GetAppMetadata
  <2> HIDE DEF v
  <2>3. /\ v.pc \in {"meta", "done"} /\ v.app = walk.app /\ v.repos = walk.repos
        /\ v.source \in {walk.source, "installations"}
        /\ v.page \in {walk.page, 1} /\ v.todo = walk.todo /\ v.found = walk.found
        /\ v.owed = walk.owed /\ v.cut = walk.cut
        /\ v = [pc |-> v.pc, app |-> v.app, repos |-> v.repos, source |-> v.source, page |-> v.page,
                todo |-> v.todo, found |-> v.found, shown |-> v.shown, owed |-> v.owed, cut |-> v.cut]
    BY <1>1, <2>2 DEF WalkInv, RequestTyped
  <2>4. 1 \in 1..MaxPages /\ "installations" \in DOMAIN Listed  BY DiscoveryAssumption
  <2>5. RequestTyped(v)  BY <1>1, <2>3, <2>4 DEF WalkInv, RequestTyped
  <2>6. WalkInv(v, lists)  BY <1>1, <2>1, <2>3, <2>5, Unmoved
  <2> QED  BY <1>2, <2>1, <2>6 DEF v
<1>8. CASE Touch  BY <1>8, TouchKeeps
<1>9. CASE Appear  BY <1>9, AppearKeeps
<1>10. CASE Disappear  BY <1>10, DisappearKeeps
<1>11. CASE UNCHANGED discoveryVars  BY <1>1, <1>2, <1>11 DEF discoveryVars
<1> QED  BY <1>3, <1>4, <1>5, <1>6, <1>7, <1>8, <1>9, <1>10, <1>11 DEF DiscoveryNext

\* It holds at first.
LEMMA DiscoveryBegins == DiscoveryInit => DiscoveryInv
<1> SUFFICES ASSUME DiscoveryInit PROVE DiscoveryInv  OBVIOUS
<1>1. ListsTyped(lists)
  <2> DEFINE S == UNION {ToSet(Listed[s]) : s \in DOMAIN Listed}
  <2>1. Listed \in [DOMAIN Listed -> Seq(S)] /\ S \subseteq Entry
    BY ListedAssumption DEF Entry
  <2> HIDE DEF S
  <2>2. ASSUME NEW s \in DOMAIN Listed PROVE Listed[s] \in Seq(Entry)
    <3>1. Listed[s] \in Seq(S)  BY <2>1
    <3> QED  BY <2>1, <3>1
  <2>3. Listed \in [DOMAIN Listed -> Seq(Entry)]  BY <2>1, <2>2
  <2> QED  BY <2>3, ListedAssumption DEF DiscoveryInit, ListsTyped
<1>2. WalkInv(Request(FALSE, FALSE), lists)  BY <1>1, RequestBegins
<1> DEFINE w == Request(FALSE, FALSE)
<1>3. w.todo = <<>> /\ w.found = <<>>  BY DEF Request
<1>4. walk = [w EXCEPT !.pc = "done", !.owed = {}]  BY DEF DiscoveryInit
<1> HIDE DEF w
<1>5. /\ walk.pc = "done" /\ walk.app = w.app /\ walk.repos = w.repos /\ walk.source = w.source
      /\ walk.page = w.page /\ walk.todo = w.todo /\ walk.found = w.found /\ walk.owed = {}
      /\ walk.cut = w.cut
      /\ walk = [pc |-> walk.pc, app |-> walk.app, repos |-> walk.repos, source |-> walk.source,
                 page |-> walk.page, todo |-> walk.todo, found |-> walk.found,
                 shown |-> walk.shown, owed |-> walk.owed, cut |-> walk.cut]
  BY <1>2, <1>4 DEF WalkInv, RequestTyped, w
<1>6. RequestTyped(walk)  BY <1>2, <1>5 DEF WalkInv, RequestTyped, w
<1>7. RequestPlaced(walk)  BY <1>3, <1>5 DEF RequestPlaced
<1>8. NoRepeats(walk.found)  BY <1>3, <1>5 DEF NoRepeats
<1>9. NothingMissed(walk, lists)  BY <1>5 DEF NothingMissed
<1> QED  BY <1>1, <1>6, <1>7, <1>8, <1>9 DEF DiscoveryInv, WalkInv

\* It gives the property.
LEMMA DiscoveryHolds == DiscoveryInv => DiscoveredOnce
<1> SUFFICES ASSUME DiscoveryInv, walk.pc = "done"
             PROVE  NoRepeats(walk.found) /\ (walk.cut \/ walk.owed \subseteq ToSet(walk.found))
  BY DEF DiscoveredOnce, NoRepeats
<1>1. walk.todo = <<>> /\ NoRepeats(walk.found) /\ NothingMissed(walk, lists)
  BY DEF DiscoveryInv, WalkInv, RequestPlaced
<1>2. \A x : ~ToCome(walk, lists, x)  BY <1>1 DEF ToCome, AccountAhead, ToSet
<1> QED  BY <1>1, <1>2 DEF NothingMissed

\* A target that was there when a request began and that nobody touched is in its
\* answer, once, for lists and pages of any length and any changes of the lists
\* between the pages.
THEOREM TargetsDiscovered == ClientSpec => []DiscoveredOnce
<1>1. ClientInit => DiscoveryInv  BY DiscoveryBegins DEF ClientInit
<1>2. DiscoveryInv /\ [ClientNext]_clientVars => DiscoveryInv'
  BY DiscoveryKeeps, DiscoverySteps
<1> QED  BY <1>1, <1>2, DiscoveryHolds, PTL DEF ClientSpec
=============================================================================
