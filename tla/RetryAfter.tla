----------------------------- MODULE RetryAfter -----------------------------
(***************************************************************************)
(* ProviderClient with a history of the delays that the server asked for.  *)
(***************************************************************************)
EXTENDS ProviderClient

VARIABLE barred   \* history: what is left of the delays the server asked for

\* A server's delay beyond the cap counts up to the cap.
Bar(limit) ==
  LET asked == IF limit.after > 0 THEN limit.after ELSE limit.reset
      d == IF asked > MaxBackoff THEN MaxBackoff ELSE asked
  IN  IF d > barred THEN d ELSE barred

BarredInit == Init /\ barred = 0

BarredNext ==
  \/ Tick /\ barred' = Less(barred)
  \/ \E r \in Callers :
       \/ Limited(r) /\ barred' = Bar(call'[r].limit)
       \/ /\ \/ GetRegistrationToken(r) \/ Send(r) \/ Unreachable(r) \/ Answered(r)
             \/ Answer(r) \/ BackOff(r) \/ Wake(r) \/ Expire(r)
          /\ UNCHANGED barred

BarredSpec == BarredInit /\ [][BarredNext]_<<vars, barred>>

\* "Respect `Retry-After` / `X-RateLimit-Reset` headers and back off until the
\* specified timestamp": the provider is not called again before the delay it
\* asked for is over.
RetryAfterRespected ==
  \A r \in Callers : call[r].pc = "send" /\ call[r].left > 0 => barred = 0
=============================================================================
