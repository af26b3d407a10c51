------------------------------ MODULE Services ------------------------------
(***************************************************************************)
(* The services of internal/server and the webhook receiver, side by side. *)
(* The image service reads whether a pool exists and nothing else, and     *)
(* keeps a notification when its pool is deleted; the onboarding service   *)
(* reads whether there are pools; the receiver reads pools and targets.    *)
(* They share rows, and no step of one depends on where another is.        *)
(***************************************************************************)
EXTENDS Administration, ImageUpdates, Sessions, Webhooks

CONSTANT Mixes   \* the groups of services that are used at the same time

VARIABLE mix

vars == <<adminVars, imageVars, sessionVars, webhookVars, mix>>

\* Whether there is an image matters to the image service only.
Init ==
  /\ mix \in Mixes
  /\ AdminInit /\ ImageInit /\ SessionInit /\ WebhookInit
  /\ "images" \in mix \/ local = 0

Pools ==
  /\ "pools" \in mix
  /\ \E h \in Handlers :
       CreatePool(h) \/ UpdatePool(h) \/ DeletePool(h)
  /\ UNCHANGED <<imageVars, sessionVars, webhookVars, mix>>

AuthProfiles ==
  /\ "profiles" \in mix
  /\ \E h \in Handlers : CreateAuthProfile(h) \/ DeleteAuthProfile(h)
  /\ UNCHANGED <<imageVars, sessionVars, webhookVars, mix>>

Statements ==
  /\ \E h \in Handlers : AdminStep(h)
  /\ UNCHANGED <<imageVars, sessionVars, webhookVars, mix>>

Images ==
  /\ "images" \in mix
  /\ ImageNext
  /\ UNCHANGED <<adminVars, sessionVars, webhookVars, mix>>

Onboarding ==
  /\ "sessions" \in mix
  /\ SessionNext
  /\ UNCHANGED <<adminVars, imageVars, webhookVars, mix>>

Deliveries ==
  /\ \/ "courses" \in mix /\ CourseNext
     \/ "choices" \in mix /\ ChoiceNext
  /\ UNCHANGED <<adminVars, imageVars, sessionVars, mix>>

Next == Pools \/ AuthProfiles \/ Statements \/ Images \/ Onboarding \/ Deliveries

Spec == Init /\ [][Next]_vars

\* Type correctness of the services.
TypeOK == AdminTypeOK /\ ImageTypeOK /\ SessionTypeOK /\ WebhookTypeOK
=============================================================================
