-------------------------- MODULE MCPoolController --------------------------
(* Instances of PoolController for TLC.                                     *)
EXTENDS PoolController, TLC

CONSTANTS a, b,                     \* pools
          a1, a2, b1,               \* container IDs
          loop, event, hook, admin  \* goroutines

TwoPools == {a, b}
ThreeRunners == {a1, a2, b1}
PoolLabel == a1 :> a @@ a2 :> a @@ b1 :> b

Row(min, max) ==
  [min |-> min, max |-> max, lifetime |-> FALSE, polling |-> FALSE]

\* A pool capped at two runners beside one without a cap.
TwoRows == {a :> Row(1, 2) @@ b :> Row(1, 0)}

\* A scale-to-zero pool with a lifetime limit beside a polling one.
ScaleToZero == [Row(0, 2) EXCEPT !.lifetime = TRUE]
Polling == [Row(1, 1) EXCEPT !.polling = TRUE]
ScalingConfigs == {ScaleToZero, Polling}
ScalingRows == {a :> ScaleToZero @@ b :> Polling}

\* Pools an administrator creates and deletes.
EditedConfigs == {Row(1, 0)}
EditedRows == {a :> Row(1, 0) @@ b :> None}

StandardConfigs == {Row(1, 2), Row(1, 0)}

Interchangeable == Permutations({a1, a2})

\* Start's loop, its event listener and a webhook request.
SteadyRoles ==
  loop :> {"boot", "reconcile"} @@ event :> {"event"} @@ hook :> {"webhook"}

\* Start's loop, which may check for hung runners too, and a webhook request.
LoopRoles ==
  loop :> {"boot", "reconcile", "hung"} @@ hook :> {"webhook"}

\* Start's loop and the event listener.
EventRoles == loop :> {"boot", "reconcile"} @@ event :> {"event"}

\* Start's loop, a webhook request and the signal handler.
ShutdownRoles ==
  loop :> {"boot", "reconcile"} @@ hook :> {"webhook"}
    @@ admin :> {"graceful", "immediate"}
=============================================================================
