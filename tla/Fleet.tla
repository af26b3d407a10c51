------------------------------- MODULE Fleet -------------------------------
(***************************************************************************)
(* The containers on the host engine and the supervisor's in-memory view   *)
(* of them: the Reconciler of internal/orchestrator/auditor.go and the     *)
(* ContainerProvider it audits (internal/orchestrator/docker/docker.go).   *)
(*                                                                         *)
(* A runner is a container ID.  Its pool label is fixed at creation, so    *)
(* PoolOf is a constant function: each pool owns a supply of IDs, and an   *)
(* ID is spawned again only once nothing in the system remembers it.       *)
(***************************************************************************)
EXTENDS Naturals, FiniteSets

CONSTANTS Pools, Runners, PoolOf

ASSUME FleetAssumption ==
  /\ IsFiniteSet(Runners)
  /\ PoolOf \in [Runners -> Pools]

VARIABLES
  ctr,       \* engine: container ID -> "none", "running" or "exited"
  working,   \* containers that are executing a job
  age,       \* 0 young, 1 past the scale-to-zero grace, 2 past its lifetime
  tracked,   \* Reconciler.tracked: ID -> recorded State, "none" if no entry
  busy,      \* IDs whose entry has IsBusy set
  onDemand   \* IDs whose entry has OnDemand set

hostVars == <<ctr, working, age>>
viewVars == <<tracked, busy, onDemand>>
fleetVars == <<hostVars, viewVars>>

Phases == {"none", "running", "exited"}

FleetTypeOK ==
  /\ ctr \in [Runners -> Phases]
  /\ working \in SUBSET Runners
  /\ age \in [Runners -> 0..2]
  /\ tracked \in [Runners -> Phases]
  /\ busy \in SUBSET {r \in Runners : tracked[r] # "none"}
  /\ onDemand \in SUBSET {r \in Runners : tracked[r] # "none"}

----------------------------------------------------------------------------
(* What the supervisor can read of its own view.                           *)

\* (IDs with a running entry, their number, and the same per pool.)
Active == {r \in Runners : tracked[r] = "running"}

\* Variant: runners at work do not count.
TotalIdleRunners == Cardinality(Active \ busy)

TotalActiveRunners == Cardinality(Active)

TrackedPoolRunners(q) == {r \in Active : PoolOf[r] = q}
Idle(q) == TrackedPoolRunners(q) \ busy

\* What is really executing on the host.
Executing == {r \in Runners : ctr[r] = "running"}

----------------------------------------------------------------------------
(* Updates of the view, each one critical section of Reconciler.mu.        *)

TrackRunner(r, demand) ==
  /\ tracked' = [tracked EXCEPT ![r] = "running"]
  /\ busy' = busy \ {r}
  /\ onDemand' = IF demand THEN onDemand \cup {r} ELSE onDemand \ {r}

UntrackRunners(S) ==
  /\ tracked' = [r \in Runners |-> IF r \in S THEN "none" ELSE tracked[r]]
  /\ busy' = busy \ S
  /\ onDemand' = onDemand \ S

\* Variant: a runner that is not tracked is marked too.
MarkAnyRunner(r, b) ==
  /\ busy' = IF b THEN busy \cup {r} ELSE busy \ {r}
  /\ UNCHANGED <<tracked, onDemand>>

\* Only an entry of the view is marked.
MarkRunnerBusy(r, b) ==
  /\ busy' = IF b /\ tracked[r] # "none" THEN busy \cup {r} ELSE busy \ {r}
  /\ UNCHANGED <<tracked, onDemand>>

\* Variant: containers the supervisor does not know are not adopted.
MergeKnown(snap) ==
  /\ tracked' = [r \in Runners |-> IF tracked[r] = "none" THEN "none" ELSE snap[r]]
  /\ busy' = {r \in busy : snap[r] # "none"}
  /\ onDemand' = {r \in onDemand : snap[r] # "none"}

\* Variant: entries whose container has disappeared are kept.
MergeWithoutDeletion(snap) ==
  /\ tracked' = [r \in Runners |-> IF snap[r] = "none" THEN tracked[r] ELSE snap[r]]
  /\ UNCHANGED <<busy, onDemand>>

\* The locked half of Reconciler.Audit: the listing `snap' was taken before
\* the lock.  Entries it lacks are dropped, unknown containers are adopted,
\* and only an entry that was tracked already keeps its flags.
MergeAudit(snap) ==
  LET kept == {r \in Runners : tracked[r] # "none" /\ snap[r] # "none"}
  IN  /\ tracked' = snap
      /\ busy' = busy \cap kept
      /\ onDemand' = onDemand \cap kept

----------------------------------------------------------------------------
(* The engine.                                                             *)

\* TerminateRunner on every ID of S; it fails, leaving the container, on
\* those of `stuck'.  An ID that is already gone is not an error.
Terminate(S, stuck) ==
  /\ ctr' = [r \in Runners |-> IF r \in S \ stuck THEN "none" ELSE ctr[r]]
  /\ working' = working \ (S \ stuck)
  /\ UNCHANGED age

SpawnRunner(r) ==
  /\ ctr[r] = "none"
  /\ ctr' = [ctr EXCEPT ![r] = "running"]
  /\ age' = [age EXCEPT ![r] = 0]
  /\ UNCHANGED working

\* The runner in the container picks up a job.
StartJob(r) ==
  /\ ctr[r] = "running"
  /\ working' = working \cup {r}
  /\ UNCHANGED <<ctr, age, viewVars>>

\* The job ends or the runner crashes, and the container exits; or it is
\* removed from the host behind the supervisor's back.
ContainerExit(r) ==
  /\ ctr[r] = "running"
  /\ ctr' = [ctr EXCEPT ![r] = "exited"]
  /\ working' = working \ {r}
  /\ UNCHANGED <<age, viewVars>>

ContainerVanish(r) ==
  /\ ctr[r] # "none"
  /\ ctr' = [ctr EXCEPT ![r] = "none"]
  /\ working' = working \ {r}
  /\ UNCHANGED <<age, viewVars>>

GrowOlder(r) ==
  /\ ctr[r] = "running" /\ age[r] < 2
  /\ age' = [age EXCEPT ![r] = @ + 1]
  /\ UNCHANGED <<ctr, working, viewVars>>
=============================================================================
