---------------------------- MODULE EngineClient ----------------------------
(***************************************************************************)
(* The client of the container engine: Client of                           *)
(* internal/orchestrator/docker/docker.go with its health tracker,         *)
(* DockerHealthTracker of internal/orchestrator/degraded.go.  Goroutines   *)
(* spawn and terminate containers, the monitor pings, and the engine may   *)
(* go away or hang between any two calls.  A call to an engine that is     *)
(* away fails, one to an engine that hangs has no deadline and waits, and  *)
(* the answer of one that was carried out may be lost.                     *)
(*                                                                         *)
(* Instants are kept as ticks gone by, up to the alert's threshold, so     *)
(* that time is not bounded.                                               *)
(***************************************************************************)
EXTENDS Naturals

CONSTANTS
  Spawners,      \* goroutines in spawn; each makes one container
  Killers,       \* goroutines in TerminateRunner
  Persistent     \* PersistentDockerDownThreshold

ASSUME EngineAssumption == Persistent \in Nat \ {0} /\ Spawners # {}

VARIABLES
  engine,        \* it answers, refuses connections or hangs
  health,        \* DockerHealthTracker
  monitor,       \* what the ping of checkHealth said, until it is recorded
  network,       \* the managed network exists
  spawner,       \* spawner -> where it is
  killer,        \* killer -> where it is, and with which container
  container,     \* spawner -> its container
  quiet          \* history: ticks since a ping succeeded

engineVars == <<engine, health, monitor, network, spawner, killer, container, quiet>>

Ok == [down |-> FALSE, since |-> 0, raised |-> FALSE]
Idle == [pc |-> "idle", disturbed |-> FALSE, left |-> FALSE]

EngineTypeOK ==
  /\ engine \in {"up", "away", "hung"} /\ network \in BOOLEAN
  /\ health \in [down : BOOLEAN, since : 0..Persistent, raised : BOOLEAN]
  /\ monitor \in {"wait", "success", "failure"}
  /\ spawner \in [Spawners -> [pc : {"idle", "list", "network", "again", "create", "start",
                                     "remove", "started", "failed", "degraded", "unparsed"},
                               disturbed : BOOLEAN, left : BOOLEAN]]
  /\ killer \in [Killers -> [pc : {"idle", "stop", "force", "remove", "gone", "failed"},
                             of : Spawners]]
  /\ container \in [Spawners -> {"none", "created", "running", "removed"}]
  /\ quiet \in 0..Persistent

EngineInit ==
  /\ engine = "up"
  /\ health = Ok
  /\ monitor = "wait"
  /\ network = FALSE
  /\ spawner = [s \in Spawners |-> Idle]
  /\ killer = [k \in Killers |-> [pc |-> "idle", of |-> CHOOSE s \in Spawners : TRUE]]
  /\ container = [s \in Spawners |-> "none"]
  /\ quiet = 0

----------------------------------------------------------------------------
(* The tracker and the monitor.                                            *)

\* Variant: every failure is the first.
FailureRestarts ==
  [down |-> TRUE, since |-> 0, raised |-> health.down /\ health.raised]

RecordFailure ==
  LET since == IF health.down THEN health.since ELSE 0
  IN  [down |-> TRUE, since |-> since,
       raised |-> (health.down /\ health.raised) \/ since >= Persistent]

RecordHealthy == Ok

CanSpawn == ~health.down

\* checkHealth: the ping, which has no deadline, and then what it says is
\* recorded.
Ping ==
  /\ monitor = "wait" /\ engine # "hung"
  /\ monitor' = IF engine = "up" THEN "success" ELSE "failure"
  /\ quiet' = IF engine = "up" THEN 0 ELSE quiet
  /\ UNCHANGED <<engine, health, network, spawner, killer, container>>

CheckHealth ==
  /\ monitor # "wait"
  /\ health' = IF monitor = "success" THEN RecordHealthy ELSE RecordFailure
  /\ monitor' = "wait"
  /\ UNCHANGED <<engine, network, spawner, killer, container, quiet>>

----------------------------------------------------------------------------
(* spawn.                                                                  *)

\* What may become of a call.
Outcomes ==
  CASE engine = "up"   -> {"done", "lost"}
    [] engine = "away" -> {"refused"}
    [] engine = "hung" -> {}
Done(outcome) == outcome # "refused"

\* `disturbed': a call of this spawn failed, or would have; `left': the one that
\* failed was the last that could have told of the container or removed it.
Spawning(s, outcome, next, otherwise, left) ==
  spawner' = [spawner EXCEPT ![s].pc = IF outcome = "done" THEN next ELSE otherwise,
                             ![s].disturbed = @ \/ outcome # "done",
                             ![s].left = @ \/ (left /\ outcome # "done")]

At(s, pc) == spawner[s].pc = pc

\* The tracker is asked once, and the pool's limits are parsed, of which nobody
\* has made sure that they can be.  Without a network the container is created
\* at once.
Spawn(s) ==
  /\ At(s, "idle") /\ container[s] = "none"
  /\ \E next \in IF CanSpawn THEN {"list", "create", "unparsed"} ELSE {"degraded"} :
       spawner' = [spawner EXCEPT ![s].pc = next]
  /\ UNCHANGED <<engine, health, monitor, network, killer, container, quiet>>

\* EnsureNetwork: NetworkList, whose error reads as no network.
ListNetworks(s) ==
  /\ At(s, "list")
  /\ \E o \in Outcomes :
       Spawning(s, o, IF network THEN "create" ELSE "network", "network", FALSE)
  /\ UNCHANGED <<engine, health, monitor, network, killer, container, quiet>>

\* Variant: that the network exists by now is an error.
CreateNetworkOnce(s) ==
  /\ At(s, "network")
  /\ \E o \in Outcomes :
       /\ network' = (network \/ Done(o))
       /\ Spawning(s, o, IF network THEN "failed" ELSE "create", "failed", FALSE)
  /\ UNCHANGED <<engine, health, monitor, killer, container, quiet>>

\* NetworkCreate fails if the network exists by now.
CreateNetwork(s) ==
  /\ At(s, "network")
  /\ \E o \in Outcomes :
       /\ network' = (network \/ Done(o))
       /\ Spawning(s, o, IF network THEN "again" ELSE "create", "again", FALSE)
  /\ UNCHANGED <<engine, health, monitor, killer, container, quiet>>

ListAgain(s) ==
  /\ At(s, "again")
  /\ \E o \in Outcomes :
       Spawning(s, o, IF network THEN "create" ELSE "failed", "failed", FALSE)
  /\ UNCHANGED <<engine, health, monitor, network, killer, container, quiet>>

CreateContainer(s) ==
  /\ At(s, "create")
  /\ \E o \in Outcomes :
       /\ container' = [container EXCEPT ![s] = IF Done(o) THEN "created" ELSE @]
       /\ Spawning(s, o, "start", "failed", TRUE)
  /\ UNCHANGED <<engine, health, monitor, network, killer, quiet>>

\* It starts unless somebody has removed it.
Started(s, o) == Done(o) /\ container[s] = "created"

\* Variant: a container that does not start is left.
StartOnly(s) ==
  /\ At(s, "start")
  /\ \E o \in Outcomes :
       /\ container' = [container EXCEPT ![s] = IF Started(s, o) THEN "running" ELSE @]
       /\ Spawning(s, o, IF Started(s, o) THEN "started" ELSE "failed", "failed", FALSE)
  /\ UNCHANGED <<engine, health, monitor, network, killer, quiet>>

StartContainer(s) ==
  /\ At(s, "start")
  /\ \E o \in Outcomes :
       /\ container' = [container EXCEPT ![s] = IF Started(s, o) THEN "running" ELSE @]
       /\ Spawning(s, o, IF Started(s, o) THEN "started" ELSE "remove", "remove", FALSE)
  /\ UNCHANGED <<engine, health, monitor, network, killer, quiet>>

Removed(s, o) == container' = [container EXCEPT ![s] = IF Done(o) THEN "removed" ELSE @]

\* The removal's error is ignored.
RemoveUnstarted(s) ==
  /\ At(s, "remove")
  /\ \E o \in Outcomes : Removed(s, o) /\ Spawning(s, o, "failed", "failed", TRUE)
  /\ UNCHANGED <<engine, health, monitor, network, killer, quiet>>

----------------------------------------------------------------------------
(* TerminateRunner.                                                        *)

Killing(k, pc) == killer' = [killer EXCEPT ![k].pc = pc]

Terminate(k, s) ==
  /\ killer[k].pc \in {"idle", "gone", "failed"} /\ container[s] # "none"
  /\ killer' = [killer EXCEPT ![k] = [pc |-> "stop", of |-> s]]
  /\ UNCHANGED <<engine, health, monitor, network, spawner, container, quiet>>

\* ContainerStop: a container that is not found is as good as stopped.
StopContainer(k) ==
  /\ killer[k].pc = "stop"
  /\ \E o \in Outcomes : Killing(k, IF o = "done" THEN "remove" ELSE "force")
  /\ UNCHANGED <<engine, health, monitor, network, spawner, container, quiet>>

\* The fallback after an error, which is returned even if it removes.
ForceRemove(k) ==
  /\ killer[k].pc = "force"
  /\ \E o \in Outcomes : Removed(killer[k].of, o)
  /\ Killing(k, "failed")
  /\ UNCHANGED <<engine, health, monitor, network, spawner, quiet>>

RemoveContainer(k) ==
  /\ killer[k].pc = "remove"
  /\ \E o \in Outcomes :
       Removed(killer[k].of, o) /\ Killing(k, IF o = "done" THEN "gone" ELSE "failed")
  /\ UNCHANGED <<engine, health, monitor, network, spawner, quiet>>

----------------------------------------------------------------------------

EngineFails ==
  /\ engine' \in {"away", "hung"} \ {engine}
  /\ UNCHANGED <<health, monitor, network, spawner, killer, container, quiet>>

EngineReturns ==
  /\ engine # "up"
  /\ engine' = "up"
  /\ UNCHANGED <<health, monitor, network, spawner, killer, container, quiet>>

Later(n) == IF n < Persistent THEN n + 1 ELSE n

\* Time passes; a ping is recorded within the tick it was answered in.
EngineTick ==
  /\ monitor = "wait"
  /\ quiet' = Later(quiet)
  /\ health' = IF health.down THEN [health EXCEPT !.since = Later(@)] ELSE health
  /\ UNCHANGED <<engine, monitor, network, spawner, killer, container>>

SpawnStep(s) ==
  \/ Spawn(s) \/ ListNetworks(s) \/ CreateNetwork(s) \/ ListAgain(s)
  \/ CreateContainer(s) \/ StartContainer(s) \/ RemoveUnstarted(s)

KillStep(k) == StopContainer(k) \/ ForceRemove(k) \/ RemoveContainer(k)

\* Goroutines that spawn the runners of S, and such that terminate them.
Engine == Ping \/ CheckHealth \/ EngineFails \/ EngineReturns \/ EngineTick
Spawns(S) == \E s \in S : SpawnStep(s)
Kills(S) == \E k \in Killers : KillStep(k) \/ \E s \in S : Terminate(k, s)

----------------------------------------------------------------------------
(* Properties.                                                             *)

\* "Idempotent across supervisor restarts and concurrent invocations": a spawn
\* whose limits could be parsed and none of whose calls failed does not fail
\* because another one created the network meanwhile, but only because its
\* container was terminated before it started.
SpawnUndisturbed ==
  \A s \in Spawners :
    At(s, "failed") /\ ~spawner[s].disturbed => container[s] = "removed"

\* A spawn that reports an error leaves no container, not even one that does
\* run, unless the answer to its creation was lost or its removal failed; and a
\* container that TerminateRunner reports as terminated is gone, also when two
\* goroutines terminate it at once or its spawn has not returned yet.
NothingLeftBehind ==
  /\ \A s \in Spawners :
       At(s, "failed") /\ ~spawner[s].left => container[s] \in {"none", "removed"}
  /\ \A k \in Killers : killer[k].pc = "gone" => container[killer[k].of] = "removed"

\* The alert means that the engine has not answered a ping for the threshold,
\* or that the ping which clears it is about to be recorded.
OutageJustified == health.raised => quiet >= Persistent \/ monitor = "success"

\* An outage in which the engine refuses connections, and which lasts, is alerted
\* to and no other is, and one that is over is forgotten, so that spawns go on.
OutageNoticed ==
  /\ []OutageJustified
  /\ engine = "away" ~> health.raised \/ engine # "away"
  /\ engine = "up" ~> CanSpawn \/ engine # "up"
=============================================================================
