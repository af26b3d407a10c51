------------------------------ MODULE Clients ------------------------------
(***************************************************************************)
(* The clients of what lies outside the supervisor: the Git provider, for  *)
(* tokens and for lists, the container engine and the image registry.      *)
(* They share no state, so `mix' says which of them is looked at: of the   *)
(* engine's, several goroutines that spawn, or one that spawns among       *)
(* several that terminate.                                                 *)
(***************************************************************************)
EXTENDS ProviderClient, EngineClient, Registry, Discovery, Forges

VARIABLE mix

clientVars == <<vars, engineVars, registryVars, discoveryVars, forgeVars, mix>>

ClientInit ==
  /\ mix \in {"provider", "spawn", "kill", "registry", "discovery", "forge"}
  /\ Init /\ EngineInit /\ RegistryInit /\ DiscoveryInit /\ ForgeInit

\* A step of one client.
OfProvider(A) ==
  /\ mix = "provider" /\ A
  /\ UNCHANGED <<engineVars, registryVars, discoveryVars, forgeVars, mix>>
OfEngine(m, A) ==
  /\ mix \in m /\ A
  /\ UNCHANGED <<vars, registryVars, discoveryVars, forgeVars, mix>>
OfRegistry(A) ==
  /\ mix = "registry" /\ A
  /\ UNCHANGED <<vars, engineVars, discoveryVars, forgeVars, mix>>
OfDiscovery(A) ==
  /\ mix = "discovery" /\ A
  /\ UNCHANGED <<vars, engineVars, registryVars, forgeVars, mix>>
OfForge(A) ==
  /\ mix = "forge" /\ A
  /\ UNCHANGED <<vars, engineVars, registryVars, discoveryVars, mix>>

OneSpawner == {CHOOSE s \in Spawners : TRUE}

ClientNext ==
  \/ OfProvider(Next)
  \/ OfEngine({"spawn", "kill"}, Engine)
  \/ OfEngine({"spawn"}, Spawns(Spawners))
  \/ OfEngine({"kill"}, Spawns(OneSpawner) \/ Kills(OneSpawner))
  \/ OfRegistry(RegistryNext)
  \/ OfDiscovery(DiscoveryNext)
  \/ OfForge(ForgeNext)

ClientSpec == ClientInit /\ [][ClientNext]_clientVars

\* Fairness of the provider's client; the engine's monitor runs at every tick,
\* and time passes.
ClientFairness ==
  /\ WF_clientVars(OfProvider(Tick))
  /\ \A r \in Callers : WF_clientVars(OfProvider(Runs(r)))
  /\ WF_clientVars(OfEngine({"spawn", "kill"}, Ping \/ CheckHealth))
  /\ SF_clientVars(OfEngine({"spawn", "kill"}, EngineTick))

ClientFairSpec == ClientSpec /\ ClientFairness

\* Type correctness of the clients.
ClientTypeOK ==
  TypeOK /\ EngineTypeOK /\ RegistryTypeOK /\ DiscoveryTypeOK /\ ForgeTypeOK
=============================================================================
