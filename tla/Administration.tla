--------------------------- MODULE Administration ---------------------------
(***************************************************************************)
(* The pool and profile services of internal/server/pool.go and            *)
(* auth_profile.go.  A request is a series of SQL statements without a     *)
(* transaction: each statement is a step, other requests come in between,  *)
(* and any statement may fail (the client is gone, a name is taken, the    *)
(* database is busy).  The schema's constraints are those of migrations    *)
(* 001 and 003 with foreign keys on.                                       *)
(***************************************************************************)
EXTENDS Integers, FiniteSets

CONSTANTS
  Handlers,    \* goroutines that serve requests
  Profiles,    \* auth profile IDs
  Requests,    \* payloads of CreatePool and UpdatePool that pass validation
  MaxPools,    \* pools ever created: AUTOINCREMENT does not reuse an ID
  None

PoolIds == 1..MaxPools

\* A request has a profile, a url (repository_url), urls (target_urls) and a
\* config (renovate), None if it is absent.
ASSUME AdministrationAssumption ==
  /\ MaxPools \in Nat
  /\ \A q \in Requests : /\ q.profile \in Profiles
                         /\ q.config \in {None, "on", "off"}
                         /\ [profile |-> q.profile, url |-> q.url] # None

VARIABLES
  profiles,   \* rows of auth_profiles
  rows,       \* runner_pools: ID -> profile and repository_url, or None
  targets,    \* pool_targets: ID -> URLs
  config,     \* renovate_configs: ID -> its value, or None
  created,    \* the number of pools ever created
  op,         \* handler -> the request it serves
  asked,      \* history: what the last write of the pool's row asked for
  damaged     \* history: pools written by overlapping requests, or with a
              \* statement that failed

adminVars == <<profiles, rows, targets, config, created, op, asked, damaged>>
tables == <<profiles, rows, targets, config, created>>
history == <<asked, damaged>>

Op(pc, id, request, todo) ==
  [pc |-> pc, id |-> id, request |-> request, todo |-> todo]
NoOp == Op("idle", None, None, {})

\* The targets of a request: target_urls, else repository_url.
TargetURLs(q) == IF q.urls = {} THEN {q.url} ELSE q.urls

Urls == UNION {TargetURLs(q) \cup {q.url} : q \in Requests}

Writing == {"createConfig", "updateConfig", "addConfig", "clear", "targets"}

OpType ==
  [pc : Writing \cup {"idle", "update", "deleteTargets", "deletePool",
                      "listPools", "deleteProfile"},
   id : PoolIds \cup Profiles \cup {None},
   request : Requests \cup {None},
   todo : SUBSET Urls]

AdminTypeOK ==
  /\ profiles \subseteq Profiles
  /\ rows \in [PoolIds -> [profile : Profiles, url : Urls] \cup {None}]
  /\ targets \in [PoolIds -> SUBSET Urls]
  /\ config \in [PoolIds -> {None, "on", "off"}]
  /\ created \in 0..MaxPools
  /\ op \in [Handlers -> OpType]

AdminInit ==
  /\ profiles = Profiles
  /\ rows = [p \in PoolIds |-> None]
  /\ targets = [p \in PoolIds |-> {}]
  /\ config = [p \in PoolIds |-> None]
  /\ created = 0
  /\ op = [h \in Handlers |-> NoOp]
  /\ asked = [p \in PoolIds |-> [targets |-> {}, config |-> None]]
  /\ damaged = {}

----------------------------------------------------------------------------
(* Helpers.                                                                *)

At(h, pc) == op[h].pc = pc
Serve(h, pc, id, q) ==
  op' = [op EXCEPT ![h] = Op(pc, id, q, {})]
Goto(h, pc) == op' = [op EXCEPT ![h].pc = pc]
Return(h) == op' = [op EXCEPT ![h] = NoOp]

\* The targets are added one by one, once those of before are gone.
ToTargets(h) ==
  op' = [op EXCEPT ![h].pc = "targets", ![h].todo = TargetURLs(op[h].request)]

Row(q) == [profile |-> q.profile, url |-> q.url]

\* FOREIGN KEY(auth_profile_id).
ProfileExists(q) == q.profile \in profiles

Overlapped(h, p) == \E g \in Handlers \ {h} : op[g].id = p /\ op[g].pc \in Writing

\* History of a write of the row of pool p for request q.
Asks(h, p, q) ==
  /\ asked' = [asked EXCEPT ![p] =
       [targets |-> TargetURLs(q),
        config |-> IF q.config = None THEN config[p] ELSE q.config]]
  /\ damaged' = IF Overlapped(h, p) THEN damaged \cup {p} ELSE damaged \ {p}

\* A statement failed and the handler goes on.
Ignored(h) == damaged' = damaged \cup {op[h].id} /\ UNCHANGED asked

----------------------------------------------------------------------------
(* CreatePool.                                                             *)

\* CreateRunnerPool; an error ends the request.
CreatePool(h) ==
  \E q \in Requests :
    LET p == created + 1
    IN  /\ At(h, "idle")
        /\ p \in PoolIds
        /\ ProfileExists(q)
        /\ rows' = [rows EXCEPT ![p] = Row(q)]
        /\ created' = p
        /\ IF q.config # None THEN Serve(h, "createConfig", p, q)
           ELSE op' = [op EXCEPT ![h] = Op("targets", p, q, TargetURLs(q))]
        /\ Asks(h, p, q)
        /\ UNCHANGED <<profiles, targets, config>>

\* CreateRenovateConfig of CreatePool, and of UpdatePool when there was no row
\* to update: UNIQUE(pool_id) and FOREIGN KEY(pool_id); the error is ignored.
CreateRenovateConfig(h) ==
  LET p == op[h].id
  IN  /\ op[h].pc \in {"createConfig", "addConfig"}
      /\ \/ /\ rows[p] # None /\ config[p] = None
            /\ config' = [config EXCEPT ![p] = op[h].request.config]
            /\ UNCHANGED history
         \/ UNCHANGED config /\ Ignored(h)
      /\ IF At(h, "createConfig") THEN ToTargets(h) ELSE Goto(h, "clear")
      /\ UNCHANGED <<profiles, rows, targets, created>>

\* AddPoolTarget: UNIQUE(pool_id, target_url) and FOREIGN KEY(pool_id); the
\* error is ignored.
AddPoolTarget(h) ==
  LET p == op[h].id
  IN  /\ At(h, "targets")
      /\ \E t \in op[h].todo :
           /\ op' = [op EXCEPT ![h].todo = @ \ {t}]
           /\ \/ /\ rows[p] # None /\ t \notin targets[p]
                 /\ targets' = [targets EXCEPT ![p] = @ \cup {t}]
                 /\ UNCHANGED history
              \/ UNCHANGED targets /\ Ignored(h)
      /\ UNCHANGED <<profiles, rows, config, created>>

\* The audit log, Reload, and the answer.
PoolWritten(h) ==
  /\ At(h, "targets")
  /\ op[h].todo = {}
  /\ Return(h)
  /\ UNCHANGED <<tables, history>>

----------------------------------------------------------------------------
(* UpdatePool.                                                             *)

\* GetRunnerPoolById.
UpdatePool(h) ==
  \E p \in PoolIds, q \in Requests :
    /\ At(h, "idle")
    /\ rows[p] # None
    /\ Serve(h, "update", p, q)
    /\ UNCHANGED <<tables, history>>

\* UpdateRunnerPool; no row, or an error, ends the request.
UpdateRunnerPool(h) ==
  LET p == op[h].id
      q == op[h].request
  IN  /\ At(h, "update")
      /\ \/ /\ rows[p] # None /\ ProfileExists(q)
            /\ rows' = [rows EXCEPT ![p] = Row(q)]
            /\ Goto(h, IF q.config # None THEN "updateConfig" ELSE "clear")
            /\ Asks(h, p, q)
         \/ Return(h) /\ UNCHANGED <<rows, history>>
      /\ UNCHANGED <<profiles, targets, config, created>>

\* UpdateRenovateConfig; only sql.ErrNoRows leads to CreateRenovateConfig.
UpdateRenovateConfig(h) ==
  LET p == op[h].id
  IN  /\ At(h, "updateConfig")
      /\ \/ /\ config[p] # None
            /\ config' = [config EXCEPT ![p] = op[h].request.config]
            /\ Goto(h, "clear")
            /\ UNCHANGED history
         \/ /\ config[p] = None
            /\ Goto(h, "addConfig")
            /\ UNCHANGED <<config, history>>
         \/ Goto(h, "clear") /\ UNCHANGED config /\ Ignored(h)
      /\ UNCHANGED <<profiles, rows, targets, created>>

\* Variant: the targets of before are kept.
NoTargetsDeleted(p) == targets

\* DELETE FROM pool_targets WHERE pool_id = p.
TargetsDeleted(p) == [targets EXCEPT ![p] = {}]

\* DeletePoolTargetsByPoolId of UpdatePool; the error is ignored.
ClearTargets(h) ==
  /\ At(h, "clear")
  /\ \/ targets' = TargetsDeleted(op[h].id) /\ UNCHANGED history
     \/ UNCHANGED targets /\ Ignored(h)
  /\ ToTargets(h)
  /\ UNCHANGED <<profiles, rows, config, created>>

----------------------------------------------------------------------------
(* DeletePool.                                                             *)

\* GetRunnerPoolById.
DeletePool(h) ==
  \E p \in PoolIds :
    /\ At(h, "idle")
    /\ rows[p] # None
    /\ Serve(h, "deleteTargets", p, None)
    /\ UNCHANGED <<tables, history>>

\* DeletePoolTargetsByPoolId; the error is ignored.
DeleteTargets(h) ==
  /\ At(h, "deleteTargets")
  /\ targets' = TargetsDeleted(op[h].id) \/ UNCHANGED targets
  /\ Goto(h, "deletePool")
  /\ Ignored(h)
  /\ UNCHANGED <<profiles, rows, config, created>>

\* ON DELETE CASCADE.
Cascade(p) ==
  /\ rows' = [rows EXCEPT ![p] = None]
  /\ targets' = [targets EXCEPT ![p] = {}]
  /\ config' = [config EXCEPT ![p] = None]

\* DeleteRunnerPool, which may find no row; audit log, Reload, answer.
DeleteRunnerPool(h) ==
  /\ At(h, "deletePool")
  /\ Cascade(op[h].id) \/ UNCHANGED <<rows, targets, config>>
  /\ Return(h)
  /\ UNCHANGED <<profiles, created, history>>

----------------------------------------------------------------------------
(* Profiles.                                                               *)

\* CreateAuthProfile: one statement.
CreateAuthProfile(h) ==
  /\ At(h, "idle")
  /\ \E a \in Profiles \ profiles : profiles' = profiles \cup {a}
  /\ UNCHANGED <<rows, targets, config, created, op, history>>

\* DeleteAuthProfile: GetAuthProfileById.
DeleteAuthProfile(h) ==
  \E a \in profiles :
    /\ At(h, "idle")
    /\ Serve(h, "listPools", a, None)
    /\ UNCHANGED <<tables, history>>

InUse(a) == \E p \in PoolIds : rows[p] # None /\ rows[p].profile = a

\* ListRunnerPools and the look for a reference.
ListRunnerPools(h) ==
  /\ At(h, "listPools")
  /\ \/ ~InUse(op[h].id) /\ Goto(h, "deleteProfile")
     \/ Return(h)
  /\ UNCHANGED <<tables, history>>

\* Variant: the look of before is taken for granted.
DeleteUnchecked(a) == TRUE

\* FOREIGN KEY(auth_profile_id): the statement fails while a pool refers to a.
DeleteAllowed(a) == ~InUse(a)

DeleteProfileRow(h) ==
  /\ At(h, "deleteProfile")
  /\ \/ DeleteAllowed(op[h].id) /\ profiles' = profiles \ {op[h].id}
     \/ UNCHANGED profiles
  /\ Return(h)
  /\ UNCHANGED <<rows, targets, config, created, history>>

AdminStep(h) ==
  \/ CreateRenovateConfig(h) \/ AddPoolTarget(h) \/ PoolWritten(h)
  \/ UpdateRunnerPool(h) \/ UpdateRenovateConfig(h) \/ ClearTargets(h)
  \/ DeleteTargets(h) \/ DeleteRunnerPool(h)
  \/ ListRunnerPools(h) \/ DeleteProfileRow(h)

AdminRequest(h) ==
  \/ CreatePool(h) \/ UpdatePool(h) \/ DeletePool(h)
  \/ CreateAuthProfile(h) \/ DeleteAuthProfile(h)

AdminNext == \E h \in Handlers : AdminRequest(h) \/ AdminStep(h)

AdminSpec == AdminInit /\ [][AdminNext]_adminVars

----------------------------------------------------------------------------
(* Properties.                                                             *)

\* Nothing refers to a row that is gone, although DeleteAuthProfile looks for
\* pools and deletes later, and although UpdatePool and CreatePool go on
\* writing targets and configurations of a pool that was deleted meanwhile.
References ==
  \A p \in PoolIds :
    IF rows[p] # None THEN rows[p].profile \in profiles
    ELSE targets[p] = {} /\ config[p] = None

\* When nobody writes a pool, its targets and its Renovate configuration are
\* those of the last request, unless requests overlapped or a statement whose
\* error CreatePool and UpdatePool ignore has failed: nothing of an older
\* request is left over, and an absent configuration leaves the old one alone.
WrittenAsAsked ==
  \A p \in PoolIds :
    /\ rows[p] # None
    /\ p \notin damaged
    /\ \A h \in Handlers : ~(op[h].id = p /\ op[h].pc \in Writing)
    => targets[p] = asked[p].targets /\ config[p] = asked[p].config
=============================================================================
