--------------------------- MODULE ServicesProofs ---------------------------
(* Theorems about Services, for any number of requests, clients, checks,   *)
(* pulls and deliveries, any profiles, pools and versions.                 *)
EXTENDS Services, SessionsProofs, WebhooksProofs, TLAPS

\* A handler that works on a pool has its ID, and one that writes it has a
\* request.
HandlerOK(h) ==
  /\ op[h].pc \in Writing \cup {"update", "deleteTargets", "deletePool"}
       => op[h].id \in PoolIds
  /\ op[h].pc \in Writing \cup {"update"} => op[h].request \in Requests

AdminInv == AdminTypeOK /\ References /\ \A h \in Handlers : HandlerOK(h)

\* What a step of one handler leaves behind.
Kept(o) ==
  /\ o \in OpType
  /\ o.pc \in Writing \cup {"update", "deleteTargets", "deletePool"} => o.id \in PoolIds
  /\ o.pc \in Writing \cup {"update"} => o.request \in Requests

\* A step of one handler leaves what the others know.
LEMMA OneHandler ==
  ASSUME AdminInv, NEW h \in Handlers, NEW o, Kept(o), op' = [op EXCEPT ![h] = o]
  PROVE  op' \in [Handlers -> OpType] /\ \A g \in Handlers : HandlerOK(g)'
  BY DEF AdminInv, AdminTypeOK, HandlerOK, Kept

\* The tables, apart from the handlers.
TablesOK ==
  /\ profiles \subseteq Profiles
  /\ rows \in [PoolIds -> [profile : Profiles, url : Urls] \cup {None}]
  /\ targets \in [PoolIds -> SUBSET Urls]
  /\ config \in [PoolIds -> {None, "on", "off"}]
  /\ created \in 0..MaxPools
  /\ References

\* The invariant, as tables and handlers.
LEMMA TablesAndHandlers ==
  AdminInv <=> /\ TablesOK
               /\ op \in [Handlers -> OpType]
               /\ \A h \in Handlers : HandlerOK(h)
  BY DEF AdminInv, AdminTypeOK, TablesOK

\* The targets of a request are URLs.
LEMMA RequestTargets ==
  ASSUME NEW q \in Requests
  PROVE  TargetURLs(q) \in SUBSET Urls /\ q.url \in Urls
  BY DEF Urls

\* The tables where a step leaves them.
LEMMA TablesUnchanged ==
  ASSUME TablesOK, UNCHANGED tables PROVE TablesOK'
  BY DEF TablesOK, tables, References

\* A row written for a profile that exists.
LEMMA RowWritten ==
  ASSUME TablesOK, NEW p \in PoolIds, NEW q \in Requests, ProfileExists(q),
         rows' = [rows EXCEPT ![p] = Row(q)], created' \in 0..MaxPools,
         UNCHANGED <<profiles, targets, config>>
  PROVE  TablesOK'
<1>1. Row(q) \in [profile : Profiles, url : Urls] /\ Row(q) # None
  BY AdministrationAssumption, RequestTargets DEF Row
<1>2. rows' \in [PoolIds -> [profile : Profiles, url : Urls] \cup {None}]
  BY <1>1 DEF TablesOK
<1>3. References'
  <2> SUFFICES ASSUME NEW r \in PoolIds
               PROVE  IF rows'[r] # None THEN rows'[r].profile \in profiles'
                      ELSE targets'[r] = {} /\ config'[r] = None
    BY DEF References
  <2>1. CASE r = p
    <3>1. rows'[r] = Row(q)  BY <2>1 DEF TablesOK
    <3>2. Row(q).profile = q.profile  BY DEF Row
    <3> QED  BY <1>1, <3>1, <3>2 DEF ProfileExists
  <2>2. CASE r # p  BY <2>2 DEF TablesOK, References
  <2> QED  BY <2>1, <2>2
<1> QED  BY <1>2, <1>3 DEF TablesOK

\* A configuration written for a pool that exists.
LEMMA ConfigWritten ==
  ASSUME TablesOK, NEW p \in PoolIds, NEW q \in Requests, rows[p] # None,
         config' = [config EXCEPT ![p] = q.config],
         UNCHANGED <<profiles, rows, targets, created>>
  PROVE  TablesOK'
<1>1. config' \in [PoolIds -> {None, "on", "off"}]
  BY AdministrationAssumption DEF TablesOK
<1>2. References'
  BY DEF TablesOK, References
<1> QED  BY <1>1, <1>2 DEF TablesOK

\* A target added to a pool that exists.
LEMMA TargetAdded ==
  ASSUME TablesOK, NEW p \in PoolIds, NEW t \in Urls, rows[p] # None,
         targets' = [targets EXCEPT ![p] = @ \cup {t}],
         UNCHANGED <<profiles, rows, config, created>>
  PROVE  TablesOK'
<1>1. targets' \in [PoolIds -> SUBSET Urls]
  BY DEF TablesOK
<1>2. References'
  BY DEF TablesOK, References
<1> QED  BY <1>1, <1>2 DEF TablesOK

\* The targets of a pool deleted.
LEMMA TargetsGone ==
  ASSUME TablesOK, NEW p \in PoolIds, targets' = TargetsDeleted(p),
         UNCHANGED <<profiles, rows, config, created>>
  PROVE  TablesOK'
<1>1. targets' \in [PoolIds -> SUBSET Urls]
  BY DEF TablesOK, TargetsDeleted
<1>2. References'
  BY DEF TablesOK, References, TargetsDeleted
<1> QED  BY <1>1, <1>2 DEF TablesOK

\* A pool deleted, and with it what refers to it.
LEMMA PoolGone ==
  ASSUME TablesOK, NEW p \in PoolIds, Cascade(p), UNCHANGED <<profiles, created>>
  PROVE  TablesOK'
<1>1. /\ rows' \in [PoolIds -> [profile : Profiles, url : Urls] \cup {None}]
      /\ targets' \in [PoolIds -> SUBSET Urls]
      /\ config' \in [PoolIds -> {None, "on", "off"}]
  BY DEF TablesOK, Cascade
<1>2. References'
  BY DEF TablesOK, References, Cascade
<1> QED  BY <1>1, <1>2 DEF TablesOK

\* A profile deleted that no pool refers to.
LEMMA ProfileGone ==
  ASSUME TablesOK, NEW a, DeleteAllowed(a), profiles' = profiles \ {a},
         UNCHANGED <<rows, targets, config, created>>
  PROVE  TablesOK'
<1>1. References'
  BY DEF TablesOK, References, DeleteAllowed, InUse
<1> QED  BY <1>1 DEF TablesOK

\* A profile added.
LEMMA ProfileAdded ==
  ASSUME TablesOK, NEW a \in Profiles, profiles' = profiles \cup {a},
         UNCHANGED <<rows, targets, config, created>>
  PROVE  TablesOK'
<1>1. References'
  BY DEF TablesOK, References
<1> QED  BY <1>1 DEF TablesOK

----------------------------------------------------------------------------
(* What a step does with its handler.                                      *)

LEMMA Served ==
  ASSUME AdminInv, NEW h \in Handlers, NEW pc \in Writing \cup {"update"},
         NEW p \in PoolIds, NEW q \in Requests, NEW u \in SUBSET Urls,
         op' = [op EXCEPT ![h] = Op(pc, p, q, u)]
  PROVE  op' \in [Handlers -> OpType] /\ \A g \in Handlers : HandlerOK(g)'
<1>1. Kept(Op(pc, p, q, u))
  BY DEF Kept, Op, OpType, Writing
<1> QED  BY <1>1, OneHandler

\* A deletion begins knowing its row, and no request.
LEMMA ServedNoRequest ==
  ASSUME AdminInv, NEW h \in Handlers,
         NEW pc \in {"deleteTargets", "listPools"}, NEW i,
         pc = "deleteTargets" => i \in PoolIds,
         pc = "listPools" => i \in Profiles,
         Serve(h, pc, i, None)
  PROVE  op' \in [Handlers -> OpType] /\ \A g \in Handlers : HandlerOK(g)'
<1>1. Kept(Op(pc, i, None, {}))
  BY DEF Kept, Op, OpType, Writing
<1> QED  BY <1>1, OneHandler DEF Serve

\* A handler that has answered knows nothing.
LEMMA Returned ==
  ASSUME AdminInv, NEW h \in Handlers, Return(h)
  PROVE  op' \in [Handlers -> OpType] /\ \A g \in Handlers : HandlerOK(g)'
<1>1. Kept(NoOp)
  BY DEF Kept, NoOp, Op, OpType, Writing
<1> QED  BY <1>1, OneHandler DEF Return

\* A handler that goes on to the next statement keeps what it knows.
LEMMA Went ==
  ASSUME AdminInv, NEW h \in Handlers,
         NEW pc \in {"updateConfig", "addConfig", "clear", "deletePool", "deleteProfile"},
         pc \in Writing => op[h].pc \in Writing \cup {"update"},
         pc = "deletePool" => op[h].pc = "deleteTargets",
         Goto(h, pc)
  PROVE  op' \in [Handlers -> OpType] /\ \A g \in Handlers : HandlerOK(g)'
<1> DEFINE o == [op[h] EXCEPT !.pc = pc]
<1>1. op[h] \in OpType /\ HandlerOK(h)
  BY DEF AdminInv, AdminTypeOK
<1>2. o \in OpType /\ o.pc = pc /\ o.id = op[h].id /\ o.request = op[h].request
  BY <1>1 DEF OpType, Writing
<1>3. Kept(o)
  BY <1>1, <1>2 DEF Kept, HandlerOK, Writing
<1>4. op' = [op EXCEPT ![h] = o]
  BY DEF Goto
<1> QED  BY <1>3, <1>4, OneHandler

\* A handler that goes on to its targets has them from its request.
LEMMA WentToTargets ==
  ASSUME AdminInv, NEW h \in Handlers, op[h].pc \in Writing, ToTargets(h)
  PROVE  op' \in [Handlers -> OpType] /\ \A g \in Handlers : HandlerOK(g)'
<1> DEFINE o == [op[h] EXCEPT !.pc = "targets", !.todo = TargetURLs(op[h].request)]
<1>1. op[h] \in OpType /\ op[h].id \in PoolIds /\ op[h].request \in Requests
  BY DEF AdminInv, AdminTypeOK, HandlerOK
<1>2. /\ o \in OpType /\ o.pc = "targets" /\ o.id = op[h].id
      /\ o.request = op[h].request
  BY <1>1, RequestTargets DEF OpType, Writing
<1>3. Kept(o)
  BY <1>1, <1>2 DEF Kept
<1>4. op' = [op EXCEPT ![h] = o]
  BY DEF ToTargets
<1> QED  BY <1>3, <1>4, OneHandler

----------------------------------------------------------------------------
(* Every action of the pool and profile services preserves AdminInv.       *)

LEMMA RequestKeeps ==
  ASSUME AdminInv, NEW h \in Handlers, AdminRequest(h)
  PROVE  AdminInv'
<1> USE DEF At
<1>0. TablesOK
  BY TablesAndHandlers
<1> SUFFICES TablesOK' /\ op' \in [Handlers -> OpType] /\ \A g \in Handlers : HandlerOK(g)'
  BY DEF AdminInv, AdminTypeOK, TablesOK
<1>1. CASE CreatePool(h)
  <2>1. PICK q \in Requests :
           /\ created + 1 \in PoolIds
           /\ ProfileExists(q)
           /\ rows' = [rows EXCEPT ![created + 1] = Row(q)]
           /\ created' = created + 1
           /\ \/ op' = [op EXCEPT ![h] = Op("createConfig", created + 1, q, {})]
              \/ op' = [op EXCEPT ![h] = Op("targets", created + 1, q, TargetURLs(q))]
           /\ UNCHANGED <<profiles, targets, config>>
    BY <1>1 DEF CreatePool, Serve
  <2>2. created' \in 0..MaxPools
    BY <2>1, AdministrationAssumption DEF PoolIds
  <2>3. TablesOK'
    BY <1>0, <2>1, <2>2, RowWritten
  <2>4. TargetURLs(q) \in SUBSET Urls /\ {} \in SUBSET Urls
    BY RequestTargets
  <2>5. "createConfig" \in Writing /\ "targets" \in Writing
    BY DEF Writing
  <2> QED  BY <2>1, <2>3, <2>4, <2>5, Served
<1>2. CASE UpdatePool(h)
  <2>1. PICK p \in PoolIds, q \in Requests :
           op' = [op EXCEPT ![h] = Op("update", p, q, {})] /\ UNCHANGED tables
    BY <1>2 DEF UpdatePool, Serve
  <2>2. TablesOK'
    BY <1>0, <2>1, TablesUnchanged
  <2>3. {} \in SUBSET Urls /\ "update" \in Writing \cup {"update"}
    OBVIOUS
  <2> QED  BY <2>1, <2>2, <2>3, Served
<1>3. CASE DeletePool(h)
  <2>1. PICK p \in PoolIds : Serve(h, "deleteTargets", p, None) /\ UNCHANGED tables
    BY <1>3 DEF DeletePool
  <2> QED  BY <1>0, <2>1, TablesUnchanged, ServedNoRequest
<1>4. CASE CreateAuthProfile(h)
  <2>1. TablesOK'
    BY <1>0, <1>4, ProfileAdded DEF CreateAuthProfile
  <2> QED  BY <1>4, <2>1 DEF CreateAuthProfile, AdminInv, AdminTypeOK, HandlerOK
<1>5. CASE DeleteAuthProfile(h)
  <2>1. PICK a \in profiles : Serve(h, "listPools", a, None) /\ UNCHANGED tables
    BY <1>5 DEF DeleteAuthProfile
  <2>2. a \in Profiles
    BY <1>0 DEF TablesOK
  <2> QED  BY <1>0, <2>1, <2>2, TablesUnchanged, ServedNoRequest
<1> QED  BY <1>1, <1>2, <1>3, <1>4, <1>5 DEF AdminRequest

\* Every statement of a handler keeps the invariant.
LEMMA StatementKeeps ==
  ASSUME AdminInv, NEW h \in Handlers, AdminStep(h)
  PROVE  AdminInv'
<1> USE DEF At
<1>0. TablesOK /\ op[h] \in OpType /\ HandlerOK(h)
  BY TablesAndHandlers
<1> SUFFICES TablesOK' /\ op' \in [Handlers -> OpType] /\ \A g \in Handlers : HandlerOK(g)'
  BY DEF AdminInv, AdminTypeOK, TablesOK
<1>1. CASE CreateRenovateConfig(h)
  <2>1. op[h].pc \in Writing /\ op[h].id \in PoolIds /\ op[h].request \in Requests
    BY <1>0, <1>1 DEF CreateRenovateConfig, HandlerOK, Writing
  <2>2. TablesOK'
    BY <1>0, <1>1, <2>1, ConfigWritten, TablesUnchanged DEF CreateRenovateConfig, tables
  <2>3. ToTargets(h) \/ Goto(h, "clear")
    BY <1>1 DEF CreateRenovateConfig
  <2> QED  BY <2>1, <2>2, <2>3, Went, WentToTargets
<1>2. CASE AddPoolTarget(h)
  <2>1. PICK t \in op[h].todo :
           /\ op' = [op EXCEPT ![h].todo = @ \ {t}]
           /\ \/ rows[op[h].id] # None /\ targets' = [targets EXCEPT ![op[h].id] = @ \cup {t}]
              \/ UNCHANGED targets
    BY <1>2 DEF AddPoolTarget
  <2>2. op[h].pc = "targets" /\ UNCHANGED <<profiles, rows, config, created>>
    BY <1>2 DEF AddPoolTarget
  <2>3. op[h].id \in PoolIds /\ op[h].request \in Requests /\ t \in Urls
    BY <1>0, <2>2 DEF HandlerOK, Writing, OpType
  <2>4. TablesOK'
    BY <1>0, <2>1, <2>2, <2>3, TargetAdded, TablesUnchanged DEF tables
  <2> DEFINE o == [op[h] EXCEPT !.todo = @ \ {t}]
  <2>5. o \in OpType /\ o.pc = "targets" /\ o.id = op[h].id /\ o.request = op[h].request
    BY <1>0, <2>2 DEF OpType
  <2>6. Kept(o)
    BY <2>3, <2>5 DEF Kept
  <2>7. op' = [op EXCEPT ![h] = o]
    BY <2>1
  <2> QED  BY <2>4, <2>6, <2>7, OneHandler
<1>3. CASE PoolWritten(h)
  BY <1>0, <1>3, TablesUnchanged, Returned DEF PoolWritten
<1>4. CASE UpdateRunnerPool(h)
  <2>1. op[h].pc = "update" /\ op[h].id \in PoolIds /\ op[h].request \in Requests
    BY <1>0, <1>4 DEF UpdateRunnerPool, HandlerOK
  <2>2. CASE Return(h) /\ UNCHANGED rows
    BY <1>0, <1>4, <2>2, TablesUnchanged, Returned DEF UpdateRunnerPool, tables
  <2>3. CASE /\ ProfileExists(op[h].request)
             /\ rows' = [rows EXCEPT ![op[h].id] = Row(op[h].request)]
             /\ Goto(h, IF op[h].request.config # None THEN "updateConfig" ELSE "clear")
    <3>1. UNCHANGED <<profiles, targets, config, created>> /\ created' \in 0..MaxPools
      BY <1>0, <1>4 DEF UpdateRunnerPool, TablesOK
    <3>2. TablesOK'
      BY <1>0, <2>1, <2>3, <3>1, RowWritten
    <3>3. Goto(h, "updateConfig") \/ Goto(h, "clear")
      BY <2>3
    <3> QED  BY <2>1, <3>2, <3>3, Went
  <2> QED  BY <1>4, <2>2, <2>3 DEF UpdateRunnerPool
<1>5. CASE UpdateRenovateConfig(h)
  <2>1. op[h].pc = "updateConfig"
    BY <1>5 DEF UpdateRenovateConfig
  <2>2. op[h].pc \in Writing /\ op[h].id \in PoolIds /\ op[h].request \in Requests
    BY <1>0, <2>1 DEF HandlerOK, Writing
  <2>3. config[op[h].id] # None => rows[op[h].id] # None
    BY <1>0, <2>2 DEF TablesOK, References
  <2>4. TablesOK'
    BY <1>0, <1>5, <2>2, <2>3, ConfigWritten, TablesUnchanged DEF UpdateRenovateConfig, tables
  <2>5. Goto(h, "clear") \/ Goto(h, "addConfig")
    BY <1>5 DEF UpdateRenovateConfig
  <2> QED  BY <2>2, <2>4, <2>5, Went
<1>6. CASE ClearTargets(h)
  <2>1. op[h].pc \in Writing /\ op[h].id \in PoolIds
    BY <1>0, <1>6 DEF ClearTargets, HandlerOK, Writing
  <2>2. TablesOK'
    BY <1>0, <1>6, <2>1, TargetsGone, TablesUnchanged DEF ClearTargets, tables
  <2> QED  BY <1>6, <2>1, <2>2, WentToTargets DEF ClearTargets
<1>7. CASE DeleteTargets(h)
  <2>1. op[h].pc = "deleteTargets" /\ op[h].id \in PoolIds /\ Goto(h, "deletePool")
    BY <1>0, <1>7 DEF DeleteTargets, HandlerOK
  <2>2. TablesOK'
    BY <1>0, <1>7, <2>1, TargetsGone, TablesUnchanged DEF DeleteTargets, tables
  <2>3. "deletePool" \notin Writing
    BY DEF Writing
  <2> QED  BY <2>1, <2>2, <2>3, Went
<1>8. CASE DeleteRunnerPool(h)
  <2>1. op[h].id \in PoolIds
    BY <1>0, <1>8 DEF DeleteRunnerPool, HandlerOK
  <2>2. TablesOK'
    BY <1>0, <1>8, <2>1, PoolGone, TablesUnchanged DEF DeleteRunnerPool, tables
  <2> QED  BY <1>8, <2>2, Returned DEF DeleteRunnerPool
<1>9. CASE ListRunnerPools(h)
  <2>1. TablesOK'
    BY <1>0, <1>9, TablesUnchanged DEF ListRunnerPools
  <2>2. "deleteProfile" \notin Writing
    BY DEF Writing
  <2> QED  BY <1>9, <2>1, <2>2, Went, Returned DEF ListRunnerPools
<1>10. CASE DeleteProfileRow(h)
  <2>1. TablesOK'
    BY <1>0, <1>10, ProfileGone, TablesUnchanged DEF DeleteProfileRow, tables
  <2> QED  BY <1>10, <2>1, Returned DEF DeleteProfileRow
<1> QED
  BY <1>1, <1>2, <1>3, <1>4, <1>5, <1>6, <1>7, <1>8, <1>9, <1>10 DEF AdminStep

----------------------------------------------------------------------------
(* What is written is what was asked for.                                  *)

\* Whether handler h writes what belongs to pool p, after the pool's row.
Writes(h, p) == op[h].id = p /\ op[h].pc \in Writing

\* How far h is: what it has written and has still to write was asked for.
Stage(h, p) ==
  /\ asked[p].targets = TargetURLs(op[h].request)
  /\ op[h].pc \in {"createConfig", "updateConfig", "addConfig"}
       => asked[p].config = op[h].request.config
  /\ op[h].pc \in {"clear", "targets"} => asked[p].config = config[p]
  /\ op[h].pc = "createConfig" => targets[p] = {}
  /\ op[h].pc = "targets" => targets[p] \cup op[h].todo = asked[p].targets

\* A pool that is not damaged has one writer at most.
PoolAsAsked(p) ==
  rows[p] # None /\ p \notin damaged =>
    /\ \A g, h \in Handlers : Writes(g, p) /\ Writes(h, p) => g = h
    /\ \A h \in Handlers : Writes(h, p) => Stage(h, p)
    /\ (\A h \in Handlers : ~Writes(h, p))
         => targets[p] = asked[p].targets /\ config[p] = asked[p].config

\* An ID that was not given out yet has no row.
WriteInv ==
  /\ asked \in [PoolIds -> [targets : SUBSET Urls, config : {None, "on", "off"}]]
  /\ \A p \in PoolIds : p > created => rows[p] = None
  /\ \A p \in PoolIds : PoolAsAsked(p)

\* A step of a handler that writes nothing of pool p.
LEMMA Elsewhere ==
  ASSUME NEW p \in PoolIds, NEW h \in Handlers, PoolAsAsked(p),
         \A g \in Handlers : g # h => op'[g] = op[g],
         ~Writes(h, p), ~Writes(h, p)',
         rows'[p] # None => rows[p] # None, p \in damaged => p \in damaged',
         targets'[p] = targets[p], config'[p] = config[p], asked'[p] = asked[p]
  PROVE  PoolAsAsked(p)'
<1>1. ASSUME NEW g \in Handlers
      PROVE  /\ Writes(g, p)' <=> Writes(g, p)
             /\ Writes(g, p) => (Stage(g, p)' <=> Stage(g, p))
  <2>1. CASE g = h  BY <2>1
  <2>2. CASE g # h  BY <2>2 DEF Writes, Stage
  <2> QED  BY <2>1, <2>2
<1> QED  BY <1>1 DEF PoolAsAsked

\* A step of the only writer of p, which goes on writing.
LEMMA OnlyWriter ==
  ASSUME NEW p \in PoolIds, NEW h \in Handlers,
         \A g \in Handlers : g # h => op'[g] = op[g] /\ ~Writes(g, p),
         Writes(h, p)', Stage(h, p)'
  PROVE  PoolAsAsked(p)'
<1>1. \A g \in Handlers : g # h => ~Writes(g, p)'  BY DEF Writes
<1> QED  BY <1>1 DEF PoolAsAsked

\* Nothing is asked of a pool that is damaged or gone.
LEMMA DamagedPool ==
  ASSUME NEW p \in PoolIds, p \in damaged' \/ rows'[p] = None PROVE PoolAsAsked(p)'
  BY DEF PoolAsAsked

\* What a handler that does not write, and does not begin to, leaves alone.
LEMMA NothingWritten ==
  ASSUME WriteInv, NEW h \in Handlers, op[h].pc \notin Writing, op'[h].pc \notin Writing,
         \A g \in Handlers : g # h => op'[g] = op[g],
         UNCHANGED <<rows, targets, config, created, history>>
  PROVE  WriteInv'
<1>1. UNCHANGED <<asked, damaged>>  BY DEF history
<1>2. ASSUME NEW p \in PoolIds PROVE PoolAsAsked(p)'
  <2>1. ~Writes(h, p) /\ ~Writes(h, p)'  BY DEF Writes
  <2> QED  BY <1>1, <2>1, Elsewhere DEF WriteInv
<1> QED  BY <1>1, <1>2 DEF WriteInv

\* A handler that writes a pool has its identifier and a request.
LEMMA WriterTypes ==
  ASSUME AdminInv, NEW h \in Handlers
  PROVE  /\ op \in [Handlers -> OpType] /\ op[h] \in OpType
         /\ op[h].pc \in Writing \cup {"update"} =>
              op[h].id \in PoolIds /\ op[h].request \in Requests
         /\ op[h].pc \in {"deleteTargets", "deletePool"} => op[h].id \in PoolIds
  BY DEF AdminInv, AdminTypeOK, HandlerOK

\* A row is written and the request goes on to what belongs to it.
LEMMA AskedFor ==
  ASSUME AdminInv, WriteInv, NEW h \in Handlers, op[h].pc \notin Writing,
         NEW p \in PoolIds, NEW q \in Requests,
         \A g \in Handlers : g # h => op'[g] = op[g],
         op'[h].id = p, op'[h].request = q, op'[h].pc \in Writing,
         q.config # None => op'[h].pc \in {"createConfig", "updateConfig"},
         q.config = None => op'[h].pc \in {"clear", "targets"},
         op'[h].pc \in {"createConfig", "targets"} => targets[p] = {},
         op'[h].pc = "targets" => op'[h].todo = TargetURLs(q),
         \A r \in PoolIds : r # p => rows'[r] = rows[r],
         \A r \in PoolIds : r > created' => rows'[r] = None,
         Asks(h, p, q), UNCHANGED <<targets, config>>
  PROVE  WriteInv'
<1> DEFINE a == [targets |-> TargetURLs(q), config |-> IF q.config = None THEN config[p] ELSE q.config]
<1>1. /\ asked' = [asked EXCEPT ![p] = a]
      /\ damaged' = IF Overlapped(h, p) THEN damaged \cup {p} ELSE damaged \ {p}
  BY DEF Asks
<1>2. /\ a \in [targets : SUBSET Urls, config : {None, "on", "off"}]
      /\ a.targets = TargetURLs(q)
      /\ a.config = IF q.config = None THEN config[p] ELSE q.config
  BY AdministrationAssumption, RequestTargets DEF AdminInv, AdminTypeOK
<1> HIDE DEF a
<1>3. /\ asked' \in [PoolIds -> [targets : SUBSET Urls, config : {None, "on", "off"}]]
      /\ asked'[p] = a
      /\ \A r \in PoolIds : r # p => asked'[r] = asked[r]
  BY <1>1, <1>2 DEF WriteInv
<1>4. \A g \in Handlers : g # h => op'[g] = op[g]  OBVIOUS
<1>5. ASSUME NEW r \in PoolIds PROVE PoolAsAsked(r)'
  <2>1. CASE r # p
    <3>1. ~Writes(h, r) /\ ~Writes(h, r)'  BY <1>4, <2>1 DEF Writes
    <3>2. r \in damaged => r \in damaged'  BY <1>1, <2>1
    <3> QED  BY <1>3, <1>4, <2>1, <3>1, <3>2, Elsewhere DEF WriteInv
  <2>2. CASE r = p /\ p \in damaged'  BY <2>2, DamagedPool
  <2>3. CASE r = p /\ p \notin damaged'
    <3>1. \A g \in Handlers : g # h => ~Writes(g, p)
      BY <1>1, <2>3 DEF Overlapped, Writes
    <3>2. Writes(h, p)'  BY <1>4 DEF Writes
    <3>3. Stage(h, p)'  BY <1>2, <1>3, <1>4 DEF Stage
    <3> QED  BY <1>4, <2>3, <3>1, <3>2, <3>3, OnlyWriter
  <2> QED  BY <2>1, <2>2, <2>3
<1> QED  BY <1>3, <1>5 DEF WriteInv

\* A writer takes a step of its own: if nothing failed, its stage is the next.
LEMMA WriterSteps ==
  ASSUME AdminInv, WriteInv, NEW h \in Handlers, NEW p \in PoolIds, Writes(h, p),
         \A g \in Handlers : g # h => op'[g] = op[g], op'[h].id = p, op'[h].pc \in Writing,
         UNCHANGED <<rows, created, asked>>,
         damaged' = damaged \/ damaged' = damaged \cup {p},
         \A r \in PoolIds : r # p => targets'[r] = targets[r] /\ config'[r] = config[r],
         Stage(h, p) /\ damaged' = damaged /\ p \notin damaged /\ rows[p] # None => Stage(h, p)'
  PROVE  WriteInv'
<1>1. \A g \in Handlers : g # h => op'[g] = op[g]  OBVIOUS
<1>2. ASSUME NEW r \in PoolIds PROVE PoolAsAsked(r)'
  <2>1. CASE r # p
    <3>1. ~Writes(h, r) /\ ~Writes(h, r)'  BY <1>1, <2>1 DEF Writes
    <3> QED  BY <1>1, <2>1, <3>1, Elsewhere DEF WriteInv
  <2>2. CASE r = p /\ (p \in damaged' \/ rows'[p] = None)  BY <2>2, DamagedPool
  <2>3. CASE r = p /\ p \notin damaged' /\ rows'[p] # None
    <3>1. p \notin damaged /\ rows[p] # None /\ damaged' = damaged  BY <2>3
    <3>2. Stage(h, p) /\ \A g \in Handlers : g # h => ~Writes(g, p)
      BY <3>1 DEF WriteInv, PoolAsAsked
    <3>3. Writes(h, p)' /\ Stage(h, p)'  BY <1>1, <3>1, <3>2 DEF Writes
    <3> QED  BY <1>1, <2>3, <3>2, <3>3, OnlyWriter
  <2> QED  BY <2>1, <2>2, <2>3
<1> QED  BY <1>2 DEF WriteInv

\* A request that begins: it overlaps with a writer, or is the only one.
LEMMA RequestWrites ==
  ASSUME AdminInv, WriteInv, NEW h \in Handlers, AdminRequest(h)
  PROVE  WriteInv'
<1> USE DEF At
<1>1. op \in [Handlers -> OpType]  BY WriterTypes
<1>2. "idle" \notin Writing /\ "update" \notin Writing /\ "deleteTargets" \notin Writing
        /\ "listPools" \notin Writing
  BY DEF Writing
<1>3. CASE CreatePool(h)
  <2>1. PICK q \in Requests :
           /\ op[h].pc = "idle" /\ created + 1 \in PoolIds
           /\ rows' = [rows EXCEPT ![created + 1] = Row(q)] /\ created' = created + 1
           /\ IF q.config # None
                THEN op' = [op EXCEPT ![h] = Op("createConfig", created + 1, q, {})]
                ELSE op' = [op EXCEPT ![h] = Op("targets", created + 1, q, TargetURLs(q))]
           /\ Asks(h, created + 1, q)
           /\ UNCHANGED <<targets, config>>
    BY <1>3 DEF CreatePool, Serve
  <2> DEFINE p == created + 1
             o == IF q.config # None THEN Op("createConfig", p, q, {})
                  ELSE Op("targets", p, q, TargetURLs(q))
  <2>2. created \in Nat /\ MaxPools \in Nat
    BY AdministrationAssumption DEF AdminInv, AdminTypeOK
  <2>3. rows[p] = None  BY <2>1, <2>2 DEF WriteInv
  <2>4. targets[p] = {} /\ config[p] = None  BY <2>1, <2>3 DEF AdminInv, References
  <2>5. /\ o \in OpType /\ o.id = p /\ o.request = q /\ o.pc \in Writing
        /\ q.config # None => o.pc = "createConfig"
        /\ q.config = None => o.pc = "targets" /\ o.todo = TargetURLs(q)
    BY <2>1, RequestTargets DEF Op, OpType, Writing
  <2>6. op' = [op EXCEPT ![h] = o]  BY <2>1
  <2> HIDE DEF o
  <2>7. \A r \in PoolIds : /\ r # p => rows'[r] = rows[r]
                           /\ r > created' => rows'[r] = None
    BY <2>1, <2>2 DEF WriteInv, AdminInv, AdminTypeOK, PoolIds
  <2>8. o.pc = "targets" => o.todo = TargetURLs(q)  BY <2>5
  <2>9. op[h].pc \notin Writing  BY <1>2, <2>1
  <2>10. /\ p \in PoolIds /\ Asks(h, p, q) /\ UNCHANGED <<targets, config>>
         /\ q.config # None => o.pc \in {"createConfig", "updateConfig"}
         /\ q.config = None => o.pc \in {"clear", "targets"}
    BY <2>1, <2>5
  <2>11. op'[h] = o /\ \A g \in Handlers : g # h => op'[g] = op[g]  BY <1>1, <2>6
  <2>12. /\ op'[h].id = p /\ op'[h].request = q /\ op'[h].pc \in Writing
         /\ q.config # None => op'[h].pc \in {"createConfig", "updateConfig"}
         /\ q.config = None => op'[h].pc \in {"clear", "targets"}
         /\ op'[h].pc \in {"createConfig", "targets"} => targets[p] = {}
         /\ op'[h].pc = "targets" => op'[h].todo = TargetURLs(q)
    BY <2>4, <2>5, <2>8, <2>10, <2>11
  <2> HIDE DEF p
  <2>13. \A r \in PoolIds : r # p => rows'[r] = rows[r]  BY <2>7
  <2>14. \A r \in PoolIds : r > created' => rows'[r] = None  BY <2>7
  <2> QED  BY <2>9, <2>10, <2>11, <2>12, <2>13, <2>14, AskedFor
<1>4. CASE UpdatePool(h)
  <2>1. PICK p \in PoolIds, q \in Requests :
           op[h].pc = "idle" /\ op' = [op EXCEPT ![h] = Op("update", p, q, {})]
             /\ UNCHANGED <<tables, history>>
    BY <1>4 DEF UpdatePool, Serve
  <2>2. op'[h].pc = "update"  BY <1>1, <2>1 DEF Op
  <2> QED  BY <1>1, <1>2, <2>1, <2>2, NothingWritten DEF tables
<1>5. CASE DeletePool(h)
  <2>1. PICK p \in PoolIds :
           op[h].pc = "idle" /\ op' = [op EXCEPT ![h] = Op("deleteTargets", p, None, {})]
             /\ UNCHANGED <<tables, history>>
    BY <1>5 DEF DeletePool, Serve
  <2>2. op'[h].pc = "deleteTargets"  BY <1>1, <2>1 DEF Op
  <2> QED  BY <1>1, <1>2, <2>1, <2>2, NothingWritten DEF tables
<1>6. CASE CreateAuthProfile(h)
  BY <1>1, <1>2, <1>6, NothingWritten DEF CreateAuthProfile
<1>7. CASE DeleteAuthProfile(h)
  <2>1. PICK a \in profiles :
           op[h].pc = "idle" /\ op' = [op EXCEPT ![h] = Op("listPools", a, None, {})]
             /\ UNCHANGED <<tables, history>>
    BY <1>7 DEF DeleteAuthProfile, Serve
  <2>2. op'[h].pc = "listPools"  BY <1>1, <2>1 DEF Op
  <2> QED  BY <1>1, <1>2, <2>1, <2>2, NothingWritten DEF tables
<1> QED  BY <1>3, <1>4, <1>5, <1>6, <1>7 DEF AdminRequest

\* Every statement brings the tables nearer to the request, or damages the
\* pool.
LEMMA StatementWrites ==
  ASSUME AdminInv, WriteInv, NEW h \in Handlers, AdminStep(h)
  PROVE  WriteInv'
<1> USE DEF At
<1> DEFINE p == op[h].id
           q == op[h].request
<1>1. op \in [Handlers -> OpType] /\ op[h] \in OpType  BY WriterTypes
<1>2. op[h].pc \in Writing \cup {"update"} => p \in PoolIds /\ q \in Requests  BY WriterTypes
<1>3. NoOp.pc = "idle" /\ "idle" \notin Writing  BY DEF NoOp, Op, Writing
<1>4. \A r \in PoolIds : PoolAsAsked(r)  BY DEF WriteInv
<1>5. CASE CreateRenovateConfig(h)
  <2>1. op[h].pc \in {"createConfig", "addConfig"} /\ Writes(h, p) /\ p \in PoolIds /\ q \in Requests
    BY <1>2, <1>5 DEF CreateRenovateConfig, Writes, Writing
  <2>2. UNCHANGED <<profiles, rows, targets, created, asked>>
    BY <1>5 DEF CreateRenovateConfig, Ignored, history
  <2>3. \/ config' = [config EXCEPT ![p] = q.config] /\ damaged' = damaged
        \/ config' = config /\ damaged' = damaged \cup {p}
    BY <1>5 DEF CreateRenovateConfig, Ignored, history
  <2> DEFINE o == IF op[h].pc = "createConfig"
                    THEN [op[h] EXCEPT !.pc = "targets", !.todo = TargetURLs(q)]
                    ELSE [op[h] EXCEPT !.pc = "clear"]
  <2>4. op' = [op EXCEPT ![h] = o]
    BY <1>5, <2>1 DEF CreateRenovateConfig, ToTargets, Goto
  <2>5. /\ o \in OpType /\ o.id = p /\ o.request = q /\ o.pc \in {"targets", "clear"}
        /\ o.pc = "targets" => op[h].pc = "createConfig" /\ o.todo = TargetURLs(q)
    BY <1>1, <2>1, RequestTargets DEF OpType, Writing
  <2> HIDE DEF o
  <2>6. op'[h] = o /\ \A g \in Handlers : g # h => op'[g] = op[g]  BY <1>1, <2>4
  <2>7. config \in [PoolIds -> {None, "on", "off"}]  BY DEF AdminInv, AdminTypeOK
  <2>8. \A r \in PoolIds : r # p => targets'[r] = targets[r] /\ config'[r] = config[r]
    BY <2>2, <2>3, <2>7
  <2>9. ASSUME Stage(h, p), damaged' = damaged, p \notin damaged PROVE Stage(h, p)'
    <3>1. config'[p] = q.config  BY <2>1, <2>3, <2>7, <2>9
    <3> QED  BY <2>1, <2>2, <2>5, <2>6, <2>9, <3>1 DEF Stage
  <2>10. o.pc \in Writing  BY <2>5 DEF Writing
  <2> QED  BY <2>1, <2>2, <2>3, <2>5, <2>6, <2>8, <2>9, <2>10, WriterSteps
<1>6. CASE AddPoolTarget(h)
  <2>1. op[h].pc = "targets" /\ Writes(h, p) /\ p \in PoolIds /\ q \in Requests
    BY <1>2, <1>6 DEF AddPoolTarget, Writes, Writing
  <2>2. UNCHANGED <<profiles, rows, config, created, asked>>
    BY <1>6 DEF AddPoolTarget, Ignored, history
  <2>3. PICK t \in op[h].todo :
          /\ op' = [op EXCEPT ![h].todo = @ \ {t}]
          /\ \/ targets' = [targets EXCEPT ![p] = @ \cup {t}] /\ damaged' = damaged
             \/ targets' = targets /\ damaged' = damaged \cup {p}
    BY <1>6 DEF AddPoolTarget, Ignored, history
  <2> DEFINE o == [op[h] EXCEPT !.todo = @ \ {t}]
  <2>4. o \in OpType /\ o.id = p /\ o.request = q /\ o.pc = "targets" /\ o.todo = op[h].todo \ {t}
    BY <1>1, <2>1 DEF OpType
  <2>5. op'[h] = o /\ \A g \in Handlers : g # h => op'[g] = op[g]  BY <1>1, <2>3
  <2> HIDE DEF o
  <2>6. targets \in [PoolIds -> SUBSET Urls]  BY DEF AdminInv, AdminTypeOK
  <2>7. \A r \in PoolIds : r # p => targets'[r] = targets[r] /\ config'[r] = config[r]
    BY <2>2, <2>3, <2>6
  <2>8. ASSUME Stage(h, p), damaged' = damaged, p \notin damaged PROVE Stage(h, p)'
    <3>1. targets'[p] = targets[p] \cup {t}  BY <2>1, <2>3, <2>6, <2>8
    <3>2. targets'[p] \cup o.todo = targets[p] \cup op[h].todo  BY <2>3, <2>4, <3>1
    <3> QED  BY <2>1, <2>2, <2>4, <2>5, <2>8, <3>2 DEF Stage
  <2>9. o.pc \in Writing  BY <2>4 DEF Writing
  <2> QED  BY <2>1, <2>2, <2>3, <2>4, <2>5, <2>7, <2>8, <2>9, WriterSteps
<1>7. CASE PoolWritten(h)
  <2>1. /\ op[h].pc = "targets" /\ op[h].todo = {} /\ op' = [op EXCEPT ![h] = NoOp]
        /\ UNCHANGED <<tables, history>>
    BY <1>7 DEF PoolWritten, Return
  <2>2. Writes(h, p) /\ p \in PoolIds  BY <1>2, <2>1 DEF Writes, Writing
  <2>3. op'[h] = NoOp /\ \A g \in Handlers : g # h => op'[g] = op[g]  BY <1>1, <2>1
  <2>4. \A r \in PoolIds : ~Writes(h, r)'  BY <1>3, <2>3 DEF Writes
  <2>5. UNCHANGED <<rows, targets, config, created, asked, damaged>>  BY <2>1 DEF tables, history
  <2>6. ASSUME NEW r \in PoolIds PROVE PoolAsAsked(r)'
    <3>1. CASE r # p
      <4>1. ~Writes(h, r)  BY <3>1 DEF Writes
      <4> QED  BY <1>4, <2>3, <2>4, <2>5, <4>1, Elsewhere
    <3>2. CASE r = p /\ (p \in damaged' \/ rows'[p] = None)  BY <3>2, DamagedPool
    <3>3. CASE r = p /\ p \notin damaged' /\ rows'[p] # None
      <4>1. Stage(h, r) /\ \A g \in Handlers : g # h => ~Writes(g, r)
        BY <1>4, <2>2, <2>5, <3>3 DEF PoolAsAsked
      <4>2. \A g \in Handlers : ~Writes(g, r)'  BY <2>3, <2>4, <4>1 DEF Writes
      <4>3. targets'[r] = asked'[r].targets /\ config'[r] = asked'[r].config
        BY <2>1, <2>5, <4>1 DEF Stage
      <4> QED  BY <3>3, <4>2, <4>3 DEF PoolAsAsked
    <3> QED  BY <3>1, <3>2, <3>3
  <2> QED  BY <2>5, <2>6 DEF WriteInv
<1>8. CASE UpdateRunnerPool(h)
  <2>1. op[h].pc = "update" /\ p \in PoolIds /\ q \in Requests /\ op[h].pc \notin Writing
    BY <1>2, <1>8 DEF UpdateRunnerPool, Writing
  <2>2. CASE Return(h) /\ UNCHANGED <<rows, history>>
    <3>1. op'[h] = NoOp /\ \A g \in Handlers : g # h => op'[g] = op[g]
      BY <1>1, <2>2 DEF Return
    <3> QED  BY <1>3, <1>8, <2>1, <2>2, <3>1, NothingWritten DEF UpdateRunnerPool
  <2>3. CASE /\ rows[p] # None /\ rows' = [rows EXCEPT ![p] = Row(q)]
             /\ Goto(h, IF q.config # None THEN "updateConfig" ELSE "clear")
             /\ Asks(h, p, q)
    <3> DEFINE pc == IF q.config # None THEN "updateConfig" ELSE "clear"
               o == [op[h] EXCEPT !.pc = pc]
    <3>1. pc \in {"updateConfig", "clear"}  OBVIOUS
    <3>2. /\ q.config # None => pc \in {"createConfig", "updateConfig"}
          /\ q.config = None => pc \in {"clear", "targets"}
      OBVIOUS
    <3>3. op' = [op EXCEPT ![h] = o]  BY <2>3 DEF Goto
    <3> HIDE DEF pc
    <3>4. o.id = p /\ o.request = q /\ o.pc = pc  BY <1>1 DEF OpType
    <3>5. op'[h] = o /\ \A g \in Handlers : g # h => op'[g] = op[g]  BY <1>1, <3>3
    <3> HIDE DEF o
    <3>6. UNCHANGED <<targets, config, created>>  BY <1>8 DEF UpdateRunnerPool
    <3>7. created \in Nat /\ p <= created
      <4>1. created \in Nat  BY AdministrationAssumption DEF AdminInv, AdminTypeOK
      <4> QED  BY <2>1, <2>3, <4>1, AdministrationAssumption DEF WriteInv, PoolIds
    <3>8. \A r \in PoolIds : r # p => rows'[r] = rows[r]
      BY <2>3 DEF AdminInv, AdminTypeOK
    <3>9. \A r \in PoolIds : r > created' => rows'[r] = None
      <4>1. \A r \in PoolIds : r > created => r # p
        BY <2>1, <3>7, AdministrationAssumption DEF PoolIds
      <4> QED  BY <3>6, <3>8, <4>1 DEF WriteInv
    <3>10. /\ op'[h].id = p /\ op'[h].request = q /\ op'[h].pc \in Writing
           /\ q.config # None => op'[h].pc \in {"createConfig", "updateConfig"}
           /\ q.config = None => op'[h].pc \in {"clear", "targets"}
           /\ op'[h].pc \notin {"createConfig", "targets"}
      BY <3>1, <3>2, <3>4, <3>5 DEF Writing
    <3> QED  BY <2>1, <2>3, <3>5, <3>6, <3>8, <3>9, <3>10, AskedFor
  <2> QED  BY <1>8, <2>2, <2>3 DEF UpdateRunnerPool
<1>9. CASE UpdateRenovateConfig(h)
  <2>1. op[h].pc = "updateConfig" /\ Writes(h, p) /\ p \in PoolIds /\ q \in Requests
    BY <1>2, <1>9 DEF UpdateRenovateConfig, Writes, Writing
  <2>2. UNCHANGED <<profiles, rows, targets, created, asked>>
    BY <1>9 DEF UpdateRenovateConfig, Ignored, history
  <2>3. PICK pc \in {"clear", "addConfig"} :
          /\ Goto(h, pc)
          /\ \/ pc = "clear" /\ config' = [config EXCEPT ![p] = q.config] /\ damaged' = damaged
             \/ pc = "addConfig" /\ config' = config /\ damaged' = damaged
             \/ config' = config /\ damaged' = damaged \cup {p}
    BY <1>9 DEF UpdateRenovateConfig, Ignored, history
  <2> DEFINE o == [op[h] EXCEPT !.pc = pc]
  <2>4. o.id = p /\ o.request = q /\ o.pc = pc  BY <1>1 DEF OpType
  <2>5. op'[h] = o /\ \A g \in Handlers : g # h => op'[g] = op[g]  BY <1>1, <2>3 DEF Goto
  <2> HIDE DEF o
  <2>6. config \in [PoolIds -> {None, "on", "off"}]  BY DEF AdminInv, AdminTypeOK
  <2>7. \A r \in PoolIds : r # p => targets'[r] = targets[r] /\ config'[r] = config[r]
    BY <2>2, <2>3, <2>6
  <2>8. ASSUME Stage(h, p), damaged' = damaged, p \notin damaged PROVE Stage(h, p)'
    <3>1. pc = "clear" => config'[p] = q.config  BY <2>1, <2>3, <2>6, <2>8
    <3> QED  BY <2>1, <2>2, <2>3, <2>4, <2>5, <2>8, <3>1 DEF Stage
  <2>9. o.pc \in Writing  BY <2>3, <2>4 DEF Writing
  <2> QED  BY <2>1, <2>2, <2>3, <2>4, <2>5, <2>7, <2>8, <2>9, WriterSteps
<1>10. CASE ClearTargets(h)
  <2>1. op[h].pc = "clear" /\ Writes(h, p) /\ p \in PoolIds /\ q \in Requests
    BY <1>2, <1>10 DEF ClearTargets, Writes, Writing
  <2>2. UNCHANGED <<profiles, rows, config, created, asked>>
    BY <1>10 DEF ClearTargets, Ignored, history
  <2>3. \/ targets' = [targets EXCEPT ![p] = {}] /\ damaged' = damaged
        \/ targets' = targets /\ damaged' = damaged \cup {p}
    BY <1>10 DEF ClearTargets, TargetsDeleted, Ignored, history
  <2> DEFINE o == [op[h] EXCEPT !.pc = "targets", !.todo = TargetURLs(q)]
  <2>4. o.id = p /\ o.request = q /\ o.pc = "targets" /\ o.todo = TargetURLs(q)
    BY <1>1 DEF OpType
  <2>5. op'[h] = o /\ \A g \in Handlers : g # h => op'[g] = op[g]
    BY <1>1, <1>10 DEF ClearTargets, ToTargets
  <2> HIDE DEF o
  <2>6. targets \in [PoolIds -> SUBSET Urls]  BY DEF AdminInv, AdminTypeOK
  <2>7. \A r \in PoolIds : r # p => targets'[r] = targets[r] /\ config'[r] = config[r]
    BY <2>2, <2>3, <2>6
  <2>8. ASSUME Stage(h, p), damaged' = damaged, p \notin damaged PROVE Stage(h, p)'
    <3>1. targets'[p] = {}  BY <2>1, <2>3, <2>6, <2>8
    <3> QED  BY <2>1, <2>2, <2>4, <2>5, <2>8, <3>1 DEF Stage
  <2>9. o.pc \in Writing  BY <2>4 DEF Writing
  <2> QED  BY <2>1, <2>2, <2>3, <2>4, <2>5, <2>7, <2>8, <2>9, WriterSteps
<1>11. CASE DeleteTargets(h)
  <2>1. op[h].pc = "deleteTargets" /\ p \in PoolIds  BY <1>11, WriterTypes DEF DeleteTargets
  <2>2. /\ UNCHANGED <<rows, config, created, asked>> /\ damaged' = damaged \cup {p}
        /\ targets' = [targets EXCEPT ![p] = {}] \/ targets' = targets
    BY <1>11 DEF DeleteTargets, Ignored, TargetsDeleted
  <2>3. op'[h].pc = "deletePool" /\ \A g \in Handlers : g # h => op'[g] = op[g]
    BY <1>1, <1>11 DEF DeleteTargets, Goto, OpType
  <2>4. ASSUME NEW r \in PoolIds PROVE PoolAsAsked(r)'
    <3>1. CASE r = p  BY <2>2, <3>1, DamagedPool
    <3>2. CASE r # p
      <4>1. ~Writes(h, r) /\ ~Writes(h, r)'  BY <2>1, <2>3 DEF Writes, Writing
      <4>2. targets'[r] = targets[r]  BY <2>2, <3>2 DEF AdminInv, AdminTypeOK
      <4> QED  BY <1>4, <2>2, <2>3, <4>1, <4>2, Elsewhere
    <3> QED  BY <3>1, <3>2
  <2> QED  BY <2>2, <2>4 DEF WriteInv
<1>12. CASE DeleteRunnerPool(h)
  <2>1. op[h].pc = "deletePool" /\ p \in PoolIds /\ op[h].pc \notin Writing
    BY <1>12, WriterTypes DEF DeleteRunnerPool, Writing
  <2>2. /\ UNCHANGED <<created, asked, damaged>>
        /\ op'[h] = NoOp /\ \A g \in Handlers : g # h => op'[g] = op[g]
    BY <1>1, <1>12 DEF DeleteRunnerPool, Return, history
  <2>3. CASE UNCHANGED <<rows, targets, config>>
    <3>1. UNCHANGED <<rows, targets, config, created, history>>  BY <2>2, <2>3 DEF history
    <3>2. op'[h].pc \notin Writing  BY <1>3, <2>2
    <3> QED  BY <2>1, <2>2, <3>1, <3>2, NothingWritten
  <2>4. CASE Cascade(p)
    <3>1. /\ rows'[p] = None
          /\ \A r \in PoolIds : r # p => /\ rows'[r] = rows[r] /\ targets'[r] = targets[r]
                                         /\ config'[r] = config[r]
      BY <2>1, <2>4 DEF Cascade, AdminInv, AdminTypeOK
    <3>2. ASSUME NEW r \in PoolIds PROVE PoolAsAsked(r)'
      <4>1. CASE r = p  BY <3>1, <4>1, DamagedPool
      <4>2. CASE r # p
        <5>1. ~Writes(h, r) /\ ~Writes(h, r)'  BY <1>3, <2>1, <2>2 DEF Writes
        <5> QED  BY <1>4, <2>2, <3>1, <4>2, <5>1, Elsewhere
      <4> QED  BY <4>1, <4>2
    <3>3. \A r \in PoolIds : r > created' => rows'[r] = None  BY <2>2, <3>1 DEF WriteInv
    <3> QED  BY <2>2, <3>2, <3>3 DEF WriteInv
  <2> QED  BY <1>12, <2>3, <2>4 DEF DeleteRunnerPool
<1>13. CASE ListRunnerPools(h)
  <2>1. /\ op[h].pc \notin Writing /\ UNCHANGED <<rows, targets, config, created, history>>
        /\ Goto(h, "deleteProfile") \/ Return(h)
    BY <1>13 DEF ListRunnerPools, Writing, tables
  <2>2. op'[h].pc \in {"deleteProfile", "idle"} /\ \A g \in Handlers : g # h => op'[g] = op[g]
    BY <1>1, <1>3, <2>1 DEF Goto, Return, OpType
  <2>3. op'[h].pc \notin Writing  BY <2>2 DEF Writing
  <2> QED  BY <2>1, <2>2, <2>3, NothingWritten
<1>14. CASE DeleteProfileRow(h)
  <2>1. op[h].pc \notin Writing /\ Return(h) /\ UNCHANGED <<rows, targets, config, created, history>>
    BY <1>14 DEF DeleteProfileRow, Writing
  <2>2. op'[h] = NoOp /\ \A g \in Handlers : g # h => op'[g] = op[g]  BY <1>1, <2>1 DEF Return
  <2> QED  BY <1>3, <2>1, <2>2, NothingWritten
<1> QED
  BY <1>5, <1>6, <1>7, <1>8, <1>9, <1>10, <1>11, <1>12, <1>13, <1>14 DEF AdminStep

----------------------------------------------------------------------------
(* The notifications.                                                      *)

\* Without an inspector a check has read no image, without a registry the
\* reference.
ChecksRead ==
  \A c \in Checks : check[c].pc = "remote" =>
    /\ "inspector" \notin wired => check[c].local = 0
    /\ "registry" \notin wired => check[c].remote = Reference

LocalRead ==
  \A c \in Checks : check[c].pc = "local" /\ "inspector" \notin wired => check[c].local = 0

\* The registry has a version, so that no image is never up to date.
ImageInv == ImageTypeOK /\ NoStuckPull /\ ChecksRead /\ LocalRead /\ remote # 0

\* What the checks and pulls know is of its type whatever they do to the entry.
LEMMA ImageTypes ==
  ASSUME ImageTypeOK, ImageNext
  PROVE  ImageTypeOK'
<1> USE ImageAssumption DEF ImageTypeOK, Versions, Reference, NotChecking
<1>1. ASSUME Flag
      PROVE  update' \in EntryType /\ nextId' \in 1..(MaxIds + 1)
  BY <1>1 DEF Flag, EntryType
<1>2. ASSUME NEW s \in {"available", "pulling"}
      PROVE  WithStatus(s) \in EntryType \cup {Nothing}
  BY <1>2 DEF WithStatus, EntryType
<1>3. ASSUME NEW c \in Checks, ReadLocal(c)
      PROVE  ImageTypeOK'
  BY <1>3 DEF ReadLocal
<1>4. ASSUME NEW c \in Checks, ReadRemote(c)
      PROVE  ImageTypeOK'
  BY <1>4 DEF ReadRemote
<1>5. ASSUME NEW c \in Checks, ApplyCheck(c)
      PROVE  ImageTypeOK'
  <2>1. update' \in EntryType \cup {Nothing} /\ nextId' \in 1..(MaxIds + 1)
    BY <1>1, <1>5 DEF ApplyCheck
  <2> QED  BY <1>5, <2>1 DEF ApplyCheck
<1>6. ASSUME NEW c \in Pulls, PullImage(c)
      PROVE  ImageTypeOK'
  <2>1. update' \in EntryType \cup {Nothing}
    BY <1>2, <1>6 DEF PullImage
  <2> QED  BY <1>6, <2>1 DEF PullImage
<1>7. ASSUME NEW c \in Pulls, PullSucceeds(c)
      PROVE  ImageTypeOK'
  BY <1>7 DEF PullSucceeds
<1>8. ASSUME NEW c \in Pulls, PullFails(c)
      PROVE  ImageTypeOK'
  <2>1. update' \in EntryType \cup {Nothing}
    BY <1>2, <1>8 DEF PullFails, AfterFailedPull
  <2> QED  BY <1>8, <2>1 DEF PullFails
<1>9. CASE FlagUpdate
  BY <1>1, <1>9 DEF FlagUpdate
<1>10. CASE DismissImageUpdate \/ Publish
  BY <1>10 DEF DismissImageUpdate, Publish
<1>11. ASSUME NEW c \in Pulls, StoreImage(c)
       PROVE  ImageTypeOK'
  BY <1>11 DEF StoreImage
<1> QED
  BY <1>3, <1>4, <1>5, <1>6, <1>7, <1>8, <1>9, <1>10, <1>11 DEF ImageNext

\* Every step of the image service keeps its invariant.
LEMMA ImagesKeep ==
  ASSUME ImageInv, ImageNext
  PROVE  ImageInv'
<1> USE DEF ImageInv
<1>0. ImageTypeOK'
  BY ImageTypes
<1>1. ASSUME NEW c \in Checks, ReadLocal(c) \/ ReadRemote(c)
      PROVE  NoStuckPull'
  BY <1>1 DEF ReadLocal, ReadRemote, NoStuckPull
<1>2. ASSUME Flag, UNCHANGED pull
      PROVE  NoStuckPull'
  <2>1. update'.status = "available"
    BY <1>2 DEF Flag
  <2> QED  BY <1>2, <2>1 DEF NoStuckPull
<1>3. ASSUME NEW c \in Checks, ApplyCheck(c)
      PROVE  NoStuckPull'
  <2>1. CASE Flag
    BY <1>2, <1>3, <2>1 DEF ApplyCheck
  <2>2. CASE update' = Nothing \/ update' = update
    BY <1>3, <2>2 DEF ApplyCheck, NoStuckPull
  <2> QED  BY <1>3, <2>1, <2>2 DEF ApplyCheck
<1>4. ASSUME NEW c \in Pulls, PullImage(c)
      PROVE  NoStuckPull'
  BY <1>4 DEF PullImage, NoStuckPull, ImageTypeOK
<1>5. ASSUME NEW c \in Pulls, PullSucceeds(c)
      PROVE  NoStuckPull'
  BY <1>5 DEF PullSucceeds, NoStuckPull
<1>6. ASSUME NEW c \in Pulls, PullFails(c)
      PROVE  NoStuckPull'
  <2>1. update' = Nothing \/ update'.status = "available"
    BY <1>6 DEF PullFails, AfterFailedPull, WithStatus, ImageTypeOK, EntryType
  <2> QED  BY <2>1 DEF NoStuckPull
<1>7. ASSUME FlagUpdate PROVE NoStuckPull'
  BY <1>2, <1>7 DEF FlagUpdate
<1>8. ASSUME DismissImageUpdate \/ Publish PROVE NoStuckPull'
  BY <1>8 DEF DismissImageUpdate, Publish, NoStuckPull
<1>9. ASSUME NEW c \in Pulls, StoreImage(c)
      PROVE  NoStuckPull'
  BY <1>9 DEF StoreImage, NoStuckPull, ImageTypeOK
<1>10. NoStuckPull'
  BY <1>1, <1>3, <1>4, <1>5, <1>6, <1>7, <1>8, <1>9 DEF ImageNext
<1>11. remote' # 0
  <2>1. remote' = remote \/ remote' = remote + 1
    BY DEF ImageNext, ReadLocal, ReadRemote, ApplyCheck, PullImage, StoreImage, PullSucceeds,
           PullFails, FlagUpdate, DismissImageUpdate, Publish
  <2> QED  BY <2>1, ImageAssumption DEF ImageTypeOK, Versions
<1>12. ChecksRead' /\ LocalRead'
  <2> USE DEF ChecksRead, LocalRead, ImageTypeOK, NotChecking
  <2>1. ASSUME NEW c \in Checks, ReadLocal(c) PROVE ChecksRead' /\ LocalRead'
    BY <2>1 DEF ReadLocal
  <2>2. ASSUME NEW c \in Checks, ReadRemote(c) PROVE ChecksRead' /\ LocalRead'
    BY <2>2 DEF ReadRemote
  <2>3. ASSUME NEW c \in Checks, ApplyCheck(c) PROVE ChecksRead' /\ LocalRead'
    BY <2>3 DEF ApplyCheck
  <2>4. CASE UNCHANGED <<check, wired>>  BY <2>4
  <2> QED
    BY <2>1, <2>2, <2>3, <2>4 DEF ImageNext, PullImage, StoreImage, PullSucceeds, PullFails,
                                  FlagUpdate, DismissImageUpdate, Publish
<1> QED  BY <1>0, <1>10, <1>11, <1>12

----------------------------------------------------------------------------
(* The theorems.                                                           *)

LEMMA AdminUnchanged ==
  ASSUME AdminInv, UNCHANGED adminVars PROVE AdminInv'
  BY DEF AdminInv, AdminTypeOK, References, HandlerOK, adminVars

\* Steps of other services leave the writers alone.
LEMMA WritesUnchanged ==
  ASSUME WriteInv, UNCHANGED adminVars PROVE WriteInv'
<1>1. ASSUME NEW p \in PoolIds PROVE PoolAsAsked(p)'
  <2>1. UNCHANGED <<rows, targets, config, op, asked, damaged>>  BY DEF adminVars
  <2> QED  BY <2>1 DEF WriteInv, PoolAsAsked, Writes, Stage
<1> QED  BY <1>1 DEF WriteInv, adminVars

\* Steps of other services leave the images alone.
LEMMA ImagesUnchanged ==
  ASSUME ImageInv, UNCHANGED imageVars PROVE ImageInv'
  BY DEF ImageInv, ImageTypeOK, NoStuckPull, ChecksRead, LocalRead, imageVars

\* The inductive invariants of the four parts.
ServicesInv == AdminInv /\ WriteInv /\ ImageInv /\ SessionInv /\ WebhookInv

\* At the start the tables are empty and nobody is served.
LEMMA InitHolds == Init => ServicesInv
<1> SUFFICES ASSUME Init PROVE ServicesInv
  OBVIOUS
<1>1. NoOp \in OpType /\ NoOp.pc = "idle"
  BY DEF NoOp, Op, OpType, Writing
<1>2. AdminInv
  BY <1>1, AdministrationAssumption
  DEF Init, AdminInit, AdminInv, AdminTypeOK, References, HandlerOK, Writing
<1>3. ImageInv
  BY ImageAssumption
  DEF Init, ImageInit, ImageInv, ImageTypeOK, NoStuckPull, ChecksRead, LocalRead, Versions, NotChecking
<1>4. SessionInv /\ WebhookInv
  BY SessionInitHolds, WebhookInitHolds DEF Init
<1>5. WriteInv
  <2>1. asked \in [PoolIds -> [targets : SUBSET Urls, config : {None, "on", "off"}]]
    BY DEF Init, AdminInit
  <2>2. \A p \in PoolIds : rows[p] = None  BY DEF Init, AdminInit
  <2> QED  BY <2>1, <2>2 DEF WriteInv, PoolAsAsked
<1> QED  BY <1>2, <1>3, <1>4, <1>5 DEF ServicesInv

\* Every step of the services keeps the conjunction of their invariants.
LEMMA NextKeeps ==
  ASSUME ServicesInv, [Next]_vars
  PROVE  ServicesInv'
<1> USE DEF ServicesInv
<1>1. CASE Pools \/ AuthProfiles
  <2>1. AdminInv' /\ WriteInv'
    BY <1>1, RequestKeeps, RequestWrites DEF Pools, AuthProfiles, AdminRequest
  <2> QED
    BY <1>1, <2>1, ImagesUnchanged, SessionsStutter, WebhooksStutter DEF Pools, AuthProfiles
<1>2. CASE Statements
  BY <1>2, StatementKeeps, StatementWrites, ImagesUnchanged, SessionsStutter, WebhooksStutter DEF Statements
<1>3. CASE Images
  BY <1>3, ImagesKeep, AdminUnchanged, WritesUnchanged, SessionsStutter, WebhooksStutter DEF Images
<1>4. CASE Onboarding
  BY <1>4, SessionStepKeeps, AdminUnchanged, WritesUnchanged, ImagesUnchanged, WebhooksStutter DEF Onboarding
<1>5. CASE Deliveries
  BY <1>5, WebhookStepKeeps, AdminUnchanged, WritesUnchanged, ImagesUnchanged, SessionsStutter
     DEF Deliveries, WebhookNext
<1>6. CASE UNCHANGED vars
  BY <1>6, AdminUnchanged, WritesUnchanged, ImagesUnchanged, SessionsStutter, WebhooksStutter DEF vars
<1> QED  BY <1>1, <1>2, <1>3, <1>4, <1>5, <1>6 DEF Next

\* The inductive invariant: the tables and the notifications are of their types
\* and consistent, a handler between two statements of a request still has the
\* pool and the payload it was given, and sessions and deliveries keep theirs.
THEOREM Invariance == Spec => []ServicesInv
<1>1. Init => ServicesInv
  BY InitHolds
<1>2. ServicesInv /\ [Next]_vars => ServicesInv'
  BY NextKeeps
<1> QED  BY <1>1, <1>2, PTL DEF Spec

\* Tables, requests under way and notifications keep their types.
THEOREM TypeCorrect == Spec => []TypeOK
<1>1. ServicesInv => TypeOK
  BY DEF ServicesInv, AdminInv, ImageInv, SessionInv, WebhookInv, TypeOK
<1> QED  BY <1>1, Invariance, PTL

\* However the statements of any number of CreatePool, UpdatePool, DeletePool
\* and DeleteAuthProfile requests interleave, and whichever of them fail, no
\* pool refers to a profile that is gone and no target or Renovate
\* configuration belongs to a pool that is gone.
THEOREM ReferencesHold == Spec => []References
<1>1. ServicesInv => References
  BY DEF ServicesInv, AdminInv
<1> QED  BY <1>1, Invariance, PTL

\* However the statements of any number of requests interleave and fail, a pool
\* that nobody writes has the targets and the Renovate configuration that the
\* last CreatePool or UpdatePool asked for, unless requests for it overlapped or
\* one of its statements failed.
THEOREM WritesAsAsked == Spec => []WrittenAsAsked
<1>1. ServicesInv => WrittenAsAsked
  <2> SUFFICES ASSUME WriteInv, NEW p \in PoolIds, rows[p] # None, p \notin damaged,
                      \A h \in Handlers : ~(op[h].id = p /\ op[h].pc \in Writing)
               PROVE  targets[p] = asked[p].targets /\ config[p] = asked[p].config
    BY DEF WrittenAsAsked, ServicesInv
  <2>1. \A h \in Handlers : ~Writes(h, p)  BY DEF Writes
  <2> QED  BY <2>1 DEF WriteInv, PoolAsAsked
<1> QED  BY <1>1, Invariance, PTL

\* A CheckImageUpdate that applies digests which are still true while no pull is
\* under way leaves a notification exactly if there is an update, whatever
\* checks, pulls and dismissals made of the list before.
THEOREM ChecksAreRight == Spec => CheckIsRight
<1>1. ServicesInv /\ [Next]_vars =>
        [\A c \in Checks : Returns(c) =>
           (update' # Nothing <=> ({"inspector", "registry"} \subseteq wired => local # remote))
        ]_imageVars
  <2> SUFFICES ASSUME ImageInv, [Next]_vars, imageVars' # imageVars, NEW c \in Checks,
                      Returns(c)
               PROVE  update' # Nothing
                        <=> ({"inspector", "registry"} \subseteq wired => local # remote)
    BY DEF ServicesInv
  <2>0. check[c].pc = "remote" /\ check'[c].pc = "idle" /\ \A p \in Pulls : pull[p] = "idle"
    BY DEF Returns
  <2>1. ImageNext
    BY DEF Next, Pools, AuthProfiles, Statements, Images, Onboarding, Deliveries, vars
  <2>2. ApplyCheck(c)
    <3>1. check' # check /\ DOMAIN check = Checks  BY <2>0 DEF ImageInv, ImageTypeOK
    <3>2. PICK d \in Checks : ReadLocal(d) \/ ReadRemote(d) \/ ApplyCheck(d)
      BY <2>1, <3>1 DEF ImageNext, PullImage, StoreImage, PullSucceeds, PullFails, FlagUpdate,
                        DismissImageUpdate, Publish
    <3>3. \A e \in Checks : e # d => check'[e] = check[e]
      BY <3>1, <3>2 DEF ReadLocal, ReadRemote, ApplyCheck, ImageInv, ImageTypeOK
    <3>4. d = c  BY <2>0, <3>3
    <3> QED  BY <2>0, <3>2, <3>4 DEF ReadLocal, ReadRemote
  <2>3. update = Nothing \/ update.status = "available"
    BY <2>0 DEF ImageInv, NoStuckPull, ImageTypeOK, EntryType
  <2>6. /\ "inspector" \in wired => check[c].local = local
        /\ "inspector" \notin wired => check[c].local = 0
        /\ "registry" \in wired => check[c].remote = remote
        /\ "registry" \notin wired => check[c].remote = Reference
    BY <2>0 DEF Returns, ImageInv, ChecksRead
  <2>7. local # Reference /\ remote # 0
    BY ImageAssumption DEF Reference, ImageInv, ImageTypeOK, Versions
  <2>4. CASE check[c].local # 0 /\ check[c].local = check[c].remote
    BY <2>2, <2>3, <2>4, <2>6, <2>7 DEF ApplyCheck
  <2>5. CASE check[c].local = 0 \/ check[c].local # check[c].remote
    <3>1. Flag /\ ({"inspector", "registry"} \subseteq wired => local # remote)
      BY <2>2, <2>5, <2>6, <2>7 DEF ApplyCheck
    <3>2. nextId \in 1..MaxIds  BY <3>1, ImageAssumption DEF Flag, ImageInv, ImageTypeOK
    <3>3. update' \in EntryType  BY <3>1, <3>2 DEF Flag, EntryType
    <3> QED  BY <3>1, <3>3, ImageAssumption
  <2> QED  BY <2>4, <2>5
<1> QED  BY <1>1, Invariance, PTL DEF Spec, CheckIsRight

\* However checks, pulls and dismissals interleave, a notification of
\* image_update.go that says "pulling" has a pull that will end.
THEOREM PullsEnd == Spec => []NoStuckPull
<1>1. ServicesInv => NoStuckPull
  BY DEF ServicesInv, ImageInv
<1> QED  BY <1>1, Invariance, PTL

\* However any number of SetupAdmin requests interleave and fail, there is one
\* administrator at most, unless two counted before either of them wrote.
THEOREM AdministratorUnique == Spec => []OneAdministrator
<1>1. ServicesInv => OneAdministrator
  BY AdministratorsCounted DEF ServicesInv
<1> QED  BY <1>1, Invariance, PTL

\* A client whose SetupAdmin succeeded has the password that is stored.
THEOREM SetupIsHonest == Spec => []SetupHonest
<1>1. ServicesInv => SetupHonest
  BY AnswersTrue DEF ServicesInv
<1> QED  BY <1>1, Invariance, PTL

\* GetOnboardingStatus says "complete" only if the set-up was complete at some
\* moment of the request, whatever others write between its reads.
THEOREM StatusWasTrue == Spec => []CompleteWasTrue
<1>1. ServicesInv => CompleteWasTrue
  BY AnswersTrue DEF ServicesInv
<1> QED  BY <1>1, Invariance, PTL

\* The setting onboarding_completed is set only where there is an administrator.
THEOREM OnboardingNeedsAdmin == Spec => []OnboardedByAdmin
<1>1. ServicesInv => OnboardedByAdmin
  BY AnswersTrue DEF ServicesInv
<1> QED  BY <1>1, Invariance, PTL

\* With deliveries in any order, redeliveries and strangers, a runner is marked
\* busy only while its job runs or its end is on its way, unless a delivery was
\* refused, ignored or overtaken.
THEOREM BusyMarkTruthful == Spec => []BusyTruthful
<1>1. ServicesInv => BusyTruthful
  BY DEF ServicesInv, WebhookInv
<1> QED  BY <1>1, Invariance, PTL

\* A queued job goes to the first of the most specific pools that fit it, however
\* the URLs are spelled, and to none only if none fits: whatever pools, targets,
\* labels and payloads there are.
THEOREM JobsFindTheirPool == Spec => []MostSpecificPool
<1>1. ServicesInv => MostSpecificPool
  BY DEF ServicesInv, WebhookInv
<1> QED  BY <1>1, Invariance, PTL
=============================================================================
