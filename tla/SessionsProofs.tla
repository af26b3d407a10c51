--------------------------- MODULE SessionsProofs ---------------------------
(* Theorems about Sessions, for any clients, names, passwords and tokens.  *)
EXTENDS Sessions, FiniteSetTheorems, TLAPS

Exists(adm) == \E n \in Names : adm[n] # NoPassword

\* What a request r has found out, with the administrators adm.
CallOK(r, adm) ==
  /\ r.pc = "create" => r.who \in Credentials
  /\ r.pc = "session" => r.who \in Credentials /\ adm[r.who.name] = r.who.password
  /\ r.pc \in {"handler", "complete"} => Exists(adm)
  /\ r.pc \in StatusPcs /\ r.admin => Exists(adm)
  /\ r.pc \in {"setting", "status"} /\ r.admin /\ r.pool => r.true
  /\ r.pc = "status" /\ r.admin /\ r.done => r.true

\* What sessions, the setting and the answers of SetupAdmin owe to adm.
OwedTo(adm) ==
  /\ \A t \in Tokens : sessions[t] # NoSession => Exists(adm)
  /\ onboarded => Exists(adm)
  /\ \A c \in Clients : told[c] # NoPassword => adm[told[c].name] = told[c].password

\* Until two SetupAdmin race, one request is about to create at most, and then
\* there is no administrator yet.
Single ==
  \/ raced
  \/ /\ \A c, d \in Clients : Waits(c, "create") /\ Waits(d, "create") => c = d
     /\ (\E c \in Clients : Waits(c, "create")) => ~AdminExists
     /\ \A m, n \in Names : admins[m] # NoPassword /\ admins[n] # NoPassword => m = n

SessionInv ==
  /\ SessionTypeOK
  /\ \A c \in Clients : CallOK(call[c], admins)
  /\ OwedTo(admins)
  /\ Single

----------------------------------------------------------------------------
(* Administrators are added and never changed.                             *)

Grown ==
  /\ admins' \in [Names -> Passwords \cup {NoPassword}]
  /\ \A n \in Names : admins[n] # NoPassword => admins'[n] = admins[n]

\* An administrator once there stays there.
LEMMA ExistsGrows ==
  ASSUME Grown, Exists(admins) PROVE Exists(admins')
  BY DEF Grown, Exists

\* No later insert changes the password of a name.
LEMMA NameStays ==
  ASSUME Grown, SessionTypeOK, NEW k \in Credentials, admins[k.name] = k.password
  PROVE  admins'[k.name] = k.password
  BY SessionsAssumption DEF Grown, Credentials

\* What a request has read of the administrators stays true of more of
\* them.
LEMMA CallGrows ==
  ASSUME Grown, SessionTypeOK, NEW r \in CallType, CallOK(r, admins)
  PROVE  CallOK(r, admins')
  BY ExistsGrows, NameStays DEF CallOK

\* Sessions, settings and promises keep their administrator when more are
\* added.
LEMMA OwedGrows ==
  ASSUME Grown, SessionTypeOK, OwedTo(admins),
         \A t \in Tokens : sessions'[t] # NoSession => sessions[t] # NoSession \/ Exists(admins'),
         onboarded' => onboarded \/ Exists(admins'),
         \A c \in Clients : told'[c] # NoPassword =>
            told'[c] = told[c] \/ admins'[told'[c].name] = told'[c].password
  PROVE  OwedTo(admins)'
<1>1. Exists(admins) => Exists(admins')
  BY ExistsGrows
<1>2. \A c \in Clients : told[c] # NoPassword => admins'[told[c].name] = told[c].password
  <2> SUFFICES ASSUME NEW c \in Clients, told[c] # NoPassword
               PROVE  admins'[told[c].name] = told[c].password
    OBVIOUS
  <2>1. told[c] \in Credentials /\ admins[told[c].name] = told[c].password
    BY DEF SessionTypeOK, OwedTo
  <2> QED  BY <2>1, NameStays
<1>3. \A t \in Tokens : sessions'[t] # NoSession => Exists(admins')
  BY <1>1 DEF OwedTo
<1>4. onboarded' => Exists(admins')
  BY <1>1 DEF OwedTo
<1>5. \A c \in Clients : told'[c] # NoPassword => admins'[told'[c].name] = told'[c].password
  BY <1>2
<1> QED  BY <1>3, <1>4, <1>5 DEF OwedTo

----------------------------------------------------------------------------
(* The requests.                                                           *)

LEMMA Noted ==
  ASSUME NEW r \in CallType, NEW b \in BOOLEAN
  PROVE  /\ Noting(r, b) \in CallType
         /\ Noting(r, b).pc = r.pc /\ Noting(r, b).who = r.who
         /\ Noting(r, b).admin = r.admin /\ Noting(r, b).pool = r.pool
         /\ Noting(r, b).done = r.done
         /\ r.true => Noting(r, b).true
         /\ r.pc \in StatusPcs /\ b => Noting(r, b).true
  BY DEF Noting, CallType, StatusPcs

\* Noting that a status is complete now adds to the history only.
LEMMA NotedOK ==
  ASSUME NEW r \in CallType, NEW b \in BOOLEAN, NEW adm, CallOK(r, adm)
  PROVE  CallOK(Noting(r, b), adm)
  BY Noted DEF CallOK

\* A step of client c that takes it to r.
LEMMA Moved ==
  ASSUME SessionInv, Grown, NEW c \in Clients, NEW r \in CallType,
         NEW b \in BOOLEAN, MovesWhen(c, r, b), CallOK(Noting(r, b), admins')
  PROVE  /\ call' \in [Clients -> CallType]
         /\ (\A d \in Clients : CallOK(call[d], admins))'
         /\ \A d \in Clients : call'[d].pc = IF d = c THEN r.pc ELSE call[d].pc
<1>1. call' = [d \in Clients |-> Noting(IF d = c THEN r ELSE call[d], b)]
  BY DEF MovesWhen
<1>2. \A d \in Clients : call[d] \in CallType
  BY DEF SessionInv, SessionTypeOK
<1>3. call' \in [Clients -> CallType]
  BY <1>1, <1>2, Noted
<1>4. \A d \in Clients : call'[d].pc = IF d = c THEN r.pc ELSE call[d].pc
  BY <1>1, <1>2, Noted
<1>5. \A d \in Clients : CallOK(call'[d], admins')
  <2> SUFFICES ASSUME NEW d \in Clients PROVE CallOK(call'[d], admins')
    OBVIOUS
  <2>1. CASE d = c  BY <1>1, <2>1
  <2>2. CASE d # c
    <3>1. CallOK(call[d], admins')
      BY <1>2, CallGrows DEF SessionInv
    <3> QED  BY <1>1, <1>2, <2>2, <3>1, NotedOK
  <2> QED  BY <2>1, <2>2
<1> QED  BY <1>3, <1>4, <1>5

\* Single, if nobody begins to create and no administrator is added.
LEMMA SingleStays ==
  ASSUME Single, UNCHANGED <<admins, raced>>,
         \A d \in Clients : call'[d].pc = "create" => call[d].pc = "create"
  PROVE  Single'
  BY DEF Single, Waits, AdminExists

\* A step of client c that leaves the administrators alone.
LEMMA Quiet ==
  ASSUME SessionInv, NEW c \in Clients, NEW r \in CallType, r.pc # "create",
         NEW b \in BOOLEAN, MovesWhen(c, r, b), CallOK(Noting(r, b), admins),
         UNCHANGED <<admins, raced>>
  PROVE  /\ call' \in [Clients -> CallType]
         /\ (\A d \in Clients : CallOK(call[d], admins))'
         /\ Single'
<1>1. Grown
  BY DEF Grown, SessionInv, SessionTypeOK
<1>2. CallOK(Noting(r, b), admins')
  OBVIOUS
<1>3. /\ call' \in [Clients -> CallType]
      /\ (\A d \in Clients : CallOK(call[d], admins))'
      /\ \A d \in Clients : call'[d].pc = IF d = c THEN r.pc ELSE call[d].pc
  BY <1>1, <1>2, Moved
<1>4. \A d \in Clients : call'[d].pc = "create" => call[d].pc = "create"
  BY <1>3
<1>5. Single'
  BY <1>4, SingleStays DEF SessionInv
<1> QED  BY <1>3, <1>5

\* The same, if it writes nothing at all.
LEMMA ReadOnly ==
  ASSUME SessionInv, NEW c \in Clients, NEW r \in CallType, r.pc # "create",
         NEW b \in BOOLEAN, MovesWhen(c, r, b), CallOK(Noting(r, b), admins),
         UNCHANGED StatusVars
  PROVE  SessionInv'
<1>1. UNCHANGED <<admins, raced>>
  BY DEF StatusVars
<1>2. /\ call' \in [Clients -> CallType]
      /\ (\A d \in Clients : CallOK(call[d], admins))'
      /\ Single'
  BY <1>1, Quiet
<1>3. SessionTypeOK'
  BY <1>2 DEF StatusVars, SessionInv, SessionTypeOK
<1>4. OwedTo(admins)'
  BY DEF SessionInv, OwedTo, StatusVars
<1> QED  BY <1>2, <1>3, <1>4 DEF SessionInv

\* A client without a request has read nothing.
LEMMA IdleOK ==
  ASSUME NEW adm, NEW b \in BOOLEAN
  PROVE  Idle \in CallType /\ Idle.pc = "idle" /\ CallOK(Idle, adm) /\ CallOK(Noting(Idle, b), adm)
<1>1. Idle \in CallType /\ Idle.pc = "idle"
  BY DEF Idle, CallType
<1>2. CallOK(Idle, adm)
  BY <1>1 DEF CallOK, StatusPcs
<1> QED  BY <1>1, <1>2, NotedOK

\* Being set up is a matter of yes or no.
LEMMA CompleteBoolean ==
  ASSUME SessionTypeOK PROVE CompleteNow \in BOOLEAN
  BY DEF CompleteNow, SetupComplete, SessionTypeOK

----------------------------------------------------------------------------
(* SetupAdmin and Login.                                                   *)

LEMMA SetupAdminKeeps ==
  ASSUME SessionInv, NEW c \in Clients, SetupAdmin(c)
  PROVE  SessionInv'
<1>1. PICK k \in Credentials :
        /\ Waits(c, "idle")
        /\ ~AdminExists
        /\ Moves(c, [Idle EXCEPT !.pc = "create", !.who = k, !.setup = TRUE])
        /\ raced' = (raced \/ \E d \in Clients \ {c} : Waits(d, "create"))
        /\ UNCHANGED <<now, admins, sessions, signed, onboarded, pools, cookie, told>>
  BY DEF SetupAdmin
<1> DEFINE r == [Idle EXCEPT !.pc = "create", !.who = k, !.setup = TRUE]
<1>2. r \in CallType /\ r.pc = "create" /\ r.who = k
  BY DEF Idle, CallType
<1>3. CompleteNow \in BOOLEAN
  BY CompleteBoolean DEF SessionInv
<1>4. Grown
  BY <1>1 DEF Grown, SessionInv, SessionTypeOK
<1>5. CallOK(r, admins')
  BY <1>2 DEF CallOK, StatusPcs
<1>6. CallOK(Noting(r, CompleteNow), admins')
  BY <1>2, <1>3, <1>5, NotedOK
<1> HIDE DEF r
<1>7. MovesWhen(c, r, CompleteNow)
  BY <1>1 DEF Moves, r
<1>8. /\ call' \in [Clients -> CallType]
      /\ (\A d \in Clients : CallOK(call[d], admins))'
      /\ \A d \in Clients : call'[d].pc = IF d = c THEN r.pc ELSE call[d].pc
  BY <1>2, <1>3, <1>4, <1>6, <1>7, Moved
<1>9. raced \in BOOLEAN /\ raced' \in BOOLEAN
  BY <1>1 DEF SessionInv, SessionTypeOK
<1>10. SessionTypeOK'
  BY <1>1, <1>8, <1>9 DEF SessionInv, SessionTypeOK
<1>11. OwedTo(admins)'
  BY <1>1 DEF SessionInv, OwedTo
<1>12. Single'
  <2>1. CASE raced'  BY <2>1 DEF Single
  <2>2. CASE ~raced'
    <3>1. ~raced /\ \A d \in Clients \ {c} : call[d].pc # "create"
      BY <1>1, <2>2 DEF Waits
    <3>2. \A d \in Clients : call'[d].pc = "create" => d = c
      BY <1>8, <3>1
    <3>3. ~AdminExists'
      BY <1>1 DEF AdminExists
    <3> QED  BY <3>2, <3>3 DEF Single, Waits, AdminExists
  <2> QED  BY <2>1, <2>2
<1> QED  BY <1>8, <1>10, <1>11, <1>12 DEF SessionInv

\* The insert of an administrator, or the unique index refusing it.
LEMMA CreateAdminUserKeeps ==
  ASSUME SessionInv, NEW c \in Clients, CreateAdminUser(c)
  PROVE  SessionInv'
<1> DEFINE k == call[c].who
           r == To(c, "session")
           b == SetupComplete(TRUE, onboarded, pools)
<1>1. /\ Waits(c, "create")
      /\ UNCHANGED <<now, onboarded, pools, sessions, signed, cookie, told, raced>>
  BY DEF CreateAdminUser
<1>2. call[c] \in CallType /\ k \in Credentials
  BY <1>1 DEF SessionInv, SessionTypeOK, CallOK, Waits
<1>3. CASE UNCHANGED admins /\ Answers(c)
  <2>1. UNCHANGED StatusVars
    BY <1>1, <1>3 DEF StatusVars
  <2>2. MovesWhen(c, Idle, CompleteNow) /\ CompleteNow \in BOOLEAN
    BY <1>3, CompleteBoolean DEF Answers, Moves, SessionInv
  <2>3. Idle \in CallType /\ Idle.pc # "create" /\ CallOK(Noting(Idle, CompleteNow), admins)
    BY <2>2, IdleOK
  <2> QED  BY <2>1, <2>2, <2>3, ReadOnly
<1>4. CASE /\ NameFree(k.name)
           /\ admins' = [admins EXCEPT ![k.name] = k.password]
           /\ MovesWhen(c, r, b)
  <2>1. k.name \in Names /\ k.password \in Passwords /\ k.password # NoPassword
    BY <1>2, SessionsAssumption DEF Credentials
  <2>2. /\ admins' \in [Names -> Passwords \cup {NoPassword}]
        /\ \A n \in Names : admins'[n] = IF n = k.name THEN k.password ELSE admins[n]
    BY <1>4, <2>1 DEF SessionInv, SessionTypeOK
  <2>3. Grown
    BY <1>4, <2>1, <2>2 DEF Grown, NameFree
  <2>4. r \in CallType /\ r.pc = "session" /\ r.who = k
    BY <1>2 DEF To, CallType
  <2>5. b \in BOOLEAN
    BY DEF SessionInv, SessionTypeOK, SetupComplete
  <2>6. CallOK(r, admins')
    BY <1>2, <2>1, <2>2, <2>4 DEF CallOK, StatusPcs
  <2>7. CallOK(Noting(r, b), admins')
    BY <2>4, <2>5, <2>6, NotedOK
  <2> HIDE DEF r, b
  <2>8. /\ call' \in [Clients -> CallType]
        /\ (\A d \in Clients : CallOK(call[d], admins))'
        /\ \A d \in Clients : call'[d].pc = IF d = c THEN r.pc ELSE call[d].pc
    BY <1>4, <2>3, <2>4, <2>5, <2>7, Moved
  <2>9. SessionTypeOK'
    BY <1>1, <2>2, <2>8 DEF SessionInv, SessionTypeOK
  <2>10. OwedTo(admins)'
    BY <1>1, <2>3, OwedGrows DEF SessionInv
  <2>11. Single'
    <3>1. CASE raced  BY <1>1, <3>1 DEF Single
    <3>2. CASE ~raced
      <4>1. /\ \A d \in Clients : call[d].pc = "create" => d = c
            /\ ~AdminExists
        BY <1>1, <3>2 DEF SessionInv, Single, Waits
      <4>2. \A d \in Clients : call'[d].pc # "create"
        BY <2>4, <2>8, <4>1
      <4>3. \A n \in Names : admins'[n] # NoPassword => n = k.name
        BY <2>2, <4>1 DEF AdminExists
      <4> QED  BY <4>2, <4>3 DEF Single, Waits
    <3> QED  BY <3>1, <3>2
  <2> QED  BY <2>8, <2>9, <2>10, <2>11 DEF SessionInv
<1> QED  BY <1>3, <1>4 DEF CreateAdminUser

\* A login compares with the row there is now.
LEMMA LoginKeeps ==
  ASSUME SessionInv, NEW c \in Clients, Login(c)
  PROVE  SessionInv'
<1>1. PICK n \in {m \in Names : admins[m] # NoPassword} :
        /\ Moves(c, [Idle EXCEPT !.pc = "session",
                                 !.who = [name |-> n, password |-> admins[n]]])
        /\ UNCHANGED <<now, admins, sessions, signed, onboarded, pools, cookie, told, raced>>
  BY DEF Login
<1> DEFINE k == [name |-> n, password |-> admins[n]]
           r == [Idle EXCEPT !.pc = "session", !.who = k]
<1>2. k \in Credentials /\ admins[k.name] = k.password
  BY <1>1 DEF Credentials, SessionInv, SessionTypeOK
<1> HIDE DEF k
<1>3. r \in CallType /\ r.pc = "session" /\ r.who = k
  BY <1>2 DEF Idle, CallType
<1>4. CompleteNow \in BOOLEAN
  BY CompleteBoolean DEF SessionInv
<1>5. CallOK(r, admins)
  BY <1>2, <1>3 DEF CallOK, StatusPcs
<1> HIDE DEF r
<1>6. CallOK(Noting(r, CompleteNow), admins)
  BY <1>3, <1>4, <1>5, NotedOK
<1>7. MovesWhen(c, r, CompleteNow)
  BY <1>1 DEF Moves, r, k
<1>8. UNCHANGED StatusVars
  BY <1>1 DEF StatusVars
<1> QED  BY <1>3, <1>4, <1>6, <1>7, <1>8, ReadOnly

\* A session is created after its administrator was seen.
LEMMA CreateSessionKeeps ==
  ASSUME SessionInv, NEW c \in Clients, CreateSession(c)
  PROVE  SessionInv'
<1> DEFINE k == call[c].who
           t == signed + 1
<1>1. /\ Waits(c, "session")
      /\ UNCHANGED <<now, admins, onboarded, pools, raced>>
      /\ MovesWhen(c, Idle, CompleteNow)
  BY DEF CreateSession, Answers, Moves
<1>2. k \in Credentials /\ admins[k.name] = k.password
  BY <1>1 DEF SessionInv, CallOK, Waits
<1>3. k.name \in Names /\ k.password # NoPassword
  BY <1>2, SessionsAssumption DEF Credentials
<1>4. Exists(admins)
  BY <1>2, <1>3 DEF Exists
<1>5. /\ call' \in [Clients -> CallType]
      /\ (\A d \in Clients : CallOK(call[d], admins))'
      /\ Single'
  <2>1. CompleteNow \in BOOLEAN
    BY CompleteBoolean DEF SessionInv
  <2>2. Idle \in CallType /\ Idle.pc # "create" /\ CallOK(Noting(Idle, CompleteNow), admins)
    BY <2>1, IdleOK
  <2> QED  BY <1>1, <2>1, <2>2, Quiet
<1>6. Grown
  BY <1>1 DEF Grown, SessionInv, SessionTypeOK
<1>7. CASE UNCHANGED <<sessions, signed, cookie, told>>
  <2>1. SessionTypeOK'
    BY <1>1, <1>5, <1>7 DEF SessionInv, SessionTypeOK
  <2>2. OwedTo(admins)'
    BY <1>1, <1>7 DEF SessionInv, OwedTo
  <2> QED  BY <1>5, <2>1, <2>2 DEF SessionInv
<1>8. CASE /\ t \in Tokens
           /\ signed' = t
           /\ sessions' = [sessions EXCEPT ![t] = [name |-> k.name, exp |-> now + Life]]
           /\ cookie' = [cookie EXCEPT ![c] = t]
           /\ told' = IF call[c].setup THEN [told EXCEPT ![c] = k] ELSE told
  <2>1. t \in 0..MaxTokens
    BY <1>8, SessionsAssumption DEF Tokens
  <2>2. cookie' \in [Clients -> 0..MaxTokens]
    BY <1>8, <2>1 DEF SessionInv, SessionTypeOK
  <2>3. [name |-> k.name, exp |-> now + Life] \in [name : Names, exp : Nat]
    BY <1>3, SessionsAssumption DEF SessionInv, SessionTypeOK
  <2>4. sessions' \in [Tokens -> [name : Names, exp : Nat] \cup {NoSession}]
    BY <1>8, <2>3 DEF SessionInv, SessionTypeOK
  <2>5. told' \in [Clients -> Credentials \cup {NoPassword}]
    BY <1>2, <1>8 DEF SessionInv, SessionTypeOK
  <2>6. SessionTypeOK'
    BY <1>1, <1>5, <1>8, <2>1, <2>2, <2>4, <2>5 DEF SessionInv, SessionTypeOK
  <2>7. Exists(admins')
    BY <1>1, <1>4
  <2>8. \A d \in Clients : told'[d] = told[d] \/ told'[d] = k
    BY <1>8 DEF SessionInv, SessionTypeOK
  <2>9. admins'[k.name] = k.password
    BY <1>1, <1>2
  <2>10. \A d \in Clients : told'[d] # NoPassword =>
            told'[d] = told[d] \/ admins'[told'[d].name] = told'[d].password
    BY <2>8, <2>9
  <2>11. OwedTo(admins)'
    BY <1>6, <2>7, <2>10, OwedGrows DEF SessionInv
  <2> QED  BY <1>5, <2>6, <2>11 DEF SessionInv
<1> QED  BY <1>7, <1>8 DEF CreateSession

----------------------------------------------------------------------------
(* Protected procedures.                                                   *)

LEMMA ProtectedKeeps ==
  ASSUME SessionInv, NEW c \in Clients, Protected(c)
  PROVE  SessionInv'
<1> DEFINE r == [Idle EXCEPT !.pc = "handler"]
<1>1. CompleteNow \in BOOLEAN
  BY CompleteBoolean DEF SessionInv
<1>2. r \in CallType /\ r.pc = "handler"
  BY DEF Idle, CallType
<1>3. cookie[c] \in Tokens /\ sessions[cookie[c]] # NoSession
  BY SessionsAssumption DEF Protected, Authenticated, SessionInv, SessionTypeOK, Tokens
<1>4. Exists(admins)
  BY <1>3 DEF SessionInv, OwedTo
<1>5. CallOK(r, admins)
  BY <1>2, <1>4 DEF CallOK, StatusPcs
<1>6. CallOK(Noting(r, CompleteNow), admins)
  BY <1>1, <1>2, <1>5, NotedOK
<1>7. MovesWhen(c, r, CompleteNow) /\ UNCHANGED StatusVars
  BY DEF Protected, Moves, StatusVars
<1> HIDE DEF r
<1> QED  BY <1>1, <1>2, <1>6, <1>7, ReadOnly

\* A handler that ends with the setting at done and the pools at pool.
LEMMA HandlerEnds ==
  ASSUME SessionInv, NEW c \in Clients, Exists(admins),
         NEW done \in BOOLEAN, NEW pool \in BOOLEAN,
         onboarded' = done, pools' = pool,
         MovesWhen(c, Idle, SetupComplete(AdminExists, done, pool)),
         UNCHANGED <<now, admins, sessions, signed, cookie, told, raced>>
  PROVE  SessionInv'
<1> DEFINE b == SetupComplete(AdminExists, done, pool)
<1>1. b \in BOOLEAN
  BY DEF SetupComplete
<1> HIDE DEF b
<1>2. Idle \in CallType /\ Idle.pc # "create" /\ CallOK(Noting(Idle, b), admins)
  BY <1>1, IdleOK
<1>3. MovesWhen(c, Idle, b)
  BY DEF b
<1>4. /\ call' \in [Clients -> CallType]
      /\ (\A d \in Clients : CallOK(call[d], admins))'
      /\ Single'
  BY <1>1, <1>2, <1>3, Quiet
<1>5. SessionTypeOK'
  BY <1>4 DEF SessionInv, SessionTypeOK
<1>6. OwedTo(admins)'
  BY DEF SessionInv, OwedTo
<1> QED  BY <1>4, <1>5, <1>6 DEF SessionInv

\* A request that passed the interceptor may write the setting or the pools.
LEMMA HandleKeeps ==
  ASSUME SessionInv, NEW c \in Clients, Handle(c)
  PROVE  SessionInv'
<1>1. PICK done \in BOOLEAN, pool \in BOOLEAN :
        /\ Waits(c, "handler")
        /\ onboarded' = done
        /\ pools' = pool
        /\ MovesWhen(c, Idle, SetupComplete(AdminExists, done, pool))
        /\ UNCHANGED <<now, admins, sessions, signed, cookie, told, raced>>
  BY DEF Handle
<1>2. Exists(admins)
  BY <1>1 DEF SessionInv, CallOK, Waits
<1> QED  BY <1>1, <1>2, HandlerEnds

\* The setting is written for somebody who passed the interceptor.
LEMMA SetCompletedKeeps ==
  ASSUME SessionInv, NEW c \in Clients, SetCompleted(c)
  PROVE  SessionInv'
<1>1. PICK done \in {TRUE, onboarded} :
        /\ Waits(c, "complete")
        /\ onboarded' = done
        /\ MovesWhen(c, Idle, SetupComplete(AdminExists, done, pools))
        /\ UNCHANGED <<now, admins, sessions, signed, pools, cookie, told, raced>>
  BY DEF SetCompleted
<1>2. Exists(admins)
  BY <1>1 DEF SessionInv, CallOK, Waits
<1>3. done \in BOOLEAN /\ pools \in BOOLEAN
  BY <1>1 DEF SessionInv, SessionTypeOK
<1>4. pools' = pools
  BY <1>1
<1> QED  BY <1>1, <1>2, <1>3, <1>4, HandlerEnds

\* Completing the onboarding counts the administrators first.
LEMMA CompleteOnboardingKeeps ==
  ASSUME SessionInv, NEW c \in Clients, CompleteOnboarding(c)
  PROVE  SessionInv'
<1> DEFINE r == To(c, "complete")
<1>1. CompleteNow \in BOOLEAN
  BY CompleteBoolean DEF SessionInv
<1>2. r \in CallType /\ r.pc = "complete"
  BY DEF To, CallType, SessionInv, SessionTypeOK
<1>3. Exists(admins)
  BY DEF CompleteOnboarding, AdminExists, Exists
<1>4. CallOK(r, admins)
  BY <1>2, <1>3 DEF CallOK, StatusPcs
<1>5. MovesWhen(c, r, CompleteNow) /\ UNCHANGED StatusVars
  BY DEF CompleteOnboarding, Moves, StatusVars
<1> HIDE DEF r
<1>6. CallOK(Noting(r, CompleteNow), admins)
  BY <1>1, <1>2, <1>4, NotedOK
<1> QED  BY <1>1, <1>2, <1>5, <1>6, ReadOnly

----------------------------------------------------------------------------
(* GetOnboardingStatus.                                                    *)

LEMMA GetOnboardingStatusKeeps ==
  ASSUME SessionInv, NEW c \in Clients, GetOnboardingStatus(c)
  PROVE  SessionInv'
<1> DEFINE r == [Idle EXCEPT !.pc = "pools", !.admin = AdminExists]
<1>1. CompleteNow \in BOOLEAN /\ AdminExists \in BOOLEAN
  BY CompleteBoolean DEF SessionInv, AdminExists
<1>2. r \in CallType /\ r.pc = "pools" /\ r.admin = AdminExists
  BY <1>1 DEF Idle, CallType
<1>3. CallOK(r, admins)
  BY <1>2 DEF CallOK, StatusPcs, AdminExists, Exists
<1>4. MovesWhen(c, r, CompleteNow) /\ UNCHANGED StatusVars
  BY DEF GetOnboardingStatus, Moves, StatusVars
<1> HIDE DEF r
<1>5. CallOK(Noting(r, CompleteNow), admins)
  BY <1>1, <1>2, <1>3, NotedOK
<1> QED  BY <1>1, <1>2, <1>4, <1>5, ReadOnly

\* The count of pools is true when it is read, and so is an administrator who
\* was counted before.
LEMMA CountRunnerPoolsKeeps ==
  ASSUME SessionInv, NEW c \in Clients, CountRunnerPools(c)
  PROVE  SessionInv'
<1> DEFINE r == [call[c] EXCEPT !.pc = "setting", !.pool = pools]
           m == Noting(r, CompleteNow)
<1>1. CompleteNow \in BOOLEAN /\ pools \in BOOLEAN /\ call[c] \in CallType
  BY CompleteBoolean DEF SessionInv, SessionTypeOK
<1>2. r \in CallType /\ r.pc = "setting" /\ r.pool = pools /\ r.admin = call[c].admin
  BY <1>1 DEF CallType
<1>3. r.admin => Exists(admins)
  BY <1>2 DEF CountRunnerPools, Waits, SessionInv, CallOK, StatusPcs
<1>4. MovesWhen(c, r, CompleteNow) /\ UNCHANGED StatusVars
  BY DEF CountRunnerPools, Moves, StatusVars
<1> HIDE DEF r
<1>5. /\ m.pc = "setting" /\ m.admin = r.admin /\ m.pool = pools
      /\ CompleteNow => m.true
  BY <1>1, <1>2, Noted DEF StatusPcs
<1>6. m.admin /\ m.pool => CompleteNow
  BY <1>3, <1>5 DEF CompleteNow, SetupComplete, Exists, AdminExists
<1>7. CallOK(m, admins)
  BY <1>3, <1>5, <1>6 DEF CallOK, StatusPcs
<1> QED  BY <1>1, <1>2, <1>4, <1>7, ReadOnly

\* The last read of a status request.
LEMMA ReadSettingKeeps ==
  ASSUME SessionInv, NEW c \in Clients, ReadSetting(c)
  PROVE  SessionInv'
<1>1. PICK done \in {onboarded, FALSE} :
        Moves(c, [call[c] EXCEPT !.pc = "status", !.done = done])
  BY DEF ReadSetting
<1> DEFINE q == call[c]
           r == [q EXCEPT !.pc = "status", !.done = done]
           m == Noting(r, CompleteNow)
<1>2. CompleteNow \in BOOLEAN /\ done \in BOOLEAN /\ q \in CallType
  BY CompleteBoolean DEF SessionInv, SessionTypeOK
<1>3. q.pc = "setting" /\ CallOK(q, admins)
  BY DEF ReadSetting, Waits, SessionInv
<1> HIDE DEF q
<1>4. /\ r \in CallType /\ r.pc = "status" /\ r.done = done
      /\ r.admin = q.admin /\ r.pool = q.pool /\ r.true = q.true
  BY <1>2 DEF CallType
<1>5. MovesWhen(c, r, CompleteNow) /\ UNCHANGED StatusVars
  BY <1>1 DEF ReadSetting, Moves, StatusVars, q
<1>6. (q.admin => Exists(admins)) /\ (q.admin /\ q.pool => q.true)
  BY <1>3 DEF CallOK, StatusPcs
<1> HIDE DEF r
<1>7. /\ m.pc = "status" /\ m.admin = q.admin /\ m.pool = q.pool /\ m.done = done
      /\ q.true => m.true
      /\ CompleteNow => m.true
  BY <1>2, <1>4, Noted DEF StatusPcs
<1>8. m.admin /\ m.done => CompleteNow
  <2>1. done => onboarded
    OBVIOUS
  <2> QED  BY <1>6, <1>7, <2>1 DEF CompleteNow, SetupComplete, Exists, AdminExists
<1>9. CallOK(m, admins)
  BY <1>6, <1>7, <1>8 DEF CallOK, StatusPcs
<1> QED  BY <1>2, <1>4, <1>5, <1>9, ReadOnly

\* An answer ends a request and writes no table.
LEMMA AnswersKeeps ==
  ASSUME SessionInv, NEW c \in Clients, Answers(c), UNCHANGED StatusVars
  PROVE  SessionInv'
<1>1. CompleteNow \in BOOLEAN /\ MovesWhen(c, Idle, CompleteNow)
  BY CompleteBoolean DEF SessionInv, Answers, Moves
<1>2. Idle \in CallType /\ Idle.pc # "create" /\ CallOK(Noting(Idle, CompleteNow), admins)
  BY <1>1, IdleOK
<1> QED  BY <1>1, <1>2, ReadOnly

----------------------------------------------------------------------------
(* Steps of nobody.                                                        *)

LEMMA PoolsImportedKeeps ==
  ASSUME SessionInv, PoolsImported
  PROVE  SessionInv'
<1> DEFINE b == SetupComplete(AdminExists, onboarded, TRUE)
<1>1. b \in BOOLEAN /\ call' = [d \in Clients |-> Noting(call[d], b)]
  BY DEF PoolsImported, SetupComplete, SessionInv, SessionTypeOK
<1> HIDE DEF b
<1>2. \A d \in Clients : call[d] \in CallType /\ CallOK(call[d], admins)
  BY DEF SessionInv, SessionTypeOK
<1>3. call' \in [Clients -> CallType]
  BY <1>1, <1>2, Noted
<1>4. \A d \in Clients : call'[d].pc = call[d].pc
  BY <1>1, <1>2, Noted
<1>5. \A d \in Clients : CallOK(call'[d], admins')
  BY <1>1, <1>2, NotedOK DEF PoolsImported
<1>6. Single'
  BY <1>4, SingleStays DEF PoolsImported, SessionInv
<1>7. SessionTypeOK'
  BY <1>3 DEF PoolsImported, SessionInv, SessionTypeOK
<1>8. OwedTo(admins)'
  BY DEF PoolsImported, SessionInv, OwedTo
<1> QED  BY <1>5, <1>6, <1>7, <1>8 DEF SessionInv

\* Time alone changes nothing of it.
LEMMA SessionsUnchanged ==
  ASSUME SessionInv, UNCHANGED <<admins, sessions, signed, onboarded, pools, call, cookie, told, raced>>,
         now' \in 0..MaxNow
  PROVE  SessionInv'
<1>1. SessionTypeOK'
  BY DEF SessionInv, SessionTypeOK
<1>2. OwedTo(admins)'
  BY DEF SessionInv, OwedTo
<1>3. Single'
  BY SingleStays DEF SessionInv
<1>4. (\A c \in Clients : CallOK(call[c], admins))'
  BY DEF SessionInv
<1> QED  BY <1>1, <1>2, <1>3, <1>4 DEF SessionInv

\* Steps of other services leave the invariant alone.
LEMMA SessionsStutter ==
  ASSUME SessionInv, UNCHANGED sessionVars
  PROVE  SessionInv'
  BY SessionsUnchanged DEF sessionVars, SessionInv, SessionTypeOK

\* A tick of the clock, which expires sessions.
LEMMA SessionTickKeeps ==
  ASSUME SessionInv, SessionTick
  PROVE  SessionInv'
<1>1. now' \in 0..MaxNow
  BY SessionsAssumption DEF SessionTick, SessionInv, SessionTypeOK
<1> QED  BY <1>1, SessionsUnchanged DEF SessionTick

\* Every step of the service keeps its invariant.
LEMMA SessionStepKeeps ==
  ASSUME SessionInv, SessionNext
  PROVE  SessionInv'
<1>1. ASSUME NEW c \in Clients, AnswerStatus(c) PROVE SessionInv'
  BY <1>1, AnswersKeeps DEF AnswerStatus
<1>2. ASSUME NEW c \in Clients, GiveUp(c) PROVE SessionInv'
  BY <1>2, AnswersKeeps DEF GiveUp
<1> QED
  BY <1>1, <1>2, SetupAdminKeeps, CreateAdminUserKeeps, LoginKeeps, CreateSessionKeeps,
     ProtectedKeeps, HandleKeeps, CompleteOnboardingKeeps, SetCompletedKeeps,
     GetOnboardingStatusKeeps, CountRunnerPoolsKeeps, ReadSettingKeeps,
     PoolsImportedKeeps, SessionTickKeeps DEF SessionNext

\* At the start there are no administrators and nothing is owed.
LEMMA SessionInitHolds ==
  ASSUME SessionInit
  PROVE  SessionInv
<1>1. Idle \in CallType /\ Idle.pc = "idle" /\ CallOK(Idle, admins)
  BY IdleOK
<1>2. SessionTypeOK
  <2>1. now \in 0..MaxNow /\ signed \in 0..MaxTokens /\ cookie \in [Clients -> 0..MaxTokens]
    BY SessionsAssumption DEF SessionInit
  <2>2. /\ admins \in [Names -> Passwords \cup {NoPassword}]
        /\ told \in [Clients -> Credentials \cup {NoPassword}]
    BY DEF SessionInit
  <2>3. sessions \in [Tokens -> [name : Names, exp : Nat] \cup {NoSession}]
    BY DEF SessionInit
  <2>4. onboarded \in BOOLEAN /\ pools \in BOOLEAN /\ raced \in BOOLEAN
    BY DEF SessionInit
  <2>5. call \in [Clients -> CallType]
    BY <1>1 DEF SessionInit
  <2> QED  BY <2>1, <2>2, <2>3, <2>4, <2>5 DEF SessionTypeOK
<1>3. \A n \in Names : admins[n] = NoPassword
  BY DEF SessionInit
<1>4. Single
  BY <1>1, <1>3 DEF SessionInit, Single, Waits, AdminExists
<1>5. OwedTo(admins)
  BY DEF SessionInit, OwedTo
<1>6. \A c \in Clients : CallOK(call[c], admins)
  BY <1>1 DEF SessionInit
<1> QED  BY <1>2, <1>4, <1>5, <1>6 DEF SessionInv

----------------------------------------------------------------------------
(* What the invariant says of the properties.                              *)

LEMMA AdministratorsCounted ==
  ASSUME SessionInv
  PROVE  OneAdministrator
<1> DEFINE S == {n \in Names : admins[n] # NoPassword}
<1>1. CASE raced  BY <1>1 DEF OneAdministrator
<1>2. CASE ~raced
  <2>1. \A m, n \in Names : admins[m] # NoPassword /\ admins[n] # NoPassword => m = n
    BY <1>2 DEF SessionInv, Single
  <2>2. CASE S = {}
    BY <2>2, FS_EmptySet DEF OneAdministrator
  <2>3. CASE S # {}
    <3>1. PICK n \in S : TRUE  BY <2>3
    <3>2. S = {n}  BY <2>1, <3>1
    <3>3. Cardinality(S) = 1  BY <3>2, FS_Singleton
    <3> QED  BY <3>3 DEF OneAdministrator
  <2> QED  BY <2>2, <2>3
<1> QED  BY <1>1, <1>2

\* The properties of the answers follow from the invariant.
LEMMA AnswersTrue ==
  ASSUME SessionInv
  PROVE  SetupHonest /\ CompleteWasTrue /\ OnboardedByAdmin
<1>1. SetupHonest
  BY DEF SessionInv, OwedTo, SetupHonest
<1>2. OnboardedByAdmin
  BY DEF SessionInv, OwedTo, OnboardedByAdmin, Exists, AdminExists
<1>3. CompleteWasTrue
  <2> SUFFICES ASSUME NEW c \in Clients, call[c].pc = "status",
                      SetupComplete(call[c].admin, call[c].done, call[c].pool)
               PROVE  call[c].true
    BY DEF CompleteWasTrue
  <2>1. CallOK(call[c], admins)
    BY DEF SessionInv
  <2> QED  BY <2>1 DEF CallOK, SetupComplete
<1> QED  BY <1>1, <1>2, <1>3

----------------------------------------------------------------------------

\* Sessions and onboarding by themselves keep the inductive invariant: whoever
\* has a session, and whatever a request has found out, owes it to an
\* administrator who is still there.
THEOREM SessionInvariance == SessionSpec => []SessionInv
<1>1. SessionInit => SessionInv  BY SessionInitHolds
<1>2. SessionInv /\ [SessionNext]_sessionVars => SessionInv'
  BY SessionStepKeeps, SessionsStutter
<1> QED  BY <1>1, <1>2, PTL DEF SessionSpec
=============================================================================
