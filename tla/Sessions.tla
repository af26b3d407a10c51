------------------------------ MODULE Sessions ------------------------------
(***************************************************************************)
(* Administrators, their sessions and the onboarding of internal/server's  *)
(* auth.go and onboarding.go.  A request is a series of SQL statements     *)
(* without a transaction, each of them a step and each of them able to     *)
(* fail.  Clients send one request at a time.  A token carries a nonce, so *)
(* that no two are alike, and its expiry; sessions are never deleted.  The *)
(* rows of audit_logs are written by every request and read by none.       *)
(***************************************************************************)
EXTENDS Integers, FiniteSets

CONSTANTS
  Clients,
  Names,        \* user names
  Passwords,
  Life,         \* SessionDuration
  MaxNow,       \* bound on the clock
  MaxTokens,    \* bound: tokens ever signed
  NoPassword

ASSUME SessionsAssumption ==
  /\ Life \in Nat /\ MaxNow \in Nat /\ MaxTokens \in Nat
  /\ NoPassword \notin Passwords

VARIABLES
  now,
  admins,       \* admin_users: name -> password, or NoPassword
  sessions,     \* sessions: token -> name and expiry
  signed,       \* the number of tokens signed
  onboarded,    \* app_settings: onboarding_completed is "true"
  pools,        \* runner_pools has rows
  call,         \* client -> the request it waits for
  cookie,       \* client -> its token, 0 if it has none
  told,         \* history: client -> credentials SetupAdmin accepted last
  raced         \* history: two SetupAdmin passed their check together

sessionVars ==
  <<now, admins, sessions, signed, onboarded, pools, call, cookie, told, raced>>

Tokens == 1..MaxTokens
Credentials == [name : Names, password : Passwords]
NoSession == [name |-> NoPassword, exp |-> 0]

\* `admin' and `pool' are what GetOnboardingStatus has read; `true' is history:
\* the set-up was complete at some moment of the request.
CallType ==
  [pc : {"idle", "create", "session", "pools", "setting", "status",
         "handler", "complete"},
   who : Credentials \cup {NoPassword}, setup : BOOLEAN,
   admin : BOOLEAN, pool : BOOLEAN, done : BOOLEAN, true : BOOLEAN]

Idle == [pc |-> "idle", who |-> NoPassword, setup |-> FALSE, admin |-> FALSE,
         pool |-> FALSE, done |-> FALSE, true |-> FALSE]

SessionTypeOK ==
  /\ now \in 0..MaxNow
  /\ admins \in [Names -> Passwords \cup {NoPassword}]
  /\ sessions \in [Tokens -> [name : Names, exp : Nat] \cup {NoSession}]
  /\ signed \in 0..MaxTokens
  /\ onboarded \in BOOLEAN /\ pools \in BOOLEAN /\ raced \in BOOLEAN
  /\ call \in [Clients -> CallType]
  /\ cookie \in [Clients -> 0..MaxTokens]
  /\ told \in [Clients -> Credentials \cup {NoPassword}]

SessionInit ==
  /\ now = 0
  /\ admins = [n \in Names |-> NoPassword]
  /\ sessions = [t \in Tokens |-> NoSession]
  /\ signed = 0
  /\ onboarded = FALSE
  /\ pools = FALSE
  /\ call = [c \in Clients |-> Idle]
  /\ cookie = [c \in Clients |-> 0]
  /\ told = [c \in Clients |-> NoPassword]
  /\ raced = FALSE

----------------------------------------------------------------------------
(* Helpers.                                                                *)

AdminExists == \E n \in Names : admins[n] # NoPassword

\* What GetOnboardingStatus computes from its reads.
SetupComplete(admin, done, pool) == admin /\ (done \/ pool)

\* The set-up is complete now.
CompleteNow == SetupComplete(AdminExists, onboarded, pools)

Waits(c, pc) == call[c].pc = pc

\* Client c is where r says.  `complete' says whether the set-up is complete
\* after the step, which the status requests under way take note of.
StatusPcs == {"pools", "setting", "status"}
Noting(r, complete) == IF r.pc \in StatusPcs THEN [r EXCEPT !.true = @ \/ complete] ELSE r
MovesWhen(c, r, complete) ==
  call' = [d \in Clients |-> Noting(IF d = c THEN r ELSE call[d], complete)]

Moves(c, r) == MovesWhen(c, r, CompleteNow)
To(c, pc) == [call[c] EXCEPT !.pc = pc]
Answers(c) == Moves(c, Idle)

----------------------------------------------------------------------------
(* SetupAdmin and Login.                                                   *)

\* Variant: SetupAdmin does not count.
SetupUnchecked(c) ==
  \E k \in Credentials :
    /\ Waits(c, "idle")
    /\ Moves(c, [Idle EXCEPT !.pc = "create", !.who = k, !.setup = TRUE])
    /\ raced' = (raced \/ \E d \in Clients \ {c} : Waits(d, "create"))
    /\ UNCHANGED <<now, admins, sessions, signed, onboarded, pools, cookie, told>>

\* SetupAdmin: CountAdminUsers; an administrator, or an error, ends the request.
SetupAdmin(c) ==
  \E k \in Credentials :
    /\ Waits(c, "idle")
    /\ ~AdminExists
    /\ Moves(c, [Idle EXCEPT !.pc = "create", !.who = k, !.setup = TRUE])
    /\ raced' = (raced \/ \E d \in Clients \ {c} : Waits(d, "create"))
    /\ UNCHANGED <<now, admins, sessions, signed, onboarded, pools, cookie, told>>

\* UNIQUE(username).
NameFree(n) == admins[n] = NoPassword

\* CreateAdminUser, then the audit log; an error ends the request.
CreateAdminUser(c) ==
  LET k == call[c].who
  IN  /\ Waits(c, "create")
      /\ \/ /\ NameFree(k.name)
            /\ admins' = [admins EXCEPT ![k.name] = k.password]
            /\ MovesWhen(c, To(c, "session"), SetupComplete(TRUE, onboarded, pools))
         \/ UNCHANGED admins /\ Answers(c)
      /\ UNCHANGED <<now, onboarded, pools, sessions, signed, cookie, told, raced>>

\* Login: GetAdminUserByUsername and the comparison; what does not match ends
\* the request after a row in the audit log.
Login(c) ==
  \E n \in {m \in Names : admins[m] # NoPassword} :
    /\ Waits(c, "idle")
    /\ Moves(c, [Idle EXCEPT !.pc = "session",
                             !.who = [name |-> n, password |-> admins[n]]])
    /\ UNCHANGED <<now, admins, sessions, signed, onboarded, pools, cookie, told, raced>>

\* GenerateToken, CreateSession, for Login the audit log, and the answer with
\* the cookie.  After an error of SetupAdmin the administrator exists.
CreateSession(c) ==
  LET k == call[c].who
      t == signed + 1
  IN  /\ Waits(c, "session")
      /\ UNCHANGED <<now, admins, onboarded, pools, raced>>
      /\ \/ /\ t \in Tokens
            /\ signed' = t
            /\ sessions' = [sessions EXCEPT ![t] = [name |-> k.name, exp |-> now + Life]]
            /\ cookie' = [cookie EXCEPT ![c] = t]
            /\ told' = IF call[c].setup THEN [told EXCEPT ![c] = k] ELSE told
         \/ UNCHANGED <<sessions, signed, cookie, told>>
      /\ Answers(c)

----------------------------------------------------------------------------
(* Protected procedures.                                                   *)

\* authenticate: the token is signed and not expired, and neither is its row.
Authenticated(c) ==
  /\ cookie[c] # 0
  /\ sessions[cookie[c]] # NoSession
  /\ now < sessions[cookie[c]].exp

\* The interceptor of a procedure that is not public.
Protected(c) ==
  /\ Waits(c, "idle")
  /\ Authenticated(c)
  /\ UNCHANGED <<now, admins, sessions, signed, onboarded, pools, cookie, told, raced>>
  /\ Moves(c, [Idle EXCEPT !.pc = "handler"])

\* SetAppSetting of onboarding_completed; the services of pools, which make the
\* first pool or delete the last.
Handle(c) ==
  \E done, pool \in BOOLEAN :
    /\ Waits(c, "handler")
    /\ done = onboarded \/ pool = pools
    /\ onboarded' = done
    /\ pools' = pool
    /\ MovesWhen(c, Idle, SetupComplete(AdminExists, done, pool))
    /\ UNCHANGED <<now, admins, sessions, signed, cookie, told, raced>>

\* CompleteOnboarding: CountAdminUsers.
CompleteOnboarding(c) ==
  /\ Waits(c, "handler")
  /\ AdminExists
  /\ UNCHANGED <<now, admins, sessions, signed, onboarded, pools, cookie, told, raced>>
  /\ Moves(c, To(c, "complete"))

\* The SetAppSetting of CompleteOnboarding.
SetCompleted(c) ==
  \E done \in {TRUE, onboarded} :
    /\ Waits(c, "complete")
    /\ onboarded' = done
    /\ MovesWhen(c, Idle, SetupComplete(AdminExists, done, pools))
    /\ UNCHANGED <<now, admins, sessions, signed, pools, cookie, told, raced>>

----------------------------------------------------------------------------
(* GetOnboardingStatus, which is public.  It counts administrators, then   *)
(* pools, and reads the setting last.                                      *)

StatusVars ==
  <<now, admins, sessions, signed, onboarded, pools, cookie, told, raced>>

GetOnboardingStatus(c) ==
  /\ Waits(c, "idle")
  /\ UNCHANGED StatusVars
  /\ Moves(c, [Idle EXCEPT !.pc = "pools", !.admin = AdminExists])

\* The profiles were counted, for the answer only.
CountRunnerPools(c) ==
  /\ Waits(c, "pools")
  /\ UNCHANGED StatusVars
  /\ Moves(c, [call[c] EXCEPT !.pc = "setting", !.pool = pools])

\* Variant: an error reads as TRUE.
ErrorReadsTrue(c) ==
  /\ Waits(c, "setting")
  /\ UNCHANGED StatusVars
  /\ \E done \in {onboarded, TRUE} :
       Moves(c, [call[c] EXCEPT !.pc = "status", !.done = done])

\* GetAppSetting; an error reads as FALSE.
ReadSetting(c) ==
  /\ Waits(c, "setting")
  /\ UNCHANGED StatusVars
  /\ \E done \in {onboarded, FALSE} :
       Moves(c, [call[c] EXCEPT !.pc = "status", !.done = done])

\* The answer.
AnswerStatus(c) ==
  /\ Waits(c, "status")
  /\ UNCHANGED StatusVars
  /\ Answers(c)

\* A client goes away, or a statement fails: the request ends where it is.
GiveUp(c) ==
  /\ call[c].pc \in {"pools", "handler"}
  /\ UNCHANGED StatusVars
  /\ Answers(c)

\* A seed is imported, at boot or from the command line, by nobody with a
\* session.
PoolsImported ==
  /\ pools' = TRUE
  /\ call' = [d \in Clients |-> Noting(call[d], SetupComplete(AdminExists, onboarded, TRUE))]
  /\ UNCHANGED <<now, admins, sessions, signed, onboarded, cookie, told, raced>>

SessionTick ==
  /\ now < MaxNow
  /\ now' = now + 1
  /\ UNCHANGED <<admins, sessions, signed, onboarded, pools, call, cookie, told, raced>>

SessionNext ==
  \/ \E c \in Clients :
       \/ SetupAdmin(c) \/ CreateAdminUser(c) \/ Login(c) \/ CreateSession(c)
       \/ Protected(c) \/ Handle(c) \/ CompleteOnboarding(c) \/ SetCompleted(c)
       \/ GetOnboardingStatus(c) \/ CountRunnerPools(c)
       \/ ReadSetting(c) \/ AnswerStatus(c) \/ GiveUp(c)
  \/ PoolsImported \/ SessionTick

SessionSpec == SessionInit /\ [][SessionNext]_sessionVars

----------------------------------------------------------------------------
(* Properties.                                                             *)

\* SetupAdmin "fails if an administrator already exists": there is one at most,
\* whatever else fails, unless two requests counted before either of them wrote.
OneAdministrator ==
  Cardinality({n \in Names : admins[n] # NoPassword}) <= 1 \/ raced

\* A client that SetupAdmin told of success can log in with the password it
\* sent, even if others set up the same name at the same time.
SetupHonest ==
  \A c \in Clients :
    told[c] # NoPassword => admins[told[c].name] = told[c].password

\* When GetOnboardingStatus answers that the set-up is complete, it was at some
\* moment of the request, although what it reads in four statements changes
\* between them: administrators are not deleted, and a read that fails says no.
CompleteWasTrue ==
  \A c \in Clients :
    call[c].pc = "status"
    /\ SetupComplete(call[c].admin, call[c].done, call[c].pool) => call[c].true

\* Onboarding is over only where there is an administrator: whoever can set the
\* setting has a session, and a session has an administrator.
OnboardedByAdmin == onboarded => AdminExists
=============================================================================
