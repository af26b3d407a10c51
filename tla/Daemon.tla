------------------------------- MODULE Daemon -------------------------------
(***************************************************************************)
(* The daemon: runDaemonContext of cmd/supervisor/daemon.go from the       *)
(* process's start to its exit, and what it starts: the cron scheduler,    *)
(* the HTTP server, and the loops for backups and retention, which only    *)
(* have a state here (Records has their work, and the seed at boot).       *)
(*                                                                         *)
(* `mix' says what is looked at: the whole life of a daemon, or a daemon   *)
(* that is up and whose scheduler runs for longer.                         *)
(***************************************************************************)
EXTENDS Scheduler, HTTPServer

CONSTANTS
  Mixes,
  Loops          \* the loops that are looked at, of backup and retention

VARIABLES
  mix,
  daemon,        \* where runDaemonContext is
  signal,        \* SIGINT or SIGTERM came: ctx is done
  database,      \* the handle is open
  periodic       \* loop -> where it is

lifeVars == <<httpVars, daemon, signal, database, periodic>>
vars == <<cronVars, lifeVars, mix>>

DaemonTypeOK ==
  /\ daemon \in {"open", "seed", "engine", "sync", "start", "serve", "select",
                 "drain", "stop", "wait", "close", "exit", "off"}
  /\ signal \in BOOLEAN /\ database \in BOOLEAN
  /\ periodic \in [Loops -> {"off", "waiting", "working"}]

\* A daemon that starts, or one that is up.
LifeInit ==
  /\ HTTPInit
  /\ daemon = IF mix = "life" THEN "open" ELSE "select"
  /\ signal = FALSE
  /\ database = (mix # "life")
  /\ periodic = [l \in Loops |-> "off"]

----------------------------------------------------------------------------
(* Boot.                                                                   *)

Go(pc) == daemon' = pc
Steady == UNCHANGED <<httpVars, signal, periodic>>

\* keys.Derive and db.Open: the directory, the integrity check, the migrations.
OpenDatabase ==
  /\ daemon = "open"
  /\ \/ database' = TRUE /\ Go("seed")
     \/ UNCHANGED database /\ Go("exit")
  /\ Steady /\ UNCHANGED cronVars

\* checkAndImportSeed, then the two loops.
StartLoops ==
  /\ daemon = "seed"
  /\ \/ Go("engine") /\ periodic' = [l \in Loops |-> "waiting"]
     \/ Go("close") /\ UNCHANGED periodic
  /\ UNCHANGED <<httpVars, signal, database, cronVars>>

\* docker.NewClient and renovate.NewExecutor.
NewClients ==
  /\ daemon = "engine"
  /\ Go("sync") \/ Go("close")
  /\ Steady /\ UNCHANGED <<database, cronVars>>

\* SyncFromDB; its error is logged.
SyncSchedules ==
  /\ daemon = "sync"
  /\ \/ \E rows \in [Pools -> Schedules \cup {None}],
          last \in [Pools -> 0..clock \cup {None}] : SyncFromDB(rows, last)
     \/ UNCHANGED cronVars
  /\ Go("start")
  /\ Steady /\ UNCHANGED database

StartCron ==
  /\ daemon = "start"
  /\ Start
  /\ Go("serve")
  /\ Steady /\ UNCHANGED database

\* registerHealthChecks, server.New, and the goroutine with srv.Start.
Serve ==
  /\ daemon = "serve"
  /\ http' = "binding"
  /\ Go("select")
  /\ UNCHANGED <<requests, signal, database, periodic, cronVars>>

----------------------------------------------------------------------------
(* The end.                                                                *)

SignalArrives ==
  /\ ~signal /\ daemon # "off"
  /\ signal' = TRUE
  /\ UNCHANGED <<httpVars, daemon, database, periodic, cronVars>>

\* select: the server failed, or the signal came and Shutdown begins.
SelectError ==
  /\ daemon = "select" /\ http \in {"failed", "broken"}
  /\ Go("stop")
  /\ Steady /\ UNCHANGED <<database, cronVars>>

SelectSignal ==
  /\ daemon = "select" /\ signal
  /\ ShutdownBegins
  /\ Go("drain")
  /\ UNCHANGED <<signal, database, periodic, cronVars>>

\* Variant: Shutdown without a deadline.
ShutdownWaits ==
  /\ daemon = "drain" /\ Drained
  /\ Go("stop")
  /\ UNCHANGED <<signal, periodic, database, cronVars>>

\* Shutdown returns when nothing is in flight, or after daemonShutdownTimeout;
\* then the handlers go on.
ShutdownReturns ==
  /\ daemon = "drain"
  /\ Drained \/ UNCHANGED httpVars
  /\ Go("stop")
  /\ UNCHANGED <<signal, periodic, database, cronVars>>

\* Variant: the database is closed when the scheduler begins to stop.
StopClosing ==
  /\ daemon = "stop"
  /\ Stop
  /\ database' = FALSE
  /\ Go("wait")
  /\ Steady

\* The deferred calls: cronScheduler.Stop, which returns when its tasks have,
\* and then database.Close.
StopCron ==
  /\ daemon = "stop"
  /\ Stop
  /\ Go("wait")
  /\ Steady /\ UNCHANGED database

CloseDatabase ==
  /\ daemon = "close" \/ (daemon = "wait" /\ stopper = "returned")
  /\ database' = FALSE
  /\ Go("exit")
  /\ Steady /\ UNCHANGED cronVars

\* The process ends, and every goroutine with it.
Exit ==
  /\ daemon = "exit"
  /\ Go("off")
  /\ requests' = {}
  /\ http' = "off"
  /\ periodic' = [l \in Loops |-> "off"]
  /\ UNCHANGED <<signal, database, cronVars>>

----------------------------------------------------------------------------
(* Meanwhile.                                                              *)

\* A loop's timer fires, its work ends, or it sees that ctx is done.  The work
\* has a context of its own, and nobody waits for it.
LoopRuns(l) ==
  /\ \/ periodic[l] = "waiting" /\ periodic' = [periodic EXCEPT ![l] = "working"]
     \/ periodic[l] = "working" /\ periodic' = [periodic EXCEPT ![l] = "waiting"]
     \/ periodic[l] = "waiting" /\ signal /\ periodic' = [periodic EXCEPT ![l] = "off"]
  /\ UNCHANGED <<httpVars, daemon, signal, database, cronVars>>

\* No handler changes the jobs: an edited schedule counts after a restart.
RequestStep ==
  /\ \/ Listens
     \/ \E q \in Heads : Arrives(q)
     \/ \E kind \in Kinds : Answers(kind)
  /\ UNCHANGED <<daemon, signal, database, periodic, cronVars>>

\* ctx is the context of Start.
CronRuns ==
  /\ \/ LoopStep \/ StopLoopDone \/ StopReturns \/ Tick
     \/ \E s \in Slots : TaskReturns(s)
     \/ signal /\ Cancel
  /\ UNCHANGED lifeVars

Booting ==
  OpenDatabase \/ StartLoops \/ NewClients \/ SyncSchedules \/ StartCron \/ Serve

Ending ==
  SelectError \/ SelectSignal \/ ShutdownReturns \/ StopCron \/ CloseDatabase \/ Exit

Life ==
  /\ mix = "life"
  /\ \/ Booting \/ Ending \/ SignalArrives
     \/ \E l \in Loops : LoopRuns(l)
     \/ RequestStep
     \/ daemon # "off" /\ CronRuns
  /\ UNCHANGED mix

----------------------------------------------------------------------------

\* A starting daemon has a clock that has not run out.
Init ==
  /\ mix \in Mixes
  /\ LifeInit
  /\ IF mix = "cron" THEN CronInit ELSE Boot(MaxTime - 1)

Crons == mix = "cron" /\ CronNext /\ UNCHANGED <<lifeVars, mix>>

Next == Life \/ Crons

Spec == Init /\ [][Next]_vars

\* The daemon's goroutine runs, and so do those of the scheduler; a client of a
\* stream need not go away.
Fairness ==
  /\ CronFairness
  /\ WF_vars(mix = "life" /\ (Booting \/ Ending) /\ UNCHANGED mix)

FairSpec == Spec /\ Fairness

----------------------------------------------------------------------------
(* Properties.                                                             *)

\* Type correctness of the daemon and what it runs.
TypeOK == CronTypeOK /\ HTTPTypeOK /\ DaemonTypeOK

\* Whatever ends the daemon, when the database is closed the scheduler's loop has
\* ended and no task of it is left, so that a task that was cancelled can record
\* how its run ended; and no handler is left either, unless Shutdown gave up at
\* its deadline or the listener broke.  Nothing of the kind holds of the loops
\* for backups and retention, for which nobody waits.
OpenWhileUsed ==
  ~database =>
    /\ loop \in {"off", "done"} /\ \A s \in Slots : task[s] = NoTask
    /\ requests # {} => http \in {"draining", "broken"}

\* A signal ends the daemon, at any point of its boot and although streams do
\* not end by themselves.
DaemonExits == signal ~> daemon = "off"
=============================================================================
