---------------------------- MODULE RenovateRuns ----------------------------
(***************************************************************************)
(* Renovate runs from trigger to history: the Executor of                  *)
(* internal/renovate/executor.go, called by cron tasks and by              *)
(* TriggerRenovateRun of internal/server/renovate.go; the task containers  *)
(* it spawns; and the EventListener and ReapDeduplicator of                *)
(* internal/orchestrator/events.go, through which HandleContainerEvent     *)
(* of the pool controller hears of their exits.                            *)
(*                                                                         *)
(* The controller enters only with what it does to task containers: its    *)
(* audit adopts them like runners, so it reaps them when exited and may    *)
(* drain them as idle runners.                                             *)
(***************************************************************************)
EXTENDS Naturals, Sequences

CONSTANTS
  Pools,
  Tasks,        \* cron task goroutines
  Callers,      \* goroutines serving TriggerRenovateRun
  Containers,   \* IDs of task containers
  None,
  MaxRuns       \* bound: no run after these is recorded

ASSUME RenovateAssumption ==
  /\ Tasks \cap Callers = {}
  /\ None \notin Containers \cup Pools
  /\ MaxRuns \in Nat

VARIABLES
  rows,        \* table renovate_runs, by ID
  box,         \* engine: task container -> state and exit code
  exec,        \* the goroutines inside Execute
  stream,      \* events on their way to the listener
  connected,   \* the event stream is up
  reaped,      \* ReapDeduplicator.reaped
  handling,    \* the event HandleContainerEvent works on, or None
  missed       \* history: containers with an event that got lost, or that the
               \* controller dropped or failed to act upon

renovateVars == <<rows, box, exec, stream, connected, reaped, handling, missed>>

Execs == Tasks \cup Callers

RowType == [pool : Pools, status : {"running", "success", "failure"},
            cid : Containers \cup {None}]
EventType == [c : Containers, action : {"die", "destroy"}, code : 0..1]
BoxType == [phase : {"none", "running", "exited", "gone"}, code : 0..1]
ExecType == [pc : {"idle", "execute", "create", "spawn", "record"},
             pool : Pools \cup {None}, run : 0..MaxRuns,
             cid : Containers \cup {None}]

Quiet == [pc |-> "idle", pool |-> None, run |-> 0, cid |-> None]

\* Type correctness of the runs and of what is known about their containers.
RenovateTypeOK ==
  /\ rows \in Seq(RowType) /\ Len(rows) <= MaxRuns
  /\ box \in [Containers -> BoxType]
  /\ exec \in [Execs -> ExecType]
  /\ stream \in Seq(EventType)
  /\ connected \in BOOLEAN
  /\ reaped \subseteq Containers
  /\ handling \in EventType \cup {None}
  /\ missed \subseteq Containers

RenovateInit ==
  /\ rows = <<>>
  /\ box = [c \in Containers |-> [phase |-> "none", code |-> 0]]
  /\ exec = [e \in Execs |-> Quiet]
  /\ stream = <<>>
  /\ connected = TRUE
  /\ reaped = {}
  /\ handling = None
  /\ missed = {}

----------------------------------------------------------------------------
(* The history.                                                            *)

\* GetLatestRenovateRunByPoolId finds p's run that started last.
LatestRuns(p) ==
  {i \in DOMAIN rows : rows[i].pool = p /\ \A j \in DOMAIN rows :
                                             rows[j].pool = p => j <= i}

\* GetRenovateRunByContainerID.
RunOf(c) == {i \in DOMAIN rows : rows[i].cid = c}

\* CompleteRenovateRun.
Complete(i, status) == rows' = [rows EXCEPT ![i].status = status]

----------------------------------------------------------------------------
(* Execute.  Every call to the provider, the engine or the database may    *)
(* fail, at the latest when the context of the cron task or of the request *)
(* is done.                                                                *)

Enter(e, p) == exec' = [exec EXCEPT ![e] = [Quiet EXCEPT !.pc = "execute",
                                                         !.pool = p]]

Return(e) == exec' = [exec EXCEPT ![e] = Quiet]

\* A task of TaskFactory calls Execute without looking at other runs.
CronTask(e, p) ==
  /\ exec[e].pc = "idle"
  /\ Enter(e, p)
  /\ UNCHANGED <<rows, box, stream, connected, reaped, handling, missed>>

\* TriggerRenovateRun refuses while the latest run is running; if that cannot be
\* read it goes on as if none were.
TriggerRenovateRun(e, p) ==
  /\ exec[e].pc = "idle"
  /\ \E known \in BOOLEAN : known => \A i \in LatestRuns(p) : rows[i].status # "running"
  /\ Enter(e, p)
  /\ UNCHANGED <<rows, box, stream, connected, reaped, handling, missed>>

\* Load the pool and its configuration, resolve the provider, get a token.
GetToken(e) ==
  /\ exec[e].pc = "execute"
  /\ Return(e) \/ exec' = [exec EXCEPT ![e].pc = "create"]
  /\ UNCHANGED <<rows, box, stream, connected, reaped, handling, missed>>

CreateRenovateRun(e) ==
  /\ exec[e].pc = "create"
  /\ \/ /\ Len(rows) < MaxRuns
        /\ rows' = Append(rows, [pool |-> exec[e].pool, status |-> "running",
                                 cid |-> None])
        /\ exec' = [exec EXCEPT ![e].pc = "spawn", ![e].run = Len(rows) + 1]
     \/ UNCHANGED rows /\ Return(e)
  /\ UNCHANGED <<box, stream, connected, reaped, handling, missed>>

\* If SpawnTask fails the run is completed as a failure, and an error of that
\* update is ignored.
SpawnTask(e) ==
  /\ exec[e].pc = "spawn"
  /\ \/ \E c \in Containers :
          /\ box[c].phase = "none"
          /\ box' = [box EXCEPT ![c].phase = "running"]
          /\ exec' = [exec EXCEPT ![e].pc = "record", ![e].cid = c]
          /\ UNCHANGED rows
     \/ /\ Complete(exec[e].run, "failure") \/ UNCHANGED rows
        /\ Return(e)
        /\ UNCHANGED box
  /\ UNCHANGED <<stream, connected, reaped, handling, missed>>

\* UpdateRenovateRunContainerID; an error is only logged.
RecordContainer(e) ==
  /\ exec[e].pc = "record"
  /\ UNCHANGED rows \/ rows' = [rows EXCEPT ![exec[e].run].cid = exec[e].cid]
  /\ Return(e)
  /\ UNCHANGED <<box, stream, connected, reaped, handling, missed>>

----------------------------------------------------------------------------
(* Task containers and the event stream.                                   *)

Event(c, action, code) == [c |-> c, action |-> action, code |-> code]

\* Without a connection an event is lost: Listen asks for no history.
\* (`dropped': containers whose event the step itself fails to act upon.)
Emit(c, events, dropped) ==
  /\ stream' = IF connected THEN stream \o events ELSE stream
  /\ missed' = missed \cup dropped
                 \cup (IF connected \/ events = <<>> THEN {} ELSE {c})

\* Renovate ends with an exit code.
ContainerExits(c, code) ==
  /\ box[c].phase = "running"
  /\ box' = [box EXCEPT ![c] = [phase |-> "exited", code |-> code]]
  /\ Emit(c, <<Event(c, "die", code)>>, {})
  /\ UNCHANGED <<rows, exec, connected, reaped, handling>>

\* TerminateRunner: a running container dies of the signal first; a destroy
\* event has no exit code, which Listen reads as 0.
TerminateRunner(c, dropped) ==
  /\ box' = [box EXCEPT ![c] = [phase |-> "gone",
                 code |-> IF box[c].phase = "running" THEN 1 ELSE box[c].code]]
  /\ Emit(c, CASE box[c].phase = "running" ->
                    <<Event(c, "die", 1), Event(c, "destroy", 0)>>
               [] box[c].phase = "exited" -> <<Event(c, "destroy", 0)>>
               [] OTHER -> <<>>, dropped)

\* The audit reaps an exited task container, and may drain a running one,
\* without asking the task exit handler.
AuditReaps(c) ==
  /\ box[c].phase \in {"running", "exited"}
  /\ TerminateRunner(c, {})
  /\ UNCHANGED <<rows, exec, connected, reaped, handling>>

\* The stream breaks; Listen connects again after its backoff, once the handler
\* it may be in has returned.
StreamBreaks ==
  /\ connected
  /\ connected' = FALSE
  /\ stream' = <<>>
  /\ missed' = missed \cup {stream[i].c : i \in DOMAIN stream}
  /\ UNCHANGED <<rows, box, exec, reaped, handling>>

Reconnect ==
  /\ ~connected
  /\ handling = None
  /\ connected' = TRUE
  /\ UNCHANGED <<rows, box, exec, stream, reaped, handling, missed>>

\* Variant: every event passes.
AlwaysReap(c) == TRUE

ShouldReap(c) == c \notin reaped

\* Listen receives an event and calls onReap the first time it hears of the
\* container.
Receive ==
  LET e == Head(stream)
  IN  /\ handling = None
      /\ stream # <<>>
      /\ stream' = Tail(stream)
      /\ reaped' = reaped \cup {e.c}
      /\ handling' = IF ShouldReap(e.c) THEN e ELSE None
      /\ UNCHANGED <<rows, box, exec, connected, missed>>

\* ShouldReap prunes an entry older than the TTL: minutes, in which the events
\* of a container that is gone have arrived.
PruneReaped(c) ==
  /\ c \in reaped
  /\ box[c].phase = "gone"
  /\ \A i \in DOMAIN stream : stream[i].c # c
  /\ reaped' = reaped \ {c}
  /\ UNCHANGED <<rows, box, exec, stream, connected, handling, missed>>

\* Variant: only a clean exit is recorded.
OutcomeOfSuccess(code) == IF code = 0 THEN "success" ELSE "running"

Outcome(code) == IF code = 0 THEN "success" ELSE "failure"

\* HandleContainerEvent: HandleContainerExit completes the run of the
\* container if it is known and running; known or not, the container is
\* removed.
HandleContainerEvent ==
  /\ handling # None
  /\ IF \E i \in RunOf(handling.c) : rows[i].status = "running"
       THEN \E i \in RunOf(handling.c) : Complete(i, Outcome(handling.code))
       ELSE UNCHANGED rows
  /\ TerminateRunner(handling.c, {})
  /\ handling' = None
  /\ UNCHANGED <<exec, connected, reaped>>

\* The controller is paused, or its lookup, update or removal fails.
DropContainerEvent ==
  /\ handling # None
  /\ \/ TerminateRunner(handling.c, {handling.c})
     \/ missed' = missed \cup {handling.c} /\ UNCHANGED <<box, stream>>
  /\ handling' = None
  /\ UNCHANGED <<rows, exec, connected, reaped>>

----------------------------------------------------------------------------

ExecStep(e) ==
  GetToken(e) \/ CreateRenovateRun(e) \/ SpawnTask(e) \/ RecordContainer(e)

Listen == Reconnect \/ Receive \/ HandleContainerEvent \/ DropContainerEvent

RenovateNext ==
  \/ \E e \in Tasks, p \in Pools : CronTask(e, p)
  \/ \E e \in Callers, p \in Pools : TriggerRenovateRun(e, p)
  \/ \E e \in Execs : ExecStep(e)
  \/ \E c \in Containers : AuditReaps(c) \/ PruneReaped(c)
  \/ \E c \in Containers, code \in 0..1 : ContainerExits(c, code)
  \/ StreamBreaks
  \/ Listen

RenovateSpec == RenovateInit /\ [][RenovateNext]_renovateVars

\* The listener's goroutine runs, the goroutines in Execute run, Renovate ends.
RenovateFairness ==
  /\ WF_renovateVars(Listen)
  /\ \A e \in Execs : WF_renovateVars(ExecStep(e))
  /\ \A c \in Containers : WF_renovateVars(\E code \in 0..1 : ContainerExits(c, code))

RenovateFairSpec == RenovateSpec /\ RenovateFairness

----------------------------------------------------------------------------
(* Properties.                                                             *)

\* A run is recorded as a success only if its container exited with code 0,
\* unless an event of the container was missed: the destroy event that
\* follows every exit, and carries no exit code, is never taken for a clean
\* exit, however it races with the recording of the container ID.
OutcomeTruthful ==
  \A i \in DOMAIN rows :
    rows[i].status = "success" =>
      rows[i].cid \in missed \/ box[rows[i].cid].code = 0

\* A run whose container ID was recorded while the container was running is
\* completed, whoever removes the container first, unless an event of the
\* container is missed.
RecordedRunEnds ==
  \A c \in Containers :
    box[c].phase = "running" /\ RunOf(c) # {}
      ~> c \in missed \/ \E i \in RunOf(c) : rows[i].status # "running"
=============================================================================
