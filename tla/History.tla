------------------------------ MODULE History ------------------------------
(***************************************************************************)
(* The job history and the log files: hung runners are recorded by the     *)
(* controller, exited ones only leave a log; the retention scheduler       *)
(* deletes rows and then files; the services read both.  The controller    *)
(* and the scheduler are goroutines of the daemon; a crash ends both.      *)
(***************************************************************************)
EXTENDS Tables, Logs

CONSTANTS
  Runners,       \* runners of the pool, in the order of their names
  Outputs,       \* what a container may have written
  PageSize,      \* the limit a client asks for
  MaxDay,        \* bound on the clock
  MaxJobs,       \* bound on the identifiers of jobs
  MaxHung,       \* the same where the controller's steps are looked at
  NoLog

\* A log that is there, be it empty, is no missing one.
ASSUME HistoryAssumption ==
  /\ NoLog \notin Runners
  /\ Outputs # {} /\ Outputs \subseteq LogOutputs
  /\ PageSize \in Int
  /\ \A o \in Outputs : CaptureAndCompressLogs(o) # NoLog

VARIABLES
  day,
  alive,         \* runners whose container exists
  output,        \* runner -> what its container writes
  logs,          \* DATA_DIR/logs: runner -> the entries, or NoLog
  hung,          \* where the controller is with a runner over its lifetime
  pruner,        \* where the retention scheduler is
  pager,         \* a client that reads the history page by page
  stats,         \* an answer of GetSystemStats under way
  again,         \* history: runners whose log was captured more than once
  cascaded       \* history: rows were deleted with their pool

historyVars == <<day, alive, output, logs, hung, pruner, pager, stats, again, cascaded>>

NoHung == [pc |-> "idle", runner |-> NoLog, path |-> FALSE]
NoPrune == [pc |-> "idle", cutoff |-> 0, rows |-> {}]
NoPage == [pc |-> "idle", offset |-> 0, seen |-> {}, first |-> {}, jobs |-> {}]
NoStats == [pc |-> "idle", totals |-> NoLog, hours |-> NoLog, clean |-> TRUE]

HistoryTypeOK ==
  /\ day \in 0..MaxDay
  /\ alive \subseteq Runners
  /\ \A r \in Runners : logs[r] \in {NoLog, CaptureAndCompressLogs(output[r])}
  /\ hung.pc \in {"idle", "record"} /\ hung.path \in BOOLEAN
  /\ pruner.pc \in {"idle", "rows", "files"}
  /\ pager.pc \in {"idle", "search", "names", "done"} /\ pager.seen \subseteq 1..MaxJobs
  /\ stats.pc \in {"idle", "hours", "done"}
  /\ again \subseteq Runners /\ cascaded \in BOOLEAN

HistoryInit ==
  /\ day = 0
  /\ alive = Runners
  /\ logs = [r \in Runners |-> NoLog]
  /\ hung = NoHung
  /\ pruner = NoPrune
  /\ pager = NoPage
  /\ stats = NoStats
  /\ again = {}
  /\ cascaded = FALSE

----------------------------------------------------------------------------
(* The controller.                                                         *)

\* CaptureLogs truncates a file of before.
Capture(r) ==
  /\ logs' = [logs EXCEPT ![r] = CaptureAndCompressLogs(output[r])]
  /\ again' = IF logs[r] = NoLog THEN again ELSE again \cup {r}

Uncaptured == UNCHANGED <<logs, again>>

\* reapContainer: an exited runner's log is captured, and nothing recorded; the
\* container may stay.
ReapContainer(r) ==
  /\ r \in alive /\ hung.pc = "idle"
  /\ Capture(r) \/ Uncaptured
  /\ alive' \in {alive, alive \ {r}}
  /\ UNCHANGED <<tables, day, output, hung, pruner, pager, stats, cascaded>>

\* A runner over its lifetime: CaptureLogs and TerminateRunner.  Either may
\* fail; a runner that stays is found again by an audit.
HungTerminates(r) ==
  /\ hung.pc = "idle" /\ r \in alive
  /\ \/ Capture(r) /\ hung' = [pc |-> "record", runner |-> r, path |-> TRUE]
     \/ Uncaptured /\ hung' = [pc |-> "record", runner |-> r, path |-> FALSE]
  /\ alive' \in {alive, alive \ {r}}
  /\ UNCHANGED <<tables, day, output, pruner, pager, stats, cascaded>>

\* The statistics under way are of two moments.
Disturbs == stats' = IF stats.pc = "idle" THEN stats ELSE [stats EXCEPT !.clean = FALSE]

\* RecordJobTimeout for the pool the controller loaded; it fails if that is gone.
RecordJobTimeout(r, path) ==
  /\ tables.ids.job < MaxJobs
  /\ tables' = CreateJobHistory(tables, 1, r, "timeout", path, day)
  /\ Disturbs
  /\ UNCHANGED <<day, alive, output, logs, pruner, pager, again, cascaded>>

HungRecords ==
  /\ hung.pc = "record"
  /\ tables.ids.job < MaxHung
  /\ hung' = NoHung
  /\ \/ RecordJobTimeout(hung.runner, IF hung.path THEN hung.runner ELSE NoLog)
     \/ UNCHANGED <<tables, day, alive, output, logs, pruner, pager, stats, again, cascaded>>

----------------------------------------------------------------------------
(* The retention scheduler.                                                *)

\* A setting that cannot be read, or is not positive, is the default.
SettingOr(key, default) ==
  {default} \cup (IF GetAppSetting(tables, key) > 0 THEN {GetAppSetting(tables, key)} ELSE {})

\* Start, Prune and PruneJobHistory up to the cutoff, with `active' runners:
\* above four fifths of total_allowed_runners the day is skipped.
PruneStarts(active) ==
  \E total \in SettingOr("total_allowed_runners", 20), days \in SettingOr("job_retention_days", 30) :
      /\ pruner.pc = "idle"
      /\ ~(active * 100 > total * 80)
      /\ pruner' = [pc |-> "rows", cutoff |-> day - days, rows |-> {}]
      /\ UNCHANGED <<tables, day, alive, output, logs, hung, pager, stats, again, cascaded>>

\* Variant: the files are deleted first.
FilesFirst ==
  /\ pruner.pc = "rows"
  /\ pruner' = [pruner EXCEPT !.pc = "files", !.rows = Expired(tables, pruner.cutoff)]
  /\ UNCHANGED <<tables, day, alive, output, logs, hung, pager, stats, again, cascaded>>

\* DELETE ... RETURNING; an error ends the day's pruning.
PruneRows ==
  /\ pruner.pc = "rows"
  /\ \/ /\ tables' = PruneJobHistoryOlderThan(tables, pruner.cutoff)
        /\ pruner' = [pruner EXCEPT !.pc = "files", !.rows = Expired(tables, pruner.cutoff)]
        /\ Disturbs
     \/ pruner' = NoPrune /\ UNCHANGED <<tables, stats>>
  /\ UNCHANGED <<day, alive, output, logs, hung, pager, again, cascaded>>

\* One row after the other; a file that cannot be removed stays.
PruneFiles ==
  /\ pruner.pc = "files"
  /\ IF pruner.rows = {} THEN pruner' = NoPrune /\ UNCHANGED logs
     ELSE \E r \in pruner.rows :
            /\ pruner' = [pruner EXCEPT !.rows = @ \ {r}]
            /\ \/ r.path # NoLog /\ logs' = [logs EXCEPT ![r.path] = NoLog]
               \/ UNCHANGED logs
  /\ UNCHANGED <<tables, day, alive, output, hung, pager, stats, again, cascaded>>

\* DeletePool takes the rows with it and leaves the files.
PoolDeleted ==
  /\ tables.pools # {}
  /\ tables' = DeleteRunnerPool(tables, 1)
  /\ cascaded' = TRUE
  /\ Disturbs
  /\ UNCHANGED <<day, alive, output, logs, hung, pruner, pager, again>>

\* The daemon is killed and started again.
HistoryCrash ==
  /\ hung # NoHung \/ pruner # NoPrune
  /\ hung' = NoHung
  /\ pruner' = NoPrune
  /\ pager' = NoPage
  /\ stats' = NoStats
  /\ UNCHANGED <<tables, day, alive, output, logs, again, cascaded>>

DayPasses ==
  /\ day < MaxDay
  /\ day' = day + 1
  /\ UNCHANGED <<tables, alive, output, logs, hung, pruner, pager, stats, again, cascaded>>

----------------------------------------------------------------------------
(* analytics.go.                                                           *)

\* The limit of a request, and its offset.
Limit(n) == IF n <= 0 THEN 50 ELSE IF n > 100 THEN 100 ELSE n
Everything == [pool |-> 0, status |-> "", search |-> ""]

\* GetJobHistory: CountSearchJobHistory, whose number the answer carries.
GetJobHistory ==
  /\ pager.pc = "idle" /\ CountSearchJobHistory(tables, Everything) > 0
  /\ pager' = [NoPage EXCEPT !.pc = "search", !.first = {r.id : r \in tables.jobs}]
  /\ UNCHANGED <<tables, day, alive, output, logs, hung, pruner, stats, again, cascaded>>

\* SearchJobHistory.
ReadPage ==
  /\ pager.pc = "search"
  /\ pager' = [pager EXCEPT !.pc = "names", !.jobs =
                 SearchJobHistory(tables, Everything, Limit(PageSize), pager.offset)]
  /\ UNCHANGED <<tables, day, alive, output, logs, hung, pruner, stats, again, cascaded>>

\* ListRunnerPools for the names, and the answer.  A client that got a full
\* page asks for the next.
NextPage ==
  LET full == Cardinality(pager.jobs) = Limit(PageSize)
  IN  /\ pager.pc = "names"
      /\ pager' = [pager EXCEPT !.pc = IF full THEN "search" ELSE "done", !.jobs = {},
                     !.seen = @ \cup {r.id : r \in pager.jobs}, !.offset = @ + Limit(PageSize)]
      /\ UNCHANGED <<tables, day, alive, output, logs, hung, pruner, stats, again, cascaded>>

PagerEnds ==
  /\ pager.pc = "done"
  /\ pager' = NoPage
  /\ UNCHANGED <<tables, day, alive, output, logs, hung, pruner, stats, again, cascaded>>

\* GetSystemStats: the totals of the days since `cutoff', then the trend.
GetSystemStats(cutoff) ==
  /\ stats.pc = "idle"
  /\ stats' = [pc |-> "hours", totals |-> GetJobStatsSince(tables, cutoff),
               hours |-> cutoff, clean |-> TRUE]
  /\ UNCHANGED <<tables, day, alive, output, logs, hung, pruner, pager, again, cascaded>>

ReadTrend ==
  /\ stats.pc = "hours"
  /\ stats' = [stats EXCEPT !.pc = "done", !.hours = GetHourlyJobStatsSince(tables, stats.hours)]
  /\ UNCHANGED <<tables, day, alive, output, logs, hung, pruner, pager, again, cascaded>>

\* The answer is sent; WatchDashboard asks again at its next tick.
StatsEnd ==
  /\ stats.pc = "done"
  /\ stats' = NoStats
  /\ UNCHANGED <<tables, day, alive, output, logs, hung, pruner, pager, again, cascaded>>

\* The daemon gives no activeRunnerFn.
Retaining ==
  PruneStarts(0) \/ PruneRows \/ PruneFiles \/ DayPasses

Capturing ==
  \/ \E r \in Runners : ReapContainer(r) \/ HungTerminates(r)
  \/ HungRecords \/ HistoryCrash

\* Of the controller's steps, a reader sees the last.
Recorded ==
  \/ \E r \in Runners : RecordJobTimeout(r, NoLog) /\ UNCHANGED hung
  \/ PoolDeleted

Browsing == GetJobHistory \/ ReadPage \/ NextPage \/ PagerEnds

Watching ==
  \/ \E cutoff \in {day - 1, day} : GetSystemStats(cutoff)
  \/ ReadTrend \/ StatsEnd

----------------------------------------------------------------------------
(* Properties.                                                             *)

\* A row that names a log has it, whichever of controller, retention and crash
\* comes in between: the file is written before the row and deleted after it.
\* Only a runner whose log was captured twice may lose it, when the older of
\* its two rows is pruned.
RowsHaveLogs ==
  \A r \in tables.jobs : r.path # NoLog => logs[r.path] # NoLog \/ r.path \in again

\* A client that pages through the history until a page is not full has seen
\* every row that was there from start to end, although rows are added and
\* pruned meanwhile: the newest come first, so that what is added moves rows to
\* later pages and never past the client.  Only a deleted pool may hide some.
\* And the trend of the dashboard adds up to its totals, if no row came or went
\* between the two queries.
AnalyticsComplete ==
  /\ pager.pc = "done" =>
       pager.first \cap {r.id : r \in tables.jobs} \subseteq pager.seen \/ cascaded
  /\ stats.pc = "done" /\ stats.clean =>
       stats.totals.total =
         Cardinality(UNION {{<<h, n>> : n \in 1..stats.hours[h].total} : h \in DOMAIN stats.hours})

\* A stored log has the words of each stream line by line in the order they were
\* written, although frames cut lines, streams mix, the last line may not have
\* ended and the order within a second is lost in the timestamps.  A line that
\* was cut, and no other, has the timestamps of its later frames among them.  If
\* the frames are whole lines, the log is what a client saw live, stream by
\* stream, but for the fractions of the seconds.
LogsInOrder ==
  \A r \in Runners :
    logs[r] # NoLog /\ output[r].form = "mux" /\ Stamped(output[r]) =>
      \A s \in Streams :
        /\ TextsOf(Of(logs[r], s)) = Written(output[r], s)
        /\ \A i \in DOMAIN Of(logs[r], s) :
             Pure(Of(logs[r], s)[i]) <=> Len(Of(logs[r], s)[i].content) = 1
        /\ WholeLines(output[r])
             => Of(ToSeconds(StreamRunnerLogs(output[r])), s) = Of(logs[r], s)
=============================================================================
