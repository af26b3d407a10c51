------------------------------ MODULE Backups ------------------------------
(***************************************************************************)
(* The backup manager of internal/db/backup.go.  The daemon's loop and the *)
(* backup command write snapshots into the same directory.  VACUUM INTO    *)
(* writes under the final name, so a snapshot that is under way, or was    *)
(* cut short, looks like any other.  A snapshot is named by the second it  *)
(* was begun in, and `second' stands for the names' order.                 *)
(***************************************************************************)
EXTENDS Integers, FiniteSets

CONSTANTS
  Writers,       \* the daemon's loop and commands
  Retention,     \* retentionCount
  MaxSecond      \* bound on the clock

ASSUME BackupsAssumption == Retention \in Nat \ {0} /\ MaxSecond \in Nat

VARIABLES
  second,
  dir,           \* DATA_DIR/backups: name -> "none", "part" or "whole"
  writer,        \* writer -> where its Snapshot is
  safe,          \* history: some Snapshot came to its prune
  collided       \* history: two snapshots were begun in the same second

backupVars == <<second, dir, writer, safe, collided>>

Seconds == 0..MaxSecond
NoSnapshot == [pc |-> "idle", name |-> 0, doomed |-> {}]

BackupTypeOK ==
  /\ second \in Seconds
  /\ dir \in [Seconds -> {"none", "part", "whole"}]
  /\ writer \in [Writers -> [pc : {"idle", "vacuum", "write", "prune", "delete"},
                             name : Seconds, doomed : SUBSET Seconds]]
  /\ safe \in BOOLEAN /\ collided \in BOOLEAN

BackupInit ==
  /\ second = 0
  /\ dir = [s \in Seconds |-> "none"]
  /\ writer = [w \in Writers |-> NoSnapshot]
  /\ safe = FALSE
  /\ collided = FALSE

At(w, pc) == writer[w].pc = pc
Files == {s \in Seconds : dir[s] # "none"}
Goes(w, pc) == writer' = [writer EXCEPT ![w].pc = pc]
Returns(w) == writer' = [writer EXCEPT ![w] = NoSnapshot]

\* Snapshot: the name, and Backup removes a file that has it already.
Snapshot(w) ==
  /\ At(w, "idle")
  /\ writer' = [writer EXCEPT ![w] = [pc |-> "vacuum", name |-> second, doomed |-> {}]]
  /\ dir' = [dir EXCEPT ![second] = "none"]
  /\ collided' = (collided \/ dir[second] # "none"
                  \/ \E v \in Writers \ {w} : writer[v].pc # "idle" /\ writer[v].name = second)
  /\ UNCHANGED <<second, safe>>

\* VACUUM INTO refuses a file that exists.
VacuumBegins(w) ==
  /\ At(w, "vacuum")
  /\ IF dir[writer[w].name] = "none"
       THEN dir' = [dir EXCEPT ![writer[w].name] = "part"] /\ Goes(w, "write")
       ELSE Returns(w) /\ UNCHANGED dir
  /\ UNCHANGED <<second, safe, collided>>

\* It ends, unless somebody removed the file; or it fails, and leaves the file.
VacuumEnds(w) ==
  /\ At(w, "write")
  /\ \/ /\ dir' = [dir EXCEPT ![writer[w].name] = IF @ = "part" THEN "whole" ELSE @]
        /\ safe' = TRUE
        /\ Goes(w, "prune")
     \/ Returns(w) /\ UNCHANGED <<dir, safe>>
  /\ UNCHANGED <<second, collided>>

\* Variant: one too few is kept.
NewestButOne(files, n) == {f \in files : Cardinality({g \in files : g > f}) < n - 1}

\* ListBackups, newest first, down to retentionCount.
Newest(files, n) == {f \in files : Cardinality({g \in files : g > f}) < n}

\* Prune lists.
Prune(w) ==
  /\ At(w, "prune")
  /\ writer' = [writer EXCEPT ![w].pc = "delete", ![w].doomed = Files \ Newest(Files, Retention)]
  /\ UNCHANGED <<second, dir, safe, collided>>

\* It deletes one file after the other, from the newest on; one that it cannot
\* delete stays.
Delete(w) ==
  /\ At(w, "delete")
  /\ \/ writer[w].doomed = {} /\ Returns(w) /\ UNCHANGED dir
     \/ \E s \in writer[w].doomed :
          /\ \A x \in writer[w].doomed : x <= s
          /\ writer' = [writer EXCEPT ![w].doomed = @ \ {s}]
          /\ \E left \in {"none", dir[s]} : dir' = [dir EXCEPT ![s] = left]
  /\ UNCHANGED <<second, safe, collided>>

\* A process is killed.
WriterDies(w) ==
  /\ ~At(w, "idle")
  /\ Returns(w)
  /\ UNCHANGED <<second, dir, safe, collided>>

SecondPasses ==
  /\ second < MaxSecond
  /\ second' = second + 1
  /\ UNCHANGED <<dir, writer, safe, collided>>

BackupNext ==
  \/ \E w \in Writers :
       \/ Snapshot(w) \/ VacuumBegins(w) \/ VacuumEnds(w)
       \/ Prune(w) \/ Delete(w) \/ WriterDies(w)
  \/ SecondPasses

----------------------------------------------------------------------------
(* Properties.                                                             *)

\* Once a snapshot was taken, a whole one is on disk at every moment, whoever
\* is killed and whichever prunes overlap, as long as fewer than retentionCount
\* of the files are unfinished and no two snapshots shared a second.
GoodBackupKept ==
  safe /\ ~collided /\ Cardinality({s \in Seconds : dir[s] = "part"}) < Retention
    => \E s \in Seconds : dir[s] = "whole"
=============================================================================
