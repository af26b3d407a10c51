---------------------------- MODULE ImageUpdates ----------------------------
(***************************************************************************)
(* The notifications of internal/server/image_update.go: a check reads two *)
(* digests without the lock and applies them under it, a pull runs in a    *)
(* goroutine of its own for up to fifteen minutes, and an administrator    *)
(* dismisses a notification by the ID of a list that may be old.  All      *)
(* checks and pulls here are of one pool; notifications of different pools *)
(* share nothing but the counter of IDs.                                   *)
(***************************************************************************)
EXTENDS Integers, FiniteSets

CONSTANTS
  Checks,       \* goroutines in CheckImageUpdate
  Pulls,        \* goroutines in PullImage and executePull
  MaxVersion,   \* bound: versions of the image the registry ever has
  MaxIds,       \* bound: notifications ever made
  Wirings,      \* what a process may have been started with, see Parts
  Nothing

Parts == {"inspector", "registry", "puller"}

EntryType == [id : 1..MaxIds, status : {"available", "pulling"}]

ASSUME ImageAssumption ==
  /\ MaxVersion \in Nat \ {0}
  /\ MaxIds \in Nat
  /\ Wirings \subseteq SUBSET Parts
  /\ Nothing \notin EntryType

VARIABLES
  wired,     \* the options of the server that are set; the daemon sets none
  local,     \* the version in the container engine, 0 if there is none
  remote,    \* the version in the registry
  update,    \* the pool's entry of updates, or Nothing
  nextId,    \* nextID
  check,     \* goroutine -> what it has read
  pull       \* goroutine -> where it is

imageVars == <<wired, local, remote, update, nextId, check, pull>>

Versions == 0..MaxVersion

\* The image's reference, taken for the registry's digest without a registry.
Reference == MaxVersion + 1
NotChecking == [pc |-> "idle", local |-> 0, remote |-> 0]

ImageTypeOK ==
  /\ wired \in Wirings
  /\ local \in Versions /\ remote \in Versions
  /\ update \in EntryType \cup {Nothing}
  /\ nextId \in 1..(MaxIds + 1)
  /\ check \in [Checks -> [pc : {"idle", "local", "remote"}, local : Versions,
                           remote : Versions \cup {Reference}]]
  /\ pull \in [Pulls -> {"idle", "running", "stored"}]

ImageInit ==
  /\ wired \in Wirings
  /\ local \in {0, 1}
  /\ remote = 1
  /\ update = Nothing
  /\ nextId = 1
  /\ check = [c \in Checks |-> NotChecking]
  /\ pull = [c \in Pulls |-> "idle"]

----------------------------------------------------------------------------

\* CheckImageUpdate of a pool that exists: GetLocalImageDigest, whose error
\* reads as no image, like a missing inspector.
ReadLocal(c) ==
  /\ check[c].pc = "idle"
  /\ \E digest \in {0} \cup (IF "inspector" \in wired THEN {local} ELSE {}) :
       check' = [check EXCEPT ![c] = [pc |-> "local", local |-> digest, remote |-> 0]]
  /\ UNCHANGED <<wired, local, remote, update, nextId, pull>>

\* GetRemoteImageDigest, of which an error ends the request; without a registry
\* the reference itself, its tag replaced by latest.
ReadRemote(c) ==
  /\ check[c].pc = "local"
  /\ \/ /\ "registry" \in wired
        /\ \/ check' = [check EXCEPT ![c].pc = "remote", ![c].remote = remote]
           \/ check' = [check EXCEPT ![c] = NotChecking]
     \/ /\ "registry" \notin wired
        /\ check' = [check EXCEPT ![c].pc = "remote", ![c].remote = Reference]
  /\ UNCHANGED <<wired, local, remote, update, nextId, pull>>

\* A new entry replaces the one of before, whatever its status.
Flag ==
  /\ nextId <= MaxIds
  /\ update' = [id |-> nextId, status |-> "available"]
  /\ nextId' = nextId + 1

\* The rest of CheckImageUpdate, under the lock.
ApplyCheck(c) ==
  /\ check[c].pc = "remote"
  /\ \/ /\ check[c].local # 0 /\ check[c].local = check[c].remote
        /\ update' = IF update # Nothing /\ update.status = "available" THEN Nothing
                     ELSE update
        /\ UNCHANGED nextId
     \/ /\ check[c].local = 0 \/ check[c].local # check[c].remote
        /\ Flag
  /\ check' = [check EXCEPT ![c] = NotChecking]
  /\ UNCHANGED <<wired, local, remote, pull>>

\* FlagUpdate, which is exported and has no caller yet.
FlagUpdate ==
  /\ Flag
  /\ UNCHANGED <<wired, local, remote, check, pull>>

WithStatus(s) == IF update = Nothing THEN Nothing ELSE [update EXCEPT !.status = s]

\* PullImage: mark the entry, if there is one, and start executePull.
PullImage(c) ==
  /\ pull[c] = "idle"
  /\ update' = WithStatus("pulling")
  /\ pull' = [pull EXCEPT ![c] = "running"]
  /\ UNCHANGED <<wired, local, remote, nextId, check>>

\* The engine stores what the registry has, before executePull takes the lock.
StoreImage(c) ==
  /\ pull[c] = "running" /\ "puller" \in wired
  /\ local' = remote
  /\ pull' = [pull EXCEPT ![c] = "stored"]
  /\ UNCHANGED <<wired, remote, update, nextId, check>>

\* The rest of executePull after a pull without an error: delete the entry.  An
\* error in the engine's progress messages is none to the client, so nothing
\* may have been stored; without a puller nothing was asked for.
PullSucceeds(c) ==
  /\ pull[c] \in {"running", "stored"}
  /\ update' = Nothing
  /\ pull' = [pull EXCEPT ![c] = "idle"]
  /\ UNCHANGED <<wired, local, remote, nextId, check>>

\* Variant: only a check puts a failed pull right.
AfterFailedPullUnchanged == update

\* "revert so admin can retry".
AfterFailedPull == WithStatus("available")

\* executePull after a pull with an error, even if the image was stored.
PullFails(c) ==
  /\ pull[c] \in {"running", "stored"} /\ "puller" \in wired
  /\ update' = AfterFailedPull
  /\ pull' = [pull EXCEPT ![c] = "idle"]
  /\ UNCHANGED <<wired, local, remote, nextId, check>>

\* DismissImageUpdate of an ID the administrator has seen; an old one is not
\* found.
DismissImageUpdate ==
  /\ update # Nothing
  /\ update' = Nothing
  /\ UNCHANGED <<wired, local, remote, nextId, check, pull>>

\* Somebody pushes a new version.
Publish ==
  /\ remote < MaxVersion
  /\ remote' = remote + 1
  /\ UNCHANGED <<wired, local, update, nextId, check, pull>>

ImageNext ==
  \/ \E c \in Checks : ReadLocal(c) \/ ReadRemote(c) \/ ApplyCheck(c)
  \/ \E c \in Pulls : PullImage(c) \/ StoreImage(c) \/ PullSucceeds(c) \/ PullFails(c)
  \/ FlagUpdate \/ DismissImageUpdate \/ Publish

ImageSpec == ImageInit /\ [][ImageNext]_imageVars

----------------------------------------------------------------------------

\* A notification that says "pulling" has a pull under way, so that it is never
\* stuck in a state in which the administrator can only wait, although checks
\* replace it, other pulls end and dismissals remove it meanwhile.
NoStuckPull ==
  update # Nothing /\ update.status = "pulling"
    => \E c \in Pulls : pull[c] # "idle"

\* A check of c returns that read what is still so, as far as it can read, while
\* no pull is under way.
Returns(c) ==
  /\ check[c].pc = "remote" /\ check'[c].pc = "idle"
  /\ "inspector" \in wired => check[c].local = local
  /\ "registry" \in wired => check[c].remote = remote
  /\ \A p \in Pulls : pull[p] = "idle"

\* The list may be wrong for a while: a pull that ends deletes a notification it
\* did not start from, and a check applies digests that are no longer true.  A
\* check puts it right: after one that read what is still so there is a
\* notification exactly if there is an update.  This needs both an inspector and
\* a registry: without one of them, as in the daemon, every check notifies.
CheckIsRight ==
  [][\A c \in Checks : Returns(c) =>
       (update' # Nothing <=> ({"inspector", "registry"} \subseteq wired => local # remote))
    ]_imageVars
=============================================================================
