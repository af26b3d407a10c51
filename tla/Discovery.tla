----------------------------- MODULE Discovery -----------------------------
(***************************************************************************)
(* DiscoverTargets of internal/server/pool.go: the organisations or        *)
(* repositories a profile can reach, listed page by page by the clients of *)
(* internal/provider.  A GitHub app lists its installations, and for       *)
(* repositories mints a token for each of them and lists what it sees; a   *)
(* personal token, and Gitea and Forgejo, have one list.  Names, URLs and  *)
(* descriptions are the entry itself.  Every request builds a client of    *)
(* its own, so that one request at a time is enough.                       *)
(***************************************************************************)
EXTENDS Integers, SequencesExt

CONSTANTS
  Listed,       \* source -> the sequence of entries it lists at first
  Accounts,     \* the accounts an app is installed on
  Newcomers,    \* entries that may appear
  PageLen,      \* per_page, and limit
  MaxPages,     \* bound in the code: pages of a list
  MaxChanges    \* bound: changes of the lists

ASSUME DiscoveryAssumption ==
  /\ PageLen \in Nat \ {0} /\ MaxPages \in Nat \ {0} /\ MaxChanges \in Nat
  /\ {"user", "installations"} \cup Accounts = DOMAIN Listed

\* An app's installations are the accounts it is installed on.
ASSUME ListedAssumption ==
  /\ Accounts \cap {"user", "installations"} = {}
  /\ Listed \in [DOMAIN Listed -> Seq(UNION {ToSet(Listed[s]) : s \in DOMAIN Listed})]
  /\ Listed["installations"] \in Seq(Accounts)

VARIABLES
  lists,     \* source -> what the provider lists there, in its order
  changes,   \* the number of changes
  walk       \* the request under way

discoveryVars == <<lists, changes, walk>>

\* `owed' and `cut' are history: entries that were there when the request began
\* and were left alone since, and whether a list lost an entry, was not read, or
\* was not read to its end.
Request(app, repos) ==
  [pc |-> "page", app |-> app, repos |-> repos,
   source |-> IF app THEN "installations" ELSE "user",
   page |-> 1, todo |-> <<>>, found |-> <<>>, shown |-> <<>>,
   owed |-> CASE ~app           -> ToSet(lists["user"])
              [] app /\ repos  -> UNION {ToSet(lists[a]) : a \in ToSet(lists["installations"])}
              [] app /\ ~repos -> ToSet(lists["installations"]),
   cut |-> FALSE]

Underway == walk.pc \in {"page", "mint", "slug", "meta"}

DiscoveryInit ==
  /\ lists = Listed
  /\ changes = 0
  /\ walk = [Request(FALSE, FALSE) EXCEPT !.pc = "done", !.owed = {}]

----------------------------------------------------------------------------
(* The pages.                                                              *)

\* Page p of a list.  The server gives as many entries as it is asked for: one that
\* gives fewer than the page size ends the walk at its first page.
PageOf(s, p) ==
  LET from == (p - 1) * PageLen
      to == IF Len(s) < from + PageLen THEN Len(s) ELSE from + PageLen
  IN  SubSeq(s, from + 1, to)

\* A page that is not full is the last, and so is the fiftieth.
LastPage(entries, p) == Len(entries) < PageLen \/ p = MaxPages

\* Variant: nobody remembers what was seen.
AddAll(found, entries) == found \o entries

\* `seen': an entry that an earlier page had is passed over.
AddNew(found, entries) ==
  FoldLeft(LAMBDA acc, x : IF Contains(acc, x) THEN acc ELSE Append(acc, x),
           found, entries)

\* The list of w is at its end: the next installation, or what describes the
\* app, or the answer.
NextList(w) ==
  IF w.todo # <<>> THEN [w EXCEPT !.pc = "mint"]
  ELSE IF w.app THEN [w EXCEPT !.pc = "slug"]
  ELSE [w EXCEPT !.pc = "done"]

\* w after a page of its list.
WithPage(w, entries) ==
  LET read == IF w.pc = "meta" THEN [w EXCEPT !.shown = @ \o entries]
              ELSE IF w.app /\ w.repos /\ w.source = "installations"
                THEN [w EXCEPT !.todo = @ \o entries]
              ELSE [w EXCEPT !.found = AddNew(@, entries)]
      stopped == w.pc = "page" /\ w.page = MaxPages /\ Len(entries) = PageLen
  IN  IF ~LastPage(entries, w.page) THEN [read EXCEPT !.page = @ + 1]
      ELSE IF w.pc = "meta" THEN [read EXCEPT !.pc = "done"]
      ELSE NextList([read EXCEPT !.cut = @ \/ stopped])

----------------------------------------------------------------------------
(* The request.                                                            *)

\* DiscoverTargets: the scope and the profile are read, the client is built.
DiscoverTargets ==
  \E app, repos \in BOOLEAN :
    /\ ~Underway
    /\ walk' = Request(app, repos)
    /\ UNCHANGED <<lists, changes>>

ReadPage ==
  /\ walk.pc \in {"page", "meta"}
  /\ walk' = WithPage(walk, PageOf(lists[walk.source], walk.page))
  /\ UNCHANGED <<lists, changes>>

\* An error of a list ends the request without an answer; of an installation's
\* repositories, only that list; of the list that describes the app, nothing
\* but the description.
PageFails ==
  /\ walk.pc \in {"page", "meta"}
  /\ walk' = IF walk.pc = "meta" THEN [walk EXCEPT !.pc = "done", !.shown = <<>>]
             ELSE IF walk.source \in Accounts THEN NextList([walk EXCEPT !.cut = TRUE])
             ELSE [walk EXCEPT !.pc = "failed", !.found = <<>>]
  /\ UNCHANGED <<lists, changes>>

\* getInstallationTokenByID: an installation without a token is passed over.
MintToken ==
  /\ walk.pc = "mint"
  /\ LET w == [walk EXCEPT !.todo = Tail(@)]
     IN  \/ walk' = [w EXCEPT !.pc = "page", !.source = Head(walk.todo), !.page = 1]
         \/ walk' = NextList([w EXCEPT !.cut = TRUE])
  /\ UNCHANGED <<lists, changes>>

\* GetAppMetadata: the app itself, then its installations once more.  Without
\* an answer for the first there is no description.
GetAppMetadata ==
  /\ walk.pc = "slug"
  /\ \/ walk' = [walk EXCEPT !.pc = "meta", !.source = "installations", !.page = 1]
     \/ walk' = [walk EXCEPT !.pc = "done"]
  /\ UNCHANGED <<lists, changes>>

\* What request w is owed when entry x of list s is touched.
StillOwed(w, s, x) ==
  IF s = "installations" /\ w.repos THEN w.owed \ ToSet(lists[x]) ELSE w.owed \ {x}

\* The lists the request may read.
Sources == IF walk.app THEN DOMAIN lists \ {"user"} ELSE {"user"}

\* While the request is under way an entry of a list is updated, which takes it
\* to the front, appears there, or is removed.
Touch ==
  \E s \in Sources : \E i \in DOMAIN lists[s] :
    /\ Underway /\ changes < MaxChanges
    /\ lists' = [lists EXCEPT ![s] = <<@[i]>> \o RemoveAt(@, i)]
    /\ walk' = [walk EXCEPT !.owed = StillOwed(walk, s, lists[s][i])]
    /\ changes' = changes + 1

Appear ==
  \E s \in Sources \ {"installations"}, x \in Newcomers :
    /\ Underway /\ changes < MaxChanges
    /\ ~Contains(lists[s], x)
    /\ lists' = [lists EXCEPT ![s] = <<x>> \o @]
    /\ changes' = changes + 1
    /\ UNCHANGED walk

Disappear ==
  \E s \in Sources : \E i \in DOMAIN lists[s] :
    /\ Underway /\ changes < MaxChanges
    /\ lists' = [lists EXCEPT ![s] = RemoveAt(@, i)]
    /\ walk' = [walk EXCEPT !.cut = TRUE]
    /\ changes' = changes + 1

DiscoveryNext ==
  \/ DiscoverTargets \/ ReadPage \/ PageFails \/ MintToken \/ GetAppMetadata
  \/ Touch \/ Appear \/ Disappear

DiscoverySpec == DiscoveryInit /\ [][DiscoveryNext]_discoveryVars

----------------------------------------------------------------------------
(* Properties.                                                             *)

DiscoveryTypeOK ==
  /\ changes \in 0..MaxChanges
  /\ walk.pc \in {"page", "mint", "slug", "meta", "done", "failed"}
  /\ walk.page \in 1..MaxPages
  /\ walk.source \in DOMAIN lists

\* Although the lists move between two pages, a target that nobody touched is
\* in the answer, and it is there once: what appears or is updated pushes it to
\* a later page, never to an earlier one, and a page that repeats it is
\* filtered.  Not if an entry was removed, an installation was passed over, or
\* a list has more than fifty pages.
DiscoveredOnce ==
  walk.pc = "done" =>
    /\ \A i, j \in DOMAIN walk.found : walk.found[i] = walk.found[j] => i = j
    /\ walk.cut \/ walk.owed \subseteq ToSet(walk.found)
=============================================================================
