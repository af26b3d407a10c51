------------------------------ MODULE Registry ------------------------------
(***************************************************************************)
(* The registry client of internal/registry/client.go: what                *)
(* GetRemoteImageDigest says about a tag that moves meanwhile.  A registry *)
(* may want a token, leave out the digest's header and answer with any     *)
(* status; versions stand for manifests and for their digests.  Of a body  *)
(* no more than 4 MiB are read and hashed.                                 *)
(***************************************************************************)
EXTENDS Integers

CONSTANTS
  Lookups,       \* goroutines in GetRemoteImageDigest
  MaxPushed,     \* bound on the versions of the tag
  Oversized      \* versions whose manifest is longer than what is read of it

ASSUME RegistryAssumption == MaxPushed \in Nat /\ Oversized \subseteq 0..MaxPushed

VARIABLES
  tag,           \* the version the tag names
  lookup         \* goroutine -> where it is and what it has

registryVars == <<tag, lookup>>

\* The digest of a body that is no manifest, or a part of one.
Garbage == MaxPushed + 1

\* from: the version the tag named when the call began.
NoLookup == [pc |-> "idle", token |-> FALSE, from |-> 0, digest |-> 0]

RegistryTypeOK ==
  /\ tag \in 0..MaxPushed
  /\ lookup \in [Lookups -> [pc : {"idle", "head", "token", "get", "found", "error"},
                             token : BOOLEAN, from : 0..MaxPushed, digest : 0..Garbage]]

RegistryInit ==
  /\ tag = 0
  /\ lookup = [l \in Lookups |-> NoLookup]

Looking(l, pc) == lookup' = [lookup EXCEPT ![l].pc = pc] /\ UNCHANGED tag
Found(l, digest) ==
  lookup' = [lookup EXCEPT ![l].pc = "found", ![l].digest = digest] /\ UNCHANGED tag

GetRemoteImageDigest(l) ==
  /\ lookup[l].pc \in {"idle", "found", "error"}
  /\ lookup' = [lookup EXCEPT ![l] = [NoLookup EXCEPT !.pc = "head", !.from = tag]]
  /\ UNCHANGED tag

\* HEAD of the manifest, with the token if there is one.  A second challenge is
\* a status like any other.
HeadManifest(l) ==
  /\ lookup[l].pc = "head"
  /\ \/ Looking(l, IF lookup[l].token THEN "error" ELSE "token")
     \/ Looking(l, "error")
     \/ Found(l, tag)
     \/ Looking(l, "get")

\* resolveAuthToken: no bearer challenge, no realm, an error or no token in the
\* answer end the call; `token' and `access_token' are the same to it.
ResolveAuthToken(l) ==
  /\ lookup[l].pc = "token"
  /\ \/ Looking(l, "error")
     \/ lookup' = [lookup EXCEPT ![l].pc = "head", ![l].token = TRUE] /\ UNCHANGED tag

\* The sum of as much of the body as is read.
Hash(version) == IF version \in Oversized THEN Garbage ELSE version

\* Variant: whatever comes is taken for the manifest.
GetUnchecked(l) ==
  /\ lookup[l].pc = "get"
  /\ Looking(l, "error") \/ Found(l, tag) \/ Found(l, Hash(tag)) \/ Found(l, Garbage)

\* GET of the manifest: the digest is in the header, or it is the body's; only
\* an answer with status 200 has one.
GetManifest(l) ==
  /\ lookup[l].pc = "get"
  /\ Looking(l, "error") \/ Found(l, tag) \/ Found(l, Hash(tag))

\* Somebody moves the tag, back to an older version maybe.
Push ==
  /\ tag < MaxPushed
  /\ tag' = tag + 1
  /\ UNCHANGED lookup

RegistryNext ==
  \/ \E l \in Lookups :
       GetRemoteImageDigest(l) \/ HeadManifest(l) \/ ResolveAuthToken(l) \/ GetManifest(l)
  \/ Push

\* One of these versions has the digest, or the sum of its first part.
Seen(digest, versions) ==
  digest \in versions \/ (digest = Garbage /\ Oversized \cap versions # {})

\* A digest is one the tag had between the call's begin and its end, although
\* the client may ask three times and be challenged in between; only if the tag
\* named a manifest of more than 4 MiB meanwhile it may be none at all.
DigestOfCall ==
  \A l \in Lookups : lookup[l].pc = "found" => Seen(lookup[l].digest, lookup[l].from..tag)
=============================================================================
