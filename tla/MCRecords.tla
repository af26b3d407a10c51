----------------------------- MODULE MCRecords -----------------------------
(* Instances of Records for TLC.                                           *)
EXTENDS Records

CONSTANTS pool1, cron, rpc, c1, c2, r1, r2, loop, command

----------------------------------------------------------------------------
(* The file, of the boot and of the command, has a profile with a token    *)
(* and a pool with Renovate; an administrator's profile has a key, and his *)
(* pool of the same name another target and profile, and perhaps neither   *)
(* image nor labels.                                                       *)

Seeded ==
  [global |-> [total_allowed_runners |-> 10, job_retention_days |-> 0],
   profiles |-> {[name |-> "ci", method |-> "gitea_token", app |-> 0, key |-> "",
                  keyPath |-> "", token |-> "", tokenEnv |-> "ci"]},
   pools |-> <<[name |-> "web", provider |-> "gitea", url |-> "u", scope |-> "",
                auth |-> "ci", idle |-> 0, max |-> 2,
                labels |-> {{"a"}, {"b"}}, image |-> "aio",
                renovate |-> [enabled |-> TRUE, cron |-> "daily", image |-> ""]]>>]

AtBoot == {NoFile, Seeded}
ByCommand == {Seeded}
AddedProfiles ==
  {[name |-> "app", method |-> "github_app", app |-> 1, key |-> "k", token |-> ""]}
AddedPools ==
  {[name |-> "web", provider |-> "github", url |-> "v", scope |-> "", idle |-> 0, max |-> 0,
    labels |-> [form |-> x[1], labels |-> x[2]], image |-> x[3],
    renovate |-> [enabled |-> FALSE, cron |-> "", image |-> "latest"]]
     : x \in {<<"comma", {{"a"}, {"b"}}, "aio">>, <<"comma", {}, "">>,
               <<"json", {}, "aio">>}}
Variables == [ci |-> "t", app |-> ""]

----------------------------------------------------------------------------
(* Outputs of containers.                                                  *)

Frame(s, ts, word, eol) ==
  [stream |-> s, ts |-> ts[1], frac |-> ts[2], word |-> word, eol |-> eol, short |-> word = "c"]

\* No timestamp, two of one second and one of the next.
Frames == [s : Streams, ts : {<<0, 0>>, <<1, 3>>, <<1, 7>>, <<2, 0>>}, eol : BOOLEAN]
Output(form, f, words) ==
  [form |-> form, frames |-> [i \in DOMAIN f |-> Frame(f[i].s, f[i].ts, words[i], f[i].eol)]]

\* Up to three frames; the third word is short.  Only multiplexed outputs have
\* two streams.
AllOutputs ==
  LET lists(F) == UNION {[1..n -> F] : n \in 1..3}
  IN  {Output("mux", f, <<"a", "b", "c">>) : f \in lists(Frames)}
        \cup {Output("plain", f, <<"a", "b", "c">>) :
                 f \in lists({x \in Frames : x.s = "stdout"})}
=============================================================================
