-------------------------- MODULE MCProviderClient --------------------------
(* Instances of ProviderClient for TLC.                                    *)
EXTENDS RetryAfter

CONSTANTS r1, r2
=============================================================================
