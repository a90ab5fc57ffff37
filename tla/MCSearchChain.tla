---------------------------- MODULE MCSearchChain ----------------------------
(***************************************************************************)
(* Three searches at one time over SearXNG, DDGS and a Serper without key,   *)
(* so that calls under way when a breaker opens fail after it.              *)
(***************************************************************************)
EXTENDS SearchChain

CONSTANTS s1, s2, s3

MCSearch == {s1, s2, s3}
MCMute == {3}
=============================================================================
