------------------------------ MODULE MCJwksCache ------------------------------
(* One key that comes and goes, one request that overlaps the loop's refresh, *)
(* and a clock that lets the ticker fire twice.  (JwksCache_proofs speaks of  *)
(* any number of requests and keys, and of every interval.)                   *)
EXTENDS JwksCache
=============================================================================
