---------------------------- MODULE MCPageCache ----------------------------
(***************************************************************************)
(* Instances of PageCache for TLC.                                         *)
(***************************************************************************)
EXTENDS PageCache, TLC

(* Pages, tags, requests and writers are alike as far as the scripts can   *)
(* tell.                                                                   *)
CacheSymmetry ==
  Permutations(Keys) \cup Permutations(Tags) \cup Permutations(Requests)
    \cup Permutations(Writers)

EveryRoute == [k \in Keys |-> 2]
=============================================================================
