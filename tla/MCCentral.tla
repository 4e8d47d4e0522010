----------------------------- MODULE MCCentral -----------------------------
(* A file r, a file or directory d, and a file q below d.  Requests to     *)
(* commit no bundles or one or two, with right and wrong lengths and       *)
(* sizes.  Every replica is reported with the length 1, or as deleted too. *)
EXTENDS Central, TLC

CONSTANTS r, d, q, b1, b2

MCAbove == [x \in Paths |-> IF x = q THEN {d} ELSE {}]
MCSymmetry == Permutations(Connections) \cup Permutations(BundleIds)

MCStored == [b \in BundleIds |-> {1}]
MCReported == [b \in BundleIds |-> {0, 1}]

MCBundles == [id : BundleIds, raw_len : 1 .. 2]
MCRequests(n) ==
  [base_size : 0 .. 2, new_size : 0 .. 2, bundles : {<<>>} \cup [1 .. n -> MCBundles]]
MCOneBundle == MCRequests(1)
MCTwoBundles == MCRequests(2)
=============================================================================
