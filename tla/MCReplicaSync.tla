--------------------------- MODULE MCReplicaSync ---------------------------
(* One-chunk bundles and one-byte chunks; a batch is one record.           *)
EXTENDS ReplicaSync

CONSTANTS c1, c2, b1, b2, p1

MCCompressedLen == [p \in Payloads |-> 1]
MCBundleChunks == [b \in BundleIds |-> IF b = b1 THEN {c1} ELSE {c2}]
=============================================================================
