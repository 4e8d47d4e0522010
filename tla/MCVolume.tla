------------------------------ MODULE MCVolume ------------------------------
(* Two data files of two bytes; two payloads that fit in several ways, two *)
(* that fail validation; two bundles that share a chunk.                   *)
EXTENDS Volume

CONSTANTS c1, c2, b1, b2, p0, p1, p2, p4

MCCompressedLen ==
  [p \in Payloads |-> CASE p = p0 -> 0 [] p = p1 -> 1 [] p = p2 -> 2 [] p = p4 -> 4]
MCBundleChunks ==
  [b \in BundleIds |-> CASE b = b1 -> {c1} [] b = b2 -> {c1, c2}]
=============================================================================
