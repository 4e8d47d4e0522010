---------------------------- MODULE MCTransfer -----------------------------
(* Two transfers of two chunks each that share one chunk; their volumes    *)
(* differ.                                                                 *)
EXTENDS Transfer

CONSTANTS t1, t2, q1, q2, q3, q4, h1, h2, h3, v1, v2

MCHashOf == [q \in Requests |-> CASE q \in {q1, q3} -> h1 [] q = q2 -> h2 [] q = q4 -> h3]
MCChunks == [t \in Transfers |-> IF t = t1 THEN <<q1, q2>> ELSE <<q3, q4>>]
MCTarget == [t \in Transfers |-> IF t = t1 THEN v1 ELSE v2]
=============================================================================
