--------------------------- MODULE MCRegistration ---------------------------
(* Two servers, the second configured with a volume of the first.          *)
EXTENDS EndpointReport

CONSTANTS s1, s2, v1, v2

MCMounts == [s \in Servers |-> IF s = s1 THEN {v1} ELSE {v1, v2}]
=============================================================================
