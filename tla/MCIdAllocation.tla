----------------------------- MODULE MCIdAllocation -----------------------------
(* Instances of IdAllocation for TLC. *)
EXTENDS IdAllocation

CONSTANTS s1, s2, c1, c2

MCOneServer == {s1}
MCTwoServers == {s1, s2}
MCClients == {c1, c2}
=================================================================================
