------------------------------ MODULE MCServerHub ------------------------------
(* Instances of ServerHub for TLC. *)
EXTENDS ServerHub

CONSTANT near

MCTwo == 1 .. 2
MCThree == 1 .. 3
MCAddresses == {near}
(* One address, at which all reach the server. *)
MCLocalAddress == [c \in Conns |-> near]
================================================================================
