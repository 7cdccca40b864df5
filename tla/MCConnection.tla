------------------------------ MODULE MCConnection ------------------------------
(* Connection with a client that sends two messages and a server that sends    *)
(* one; the first message of each end has a body, the second has none.         *)
EXTENDS Connection

MCMaxSends == [e \in Ends |-> IF e = "client" THEN 2 ELSE 1]
MCBodied == {1}
=================================================================================
