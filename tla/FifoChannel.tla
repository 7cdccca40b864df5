------------------------------ MODULE FifoChannel ------------------------------
(* What a net::connection promises to the two programs that hold its ends:     *)
(* each direction is a reliable queue.  The n-th message handed to the program *)
(* at the far end is the n-th message the near end sent.  A channel may stop   *)
(* for good, but it never loses a message and then carries a later one.        *)
(* Messages are named by their position among those sent in their direction.   *)
EXTENDS Integers, Sequences

CONSTANT Ends

VARIABLES
  sent,      \* [Ends -> Nat]: how many messages the end has sent
  handled,   \* [Ends -> Seq(Nat)]: the messages given to the program at the end
  up         \* FALSE once the channel has failed or was shut down

vars == <<sent, handled, up>>

Init ==
  /\ sent = [e \in Ends |-> 0]
  /\ handled = [e \in Ends |-> <<>>]
  /\ up = TRUE

Send(e) ==
  /\ sent' = [sent EXCEPT ![e] = @ + 1]
  /\ UNCHANGED <<handled, up>>

(* The end e is given the next message of the far end p. *)
Deliver(e, p) ==
  /\ Len(handled[e]) < sent[p]
  /\ handled' = [handled EXCEPT ![e] = Append(@, Len(@) + 1)]
  /\ UNCHANGED <<sent, up>>

Fail ==
  /\ up
  /\ up' = FALSE
  /\ UNCHANGED <<sent, handled>>

Next ==
  \/ \E e \in Ends : Send(e)
  \/ \E e \in Ends, p \in Ends : e # p /\ Deliver(e, p)
  \/ Fail

Safe == Init /\ [][Next]_vars

(* While the channel is up the program at each end keeps being given messages. *)
Spec ==
  /\ Safe
  /\ \A e \in Ends, p \in Ends : WF_vars(up /\ e # p /\ Deliver(e, p))
===============================================================================
