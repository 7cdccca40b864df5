-------------------------------- MODULE Observer --------------------------------
(***************************************************************************)
(* Events::Observer and the key bindings of Events.cpp: listeners that     *)
(* subscribe, die and call back while an event is under way.               *)
(*                                                                         *)
(* A channel is an event with a type of argument, one array of             *)
(* event_to_subscribers.  The observer only holds weak pointers; whoever   *)
(* owns a listener can let go of it at any time, and a callback can add    *)
(* listeners, let go of some and invoke other channels.  No callback of    *)
(* the program invokes the channel it answers, so none does here.          *)
(***************************************************************************)
EXTENDS Naturals, SequencesExt

CONSTANTS Listeners,     \* the listeners that may exist
          Channels,      \* pairs of an event and a type of argument
          Keys,          \* the keys that may be bound
          ChannelOf,     \* the channel that a listener is of
          Nobody,        \* a null pointer
          MaxWalks       \* bound: invocations within each other

ASSUME ObserverAssumption ==
  ChannelOf \in [Listeners -> Channels] /\ Nobody \notin Listeners /\ MaxWalks \in Nat

VARIABLES subscribers,   \* event_to_subscribers: the array of each channel
          owned,         \* the listeners that someone holds a shared pointer to
          walks,         \* the invocations under way, the innermost last
          KeyMap,        \* the channels that a key is bound to
          keyed          \* the channels that sendKey has yet to invoke

observerVars == <<subscribers, owned, walks, KeyMap, keyed>>

(* An invocation: where it is in the array, the listener it has locked and  *)
(* calls, those it has called, and those who were there when it began and   *)
(* have been ever since.                                                    *)
Walk(c) == [channel |-> c, i |-> 1, calling |-> Nobody, called |-> <<>>,
            due |-> {l \in owned : l \in Range(subscribers[c])}]

Calling == {walks[w].calling : w \in DOMAIN walks}
AliveListener(l) == l \in owned \/ l \in Calling
Running == walks # <<>> => Last(walks).calling # Nobody    \* code outside the observer runs
Idle == walks = <<>> /\ keyed = <<>>
Innermost(w) == [walks EXCEPT ![Len(walks)] = w]

-----------------------------------------------------------------------------
InitObserver ==
  /\ subscribers = [c \in Channels |-> <<>>] /\ owned = {} /\ walks = <<>>
  /\ KeyMap = [k \in Keys |-> <<>>] /\ keyed = <<>>

(* MakeListener and AddListenerToEvent, together in every caller.           *)
AddListenerToEvent(l) ==
  /\ Running /\ ~AliveListener(l) /\ \A c \in Channels : l \notin Range(subscribers[c])
  /\ owned' = owned \cup {l}
  /\ subscribers' = [subscribers EXCEPT ![ChannelOf[l]] = Append(@, l)]
  /\ UNCHANGED <<walks, KeyMap, keyed>>

(* The owner of a listener lets go of it.                                   *)
LetGo(l) ==
  /\ Running /\ l \in owned
  /\ owned' = owned \ {l}
  /\ walks' = [w \in DOMAIN walks |-> [walks[w] EXCEPT !.due = @ \ {l}]]
  /\ UNCHANGED <<subscribers, KeyMap, keyed>>

invokeEvent(c) ==
  /\ Running /\ Len(walks) < MaxWalks /\ \A w \in DOMAIN walks : walks[w].channel # c
  /\ keyed # <<>> => walks # <<>>
  /\ walks' = Append(walks, Walk(c))
  /\ UNCHANGED <<subscribers, owned, KeyMap, keyed>>

(* Altered form: the walk goes on past the erased place.                    *)
PruneSkips ==
  /\ walks # <<>>
  /\ LET w == Last(walks)  arr == subscribers[w.channel]
     IN  /\ w.calling = Nobody /\ w.i <= Len(arr) /\ ~AliveListener(arr[w.i])
         /\ subscribers' = [subscribers EXCEPT ![w.channel] = RemoveAt(@, w.i)]
         /\ walks' = Innermost([w EXCEPT !.i = @ + 1])
  /\ UNCHANGED <<owned, KeyMap, keyed>>
(* One turn of the loop in forceInvokeEvent: the array is indexed anew each *)
(* time; an entry that has expired is erased.                               *)
Prune ==
  /\ walks # <<>>
  /\ LET w == Last(walks)  arr == subscribers[w.channel]
     IN  /\ w.calling = Nobody /\ w.i <= Len(arr) /\ ~AliveListener(arr[w.i])
         /\ subscribers' = [subscribers EXCEPT ![w.channel] = RemoveAt(@, w.i)]
         /\ walks' = walks
  /\ UNCHANGED <<owned, KeyMap, keyed>>

Call ==
  /\ walks # <<>>
  /\ LET w == Last(walks)  arr == subscribers[w.channel]
     IN  /\ w.calling = Nobody /\ w.i <= Len(arr) /\ AliveListener(arr[w.i])
         /\ walks' = Innermost([w EXCEPT !.calling = arr[w.i], !.called = Append(@, arr[w.i])])
  /\ UNCHANGED <<subscribers, owned, KeyMap, keyed>>

CallbackReturns ==
  /\ walks # <<>> /\ Last(walks).calling # Nobody
  /\ walks' = Innermost([Last(walks) EXCEPT !.calling = Nobody, !.i = @ + 1])
  /\ UNCHANGED <<subscribers, owned, KeyMap, keyed>>

InvokeReturns ==
  /\ walks # <<>>
  /\ LET w == Last(walks) IN w.calling = Nobody /\ w.i > Len(subscribers[w.channel])
  /\ walks' = Front(walks)
  /\ UNCHANGED <<subscribers, owned, KeyMap, keyed>>

(* ClearListenersToEventOfType; nobody calls it from a callback.            *)
ClearListenersToEventOfType(c) ==
  /\ Idle /\ subscribers[c] # <<>>
  /\ subscribers' = [subscribers EXCEPT ![c] = <<>>]
  /\ UNCHANGED <<owned, walks, KeyMap, keyed>>

(* sendKey invokes what the key is bound to, one after the other.           *)
sendKey(k) ==
  /\ Idle /\ KeyMap[k] # <<>>
  /\ keyed' = KeyMap[k]
  /\ UNCHANGED <<subscribers, owned, walks, KeyMap>>

SendKeyInvokes ==
  /\ walks = <<>> /\ keyed # <<>>
  /\ walks' = <<Walk(Head(keyed))>> /\ keyed' = Tail(keyed)
  /\ UNCHANGED <<subscribers, owned, KeyMap>>

registerCtrlEvent(k, c) ==
  /\ Idle /\ c \notin Range(KeyMap[k])
  /\ KeyMap' = [KeyMap EXCEPT ![k] = Append(@, c)]
  /\ UNCHANGED <<subscribers, owned, walks, keyed>>

(* std::remove; a key is bound to a channel once at most.                   *)
unregisterCtrlEvent(k, c) ==
  /\ Idle
  /\ \E i \in DOMAIN KeyMap[k] : KeyMap[k][i] = c /\ KeyMap' = [KeyMap EXCEPT ![k] = RemoveAt(@, i)]
  /\ UNCHANGED <<subscribers, owned, walks, keyed>>

NextObserver ==
  \/ \E l \in Listeners : AddListenerToEvent(l) \/ LetGo(l)
  \/ \E c \in Channels : invokeEvent(c) \/ ClearListenersToEventOfType(c)
  \/ Prune \/ Call \/ CallbackReturns \/ InvokeReturns \/ SendKeyInvokes
  \/ \E k \in Keys : sendKey(k) \/ \E c \in Channels : registerCtrlEvent(k, c)
                                                    \/ unregisterCtrlEvent(k, c)

SpecObserver == InitObserver /\ [][NextObserver]_observerVars

-----------------------------------------------------------------------------
(* Properties.                                                              *)

(* "guarentted to trigger events with matching arguemetns. returns # of     *)
(* triggered events": when an invocation returns it has called each         *)
(* listener that was there all the time exactly once, whatever came and     *)
(* went meanwhile, and the number it returns is that of its calls.          *)
Triggered ==
  [][Len(walks') < Len(walks) =>
       LET w == Last(walks)
       IN  /\ w.due \subseteq Range(w.called) /\ IsInjective(w.called)
           /\ Len(w.called) = Len(subscribers[w.channel])]_observerVars
=============================================================================
