--------------------------------- MODULE Windows ---------------------------------
(***************************************************************************)
(* The windows of the client: the container that stacks them, the list of  *)
(* weak pointers to their interfaces, the focus that passes between them   *)
(* and the canvas, the dialogue for a new window and the options at the    *)
(* mouse.                                                                  *)
(*                                                                         *)
(* The first window is on top, and the active child of the container.  An  *)
(* interface lives as long as something points to it: the window around    *)
(* it, or, for the interfaces whose listener captures a shared pointer to  *)
(* the interface that owns the listener, they themselves.                  *)
(***************************************************************************)
EXTENDS Naturals, FiniteSets, SequencesExt, Selections

CONSTANTS Kinds,           \* the interfaces a user may open, by name
          MaxInterfaces    \* bound: interfaces opened in one game

PublicInterfaces == {"Message Viewer", "Messager", "Helm", "Controlls", "Inspector"}
SelfHeld == {"Message Viewer", "Helm", "Inspector"}  \* [p = mv] in their listeners

ASSUME WindowsAssumption == Kinds \subseteq PublicInterfaces /\ MaxInterfaces \in Nat

VARIABLES interfaces,        \* the kind of each interface ever made
          windowContainer,   \* the windows, each by its interface, or Empty
          interfaceWindows,  \* weak pointers to interfaces, by number
          isWindowSelected, wasWinSelected,
          showNewWindowModal,
          sweeping           \* whether responders wait that call removeEmptyWindows

windowVars == <<interfaces, windowContainer, interfaceWindows, isWindowSelected, wasWinSelected,
                showNewWindowModal, sweeping>>

Empty == 0
Shown == Range(windowContainer) \ {Empty}
Alive(n) == n \in Shown \/ interfaces[n] \in SelfHeld
Options == {n \in DOMAIN interfaces : interfaces[n] = "IFOptions" /\ Alive(n)}
OnCanvas == ~isWindowSelected /\ ~showNewWindowModal

InitWindows ==
  /\ interfaces = <<>> /\ windowContainer = <<>> /\ interfaceWindows = <<>>
  /\ isWindowSelected = FALSE /\ wasWinSelected = FALSE
  /\ showNewWindowModal = FALSE /\ sweeping = FALSE

(* The elements of a sequence that are in a set, in their order.            *)
Only(s, T) == Selection(s, {i \in DOMAIN s : s[i] \in T})

-----------------------------------------------------------------------------
(* What every event begins with, in the CatchEvent around the windows: a    *)
(* focus that has changed since the last event is told to the interfaces    *)
(* in the list, those that expired are erased from it.  IFOptions detaches  *)
(* itself when the focus leaves, and the sweep of the windows without       *)
(* content is left to a responder.                                          *)

Unfocusing == wasWinSelected /\ ~isWindowSelected
Told == {n \in Range(interfaceWindows) : Alive(n)}
Detached == IF Unfocusing THEN {n \in Told : interfaces[n] = "IFOptions"} ELSE {}

SeenWindows == [w \in DOMAIN windowContainer |->
                  IF windowContainer[w] \in Detached THEN Empty ELSE windowContainer[w]]
SeenInterfaces == IF isWindowSelected # wasWinSelected
                  THEN Only(interfaceWindows, Told) ELSE interfaceWindows

(* Altered form: no sweep is asked for.                                     *)
TellFocusUnswept == wasWinSelected' = isWindowSelected /\ UNCHANGED sweeping
TellFocus ==
  /\ wasWinSelected' = isWindowSelected
  /\ sweeping' = (sweeping \/ Unfocusing)

-----------------------------------------------------------------------------
(* Events.                                                                  *)

(* The mouse moves, over a window or not.  The wrapper takes it for a       *)
(* window, and windowFocusDetect, which only sees what no window caught,    *)
(* takes that back.                                                         *)
MouseMoves(over) ==
  /\ over => windowContainer # <<>>
  /\ isWindowSelected' = over
  /\ windowContainer' = SeenWindows /\ interfaceWindows' = SeenInterfaces /\ TellFocus
  /\ UNCHANGED <<interfaces, showNewWindowModal>>

(* Any other event that no handler acts on, such as Event::Custom, which    *)
(* each turn of the main loop posts.                                        *)
OtherEvent ==
  /\ windowContainer' = SeenWindows /\ interfaceWindows' = SeenInterfaces /\ TellFocus
  /\ UNCHANGED <<interfaces, isWindowSelected, showNewWindowModal>>

(* open_new_window_dialogue.                                                *)
DisplayNewWindow ==
  /\ OnCanvas /\ showNewWindowModal' = TRUE
  /\ windowContainer' = SeenWindows /\ interfaceWindows' = SeenInterfaces /\ TellFocus
  /\ UNCHANGED <<interfaces, isWindowSelected>>

(* delete_selected_window.                                                  *)
DisplayRemoveWindow ==
  /\ OnCanvas /\ windowContainer # <<>>
  /\ windowContainer' = Tail(SeenWindows) /\ interfaceWindows' = SeenInterfaces /\ TellFocus
  /\ UNCHANGED <<interfaces, isWindowSelected, showNewWindowModal>>

(* Altered form: former options are not looked for.                         *)
OpenOptionsAgain ==
  /\ OnCanvas /\ Len(interfaces) < MaxInterfaces
  /\ interfaces' = Append(interfaces, "IFOptions")
  /\ interfaceWindows' = Append(SeenInterfaces, Len(interfaces'))
  /\ windowContainer' = Append(SeenWindows, Len(interfaces'))
  /\ TellFocus /\ UNCHANGED <<isWindowSelected, showNewWindowModal>>
(* Altered form: the options are not put on the list.                       *)
OpenOptionsUnlisted ==
  /\ OnCanvas /\ Options = {} /\ Len(interfaces) < MaxInterfaces
  /\ interfaces' = Append(interfaces, "IFOptions")
  /\ interfaceWindows' = SeenInterfaces
  /\ windowContainer' = Append(SeenWindows, Len(interfaces'))
  /\ TellFocus /\ UNCHANGED <<isWindowSelected, showNewWindowModal>>
(* The right button is released over the canvas, in OnMouse: the options    *)
(* open unless the former ones are still there.                             *)
OpenOptions ==
  /\ OnCanvas /\ Options = {} /\ Len(interfaces) < MaxInterfaces
  /\ interfaces' = Append(interfaces, "IFOptions")
  /\ interfaceWindows' = Append(SeenInterfaces, Len(interfaces'))
  /\ windowContainer' = Append(SeenWindows, Len(interfaces'))
  /\ TellFocus /\ UNCHANGED <<isWindowSelected, showNewWindowModal>>

(* The buttons confirm and cancel of the dialogue, which gets the event     *)
(* before the wrapper does; confirm opens the first interface that is       *)
(* ticked.                                                                  *)
Confirm(kind) ==
  /\ showNewWindowModal /\ Len(interfaces) < MaxInterfaces
  /\ showNewWindowModal' = FALSE
  /\ interfaces' = Append(interfaces, kind)
  /\ interfaceWindows' = Append(interfaceWindows, Len(interfaces'))
  /\ windowContainer' = Append(windowContainer, Len(interfaces'))
  /\ UNCHANGED <<isWindowSelected, wasWinSelected, sweeping>>

Cancel ==
  /\ showNewWindowModal /\ showNewWindowModal' = FALSE
  /\ UNCHANGED <<interfaces, windowContainer, interfaceWindows, isWindowSelected, wasWinSelected, sweeping>>

(* Altered form: the window stays where it was as well.                     *)
ClickCopies(w) ==
  /\ isWindowSelected
  /\ windowContainer' = <<SeenWindows[w]>> \o SeenWindows
  /\ interfaceWindows' = SeenInterfaces /\ TellFocus
  /\ UNCHANGED <<interfaces, isWindowSelected, showNewWindowModal>>
(* A click on a window brings it to the front.                              *)
ClickWindow(w) ==
  /\ isWindowSelected
  /\ windowContainer' = <<SeenWindows[w]>> \o RemoveAt(SeenWindows, w)
  /\ interfaceWindows' = SeenInterfaces /\ TellFocus
  /\ UNCHANGED <<interfaces, isWindowSelected, showNewWindowModal>>

(* A button under Displays of the options, by way of                        *)
(* ADD_TO_WINDOW_CONTAINER and add_new_window: the window takes the focus   *)
(* and comes first; interfaceWindows does not hear of it.                   *)
DisplayButton(kind) ==
  /\ isWindowSelected /\ Options # {} /\ Len(interfaces) < MaxInterfaces
  /\ interfaces' = Append(interfaces, kind)
  /\ windowContainer' = <<Len(interfaces')>> \o SeenWindows
  /\ interfaceWindows' = SeenInterfaces /\ TellFocus
  /\ UNCHANGED <<isWindowSelected, showNewWindowModal>>

(* A turn of the main loop runs the responders: removeEmptyWindows.         *)
Sweep ==
  /\ sweeping /\ sweeping' = FALSE
  /\ windowContainer' = Only(windowContainer, Shown)
  /\ UNCHANGED <<interfaces, interfaceWindows, isWindowSelected, wasWinSelected, showNewWindowModal>>

NextWindows ==
  \/ \E over \in BOOLEAN : MouseMoves(over)
  \/ OtherEvent \/ DisplayNewWindow \/ DisplayRemoveWindow \/ OpenOptions \/ Cancel \/ Sweep
  \/ \E kind \in Kinds : Confirm(kind) \/ DisplayButton(kind)
  \/ \E w \in DOMAIN windowContainer : ClickWindow(w)

SpecWindows == InitWindows /\ [][NextWindows]_windowVars

-----------------------------------------------------------------------------
(* Properties.                                                              *)

(* An interface is shown in one window at most.                             *)
WindowsTypeOK ==
  /\ Range(interfaces) \subseteq Kinds \cup {"IFOptions"} /\ Len(interfaces) <= MaxInterfaces
  /\ IsInjective(interfaceWindows)
  /\ \A v, w \in DOMAIN windowContainer :
       windowContainer[v] = windowContainer[w] => v = w \/ windowContainer[v] = Empty
  /\ Range(interfaceWindows) \cup Shown \subseteq DOMAIN interfaces /\ sweeping \in BOOLEAN

(* There is never more than one window of options, whatever became of the   *)
(* former one: detached, swept with its window, or removed by a key.        *)
OneOptions == Cardinality(Options) <= 1

(* The options go when the focus leaves the windows: once the interfaces    *)
(* were told so, no window shows options that the user has had the focus    *)
(* of, however they were stacked, clicked or deleted meanwhile.             *)
OptionsGo == [][wasWinSelected /\ ~wasWinSelected' => Options \cap Shown' = {}]_windowVars

(* A window whose content has detached itself does not stay: the sweep that *)
(* removes it is under way whenever there is one.                           *)
EmptySwept == Empty \in Range(windowContainer) => sweeping

(* The windows: none shows what another shows, the options are there once,  *)
(* and a window that lost its content is about to be swept.                 *)
WindowsInv == WindowsTypeOK /\ OneOptions /\ EmptySwept
=============================================================================
