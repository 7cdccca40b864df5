---------------------------------- MODULE Chat ----------------------------------
(***************************************************************************)
(* The messager and the message viewers of a client.  The return key only  *)
(* queues a responder, which holds the bare messager; by the time it runs  *)
(* the return is in the text as well, more may be, and the messager may be *)
(* gone.  A message is told to the viewers of the client that wrote it and *)
(* sent to the others.                                                     *)
(*                                                                         *)
(* A text is the sequence of its characters, of one byte each: the numbers *)
(* of those typed, and LineFeed.  The string that holds it ends with Null  *)
(* and keeps, behind that, what earlier texts left there; the memory       *)
(* behind the string is taken to hold nothing that was typed.  One         *)
(* messager is open at a time.  Of the rows of a viewer only the number    *)
(* counts.                                                                 *)
(***************************************************************************)
EXTENDS Integers, FiniteSets, SequencesExt

CONSTANTS MaxLength,     \* ChatMsg::MAX_LEN
          Heights,       \* what Terminal::Size() may say, more than two lines
          Viewers,       \* the message viewers that may be opened
          MaxTyped,      \* bound: characters typed
          MaxQueued      \* bound: returns in one turn

ASSUME ChatAssumption ==
  {MaxLength, MaxTyped, MaxQueued} \subseteq Nat /\ Heights \subseteq {h \in Nat : h > 2}

VARIABLES text,          \* chatMessage.str, what is in the input
          behind,        \* the bytes of its buffer behind the Null
          typed,         \* how many characters were typed
          queued,        \* the responders of the return key
          dangling,      \* those of a messager that is gone: none, queued, ran
          told, sent,    \* the characters told to the viewers, and those sent
          gone,          \* those erased, or in the text of a messager that closed
          viewing,       \* the viewers that listen
          content,       \* the number of rows of each viewer
          dimy           \* the height of the terminal

inputVars  == <<text, behind, typed, queued, dangling, gone>>
viewerVars == <<viewing, content, dimy>>
chatVars   == <<inputVars, told, sent, viewerVars>>

LineFeed == 0
Null     == -1
Characters(t) == Range(t) \ {LineFeed, Null}

InitChat ==
  /\ text = <<>> /\ behind = <<>> /\ typed = 0 /\ queued = 0 /\ dangling = "none"
  /\ told = {} /\ sent = {} /\ gone = {}
  /\ viewing = {} /\ content = [v \in Viewers |-> 0] /\ dimy \in Heights

(* Input: a byte goes in at the cursor, which may stand anywhere.  It takes *)
(* one of those behind, or the string gets a new buffer.                    *)
Insert(e) ==
  /\ \E i \in 1 .. Len(text) + 1 : text' = InsertAt(text, i, e)
  /\ behind' \in {<<>>, SubSeq(behind, 2, Len(behind))}

(* Altered form: the length is not limited.                                 *)
TypeUnlimited ==
  /\ typed < MaxTyped
  /\ typed' = typed + 1 /\ Insert(typed')
  /\ UNCHANGED <<queued, dangling, told, sent, gone, viewerVars>>
(* A character, unless the text is too long for it.                         *)
Type ==
  /\ typed < MaxTyped /\ Len(text) <= MaxLength
  /\ typed' = typed + 1 /\ Insert(typed')
  /\ UNCHANGED <<queued, dangling, told, sent, gone, viewerVars>>

(* The return key: the responder is queued and the key goes on to the       *)
(* input, whatever the length.                                              *)
Return ==
  /\ queued < MaxQueued
  /\ queued' = queued + 1 /\ Insert(LineFeed)
  /\ UNCHANGED <<typed, dangling, told, sent, gone, viewerVars>>

(* Backspace or delete: what follows moves up, the Null with it.            *)
Erase(i) ==
  /\ text' = RemoveAt(text, i) /\ behind' = <<Null>> \o behind
  /\ gone' = gone \cup ({text[i]} \ {LineFeed})
  /\ UNCHANGED <<typed, queued, dangling, told, sent, viewerVars>>

(* The window of the messager is deleted, and nothing else holds it.  The   *)
(* next one starts with a string of its own.                                *)
CloseMessager ==
  /\ text' = <<>> /\ behind' = <<>> /\ queued' = 0
  /\ gone' = gone \cup Characters(text)
  /\ dangling' = IF queued > 0 THEN "queued" ELSE dangling
  /\ UNCHANGED <<typed, told, sent, viewerVars>>

(* ChatMsg::packMessage: of the text all but the last character, which need *)
(* not be the return.  The length less two wraps below zero; then what lies *)
(* behind the text is sent as well.                                         *)
Smaller(a, b) == IF a < b THEN a ELSE b
PackedLength(t) == IF Len(t) < 2 THEN MaxLength ELSE Smaller(Len(t) - 2, MaxLength)
packChat(t, rest) ==
  LET bytes == t \o <<Null>> \o rest
  IN  SubSeq(bytes, 1, Smaller(PackedLength(t) + 1, Len(bytes)))

(* str.clear() writes a Null at the first place only.                       *)
Cleared(t, rest) == Tail(t \o <<Null>> \o rest)

(* IFMessageViewer::Post_Message: rows go until the new one fits, however   *)
(* many a taller terminal has left.                                         *)
Rows == dimy - 2
PostMessage(rows) == 1 + IF rows >= Rows THEN Rows - 1 ELSE rows
Post(rows, n) ==
  LET after[k \in 0 .. n] == IF k = 0 THEN rows ELSE PostMessage(after[k - 1])
  IN  after[n]
PostAll(k) == [v \in Viewers |-> IF v \in viewing THEN Post(content[v], k) ELSE content[v]]

(* What is packed by the responders of one turn: the first takes the text,  *)
(* those after it find none and send what it has left behind.               *)
Packed(n) ==
  Characters(packChat(text, behind))
    \cup IF n > 1 THEN Characters(packChat(<<>>, Cleared(text, behind))) ELSE {}

(* Altered form: the text is not cleared.                                   *)
RunReturnsKeeps ==
  /\ queued > 0 /\ dangling = "none" /\ queued' = 0
  /\ content' = PostAll(queued)
  /\ told' = told \cup Characters(text) /\ sent' = sent \cup Packed(queued)
  /\ UNCHANGED <<text, behind, typed, dangling, gone, viewing, dimy>>
(* The main loop runs the responders, all of one messager that is open.     *)
RunReturns ==
  /\ queued > 0 /\ dangling = "none" /\ queued' = 0
  /\ content' = PostAll(queued)
  /\ told' = told \cup Characters(text) /\ sent' = sent \cup Packed(queued)
  /\ text' = <<>> /\ behind' = Cleared(text, behind)
  /\ UNCHANGED <<typed, dangling, gone, viewing, dimy>>

(* It comes to a responder whose messager is gone: what happens from here   *)
(* on is undefined, and not followed.                                       *)
RunDangling ==
  /\ dangling = "queued" /\ dangling' = "ran"
  /\ UNCHANGED <<text, behind, typed, queued, gone, told, sent, viewerVars>>

(* OnMessage: a chat message of another client is told to the viewers.  The *)
(* name of any other message is told as a const char*, of which there are   *)
(* no listeners.                                                            *)
ChatArrives ==
  /\ viewing # {} /\ content' = PostAll(1)
  /\ UNCHANGED <<inputVars, told, sent, viewing, dimy>>

(* A viewer is opened; one whose window is closed goes on listening.        *)
OpenViewer(v) ==
  /\ v \notin viewing /\ viewing' = viewing \cup {v}
  /\ UNCHANGED <<inputVars, told, sent, content, dimy>>

Resize(h) ==
  /\ dimy' = h /\ h # dimy
  /\ UNCHANGED <<inputVars, told, sent, viewing, content>>

NextChat ==
  /\ dangling # "ran"
  /\ \/ Type \/ Return \/ CloseMessager \/ RunReturns \/ RunDangling \/ ChatArrives
     \/ \E i \in DOMAIN text : Erase(i)
     \/ \E v \in Viewers : OpenViewer(v)
     \/ \E h \in Heights : Resize(h)

SpecChat == InitChat /\ [][NextChat]_chatVars

-----------------------------------------------------------------------------
(* Properties.                                                              *)

ChatTypeOK ==
  /\ text \in Seq(0 .. MaxTyped) /\ Len(text) <= MaxLength + 1 + MaxQueued
  /\ queued \in 0 .. MaxQueued /\ typed \in 0 .. MaxTyped /\ content \in [Viewers -> Nat]
  /\ dangling \in {"none", "queued", "ran"}

(* Wherever the returns fall between the characters and the turns of the    *)
(* main loop, a character typed is once in the input, or was told to the    *)
(* viewers, or is gone, and never two of these: none is told again.         *)
ToldOnce ==
  /\ \A i, j \in DOMAIN text : text[i] = text[j] /\ text[i] # LineFeed => i = j
  /\ Characters(text) \cup told \cup gone = 1 .. typed
  /\ Characters(text) \cap (told \cup gone) = {} /\ told \cap gone = {}

(* No other client is sent what was not told here, although the packing     *)
(* reads behind a short text: nothing erased and nothing half written.      *)
SentWasTold == sent \subseteq told

(* The messager: the text stays bounded, each character typed is in it, was *)
(* told once or is gone, and what is sent was told.                         *)
ChatInv == ChatTypeOK /\ ToldOnce /\ SentWasTold
=============================================================================
