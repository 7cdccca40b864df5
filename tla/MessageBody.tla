------------------------------ MODULE MessageBody ------------------------------
(***************************************************************************)
(* net::message (src/src/NetCommon/net_message.hpp): a body is a stack of  *)
(* bytes; << pushes the bytes of a value, >> takes as many bytes off the   *)
(* end as its own value has, whatever was pushed there.                    *)
(*                                                                         *)
(* A body is the sequence of the values pushed, each with its size: a cell *)
(* is <<size, value>>.  A value read from the bytes of other values is     *)
(* Garbage, unless all of these are zero.                                  *)
(***************************************************************************)
EXTENDS Integers, Sequences, SequencesExt

Garbage == -1

Bytes(body) ==
  LET first[k \in 0 .. Len(body)] == IF k = 0 THEN 0 ELSE first[k - 1] + body[k][1]
  IN  first[Len(body)]

(* What is left of a value some bytes of which were taken.                  *)
Torn(n) == [i \in 1 .. n |-> <<1, Garbage>>]

(* operator <<, for the fields of an object one after the other.  A field   *)
(* is its name and the size of its type.                                    *)
Push(body, obj, fields) ==
  body \o [i \in 1 .. Len(fields) |-> <<fields[i][2], obj[fields[i][1]]>>]

(* How many whole cells stay when size bytes are taken.                     *)
Whole(body, size) ==
  CHOOSE k \in 0 .. Len(body) :
    /\ Bytes(SubSeq(body, 1, k)) <= Bytes(body) - size
    /\ k < Len(body) => Bytes(SubSeq(body, 1, k + 1)) > Bytes(body) - size

(* operator >>: a body that is too short is left alone, and so is the       *)
(* variable it should have been read into.                                  *)
Aligned(body, size) == body # <<>> /\ Last(body)[1] = size

Value(body, size, old) ==
  CASE Aligned(body, size) -> Last(body)[2]
    [] ~Aligned(body, size) /\ Bytes(body) < size -> old
    [] OTHER -> IF \A i \in Whole(body, size) + 1 .. Len(body) : body[i][2] = 0
                THEN 0 ELSE Garbage

Rest(body, size) ==
  CASE Aligned(body, size) -> Front(body)
    [] ~Aligned(body, size) /\ Bytes(body) < size -> body
    [] OTHER -> LET whole == SubSeq(body, 1, Whole(body, size))
                IN  whole \o Torn(Bytes(body) - size - Bytes(whole))

(* A loop: what n steps make of x.                                          *)
Repeat(n, x, Step(_, _)) ==
  LET after[k \in 0 .. n] == IF k = 0 THEN x ELSE Step(after[k - 1], k) IN after[n]

(* Reading field after field of an object: a reader is the body, the object *)
(* and whether what steers the reading was itself read right.               *)
Pop(r, fields) ==
  Repeat(Len(fields), r,
         LAMBDA q, i : [q EXCEPT !.body = Rest(q.body, fields[i][2]),
                                 !.obj[fields[i][1]] = Value(q.body, fields[i][2], @)])

(* A part of an object is read by a reader of its own.                      *)
At(r, part) == [r EXCEPT !.obj = r.obj[part]]
Into(r, part, u) == [u EXCEPT !.obj = [r.obj EXCEPT ![part] = u.obj]]

(* packArray pushes the elements from the last to the first and their       *)
(* number; unpackArray appends what it pops to the vector.                  *)
packArray(body, vec, size) ==
  Append(body \o [i \in 1 .. Len(vec) |-> <<size, vec[Len(vec) + 1 - i]>>], <<8, Len(vec)>>)

unpackArray(r, name, size) ==
  LET len == Value(r.body, 8, 0)
      start == [r EXCEPT !.body = Rest(r.body, 8)]
  IN  CASE Bytes(r.body) < 8 -> r
        [] Bytes(r.body) >= 8 /\ len = Garbage -> [start EXCEPT !.ok = FALSE]
        [] OTHER ->
             Repeat(len, start, LAMBDA q, i : [q EXCEPT !.body = Rest(q.body, size),
                                                        !.obj[name] = Append(@, Value(q.body, size, 0))])
=============================================================================
