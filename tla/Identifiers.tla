---------------------------- MODULE Identifiers ----------------------------
(***************************************************************************)
(* id/slice.go and id/map.go: slices of IDs as Go has them, headers that   *)
(* point into arrays, which slices share.  A program holds a few slices,   *)
(* reslices them and calls the operations in any order.  An array nobody   *)
(* points to is empty.  Slices whose capacity ends before their array does *)
(* (s[i:j:k]) are left out.                                                *)
(***************************************************************************)
EXTENDS Integers, Sequences, FiniteSets, SequencesExt

CONSTANTS IDs,     \* the IDs, one of which is uuid.Nil
          Nil,     \* uuid.Nil, also the unused elements of an array
          Vars,    \* the slices of the program
          MaxCap   \* bound: elements of an array

ASSUME IdentifiersAssumption == Nil \in IDs /\ MaxCap \in Nat

Arrays == 1 .. Cardinality(Vars) + 1

VARIABLES
  heap,   \* the elements of each array
  slice,  \* the header in each variable
  last    \* the last call: operation, receiver, argument, variable it is assigned to

vars == <<heap, slice, last>>

Cap(s) == Len(heap[s.arr]) - s.off
Read(h, s) == [i \in 1..s.len |-> h[s.arr][s.off + i]]
Get(v) == Read(heap, slice[v])
Free == CHOOSE a \in Arrays : \A v \in Vars : slice[v].arr # a

Init ==
  /\ heap = [a \in Arrays |-> <<>>]
  /\ slice = [v \in Vars |-> [arr |-> CHOOSE a \in Arrays : TRUE, off |-> 0, len |-> 0]]
  /\ last = <<>>

\* v = s, in the heap h.
Assign(v, s, h) ==
  /\ slice' = [slice EXCEPT ![v] = s]
  /\ heap' = [a \in Arrays |-> IF \E w \in Vars : slice'[w].arr = a THEN h[a] ELSE <<>>]

\* A new array for ids, with any capacity the runtime may choose.
New(v, ids, caps, h) ==
  \E n \in caps : LET array == ids \o [i \in 1..(n - Len(ids)) |-> Nil] IN
    Assign(v, [arr |-> Free, off |-> 0, len |-> Len(ids)], [h EXCEPT ![Free] = array])

Roomy(ids) == Len(ids) .. MaxCap

\* append(s, ids...) in an array with room for them: the heap, and the header.
Fits(s, ids) == s.len + Len(ids) <= Cap(s)
Appended(s, ids) ==
  [heap EXCEPT ![s.arr] = [i \in DOMAIN @ |->
     IF i - s.off - s.len \in DOMAIN ids THEN ids[i - s.off - s.len] ELSE @[i]]]
Longer(s, ids) == [s EXCEPT !.len = @ + Len(ids)]

Call(op, s, b, v) == last' = [op |-> op, on |-> s, with |-> b, into |-> v]

----------------------------------------------------------------------------
(* The program. *)

Literal(v) ==
  /\ Call("literal", v, v, v)
  /\ \E n \in 0..2 : \E ids \in [1..n -> IDs] : New(v, ids, {n}, heap)

Reslice(v, w) ==
  /\ Call("reslice", w, w, v)
  /\ \E lo \in 0..Cap(slice[w]) : \E hi \in lo..Cap(slice[w]) :
          Assign(v, [slice[w] EXCEPT !.off = @ + lo, !.len = hi - lo], heap)

----------------------------------------------------------------------------
(* Slice and Map. *)

\* How often the loop of Diff meets id.
Encountered(ids, id) == Cardinality({i \in DOMAIN ids : ids[i] = id})

MapFromSlice(ids) == ToSet(ids)
ToSlice(map) == {ids \in [1..Cardinality(map) -> map] : ToSet(ids) = map}

\* Diff appends to its receiver, in place if there is room.
Diff(s, b, v) ==
  /\ Call("Diff", s, b, v)
  /\ LET all == Get(s) \o Get(b)
         diff == SelectSeq(all, LAMBDA id : Encountered(all, id) = 1)
         h == IF Fits(slice[s], Get(b)) THEN Appended(slice[s], Get(b)) ELSE heap IN
     New(v, diff, Roomy(diff), h)

Without(ids, lut) == SelectSeq(ids, LAMBDA id : id \notin lut)

\* Mutant: the result is built in the receiver's array, sub := s[:0].
SubInPlace(s, b, v) ==
  /\ Call("Sub", s, b, v)
  /\ LET sub == Without(Get(s), ToSet(Get(b)))
         none == [slice[s] EXCEPT !.len = 0] IN
     Assign(v, Longer(none, sub), Appended(none, sub))

Sub(s, b, v) ==
  /\ Call("Sub", s, b, v)
  /\ LET sub == Without(Get(s), ToSet(Get(b))) IN
     New(v, sub, Roomy(sub), heap)

\* Mutant: the elements are appended one by one, each read when its turn comes.
AddOneByOne(s, b) ==
  /\ Call("Add", s, b, s)
  /\ IF Fits(slice[s], Get(b))
     THEN LET step(h, i) == [h EXCEPT ![slice[s].arr][slice[s].off + slice[s].len + i] =
                               h[slice[b].arr][slice[b].off + i]]
              h == FoldLeft(step, heap, [i \in 1..slice[b].len |-> i]) IN
          Assign(s, Longer(slice[s], Get(b)), h)
     ELSE New(s, Get(s) \o Get(b), Roomy(Get(s) \o Get(b)), heap)

Add(s, b) ==
  /\ Call("Add", s, b, s)
  /\ IF Fits(slice[s], Get(b))
     THEN Assign(s, Longer(slice[s], Get(b)), Appended(slice[s], Get(b)))
     ELSE New(s, Get(s) \o Get(b), Roomy(Get(s) \o Get(b)), heap)

Unique(s, v) ==
  /\ Call("Unique", s, s, v)
  /\ \E ids \in ToSlice(MapFromSlice(Get(s))) : New(v, ids, {Len(ids)}, heap)

Swap(s, i, j) ==
  /\ Call("Swap", s, s, s)
  /\ LET at(k) == slice[s].off + k IN
     Assign(s, slice[s], [heap EXCEPT ![slice[s].arr][at(i)] = Get(s)[j],
                                  ![slice[s].arr][at(j)] = Get(s)[i]])

Next ==
  \/ \E s, b \in Vars : Reslice(s, b) \/ Add(s, b)
  \/ \E s, v \in Vars : Unique(s, v)
  \/ \E s, b, v \in Vars : Diff(s, b, v) \/ Sub(s, b, v)
  \/ \E v \in Vars : Literal(v)
  \/ \E s \in Vars : \E i, j \in 1..slice[s].len : Swap(s, i, j)

Spec == Init /\ [][Next]_vars

----------------------------------------------------------------------------
NoDuplicates(ids) == Len(ids) = Cardinality(ToSet(ids))

\* What the operations return: Add both slices one after the other, also if they
\* share the array it writes to; Diff of slices without duplicates the IDs of
\* only one of them, each once; Sub what is in the receiver and not in the
\* other, as often as it is there; Unique each ID once (slice.go:14-54).
ResultsAreRight ==
  [][LET s == Get(last'.on)  b == Get(last'.with)  res == Read(heap', slice'[last'.into]) IN
     CASE last'.op = "Add" -> res = s \o b
       [] last'.op = "Diff" ->
            NoDuplicates(s) /\ NoDuplicates(b) =>
              /\ NoDuplicates(res)
              /\ ToSet(res) = (ToSet(s) \cup ToSet(b)) \ (ToSet(s) \cap ToSet(b))
       [] last'.op = "Sub" ->
            \A id \in IDs : Encountered(res, id) =
              IF id \in ToSet(b) THEN 0 ELSE Encountered(s, id)
       [] last'.op = "Unique" -> NoDuplicates(res) /\ ToSet(res) = ToSet(s)
       [] OTHER -> TRUE]_vars

\* w reads elements behind the end of s.
Behind(w, s) ==
  /\ slice[w].arr = slice[s].arr
  /\ slice[w].off + slice[w].len > slice[s].off + slice[s].len

\* Sub and Unique leave every slice alone but the one they are assigned to; Diff
\* and Add may change slices that read the array behind their receiver, such as
\* Diff's own argument, but no others.  What they return, but for Add, shares no
\* array (slice.go:15, 21, 37, 48, 53).
OthersKeepTheirIDs ==
  [][\A w \in Vars \ {last'.into} :
       /\ Get(w)' = Get(w) \/ (last'.op \in {"Diff", "Add"} /\ Behind(w, last'.on))
                          \/ last'.op = "Swap"
       /\ last'.op \in {"Diff", "Sub", "Unique"} =>
            slice'[w].arr # slice'[last'.into].arr]_vars
============================================================================
