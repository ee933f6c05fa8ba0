------------------------------ MODULE VectorSeq ------------------------------
(***************************************************************************)
(* What astl::vector promises its user, with the storage left out: each   *)
(* vector is a sequence of values.  Reserving changes nothing a user can  *)
(* see; resizing truncates or pads with the given value; assignment makes *)
(* a copy of the other vector, and a move leaves the source empty.        *)
(* Insertion is promised at the end only: insert elsewhere asserts        *)
(* (vector.h, "TODO: vector::insert within vector").                      *)
(***************************************************************************)
EXTENDS Naturals, Sequences

CONSTANTS Vecs, Values, MaxSize

VARIABLE elems

\* n copies of x.
Copies(n, x) == [i \in 1..n |-> x]

SeqTypeOK == elems \in [Vecs -> Seq(Values)]

SeqInit == elems = [v \in Vecs |-> <<>>]

\* Set vector v to s, leaving the others alone.
Put(v, s) == elems' = [elems EXCEPT ![v] = s]

SeqResize(v, n, x) ==
    Put(v, IF n > Len(elems[v]) THEN elems[v] \o Copies(n - Len(elems[v]), x)
           ELSE SubSeq(elems[v], 1, n))

SeqNext ==
    \/ \E v \in Vecs, n \in 0..MaxSize, x \in Values :
          \/ SeqResize(v, n, x)
          \/ Put(v, Copies(n, x))                                \* assign
          \/ n <= MaxSize - Len(elems[v])
             /\ Put(v, elems[v] \o Copies(n, x))                 \* insert(end(), n, x)
    \/ \E v \in Vecs, x \in Values :
          Len(elems[v]) < MaxSize /\ Put(v, Append(elems[v], x))  \* push_back
    \/ \E v \in Vecs :                                           \* pop_back
          Put(v, IF elems[v] = <<>> THEN <<>> ELSE SubSeq(elems[v], 1, Len(elems[v]) - 1))
    \/ \E v \in Vecs : Put(v, <<>>)                              \* clear
    \/ \E v, w \in Vecs : Put(v, elems[w])                       \* operator=, copy
    \/ \E v, w \in Vecs :                                        \* move construction
          v # w /\ elems' = [elems EXCEPT ![v] = elems[w], ![w] = <<>>]
    \/ \E v, w \in Vecs, i, j \in 1..(MaxSize + 1) :             \* insert(end(), first, last)
          /\ i <= j /\ j <= Len(elems[w]) + 1
          /\ Len(elems[v]) + (j - i) <= MaxSize
          /\ Put(v, elems[v] \o SubSeq(elems[w], i, j - 1))

SeqSpec == SeqInit /\ [][SeqNext]_elems

=============================================================================
