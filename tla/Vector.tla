-------------------------------- MODULE Vector --------------------------------
(***************************************************************************)
(* astl::vector of src/Libraries/acess2_stl/vector.h: m_size, m_capacity  *)
(* and the m_capacity slots of m_data.  Each member function is an        *)
(* operator from one vector record to the next; an action applies one to *)
(* a vector of Vecs.  A slot nobody has constructed a value in, or whose  *)
(* value was destroyed, holds None.  The record's ok is FALSE once an      *)
(* assert of the vector has failed.                                        *)
(*                                                                         *)
(* Align is the 0x20 of reserve's rounding; the sizes are bounded by       *)
(* MaxSize.                                                                 *)
(***************************************************************************)
EXTENDS Naturals, Sequences, SequencesExt

CONSTANTS
    Vecs,       \* the vectors
    Values,     \* the element values
    None,       \* an unconstructed or destroyed slot
    Align,      \* reserve rounds capacities up to a multiple of this (0x20)
    MaxSize,    \* model bound: elements in a vector
    CopyPairs   \* the <<to, from>> pairs operator= is called with

ASSUME /\ None \notin Values /\ Align > 0
       /\ CopyPairs \subseteq Vecs \X Vecs

VARIABLE vec

\* vector(): m_size 0, m_capacity 0, m_data null.
Empty == [size |-> 0, cap |-> 0, data |-> <<>>, ok |-> TRUE]

\* (n + 0x1F) & ~0x1F
RoundUpDown(n) == (n \div Align) * Align
RoundUp(n) == ((n + Align - 1) \div Align) * Align

\* A new area of c slots holding the first r.size values of r.
ReallocLosingLast(r, c) ==
    [i \in 0..(c - 1) |-> IF i < r.size - 1 THEN r.data[i] ELSE None]
Realloc(r, c) ==
    [i \in 0..(c - 1) |-> IF i < r.size THEN r.data[i] ELSE None]

\* reserve(n): a larger request reallocates and copies the m_size values.
Reserve(r, n) ==
    IF n > r.cap
    THEN [r EXCEPT !.cap = RoundUp(n), !.data = Realloc(r, RoundUp(n))]
    ELSE r

\* Set slots lo..hi-1 to x.
Fill(d, lo, hi, x) == [i \in DOMAIN d |-> IF lo <= i /\ i < hi THEN x ELSE d[i]]

\* resize(n, val): construct val in [m_size, n), or destroy [n, m_size).
Resize(r, n, x) ==
    LET q == Reserve(r, n) IN
    [q EXCEPT !.size = n,
              !.data = IF n > q.size THEN Fill(q.data, q.size, n, x)
                       ELSE Fill(q.data, n, q.size, None)]

\* clear(): destroy every value.
Clear(r) == [r EXCEPT !.size = 0, !.data = Fill(r.data, 0, r.size, None)]

\* assign(n, val)
Assign(r, n, x) == Resize(Clear(r), n, x)

\* push_back(val)
PushBack(r, x) == Resize(r, r.size + 1, x)

\* pop_back(): resize(size() - 1) unless empty.
PopBack(r) == IF r.size = 0 THEN r ELSE Resize(r, r.size - 1, None)

\* insert(position, n, val): reserve, assert position == end(), construct.
InsertN(r, pos, n, x) ==
    LET q == Reserve(r, r.size + n) IN
    [q EXCEPT !.size = q.size + n,
              !.data = Fill(q.data, q.size, q.size + n, x),
              !.ok = q.ok /\ pos = q.size]

\* vector_iterator += n for n >= 0: m_pos moves on, but not past m_max.
IterAdd(pos, n, max) == IF pos + n < max THEN pos + n ELSE max

(***************************************************************************)
(* vector_iterator(array, start, max) over one vector's area: m_pos and    *)
(* m_max (iterator_to gives m_max = m_size).  ++ and -- stop at m_max and *)
(* 0; += of a negative n is -= -n and the reverse; -= stops at 0; the      *)
(* difference of two iterators is m_pos - it2.m_pos.                       *)
(***************************************************************************)
It(pos, max) == [pos |-> pos, max |-> max]
IterInc(it) == IF it.pos < it.max THEN [it EXCEPT !.pos = @ + 1] ELSE it
IterDec(it) == IF it.pos > 0 THEN [it EXCEPT !.pos = @ - 1] ELSE it
IterFwd(it, n) == [it EXCEPT !.pos = IterAdd(@, n, it.max)]
IterBack(it, n) == [it EXCEPT !.pos = IF @ >= n THEN @ - n ELSE 0]
IterPlus(it, n) == IF n < 0 THEN IterBack(it, -n) ELSE IterFwd(it, n)
IterMinus(it, n) == IF n < 0 THEN IterFwd(it, -n) ELSE IterBack(it, n)
\* Mutant: the operands of the difference swapped.
IterDiffSwapped(a, b) == b.pos - a.pos
IterDiff(a, b) == a.pos - b.pos

\* insert(position, first, last) counts len with while(it != last) { ++it;
\* len++; }, which ends only when first does not lie beyond last.
RECURSIVE Distance(_, _)
Distance(first, last) ==
    IF first.pos = last.pos THEN 0 ELSE 1 + Distance(IterInc(first), last)

(***************************************************************************)
(* insert(position, first, last): reserve(m_size + len), then for each    *)
(* value position = insert(position, *it) + 1, where insert(position, val) *)
(* returns iterator_to(position.m_pos), bounded by the new m_size.         *)
(***************************************************************************)
RECURSIVE InsertLoopNoAdvance(_, _, _)
InsertLoopNoAdvance(r, pos, s) ==
    IF s = <<>> THEN r
    ELSE InsertLoopNoAdvance(InsertN(r, pos, 1, Head(s)), pos, Tail(s))

RECURSIVE InsertLoop(_, _, _)
InsertLoop(r, pos, s) ==
    IF s = <<>> THEN r
    ELSE LET q == InsertN(r, pos, 1, Head(s))
         IN  InsertLoop(q, IterAdd(pos, 1, q.size), Tail(s))

\* operator[]: the values of slots 0..m_size-1, as a sequence.
Elements(r) == [i \in 1..r.size |-> r.data[i - 1]]

InsertRange(r, pos, s) == InsertLoop(Reserve(r, r.size + Len(s)), pos, s)

\* operator=(x): clear, free, reserve(x.size()), push_back each x[i].  x is
\* read after the clear, which for x == *this has emptied it.
CopyAssign(r, x) ==
    LET e == [Clear(r) EXCEPT !.cap = 0, !.data = <<>>]
    IN  FoldLeft(PushBack, Reserve(e, x.size), Elements(x))

(***************************************************************************)
(* The constructors, on storage whose vector ~vector() destroyed (its      *)
(* values and area gone), each starting from vector(): vector(n, val)      *)
(* is resize(n, val); vector(const vector& x) is *this = x;              *)
(* vector(vector&& x) takes x's m_size, m_capacity and m_data and leaves  *)
(* x empty with no area.                                                   *)
(***************************************************************************)
ConstructN(n, x) == Resize(Empty, n, x)
ConstructCopy(x) == CopyAssign(Empty, x)
MovedFrom(r) == [r EXCEPT !.size = 0, !.cap = 0, !.data = <<>>]

-----------------------------------------------------------------------------

TypeOK ==
    \A v \in Vecs :
        /\ vec[v].size \in 0..MaxSize
        /\ vec[v].cap \in 0..RoundUp(MaxSize) /\ vec[v].cap % Align = 0
        /\ vec[v].size <= vec[v].cap
        /\ vec[v].data \in [0..(vec[v].cap - 1) -> Values \cup {None}]
        /\ vec[v].ok \in BOOLEAN

Init == vec = [v \in Vecs |-> Empty]

\* Apply member function F to vector v.
Call(v, r) == vec' = [vec EXCEPT ![v] = r]

DoReserve(v, n) == Call(v, Reserve(vec[v], n))
DoResize(v, n, x) == Call(v, Resize(vec[v], n, x))
DoAssign(v, n, x) == Call(v, Assign(vec[v], n, x))
DoInsertN(v, n, x) ==
    vec[v].size + n <= MaxSize /\ Call(v, InsertN(vec[v], vec[v].size, n, x))
DoPushBack(v, x) == vec[v].size < MaxSize /\ Call(v, PushBack(vec[v], x))
DoPopBack(v) == Call(v, PopBack(vec[v]))
DoClear(v) == Call(v, Clear(vec[v]))
DoCopy(v, w) ==
    LET x == IF v = w THEN Clear(vec[v]) ELSE vec[w]
    IN  Call(v, CopyAssign(vec[v], x))

\* insert(end(), w.begin() + i, w.begin() + j) from another vector: the
\* iterators stop at w's end, and first must not lie beyond last.
DoInsertRange(v, w, i, j) ==
    LET first == IterPlus(It(0, vec[w].size), i)
        last  == IterPlus(It(0, vec[w].size), j)
    IN  /\ v # w /\ first.pos <= last.pos
        /\ vec[v].size + Distance(first, last) <= MaxSize
        /\ Call(v, InsertRange(vec[v], vec[v].size,
                               SubSeq(Elements(vec[w]), first.pos + 1, last.pos)))

\* The vector v is destroyed and a new one constructed in its storage; a
\* failed assert (ok) is not undone.
Rebuild(v, r) == vec' = [vec EXCEPT ![v] = [r EXCEPT !.ok = vec[v].ok]]

DoConstructN(v, n, x) == Rebuild(v, ConstructN(n, x))
DoConstructCopy(v, w) == v # w /\ Rebuild(v, ConstructCopy(vec[w]))
DoConstructMove(v, w) ==
    /\ v # w
    /\ vec' = [vec EXCEPT ![v] = [vec[w] EXCEPT !.ok = vec[v].ok], ![w] = MovedFrom(@)]

Next ==
    \/ \E v \in Vecs, n \in 0..MaxSize, x \in Values : DoConstructN(v, n, x)
    \/ \E v, w \in Vecs : DoConstructCopy(v, w) \/ DoConstructMove(v, w)
    \/ \E v \in Vecs, n \in 0..MaxSize, x \in Values :
          DoReserve(v, n) \/ DoResize(v, n, x) \/ DoAssign(v, n, x) \/ DoInsertN(v, n, x)
    \/ \E v \in Vecs, x \in Values : DoPushBack(v, x)
    \/ \E v \in Vecs : DoPopBack(v) \/ DoClear(v)
    \/ \E p \in CopyPairs : DoCopy(p[1], p[2])
    \/ \E v, w \in Vecs, i, j \in 0..(MaxSize + 1) : DoInsertRange(v, w, i, j)

Spec == Init /\ [][Next]_vec

-----------------------------------------------------------------------------

(***************************************************************************)
(* insert(end(), first, last) never trips insert's assert(position ==      *)
(* end()): the iterator insert returns, plus one, is the new end again.    *)
(***************************************************************************)
InsertStaysAtEnd == \A v \in Vecs : vec[v].ok

(***************************************************************************)
(* The iterators of every vector, as begin() + k gives them, are          *)
(* consistent: first + (last - first) is last and last - (last - first)    *)
(* is first, ++ then -- returns below the end, and the counting loop of   *)
(* insert(position, first, last) counts last - first values.               *)
(***************************************************************************)
IteratorsConsistent ==
    \A v \in Vecs : \A p, q \in 0..vec[v].size :
        LET a == It(p, vec[v].size)
            b == It(q, vec[v].size)
        IN  /\ IterPlus(a, IterDiff(b, a)) = b
            /\ IterMinus(b, IterDiff(b, a)) = a
            /\ p < vec[v].size => IterDec(IterInc(a)) = a
            /\ p <= q => Distance(a, b) = IterDiff(b, a)

(***************************************************************************)
(* The vector implements the sequence of VectorSeq: every member function *)
(* changes operator[]'s view of 0..size()-1 the way the sequence promises, *)
(* across every reallocation of reserve.                                   *)
(***************************************************************************)
Abstract == INSTANCE VectorSeq WITH elems <- [v \in Vecs |-> Elements(vec[v])]

Refines == Abstract!SeqSpec

=============================================================================
