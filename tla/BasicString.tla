----------------------------- MODULE BasicString -----------------------------
(***************************************************************************)
(* stl::basic_string of src/Libraries/stl/string.h: a string object holds *)
(* m_content, a pointer to a reference-counted dynamic_info shared by the *)
(* copies made with assign(str), and copied on the first write             *)
(* (own_content).  The dynamic_info objects are the pool Infos; a free    *)
(* one has m_ref_count 0.  A slot of m_data no one has written holds Junk; *)
(* the terminator is NUL.  A null m_content dereferenced stops the program *)
(* (fault).                                                                 *)
(*                                                                         *)
(* Each member function is an operator from a state [content, info] to     *)
(* the next, so that one that calls another (reserve calls own_content)    *)
(* composes them in the code's order.                                      *)
(***************************************************************************)
EXTENDS Integers, Sequences, FiniteSets

CONSTANTS
    Strs,      \* the string objects
    Infos,     \* the dynamic_info objects the allocator can hand out
    Chars,     \* the characters, as their codes
    NUL,       \* '\0'
    Junk,      \* an unwritten byte of an allocated area
    Null,      \* a null m_content
    Align,     \* reserve rounds (size + 1) up to a multiple of this (32)
    MaxLen     \* model bound: characters in a string

ASSUME /\ Chars \subseteq Nat /\ NUL \notin Chars /\ Junk \notin Chars /\ Null \notin Infos
       /\ Cardinality(Infos) >= Cardinality(Strs)

VARIABLES
    content,   \* m_content of each string
    info,      \* each dynamic_info: m_ref_count, m_size, m_capacity, m_data
    fault      \* a null m_content was dereferenced

vars == <<content, info, fault>>

Bytes == Chars \cup {NUL, Junk}

\* An area of c slots: the first k taken from d, the rest unwritten.
Area(d, k, c) == [i \in 0..(c - 1) |-> IF i < k THEN d[i] ELSE Junk]

FreeInfo == [rc |-> 0, size |-> 0, cap |-> 0, data |-> Area(<<>>, 0, 0)]

\* The state as one record, so that member functions compose.
Cur == [content |-> content, info |-> info, fault |-> fault]

\* size()
Size(st, s) == IF st.content[s] = Null THEN 0 ELSE st.info[st.content[s]].size

\* The characters 0..size()-1 of s.
Elements(st, s) ==
    IF st.content[s] = Null THEN <<>>
    ELSE LET d == st.info[st.content[s]] IN [i \in 1..d.size |-> d.data[i - 1]]

\* new dynamic_info: a free object of the pool.
NewInfo(st) == CHOOSE i \in Infos : st.info[i].rc = 0

\* Replace the dynamic_info of string s by d.
Upd(st, s, d) == [st EXCEPT !.info[st.content[s]] = d]

(***************************************************************************)
(* own_content(): a string without content gets a new empty one; a shared *)
(* one gets a copy made by dynamic_info(const dynamic_info&), which copies *)
(* m_size characters into m_capacity new ones, and the old one loses a     *)
(* reference.                                                              *)
(***************************************************************************)
OwnContentKeepRef(st, s) ==
    LET c == st.content[s] IN
    IF c = Null
    THEN LET n == NewInfo(st) IN
         [st EXCEPT !.content[s] = n, !.info[n] = [FreeInfo EXCEPT !.rc = 1]]
    ELSE IF st.info[c].rc > 1
    THEN LET n == NewInfo(st)
             o == st.info[c]
         IN  [st EXCEPT !.content[s] = n,
                        !.info[n] = [rc |-> 1, size |-> o.size, cap |-> o.cap,
                                     data |-> Area(o.data, o.size, o.cap)]]
    ELSE st

OwnContent(st, s) ==
    LET c == st.content[s] IN
    IF c = Null
    THEN LET n == NewInfo(st) IN
         [st EXCEPT !.content[s] = n, !.info[n] = [FreeInfo EXCEPT !.rc = 1]]
    ELSE IF st.info[c].rc > 1
    THEN LET n == NewInfo(st)
             o == st.info[c]
         IN  [st EXCEPT !.content[s] = n,
                        !.info[n] = [rc |-> 1, size |-> o.size, cap |-> o.cap,
                                     data |-> Area(o.data, o.size, o.cap)],
                        !.info[c].rc = o.rc - 1]
    ELSE st

\* release_content(): drop a reference, free the content at zero.
ReleaseContent(st, s) ==
    LET c == st.content[s] IN
    IF c = Null THEN st
    ELSE [st EXCEPT !.content[s] = Null,
                    !.info[c] = IF st.info[c].rc = 1 THEN FreeInfo
                                ELSE [@ EXCEPT !.rc = @ - 1]]

\* (size + 1 + 31) & ~31
RoundUpNoNul(n) == ((n + Align - 1) \div Align) * Align
RoundUp(n) == ((n + 1 + Align - 1) \div Align) * Align

\* reserve(size): own the content, then grow it, copying m_size characters.
Reserve(st, s, n) ==
    LET q == OwnContent(st, s)
        d == q.info[q.content[s]]
    IN  IF RoundUp(n) > d.cap
        THEN Upd(q, s, [d EXCEPT !.cap = RoundUp(n),
                                 !.data = Area(d.data, d.size, RoundUp(n))])
        ELSE q

\* Set slots lo..hi-1 of an area to b.
Fill(a, lo, hi, b) == [i \in DOMAIN a |-> IF lo <= i /\ i < hi THEN b ELSE a[i]]

\* resize(size, c): pad with c up to size, terminate, set m_size.
Resize(st, s, n, ch) ==
    LET q == Reserve(st, s, n)
        d == q.info[q.content[s]]
        e == IF d.size < n THEN Fill(d.data, d.size, n, ch) ELSE d.data
    IN  Upd(q, s, [d EXCEPT !.size = n, !.data = Fill(e, n, n + 1, NUL)])

\* clear(): own the content and set m_size to 0.
Clear(st, s) ==
    LET q == OwnContent(st, s) IN
    Upd(q, s, [q.info[q.content[s]] EXCEPT !.size = 0])

\* append(const charT* src, n), append(n, c) and push_back(c): reserve,
\* then the characters at m_size.., the terminator, m_size += n.
AppendChars(st, s, src) ==
    LET n == Len(src)
        q == Reserve(st, s, Size(st, s) + n)
        d == q.info[q.content[s]]
        e == [i \in DOMAIN d.data |->
                IF d.size <= i /\ i < d.size + n THEN src[i - d.size + 1]
                ELSE IF i = d.size + n THEN NUL ELSE d.data[i]]
    IN  Upd(q, s, [d EXCEPT !.size = d.size + n, !.data = e])

\* append(str): nothing for an empty str, else append(str.data(), size).
\* The characters are read through str.data(), taken before the reserve.
AppendStr(st, s, t) ==
    IF Size(st, t) = 0 THEN st ELSE AppendChars(st, s, Elements(st, t))

(***************************************************************************)
(* assign(str): release this content, then share str's and count the      *)
(* reference.  str.m_content is read after the release: a null one is      *)
(* dereferenced, which for str == *this is always the case.                *)
(***************************************************************************)
AssignStr(st, s, t) ==
    LET q == ReleaseContent(st, s)
        c == q.content[t]
    IN  IF c = Null THEN [st EXCEPT !.fault = TRUE]
        ELSE [q EXCEPT !.content[s] = c, !.info[c].rc = @ + 1]

\* assign(n, c): release, reserve(n), n copies of c and the terminator.
AssignN(st, s, n, ch) ==
    LET q == Reserve(ReleaseContent(st, s), s, n)
        d == q.info[q.content[s]]
    IN  Upd(q, s, [d EXCEPT !.size = n,
                            !.data = Fill(Fill(d.data, 0, n, ch), n, n + 1, NUL)])

\* assign(const charT* src, n): release, reserve(n), copy, terminate.
AssignChars(st, s, src) ==
    LET n == Len(src)
        q == Reserve(ReleaseContent(st, s), s, n)
        d == q.info[q.content[s]]
    IN  Upd(q, s, [d EXCEPT !.size = n,
                            !.data = [i \in DOMAIN d.data |->
                                        IF i < n THEN src[i + 1]
                                        ELSE IF i = n THEN NUL ELSE d.data[i]]])

\* The characters subpos.. of str, at most sublen of them.
SubChars(st, t, pos, len) ==
    LET e == Elements(st, t) IN
    SubSeq(e, pos + 1, IF len > Len(e) - pos THEN Len(e) ELSE pos + len)

(***************************************************************************)
(* assign(str, subpos, sublen): assert(subpos <= str.size()), clamp        *)
(* sublen, then assign(str.data() + subpos, sublen), whose source is read  *)
(* after this string's release_content.                                    *)
(***************************************************************************)
AssignSub(st, s, t, pos, len) ==
    IF pos > Size(st, t) THEN [st EXCEPT !.fault = TRUE]
    ELSE AssignChars(st, s, SubChars(st, t, pos, len))

(***************************************************************************)
(* The constructors, on a string whose m_content is null (default-built,  *)
(* or destroyed by ~basic_string, which is release_content).              *)
(* basic_string(str, pos, len) (and basic_string(str, alloc), which is    *)
(* pos 0, len length()): for pos < str.length(), clamp len, reserve(len),  *)
(* copy len characters, m_size = len; the terminator is not written.       *)
(***************************************************************************)
ConstructSub(st, s, t, pos, len) ==
    IF pos >= Size(st, t) THEN st
    ELSE LET src == SubChars(st, t, pos, len)
             q   == Reserve(st, s, Len(src))
             d   == q.info[q.content[s]]
         IN  Upd(q, s, [d EXCEPT !.size = Len(src),
                                 !.data = [i \in DOMAIN d.data |->
                                             IF i < Len(src) THEN src[i + 1] ELSE d.data[i]]])

\* basic_string(const charT* src, n) and basic_string(n, c): for n > 0,
\* reserve(n), copy, terminate, m_size = n.
ConstructChars(st, s, src) == IF src = <<>> THEN st ELSE AssignChars(st, s, src)

\* basic_string(basic_string&& str): take str's m_content, null str's.
ConstructMove(st, s, t) == [st EXCEPT !.content[s] = st.content[t], !.content[t] = Null]

\* s[pos] = c through the non-const operator[], which owns the content first.
WriteNoOwn(st, s, pos, ch) ==
    Upd(st, s, [st.info[st.content[s]] EXCEPT !.data[pos] = ch])
Write(st, s, pos, ch) ==
    LET q == OwnContent(st, s) IN
    Upd(q, s, [q.info[q.content[s]] EXCEPT !.data[pos] = ch])

(***************************************************************************)
(* The non-const accessors own the content first.  at(pos) then asserts   *)
(* pos < m_size; front() and back() return m_data[0] and m_data[m_size]   *)
(* (the terminator, not the last character), so only the detach is state. *)
(***************************************************************************)
At(st, s, pos) ==
    LET q == OwnContent(st, s) IN
    IF pos < Size(q, s) THEN q ELSE [q EXCEPT !.fault = TRUE]
Access(st, s) == OwnContent(st, s)

(***************************************************************************)
(* operator+ builds a new string ret: ret.reserve(the two lengths), then  *)
(* ret += lhs and ret += rhs, which are append(str), append of a C string *)
(* and push_back(c); ret is the string s.  The C-string and the character *)
(* operand are both a sequence of characters.                              *)
(***************************************************************************)
Concat(st, s, a, b) ==
    AppendStr(AppendStr(Reserve(st, s, Size(st, a) + Size(st, b)), s, a), s, b)
ConcatChars(st, s, a, src) ==
    AppendChars(AppendStr(Reserve(st, s, Size(st, a) + Len(src)), s, a), s, src)
CharsConcat(st, s, src, b) ==
    AppendStr(AppendChars(Reserve(st, s, Len(src) + Size(st, b)), s, src), s, b)

(***************************************************************************)
(* char_traits<char>::compare(p, q, n): at the first of n positions where *)
(* the characters differ, -1 if p's is the lower, else 1; 0 if none does. *)
(***************************************************************************)
TraitsCompare(p, q, n) ==
    LET diff == {i \in 1..n : p[i] # q[i]} IN
    IF diff = {} THEN 0
    ELSE LET i == CHOOSE j \in diff : \A k \in diff : j <= k
         IN  IF p[i] < q[i] THEN -1 ELSE 1

(***************************************************************************)
(* compare(str) is compare(0, size(), str.data(), str.size()): with n =    *)
(* str.size() <= len it compares n characters and gives -1 if they match   *)
(* and n < len; otherwise it compares len characters and gives 1 if they  *)
(* match.                                                                  *)
(***************************************************************************)
\* Mutant: a matching prefix of a longer string compares equal.
CompareNoPrefix(st, s, t) ==
    LET a == Elements(st, s)
        b == Elements(st, t)
        len == Len(a)
        n == Len(b)
    IN  IF n <= len THEN TraitsCompare(a, b, n)
        ELSE LET rv == TraitsCompare(a, b, len) IN IF rv = 0 THEN 1 ELSE rv

Compare(st, s, t) ==
    LET a == Elements(st, s)
        b == Elements(st, t)
        len == Len(a)
        n == Len(b)
    IN  IF n <= len
        THEN LET rv == TraitsCompare(a, b, n) IN IF rv = 0 /\ n < len THEN -1 ELSE rv
        ELSE LET rv == TraitsCompare(a, b, len) IN IF rv = 0 THEN 1 ELSE rv

\* swap(str): exchange the content pointers.
Swap(st, s, t) == [st EXCEPT !.content[s] = st.content[t], !.content[t] = st.content[s]]

-----------------------------------------------------------------------------

TypeOK ==
    /\ content \in [Strs -> Infos \cup {Null}]
    /\ fault \in BOOLEAN
    /\ \A i \in Infos :
          /\ info[i].rc \in 0..Cardinality(Strs)
          /\ info[i].size \in 0..MaxLen
          /\ info[i].cap \in 0..RoundUp(MaxLen)
          /\ info[i].data \in [0..(info[i].cap - 1) -> Bytes]
          \* room for the terminator once an area is allocated
          /\ info[i].cap > 0 => info[i].size < info[i].cap

\* The C strings a caller passes: up to MaxLen characters, no NUL.
CStrs == UNION {[1..n -> Chars] : n \in 0..MaxLen}

Init ==
    /\ content = [s \in Strs |-> Null]
    /\ info = [i \in Infos |-> FreeInfo]
    /\ fault = FALSE

\* Run member function call r on the current state.
Call(r) == /\ ~fault
           /\ content' = r.content /\ info' = r.info /\ fault' = r.fault

Next ==
    \/ \E s \in Strs, n \in 0..MaxLen, ch \in Chars :
          \/ Call(Resize(Cur, s, n, ch))
          \/ Call(AssignN(Cur, s, n, ch))
          \/ Size(Cur, s) + n <= MaxLen /\ Call(AppendChars(Cur, s, [i \in 1..n |-> ch]))
    \/ \E s \in Strs, n \in 0..MaxLen : Call(Reserve(Cur, s, n))
    \/ \E s \in Strs, ch \in Chars, pos \in 0..(MaxLen - 1) :
          pos < Size(Cur, s) /\ Call(Write(Cur, s, pos, ch))
    \/ \E s \in Strs : Call(Clear(Cur, s)) \/ Call(ReleaseContent(Cur, s))
    \/ \E s, t \in Strs :
          \/ Call(AssignStr(Cur, s, t))
          \/ s # t /\ Size(Cur, s) + Size(Cur, t) <= MaxLen /\ Call(AppendStr(Cur, s, t))
          \/ s # t /\ Call(Swap(Cur, s, t))
          \/ s # t /\ content[s] = Null /\ Call(ConstructMove(Cur, s, t))
    \/ \E s, t \in Strs, pos, len \in 0..MaxLen :
          /\ s # t
          /\ \/ Call(AssignSub(Cur, s, t, pos, len))
             \/ content[s] = Null /\ Call(ConstructSub(Cur, s, t, pos, len))
    \/ \E s \in Strs, pos \in 0..MaxLen : Call(At(Cur, s, pos))
    \/ \E s \in Strs : Call(Access(Cur, s))
    \/ \E s \in Strs : \E a, b \in Strs \ {s} :
          /\ content[s] = Null /\ Size(Cur, a) + Size(Cur, b) <= MaxLen
          /\ Call(Concat(Cur, s, a, b))
    \/ \E s \in Strs, src \in CStrs : \E a \in Strs \ {s} :
          /\ content[s] = Null /\ Size(Cur, a) + Len(src) <= MaxLen
          /\ \/ Call(ConcatChars(Cur, s, a, src))
             \/ Call(CharsConcat(Cur, s, src, a))
    \/ \E s \in Strs, src \in CStrs :
          \/ Call(AssignChars(Cur, s, src))
          \/ content[s] = Null /\ Call(ConstructChars(Cur, s, src))
          \/ Size(Cur, s) + Len(src) <= MaxLen /\ Call(AppendChars(Cur, s, src))

Spec == Init /\ [][Next]_vars

-----------------------------------------------------------------------------

(***************************************************************************)
(* Every dynamic_info's m_ref_count is the number of strings pointing at   *)
(* it, through the copies of own_content, the releases of assign and the   *)
(* destructor, and swap: a content is freed exactly when its last string   *)
(* lets go of it.                                                          *)
(***************************************************************************)
RefCountExact ==
    \A i \in Infos : info[i].rc = Cardinality({s \in Strs : content[s] = i})

(***************************************************************************)
(* The relational operators of two strings, lhs.compare(rhs) op 0, agree  *)
(* with their characters, whatever contents they share: == holds exactly  *)
(* when the characters are equal, and lhs < rhs exactly when rhs > lhs.   *)
(* (That order puts a string below its proper prefixes, not above.)       *)
(***************************************************************************)
CompareConsistent ==
    \A s, t \in Strs :
        /\ (Compare(Cur, s, t) = 0) = (Elements(Cur, s) = Elements(Cur, t))
        /\ (Compare(Cur, s, t) < 0) = (Compare(Cur, t, s) > 0)

(***************************************************************************)
(* The strings have value semantics: copy-on-write sharing is invisible,  *)
(* each string's characters 0..size()-1 change as StringValue says.        *)
(***************************************************************************)
Abstract == INSTANCE StringValue WITH val <- [s \in Strs |-> Elements(Cur, s)]

ValueRefines == Abstract!ValueSpec

=============================================================================
