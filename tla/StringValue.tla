----------------------------- MODULE StringValue -----------------------------
(***************************************************************************)
(* What stl::basic_string promises: every string object holds its own     *)
(* sequence of characters.  Copies are values; writing through one string *)
(* never changes another, whatever storage they share underneath.          *)
(***************************************************************************)
EXTENDS Naturals, Sequences

CONSTANTS Strs, Chars, MaxLen

VARIABLE val

ValueTypeOK == val \in [Strs -> Seq(Chars)]

ValueInit == val = [s \in Strs |-> <<>>]

Set(s, x) == val' = [val EXCEPT ![s] = x]

Copies(n, c) == [i \in 1..n |-> c]

\* The C strings a caller passes.
CStrs == UNION {[1..n -> Chars] : n \in 0..MaxLen}

\* At most len characters of x from position pos (counted from 0).
Sub(x, pos, len) == SubSeq(x, pos + 1, IF len > Len(x) - pos THEN Len(x) ELSE pos + len)

ValueNext ==
    \/ \E s \in Strs, n \in 0..MaxLen, c \in Chars :
          \/ Set(s, IF n > Len(val[s]) THEN val[s] \o Copies(n - Len(val[s]), c)
                    ELSE SubSeq(val[s], 1, n))                      \* resize
          \/ Len(val[s]) + n <= MaxLen /\ Set(s, val[s] \o Copies(n, c))  \* append
          \/ Set(s, Copies(n, c))                                   \* assign(n, c)
    \/ \E s \in Strs, c \in Chars, i \in 1..MaxLen :                \* s[i - 1] = c
          i <= Len(val[s]) /\ Set(s, [val[s] EXCEPT ![i] = c])
    \/ \E s \in Strs : Set(s, <<>>)                                 \* clear, destroy
    \/ \E s, t \in Strs :
          \/ Set(s, val[t])                                         \* assign(t)
          \/ Len(val[s]) + Len(val[t]) <= MaxLen /\ Set(s, val[s] \o val[t])
          \/ val' = [val EXCEPT ![s] = val[t], ![t] = val[s]]       \* swap
          \/ s # t /\ val' = [val EXCEPT ![s] = val[t], ![t] = <<>>] \* move
    \/ \E s, t \in Strs, pos, len \in 0..MaxLen :                    \* substring
          s # t /\ Set(s, Sub(val[t], pos, len))
    \/ \E s \in Strs : \E a, b \in Strs \ {s} :                         \* a + b
          Len(val[a]) + Len(val[b]) <= MaxLen /\ Set(s, val[a] \o val[b])
    \/ \E s \in Strs, x \in CStrs : \E a \in Strs \ {s} :               \* a + x, x + a
          /\ Len(val[a]) + Len(x) <= MaxLen
          /\ Set(s, val[a] \o x) \/ Set(s, x \o val[a])
    \/ \E s \in Strs, x \in CStrs :
          \/ Set(s, x)                                              \* from a C string
          \/ Len(val[s]) + Len(x) <= MaxLen /\ Set(s, val[s] \o x)

ValueSpec == ValueInit /\ [][ValueNext]_val

=============================================================================
