---------------------------- MODULE MC_Containers ----------------------------
(***************************************************************************)
(* The two container libraries, astl::vector (Vector) and stl::string      *)
(* (BasicString), checked in one run.  They share no state, so a behaviour *)
(* exercises one of them and leaves the other as constructed: interleaving *)
(* them would only multiply the states.                                    *)
(*                                                                         *)
(* Vectors: two of up to three values out of two, capacities rounded to    *)
(* multiples of 2 so that reserve reallocates at sizes 1 and 3; each is    *)
(* assigned from the other.  Strings: two strings of up to two characters  *)
(* out of two, sharing through assign, (size + 1) rounded to multiples of  *)
(* 2 so that reserve reallocates and copies a character on the way to two. *)
(***************************************************************************)
EXTENDS Naturals

CONSTANTS Vecs, Values, None, Align, MaxSize, CopyPairs,
          Strs, Infos, Chars, NUL, Junk, Null, MaxLen,
          v1, v2

VARIABLES vec, content, info, fault, lib

V == INSTANCE Vector
S == INSTANCE BasicString

MCCopyPairs == {<<v1, v2>>, <<v2, v1>>}

Init == /\ V!Init /\ S!Init
        /\ lib \in {"vector", "string"}

Next == \/ lib = "vector" /\ V!Next /\ UNCHANGED <<content, info, fault, lib>>
        \/ lib = "string" /\ S!Next /\ UNCHANGED <<vec, lib>>

Spec == Init /\ [][Next]_<<vec, content, info, fault, lib>>

VectorTypeOK == V!TypeOK
InsertStaysAtEnd == V!InsertStaysAtEnd
IteratorsConsistent == V!IteratorsConsistent
VectorRefines == V!Refines
StringTypeOK == S!TypeOK
RefCountExact == S!RefCountExact
CompareConsistent == S!CompareConsistent
StringRefines == S!ValueRefines
=============================================================================
