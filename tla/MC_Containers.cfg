CONSTANTS
    v1 = v1
    v2 = v2
    Vecs = {v1, v2}
    Values = {x1, x2}
    None = None
    Align = 2
    MaxSize = 3
    CopyPairs <- MCCopyPairs
    Strs = {s1, s2}
    Infos = {i1, i2}
    Chars = {1, 2}
    NUL = NUL
    Junk = Junk
    Null = Null
    MaxLen = 2
SPECIFICATION Spec
INVARIANTS
    VectorTypeOK
    InsertStaysAtEnd
    IteratorsConsistent
    StringTypeOK
    RefCountExact
    CompareConsistent
PROPERTIES
    VectorRefines
    StringRefines
\* A null m_content dereferenced (assign from an empty or the same string)
\* stops the program.
CHECK_DEADLOCK FALSE
