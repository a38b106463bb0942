---------------------------- MODULE MCRetrieval ----------------------------
EXTENDS Retrieval

Rel(name, file, tokens) == [name |-> name, file |-> file, tokens |-> tokens]
Sym(name, module, file, kind, source, callers) ==
    [name |-> name, module |-> module, file |-> file, kind |-> kind, line |-> 1,
     signature |-> IF kind > 3 THEN 1 ELSE 0, source |-> source,
     callers |-> callers, callees |-> IF source = 1 THEN {Rel(1, 1, 2)} ELSE {}]

\* File 1 is a header, 2 and 3 are not.  Callers enough to be cut, two of them
\* alike, and sources that fill the context or leave room.
Many == {Rel(1, 1, 2), Rel(2, 2, 3), Rel(3, 1, 2), Rel(3, 1, 4)}

A1 == Sym(1, 1, 1, 1, 1, Many)
A2 == Sym(2, 1, 2, 0, 9, {})
A3 == Sym(3, 1, 2, 4, 0, {Rel(1, 1, 2)})
A4 == Sym(3, 1, 1, 5, 0, {})
B1 == Sym(2, 2, 1, 5, 2, {Rel(2, 2, 3)})
B2 == Sym(2, 2, 1, 4, 2, {})
C1 == Sym(3, 3, 3, 1, 4, Many)

SomeSymbols == {A1, A2, A3, A4, B1, B2, C1}
\* C1 is in Qdrant also while the corpus does not hold it.
SomePoints == {A1, C1}
SomeCorpora == {<<>>, <<A2, A4, A1, A3>>, <<B1, C1, B2>>, <<A3, B1, A1, C1, A2>>}

SomeQueries ==
    {[modules |-> m, symbols |-> s] :
        m \in [1..3 \cup {Stray} -> 0..1], s \in {[n \in 1..3 |-> 0], [n \in 1..3 |-> n]}}
=============================================================================
