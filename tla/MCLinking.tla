----------------------------- MODULE MCLinking -----------------------------
EXTENDS Linking

N(type, up, name) ==
    [type |-> type, up |-> up, name |-> name, parameters |-> <<>>, bases |-> <<>>]
Defined(type, up, name, parameters) == [N(type, up, name) EXCEPT !.parameters = parameters]
Class(up, name, bases) == [N("class", up, name) EXCEPT !.bases = bases]
Plain(name) == [name |-> name, arguments |-> <<>>]

\* Two words make one only where the trees below have them so.
Pairs ==
    << <<"f", "()">>, <<"* ", "f()">>, <<"g", "()">>, <<"* ", "g()">>, <<"* ", "a">>, <<"* ", "f">>, <<"f", "(a">>, <<"* ", "f(a">>,
       <<"B", "<b>">>, <<"B", "<a">> >>
Makes == <<"f()", "* f()", "g()", "* g()", "* a", "* f", "f(a", "* f(a", "B<b>", "B<a">>

SomeWords ==
    {"a", "b", "A", "B", "f", "g", "(anonymous)", "* ", "()", "(a", "A)", "<b>", "<a", "B>", "other"}
        \cup {Makes[k] : k \in DOMAIN Makes}
SomeGlued ==
    [p \in SomeWords \X SomeWords |->
        IF \E k \in DOMAIN Pairs : Pairs[k] = p
        THEN Makes[CHOOSE k \in DOMAIN Pairs : Pairs[k] = p] ELSE "other"]

\* The outermost scope: a namespace, one without a name, or none.
Outer == {N("namespace", 0, <<"a">>), N("namespace", 0, <<>>), N("group", 0, <<>>)}

Targets == {<<"f">>, <<"g">>, <<"A", "f">>}

\* A class with a constructor, a friend and a member defined outside it, and a
\* function beside it that may be defined behind a pointer.
Members ==
    {<<outer, Class(1, <<class>>, <<>>),
       N("function", 2, <<class>>), N("body", 3, <<>>), N("call", 4, target),
       N("function", 2, <<"f">>), N("friend", 2, <<>>), N("function", 7, <<"g">>),
       N("function", 1, <<class, "f">>), N("body", 9, <<>>), N("call", 10, target),
       definition, N("body", 12, <<>>), N("call", 13, target)>> :
       definition \in {N("function", 1, <<"g">>), Defined("pointer", 1, <<"g">>, <<"()">>)},
       outer \in Outer, class \in {"a", "A"}, target \in Targets}

\* B itself, and B with template arguments: B<b> and B<a::B>.
Same == Plain(<<"B">>)
OfB(arguments) == [name |-> <<"B">>, arguments |-> arguments]

\* Bases and scopes: b inside a, a base outside, inside, and nowhere.
Bases ==
    {<<N("namespace", 0, <<"a">>), Class(1, <<"B">>, <<>>),
       N("namespace", 1, <<"b">>), N("enum", 3, <<"f">>), Class(3, <<inner>>, <<>>),
       Class(3, <<"A">>, bases), N("error", 6, <<>>), N("function", 7, <<"g">>),
       N("function", 6, <<"f">>), N("body", 9, <<>>),
       Class(10, <<>>, <<>>), N("function", 11, <<"g">>), N("body", 12, <<>>), N("call", 13, <<"f">>)>> :
       inner \in {"b", "B"},
       bases \in {<<Same, Plain(<<"a", "B">>)>>, <<Same, Plain(<<"A">>)>>,
                  <<OfB(<<"<b>">>)>>, <<OfB(<<"<a", "B>">>), Plain(<<"A">>)>>}}

\* Templates of a class, a function, and an alias or a declaration behind a
\* pointer.
Templates ==
    {<<outer, N("template", 1, <<>>), Class(2, <<"A">>, <<Plain(<<"B">>)>>), N("function", 3, <<"f">>),
       N("template", 1, <<>>), N("function", 5, <<"g">>), N("body", 6, <<>>), N("call", 7, target),
       N("template", 1, <<>>), last,
       Class(0, <<"B">>, <<>>)>> : last \in {N("group", 9, <<>>), N("variable", 9, <<"* f()">>)}, outer \in Outer, target \in Targets}

\* A source file beside a header with the class.
Definitions ==
    {<<N("include", 0, <<"A">>), definition, N("body", 2, <<>>), N("call", 3, target),
       IF definition.type = "pointer" THEN N("variable", 0, <<"* f()">>) ELSE N("function", 0, <<"f">>),
       N("function", 0, <<>>), N("error", 0, <<>>), N("include", 7, <<"b">>),
       N("function", 0, <<"A", "A">>), N("body", 9, <<>>), N("call", 10, <<"f">>)>> :
       target \in Targets,
       definition \in {N("function", 0, <<"a", "A", "f">>)} \cup
           {Defined("pointer", 0, name, parameters) :
              name \in {<<"a", "A", "f">>, <<"f">>}, parameters \in {<<"()">>, <<"(a", "A)">>}}}

SomeTrees == Members \cup Bases \cup Templates \cup Definitions

SomeSources ==
    {<<t>> : t \in SomeTrees} \cup (Definitions \X Members) \cup (Members \X Definitions)
        \cup (Templates \X Bases)
=============================================================================
