------------------------------- MODULE Linking -------------------------------
(***************************************************************************)
(* What Indexer::process_files (core/src/indexer.cpp) makes of the files   *)
(* of one pass: each is parsed in turn, then SymbolLookup resolves the     *)
(* calls and bases of every symbol to symbols of the pass.  Parser is the  *)
(* parsing; the passes, their failures and the stores are in Indexer,      *)
(* which takes the names as given.  A symbol is its position in the pass,  *)
(* as its id is.                                                           *)
(***************************************************************************)
EXTENDS Parser

CONSTANT Sources   \* the files of a pass, in the order of their paths

ASSUME SourcesAreTrees == Sources \subseteq Seq(Trees) \ {<<>>}

VARIABLES
    sources,       \* the files of this pass
    at,            \* the file that is parsed
    rows,          \* pending_symbols: the symbols of the files before it
    calls,         \* call edges, <<caller, callee>>
    inheritance,   \* inheritance edges, <<derived, base>>
    linked

linkVars == <<sources, at, rows, calls, inheritance, linked>>
vars == <<parserVars, linkVars>>

Init ==
    /\ sources \in Sources /\ at = 1 /\ tree = sources[1]
    /\ rows = <<>> /\ calls = {} /\ inheritance = {} /\ linked = FALSE
    /\ ParserInit

-----------------------------------------------------------------------------
(* SymbolLookup, over the symbols of the pass.                             *)

Lowest(S) == CHOOSE i \in S : \A j \in S : i <= j

Named(name) == {j \in DOMAIN rows : rows[j].name = name}
ShortNamed(name) == {j \in DOMAIN rows : Leaf(rows[j].name) = name}

\* Variant: of several symbols the last one is kept.
LastOf(S) == CHOOSE i \in S : \A j \in S : j <= i

\* try_emplace keeps the first symbol of a name.
Kept(S) == Lowest(S)

\* candidate_names: from the innermost scope of the current name outwards; a
\* target with "::" stands for itself.  Variant: from the outermost inwards.
CandidatesOutside(target, current) ==
    IF Len(target) > 1 THEN <<target>>
    ELSE [k \in 1..Len(current) |-> SubSeq(current, 1, k - 1) \o target]
CandidateNames(target, current) ==
    IF Len(target) > 1 THEN <<target>>
    ELSE [k \in 1..Len(current) |-> SubSeq(current, 1, Len(current) - k) \o target]

FirstShortNamed(target) ==
    IF ShortNamed(target) = {} THEN {} ELSE {Lowest(ShortNamed(target))}

\* resolve(): the first candidate that is a symbol, else the symbol that was
\* first with the short name; a target with "::" is no short name.
Resolved(target, current) ==
    LET names == CandidateNames(target, current)
        exact == {k \in DOMAIN names : Named(names[k]) # {}}
    IN  IF exact # {} THEN {Kept(Named(names[Lowest(exact)]))}
        ELSE FirstShortNamed(target)

\* The edges of the symbols from one of their lists of names.
Edges(targets) ==
    UNION {{i} \X UNION {Resolved(target, rows[i].name) : target \in targets[i]} :
             i \in DOMAIN rows}

-----------------------------------------------------------------------------

Parse == at <= Len(sources) /\ Walk /\ UNCHANGED linkVars

FinishFile ==
    /\ at <= Len(sources) /\ pending = <<>>
    /\ rows' = rows \o symbols
    /\ at' = at + 1
    /\ IF at < Len(sources)
       THEN /\ tree' = sources[at + 1]
            /\ pending' = Started(sources[at + 1])
            /\ symbols' = <<>> /\ known' = {}
       ELSE UNCHANGED parserVars
    /\ UNCHANGED <<sources, calls, inheritance, linked>>

Link ==
    /\ at > Len(sources) /\ ~ linked
    /\ calls' = Edges([i \in DOMAIN rows |-> rows[i].calls])
    /\ inheritance' = Edges([i \in DOMAIN rows |-> rows[i].bases])
    /\ linked' = TRUE
    /\ UNCHANGED <<parserVars, sources, at, rows>>

Next == Parse \/ FinishFile \/ Link

Spec == Init /\ [][Next]_vars

-----------------------------------------------------------------------------
(* Properties.                                                             *)

\* The symbols of the last file of the pass are the last of the pass.
Row(s) == Len(rows) - Len(symbols) + s

\* The scopes a function is in, as C++ has them.
ScopesOf(c) == Path(c) \o Qualifier(tree[c].name)

\* The name of a function's symbol tells its scopes.  Three do not: that of a
\* definition behind a pointer with a "::" in its declarator, as in
\* T* a::A::f() {}, whose first scope is then "* a"; that of a constructor in a
\* class at the top, or of anything else named as all the scopes around it,
\* which has none; and a name that repeats those scopes.
TellsScopes(c) ==
    LET name == FunctionLikeName(tree[c]) IN
    /\ IsFunctionLike(c)
    /\ tree[c].type = "pointer" => Len(tree[c].name) = 1 /\ Len(tree[c].parameters) <= 1
    /\ Path(c) = <<>> \/ ~ StartsWith(name, Path(c))

\* A call by a bare name reaches the innermost of the scopes around the caller
\* that declares the name, as it does in C++, whatever declarations of that
\* name are in other scopes or files and in whatever order they come.  The
\* parser has no more to say where those scopes are than the caller's name,
\* and the lookup takes them from there (parser.cpp:179-196, 332-370,
\* indexer.cpp:66-96, 176-195).
CallsReachInnermost ==
    linked => \A s \in DOMAIN symbols :
        LET scopes == ScopesOf(symbols[s].line) IN
        TellsScopes(symbols[s].line) => \A target \in symbols[s].calls :
            LET around == {n \in 0..Len(scopes) : Named(SubSeq(scopes, 1, n) \o target) # {}}
            IN  Len(target) = 1 /\ around # {} =>
                \E e \in calls :
                    /\ e[1] = Row(s)
                    /\ \E n \in around : /\ \A m \in around : m <= n
                                         /\ rows[e[2]].name = SubSeq(scopes, 1, n) \o target

\* However a call was resolved, by its full name or by its short one, the
\* callers of one name are all kept at one symbol: a declaration and a
\* definition of the same name never share them out (indexer.cpp:66-96).
CallersTogether ==
    \A e \in calls, j \in DOMAIN rows : rows[j].name = rows[e[2]].name => e[2] <= j

\* A base that is declared in the scope around its class has its edge: the
\* parser and the lookup must agree on that scope (parser.cpp:198-218,
\* 477-504, indexer.cpp:565-571).  One declared further out has none: the
\* parser puts the scope before it, and the lookup looks no further.  Nor has
\* one with template arguments: they stay in the text of the base and are no
\* part of the template's name.  A class that is declared by a qualified name
\* is searched from the scope that this name says, and is left out.
BasesNextToClassFound ==
    linked => \A s \in DOMAIN symbols :
        LET c == symbols[s].line IN
        tree[c].type = "class" /\ Len(SymbolName(c)) = 1 =>
            \A b \in DOMAIN tree[c].bases :
                LET base == tree[c].bases[b]
                    full == Path(c) \o base.name
                IN  Len(base.name) = 1 /\ base.arguments = <<>> /\ Named(full) # {} =>
                        \E e \in inheritance : e[1] = Row(s) /\ rows[e[2]].name = full

=============================================================================
