------------------------------- MODULE Parser -------------------------------
(***************************************************************************)
(* core/src/parser.cpp: the walk of SymbolCollector over the syntax tree   *)
(* of one file, which emits the symbols of the file.  The tree itself is   *)
(* tree-sitter's: a sequence of nodes in the order of the source, each     *)
(* with the node above it (0 is the translation unit).  A name is the      *)
(* sequence of its words, "::" between them, as normalize_qualified_name   *)
(* leaves it: trimmed, without template arguments.  Two texts are not names *)
(* but source as it is written: the declarator of a definition behind a    *)
(* pointer, and a base with its template arguments.  Signatures are left   *)
(* out and a symbol's line is its node.  The calls of C++ are iteration    *)
(* here: pending is what the frames of walk have still to visit.           *)
(***************************************************************************)
EXTENDS Integers, Sequences, FiniteSets

CONSTANTS
    Words,         \* the words names are made of
    Anonymous,     \* "(anonymous)"
    Star,          \* the "*" of a pointer_declarator
    Glued,         \* Glued[<<v, w>>]: the word that v and w make one after the other
    Trees          \* the syntax trees a file may have

NodeTypes ==
    {"namespace", "class", "enum", "template",
     "function",   \* a declaration or definition whose declarator is a function's,
                  \* or a reference, as in T& x;, which the code does not tell apart
     "pointer",    \* a definition whose declarator is a pointer's, as in T* f() {}
     "variable",   \* a declaration with any other declarator, whose text is its name
     "friend", "body", "call", "include", "error",
     "group"}      \* every other node, declarations without a declarator among them

\* What is between two "::" is a word, in a name and in a text that follows one:
\* the parameters of a "pointer" to the end of its declarator, and the template
\* arguments of a base, <<>> when it has none.
Name == Seq(Words)
Base == [name : Name, arguments : Name]
Node == [type : NodeTypes, up : Nat, name : Name, parameters : Name, bases : Seq(Base)]

ASSUME WordsAreNamed ==
    Anonymous \in Words /\ Star \in Words /\ Glued \in [Words \X Words -> Words]
\* Between a node and one below it there are only nodes below it.
ASSUME TreesAreInOrder ==
    \A t \in Trees :
        /\ t \in Seq(Node)
        /\ \A i \in DOMAIN t : t[i].up < i /\ \A j \in (t[i].up + 1)..(i - 1) : t[j].up >= t[i].up

VARIABLES
    tree,       \* the file that is parsed
    pending,    \* nodes to visit: [node, scopes, class_depth]
    symbols,    \* what was emitted: [kind, name, line, calls, bases, includes]
    known       \* known_classes_

parserVars == <<tree, pending, symbols, known>>

-----------------------------------------------------------------------------
(* The tree.                                                               *)

Above(i) ==
    LET above[j \in 0..Len(tree)] == IF j = 0 THEN {0} ELSE {j} \cup above[tree[j].up]
    IN  above[i]

\* The nodes at or below i that no broken node hides.
Within(i) ==
    {j \in i..Len(tree) : /\ i \in Above(j)
                          /\ \A k \in Above(j) : k >= i /\ k # 0 => tree[k].type # "error"}

ChildrenIn(t, i) ==
    LET upTo[n \in 0..Len(t)] ==
          IF n = 0 THEN <<>>
          ELSE IF t[n].up = i THEN Append(upTo[n - 1], n) ELSE upTo[n - 1]
    IN  upTo[Len(t)]
Children(i) == ChildrenIn(tree, i)

HasAncestor(i, type) == \E j \in Above(i) \ {0, i} : tree[j].type = type

-----------------------------------------------------------------------------
(* Names.                                                                  *)

StartsWith(name, prefix) ==
    Len(prefix) <= Len(name) /\ SubSeq(name, 1, Len(prefix)) = prefix

Qualifier(name) == SubSeq(name, 1, Len(name) - 1)
Leaf(name)      == SubSeq(name, Len(name), Len(name))

\* Variant: a name with a qualifier is taken to be complete.
QualifyBare(scopes, leaf) ==
    IF leaf = <<>> THEN <<Anonymous>>
    ELSE IF Len(leaf) > 1 THEN leaf
    ELSE scopes \o leaf

\* qualify_name: a leaf that starts with the whole scope is not prefixed again.
QualifyName(scopes, leaf) ==
    IF leaf = <<>> THEN <<Anonymous>>
    ELSE IF StartsWith(leaf, scopes) THEN leaf
    ELSE scopes \o leaf

\* qualify_dependency_name: a bare base is taken to be declared next to the
\* class, one with "::" is left as written.  The text is only trimmed, which
\* leaves the template arguments of a base and a "::" among them.
QualifyDependency(scopes, base) ==
    IF Len(base) > 1 THEN base ELSE scopes \o base

\* A name with the text that follows it.
Followed(name, text) ==
    IF name = <<>> \/ text = <<>> THEN name \o text
    ELSE Qualifier(name) \o <<Glued[<<name[Len(name)], Head(text)>>]>> \o Tail(text)

\* declarator_name_node does not look behind a pointer_declarator: such a
\* definition is named by the whole text of its declarator, star, qualifier
\* and parameters, and that is split at its "::".
FunctionLikeName(node) ==
    IF node.type = "pointer" /\ node.name # <<>>
    THEN Followed(<<Star>>, Followed(node.name, node.parameters))
    ELSE node.name

\* symbol_name_from_node; a template is named by its last child.
NodeName(node) ==
    CASE node.type \in {"namespace", "class", "enum"} ->
           IF node.name = <<>> THEN <<Anonymous>> ELSE node.name
      [] node.type \in {"function", "pointer", "variable"} -> FunctionLikeName(node)
      [] node.type = "template" -> <<Anonymous>>
      [] OTHER -> <<>>

SymbolName(i) ==
    LET named[j \in DOMAIN tree] ==
          IF tree[j].type = "template" /\ Children(j) # <<>>
          THEN named[Children(j)[Len(Children(j))]]
          ELSE NodeName(tree[j])
    IN  named[i]

-----------------------------------------------------------------------------
(* Dependencies.                                                           *)

Includes == {tree[j].name : j \in {j \in Within(0) \ {0} : tree[j].type = "include"}}

Body(i) == {j \in DOMAIN tree : tree[j].up = i /\ tree[j].type = "body"}

\* Every call in the body, those of nested functions included.
CallTargets(i) ==
    {tree[j].name : j \in {j \in UNION {Within(b) : b \in Body(i)} :
                              tree[j].type = "call" /\ tree[j].name # <<>>}}

BaseText(base) == Followed(base.name, base.arguments)

\* The bases are written in the scope around the class.  Variant: in its own.
BaseClassesInside(i, scopes) ==
    {QualifyDependency(scopes \o SymbolName(i), BaseText(tree[i].bases[b])) :
       b \in DOMAIN tree[i].bases}
BaseClasses(i, scopes) ==
    {QualifyDependency(scopes, BaseText(tree[i].bases[b])) : b \in DOMAIN tree[i].bases} \ {<<>>}

-----------------------------------------------------------------------------
(* The walk.                                                               *)

Visits(nodes, scopes, class_depth) ==
    [k \in DOMAIN nodes |->
        [node |-> nodes[k], scopes |-> scopes, class_depth |-> class_depth]]

Top == Head(pending)
Visited == Top.node

Visiting(types) == pending # <<>> /\ tree[Visited].type \in types

\* walk_named_children: the children come before whatever else is pending.
Descending(scopes, class_depth) ==
    pending' = Visits(Children(Visited), scopes, class_depth) \o Tail(pending)

Emit(kind, leaf, calls, bases) ==
    LET name == QualifyName(Top.scopes, leaf) IN
    /\ symbols' = Append(symbols,
          [kind |-> kind, name |-> name, line |-> Visited, calls |-> calls,
           bases |-> bases, includes |-> Includes])
    /\ known' = IF kind = "class" THEN known \cup {name} ELSE known
    /\ UNCHANGED tree

EmitNamespace ==
    /\ Visiting({"namespace"})
    /\ Emit("namespace", SymbolName(Visited), {}, {})
    /\ Descending(Top.scopes \o SymbolName(Visited), Top.class_depth)

EmitClass ==
    /\ Visiting({"class"})
    /\ Emit("class", SymbolName(Visited), {}, BaseClasses(Visited, Top.scopes))
    /\ Descending(Top.scopes \o SymbolName(Visited), Top.class_depth + 1)

EmitEnum ==
    /\ Visiting({"enum"})
    /\ Emit("enum", SymbolName(Visited), {}, {})
    /\ Descending(Top.scopes, Top.class_depth)

\* The class or function of a template is a symbol of its own besides.
EmitTemplate ==
    /\ Visiting({"template"})
    /\ Emit("template", SymbolName(Visited), {}, {})
    /\ Descending(Top.scopes, Top.class_depth)

\* is_method_like_context.  Variant: only what is written inside a class.
MethodInside(i) == ~ HasAncestor(i, "friend") /\ Top.class_depth > 0
MethodLike(i) ==
    LET name == FunctionLikeName(tree[i]) IN
    /\ ~ HasAncestor(i, "friend")
    /\ \/ Top.class_depth > 0
       \/ Len(name) > 1 /\ QualifyName(Top.scopes, Qualifier(name)) \in known

\* A declaration is looked at only when a function's declarator is on top of
\* it; a definition always, with or without a body.
IsFunctionLike(i) == tree[i].type \in {"function", "pointer"} /\ tree[i].name # <<>>

EmitFunction ==
    /\ pending # <<>> /\ IsFunctionLike(Visited)
    /\ Emit(IF MethodLike(Visited) THEN "method" ELSE "function",
            FunctionLikeName(tree[Visited]), CallTargets(Visited), {})
    /\ Descending(Top.scopes, Top.class_depth)

Descend ==
    /\ pending # <<>>
    /\ \/ tree[Visited].type \in {"variable", "friend", "body", "call", "include", "group"}
       \/ tree[Visited].type \in {"function", "pointer"} /\ ~ IsFunctionLike(Visited)
    /\ Descending(Top.scopes, Top.class_depth)
    /\ UNCHANGED <<tree, symbols, known>>

\* Nothing below a node tree-sitter could not parse is looked at.
\* Variant: what is below it is walked all the same.
WalkBroken ==
    /\ Visiting({"error"})
    /\ Descending(Top.scopes, Top.class_depth)
    /\ UNCHANGED <<tree, symbols, known>>

DropBroken ==
    /\ Visiting({"error"})
    /\ pending' = Tail(pending)
    /\ UNCHANGED <<tree, symbols, known>>

Walk ==
    \/ EmitNamespace \/ EmitClass \/ EmitEnum \/ EmitTemplate \/ EmitFunction
    \/ Descend \/ DropBroken

\* collect(): a file starts at the top, outside every scope.
Started(t) == Visits(ChildrenIn(t, 0), <<>>, 0)

ParserInit ==
    /\ pending = Started(tree)
    /\ symbols = <<>>
    /\ known = {}

-----------------------------------------------------------------------------
(* Properties.                                                             *)

IsScope(i) == tree[i].type \in {"namespace", "class"}

\* The names of the namespaces and classes around a node, outermost first.
Path(i) ==
    LET path[j \in 0..Len(tree)] ==
          IF j = 0 THEN <<>>
          ELSE path[tree[j].up] \o (IF IsScope(j) THEN SymbolName(j) ELSE <<>>)
    IN  path[tree[i].up]

Declares(i) ==
    tree[i].type \in {"namespace", "class", "enum", "template"} \/ IsFunctionLike(i)

\* The symbols are, in the order of the source, one for each declaration
\* that was walked and that no broken node hides: parse_file loses none and
\* reports none twice (parser.cpp:614-678).
SymbolsInOrder ==
    LET walked == IF pending = <<>> THEN Len(tree) ELSE Top.node - 1 IN
    /\ \A r, s \in DOMAIN symbols : r < s => symbols[r].line < symbols[s].line
    /\ {symbols[s].line : s \in DOMAIN symbols}
         = {j \in 1..walked : j \in Within(0) /\ Declares(j)}

\* The symbols of a declaration and of a definition outside the class.
Emitted(i) == {symbols[s] : s \in {s \in DOMAIN symbols : symbols[s].line = i}}

\* No scope or run of scopes comes twice in succession at the top.
NoEcho(name) ==
    ~ \E k \in 1..Len(name) : 2 * k <= Len(name) /\ SubSeq(name, 1, k) = SubSeq(name, k + 1, 2 * k)

\* A member that is declared in its class and defined outside it, under the
\* name of the class seen from there or from the top, is one method with one
\* name, which is what callers and callees are looked up by (parser.cpp:
\* 179-196, 401-424).  Not so for the constructor of a class at the top, which
\* gets the name of the class, for a friend, and where the full name begins
\* with the same scopes twice.
MembersAgree ==
    \A c, d, n \in DOMAIN tree :
        LET class == Path(c) \o SymbolName(c)
            member == tree[d].name
            written == Qualifier(tree[n].name)
        IN  /\ tree[c].type = "class" /\ tree[d].up = c
            /\ tree[d].type = "function" /\ Len(member) = 1
            /\ tree[n].type = "function" /\ c < n /\ Len(tree[n].name) > 1
            /\ ~ HasAncestor(d, "friend") /\ ~ HasAncestor(n, "friend")
            /\ Leaf(tree[n].name) = member
            /\ Path(n) \o written = class \/ (written = class /\ StartsWith(class, Path(n)))
            /\ NoEcho(class \o member)
            => \A x \in Emitted(d), y \in Emitted(n) :
                   x.name = y.name /\ x.kind = "method" /\ y.kind = "method"

=============================================================================
