------------------------------ MODULE MCIndexer ------------------------------
EXTENDS Indexer

Declares(name, callees) == [name |-> name, calls |-> callees]

\* "a" calls "b"; "b" and an overload of it that calls "a" and, in its own file
\* or in another, "b".
OverloadContents ==
    {<<Declares("a", {"b"})>>, <<Declares("b", {}), Declares("b", {"a", "b"})>>}
CallContents == {<<Declares("a", {"b"})>>, <<Declares("b", {})>>}
PlainContents == {<<Declares("a", {})>>, <<Declares("a", {}), Declares("b", {})>>}
=============================================================================
