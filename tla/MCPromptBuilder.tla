--------------------------- MODULE MCPromptBuilder ---------------------------
EXTENDS PromptBuilder

SomeModules == {<<>>,
                <<[header |-> 2, summary |-> 0], [header |-> 2, summary |-> 1]>>,
                <<[header |-> 1, summary |-> 30], [header |-> 1, summary |-> 0]>>}
SomeSymbols == {<<>>,
                <<[header |-> 2, signature |-> 1, context |-> <<2, 0, 3>>],
                  [header |-> 1, signature |-> 0, context |-> <<>>]>>,
                <<[header |-> 1, signature |-> 4, context |-> <<1>>],
                  [header |-> 1, signature |-> 0, context |-> <<9>>]>>}
SomeFiles == {<<>>,
              <<[path |-> 2, content |-> <<1, 4>>], [path |-> 2, content |-> <<>>]>>,
              <<[path |-> 9, content |-> <<1>>], [path |-> 1, content |-> <<0, 1>>]>>}

SomeRequests ==
    [query : {<<2>>, <<0, 12>>}, modules : SomeModules, symbols : SomeSymbols, files : SomeFiles]

Entry(key, value) == [key |-> key, value |-> value]
Part(lines, slot) == [lines |-> lines, slot |-> slot]

UserPart == <<Part(<<>>, "query"), Part(<<3>>, "modules"), Part(<<2>>, "symbols"),
              Part(<<2>>, "local_files"), Part(<<2>>, "nothing")>>
Whole(lines, limit) ==
    <<Entry("name", Own), Entry("context_token_limit", limit),
      Entry("system", <<Part(lines, "nothing")>>), Entry("user", UserPart)>>

\* Complete ones, one with the name of another, without a user text, with an
\* unknown key, with a limit that is no number, with an unknown variable, and
\* with a user text of one blank line.
SomeReadings ==
    {Whole(lines, limit) : lines \in {<<3, 4>>, <<9>>}, limit \in {0, 9}}
    \cup {Unreadable, Append(Whole(<<2>>, 0), Entry("name", Foreign)),
          SubSeq(Whole(<<2>>, 0), 2, 3), Append(Whole(<<2>>, 0), Entry("users", <<>>)),
          Append(Whole(<<2>>, 0), Entry("context_token_limit", Malformed)),
          Append(Whole(<<2>>, 0), Entry("user", <<Part(<<1>>, "language")>>)),
          Append(Whole(<<9>>, 0), Entry("user", <<Part(<<0>>, "nothing")>>))}

Budget(items, tokens) == [items |-> items, tokens |-> tokens]
Budgets == {Budget(1, 4), Budget(2, 6), Budget(2, 30)}

\* The three sections alike, each of them with a budget of its own, and two
\* that the constructor does not take.
SomeBudgets ==
    {[modules |-> b, symbols |-> b, files |-> b] : b \in Budgets}
        \cup {[modules |-> Budget(2, 6), symbols |-> Budget(2, 30), files |-> Budget(1, 4)],
              [modules |-> Budget(2, 30), symbols |-> Budget(1, 4), files |-> Budget(2, 9)],
              [modules |-> Budget(1, 6), symbols |-> Budget(2, 1), files |-> Budget(2, 1)],
              [modules |-> Budget(0, 6), symbols |-> Budget(2, 6), files |-> Budget(2, 1)],
              [modules |-> Budget(2, 6), symbols |-> Budget(2, 0), files |-> Budget(2, 6)]}

SomeOptions == [context : {0, 1, 8, 15, 60}, budget : SomeBudgets]
=============================================================================
