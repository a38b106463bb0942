---------------------------- MODULE PromptBuilder ----------------------------
(***************************************************************************)
(* PromptBuilder (core/src/prompt_builder.cpp): one build after another    *)
(* for one type of request.  The template is read from its file until a    *)
(* reading succeeds and then kept; the three sections are filled under     *)
(* their own token limits, the template is rendered, and what exceeds the  *)
(* context limit is cut, the user text first.  A text is the sequence of   *)
(* the token counts of its lines, a blank line counting none.  A template  *)
(* puts a variable on lines of its own.                                    *)
(***************************************************************************)
EXTENDS Integers, Sequences

CONSTANTS
    Requests,   \* [query, modules, symbols, files]
    Options,    \* [context, budget]; a budget is an [items, tokens] for each section
    Readings    \* what the template's file may hold: Unreadable or its entries
                \* [key, value] in order; a text is a sequence of [lines, slot]

\* A file that does not open; a value that is no number or badly indented; the
\* name the template must have, and another; nothing cached.
CONSTANTS Unreadable, Malformed, Own, Foreign, None

Texts == Seq(Nat)
Templates == Seq([lines : Texts, slot : STRING])
Sections(S) == [modules : S, symbols : S, files : S]

ASSUME RequestsAreTexts ==
    Requests \subseteq
        [query : Texts,
         modules : Seq([header : Nat, summary : Nat]),
         symbols : Seq([header : Nat, signature : Nat, context : Texts]),
         files : Seq([path : Nat, content : Texts])]
ASSUME OptionsAreLimits ==
    Options \subseteq [context : Nat, budget : Sections([items : Nat, tokens : Nat])]
ASSUME ReadingsAreTyped ==
    \A file \in Readings \ {Unreadable} :
        /\ Len(file) \in Nat /\ DOMAIN file = 1..Len(file)
        /\ \A i \in DOMAIN file : file[i].value # Malformed =>
              /\ file[i].key = "context_token_limit" => file[i].value \in Nat
              /\ file[i].key \in {"system", "user"} => file[i].value \in Templates

VARIABLES
    request, options,
    cache,       \* template_cache_ at this type of request
    template,    \* template_data of the build
    sections,    \* the lines of modules, symbols and local files
    system, user,
    phase        \* "loading", "sections", "rendered", "userCut", "built", "raised"

vars == <<request, options, cache, template, sections, system, user, phase>>

\* The constructor takes no limit of zero.
Accepts(o) ==
    /\ o.context > 0
    /\ \A name \in DOMAIN o.budget : o.budget[name].items > 0 /\ o.budget[name].tokens > 0

NoSections == [modules |-> <<>>, symbols |-> <<>>, files |-> <<>>]

Init ==
    /\ request \in Requests /\ options \in {o \in Options : Accepts(o)}
    /\ cache = None /\ template = None
    /\ sections = NoSections /\ system = <<>> /\ user = <<>>
    /\ phase = "loading"

-----------------------------------------------------------------------------
(* The template.                                                           *)

TemplateKeys == {"name", "context_token_limit", "system", "user"}

\* A key that comes again replaces what it said before.
LastOf(file, key, default) ==
    LET at == {i \in DOMAIN file : file[i].key = key}
    IN  IF at = {} THEN default
        ELSE file[CHOOSE i \in at : \A j \in at : j <= i].value

Parses(file) ==
    /\ file # Unreadable
    /\ \A i \in DOMAIN file : file[i].key \in TemplateKeys /\ file[i].value # Malformed

Parsed(file) ==
    [name   |-> LastOf(file, "name", Own),
     limit  |-> LastOf(file, "context_token_limit", 0),
     system |-> LastOf(file, "system", <<>>),
     user   |-> LastOf(file, "user", <<>>)]

Complete(t) == t.name = Own /\ t.system # <<>> /\ t.user # <<>>

\* Variant: kept as soon as it is parsed.
KeptWhenParsed(file) == Parses(file)

Kept(file) == Parses(file) /\ Complete(Parsed(file))

Load ==
    /\ phase = "loading"
    /\ IF cache # None
       THEN template' = cache /\ phase' = "sections" /\ UNCHANGED cache
       ELSE \E file \in Readings :
              /\ cache' = IF Kept(file) THEN Parsed(file) ELSE None
              /\ IF Parses(file) /\ Complete(Parsed(file))
                 THEN template' = Parsed(file) /\ phase' = "sections"
                 ELSE template' = None /\ phase' = "raised"
    /\ UNCHANGED <<request, options, sections, system, user>>

-----------------------------------------------------------------------------
(* Token counts.                                                           *)

\* What the steps make of start, one after the other.
Through(start, steps) ==
    LET at[i \in 0..Len(steps)] == IF i = 0 THEN start ELSE steps[i][at[i - 1]]
    IN  at[Len(steps)]

Tokens(lines) == Through(0, [i \in DOMAIN lines |-> [sum \in Nat |-> sum + lines[i]]])

FitsIn(lines, limit) == Tokens(lines) <= limit

\* append_line, line after line, up to the first that does not fit.  A blank
\* line always fits and leaves nothing.
Inked(lines) ==
    Through(<<>>, [i \in DOMAIN lines |->
                     [out \in Texts |-> IF lines[i] > 0 THEN Append(out, lines[i]) ELSE out]])

Appended(lines, more, limit) ==
    LET fitting == {k \in 0..Len(more) : FitsIn(lines \o SubSeq(more, 1, k), limit)}
        last == CHOOSE k \in fitting : \A j \in fitting : j <= k
    IN  lines \o Inked(SubSeq(more, 1, last))

\* truncate_line(summary, 24) and its " ...".
SummaryWords == 24
Truncated(words) == IF words > SummaryWords THEN SummaryWords + 1 ELSE words

-----------------------------------------------------------------------------
(* Sections: lines so far, and whether the loop goes on.                   *)

\* A hit's lines that end the loop when they do not fit, and those that do not.
ModuleHead(hit) == <<hit.header>> \o (IF hit.summary = 0 THEN <<>>
                                      ELSE <<1 + Truncated(hit.summary)>>)
SymbolHead(hit) == <<hit.header>>
                    \o (IF hit.signature = 0 THEN <<>> ELSE <<1 + hit.signature>>)
                    \o (IF hit.context = <<>> THEN <<>> ELSE <<1>>)

AddHit(acc, head, rest, limit) ==
    LET lines == Appended(acc.lines, head, limit) IN
    IF ~ acc.open THEN acc
    ELSE IF Len(lines) < Len(acc.lines) + Len(head)
         THEN [lines |-> lines, open |-> FALSE]
         ELSE [lines |-> Appended(lines, rest, limit), open |-> TRUE]

\* A local file goes in whole, cut to the limit of the section, or not at all.
FileBlock(file, limit) ==
    LET head == Appended(<<>>, <<file.path, 1>>, limit) IN
    IF Len(head) < 2 THEN head ELSE Appended(head, file.content, limit)

\* Variant: the block is not counted against what the section holds already.
BlockFitsAlone(lines, block, limit) == FitsIn(block, limit)

BlockFits(lines, block, limit) == FitsIn(lines \o block, limit)

AddFile(acc, block, limit) ==
    IF acc.open /\ BlockFits(acc.lines, block, limit)
    THEN [lines |-> acc.lines \o block, open |-> TRUE]
    ELSE [lines |-> acc.lines, open |-> FALSE]

Progress == [lines : Texts, open : BOOLEAN]
Empty == [lines |-> <<>>, open |-> TRUE]
First(hits, n) == SubSeq(hits, 1, IF Len(hits) < n THEN Len(hits) ELSE n)

\* The lines that the hits' steps leave.
Filled(steps) ==
    LET lines == Through(Empty, steps).lines
    IN  IF lines = <<>> THEN <<1>> ELSE lines

FormatModules(hits, budget) ==
    LET taken == First(hits, budget.items)
    IN  Filled([i \in DOMAIN taken |-> [acc \in Progress |->
                  AddHit(acc, ModuleHead(taken[i]), <<>>, budget.tokens)]])
\* Context lines are indented, which adds no token.
FormatSymbols(hits, budget) ==
    LET taken == First(hits, budget.items)
    IN  Filled([i \in DOMAIN taken |-> [acc \in Progress |->
                  AddHit(acc, SymbolHead(taken[i]), taken[i].context, budget.tokens)]])
FormatLocalFiles(files, budget) ==
    LET taken == First(files, budget.items)
    IN  Filled([i \in DOMAIN taken |-> [acc \in Progress |->
                  AddFile(acc, FileBlock(taken[i], budget.tokens), budget.tokens)]])

-----------------------------------------------------------------------------

\* 0 in the template stands for the option.
ContextLimit ==
    IF template.limit = 0 \/ options.context < template.limit
    THEN options.context ELSE template.limit

\* Variant: the marker is appended to a text that is full.
RoomAlways(lines, limit) == TRUE

RoomForMarker(lines, limit) == Tokens(lines) < limit

TrimToTokenLimit(text, limit) ==
    LET kept == Appended(<<>>, text, limit) IN
    IF FitsIn(text, limit) THEN text
    ELSE IF Tokens(kept) = 0 THEN <<>>
    ELSE IF RoomForMarker(kept, limit) THEN Append(kept, 1) ELSE kept

\* The variables of a template; the numbers among them are left out.
Variables(filled) ==
    [modules |-> filled.modules, symbols |-> filled.symbols, local_files |-> filled.files,
     query |-> request.query, nothing |-> <<>>]

Renders(text) == \A i \in DOMAIN text : text[i].slot \in DOMAIN Variables(NoSections)

RenderTemplate(text, filled) ==
    Through(<<>>, [i \in DOMAIN text |-> [out \in Texts |->
                     out \o text[i].lines \o Variables(filled)[text[i].slot]]])

\* A variable nobody defines raises, each time anew: the template stays.
Render ==
    /\ phase = "sections"
    /\ sections' =
         [modules |-> FormatModules(request.modules, options.budget.modules),
          symbols |-> FormatSymbols(request.symbols, options.budget.symbols),
          files   |-> FormatLocalFiles(request.files, options.budget.files)]
    /\ IF Renders(template.system) /\ Renders(template.user)
       THEN /\ system' = RenderTemplate(template.system, sections')
            /\ user' = RenderTemplate(template.user, sections')
            /\ phase' = "rendered"
       ELSE phase' = "raised" /\ UNCHANGED <<system, user>>
    /\ UNCHANGED <<request, options, cache, template>>

\* Variant: the user text is cut as if there were no system text.
WholeContext == ContextLimit

Remaining ==
    IF Tokens(system) >= ContextLimit THEN 0 ELSE ContextLimit - Tokens(system)

TooLong == Tokens(system) + Tokens(user) > ContextLimit

CutUser ==
    /\ phase = "rendered"
    /\ user' = IF TooLong THEN TrimToTokenLimit(user, Remaining) ELSE user
    /\ phase' = "userCut"
    /\ UNCHANGED <<request, options, cache, template, sections, system>>

CutSystem ==
    /\ phase = "userCut"
    /\ system' = IF TooLong THEN TrimToTokenLimit(system, ContextLimit) ELSE system
    /\ phase' = "built"
    /\ UNCHANGED <<request, options, cache, template, sections, user>>

\* The next build of the server, after the file may have been edited.
BuildAgain ==
    /\ phase \in {"built", "raised"}
    /\ template' = None
    /\ sections' = NoSections /\ system' = <<>> /\ user' = <<>>
    /\ phase' = "loading"
    /\ UNCHANGED <<request, options, cache>>

Next == Load \/ Render \/ CutUser \/ CutSystem \/ BuildAgain

Spec == Init /\ [][Next]_vars

-----------------------------------------------------------------------------

\* build() keeps the prompt within the context limit, whatever the template,
\* the query and the sections hold, down to a limit the system text exceeds
\* (prompt_builder.cpp:135-189).
WithinContext == phase = "built" => Tokens(system) + Tokens(user) <= ContextLimit

\* Every section keeps its own limit, across several hits and files, and is
\* never empty: where nothing fits it says "none" (prompt_builder.cpp:399-514).
SectionsWithinLimits ==
    phase \notin {"loading", "sections", "raised"} =>
        \A name \in DOMAIN sections :
            /\ sections[name] # <<>>
            /\ Tokens(sections[name]) <= options.budget[name].tokens

\* What is cut is an end of the user text that does not fit, and the system
\* text is touched only when it alone passes the context and no token of the
\* user text is left (prompt_builder.cpp:166-176, 366-397).
CutsAtTheEnd ==
    phase = "built" =>
        LET before == RenderTemplate(template.system, sections)
            rendered == RenderTemplate(template.user, sections) IN
        /\ user # rendered =>
            \E k \in 0..(Len(rendered) - 1) :
               /\ LET kept == Inked(SubSeq(rendered, 1, k))
                  IN  user \in {kept, Append(kept, 1), <<>>}
               /\ Tokens(SubSeq(rendered, 1, k + 1)) + Tokens(before) > ContextLimit
        /\ system # before => Tokens(user) = 0 /\ Tokens(before) > ContextLimit

\* A reading that raised leaves nothing behind: a build fails for want of a
\* variable or before anything was kept, and every prompt has the system and
\* the user text of one complete reading (prompt_builder.cpp:191-325).
FailedReadingsForgotten ==
    /\ phase = "raised" => cache = None \/ ~ Renders(cache.system) \/ ~ Renders(cache.user)
    /\ phase \in {"rendered", "userCut", "built"} => template = cache /\ Complete(cache)

=============================================================================
