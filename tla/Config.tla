------------------------------- MODULE Config -------------------------------
(***************************************************************************)
(* Config::load (core/src/config.cpp): the options of all components from  *)
(* the environment, the .env file and the defaults.  A key is one of the   *)
(* QODELOC_ variables and a text is what it may be set to: the number that *)
(* std::stoull or std::stoll reads at its front, Blank, Yes or No, or Word *)
(* for any other.  Trimming, quotes and the resolution of paths are left   *)
(* out.  A std::size_t holds SizeRange numbers, 2 ^ 64 in the code.        *)
(***************************************************************************)
EXTENDS Integers, Sequences

CONSTANTS
    Keys, Kind, Default,   \* what load() looks up, in which form, with which default
    SizeRange, MaxPort,    \* 2 ^ 64 and 65535
    Blank, Yes, No, Word, \* texts without a number
    Unset, Invalid         \* a variable that is not set; a text its parser refuses

Texts == Int \cup {Blank, Yes, No, Word}

ASSUME KeysAreTyped ==
    /\ Kind \in [Keys -> {"text", "list", "count", "port", "milliseconds", "flag"}]
    /\ \A k \in Keys : Default[k] \in Texts
    /\ SizeRange \in Nat \ {0} /\ MaxPort \in Nat
    /\ Invalid \notin Int

-----------------------------------------------------------------------------
(* What is set.  An environment is a function of the keys, a file the      *)
(* sequence of its lines [key, text].                                      *)

LinesOf(lines, key) == {i \in DOMAIN lines : lines[i].key = key}

\* Variant: the file goes before the environment.
LookupFileFirst(environment, lines, key) ==
    IF LinesOf(lines, key) # {}
    THEN lines[CHOOSE i \in LinesOf(lines, key) : \A j \in LinesOf(lines, key) : i <= j].text
    ELSE IF environment[key] # Unset THEN environment[key]
    ELSE Default[key]

\* lookup_value: a variable that is set counts even when it is blank; of the
\* lines of a key parse_env_file keeps the first.
Lookup(environment, lines, key) ==
    IF environment[key] # Unset THEN environment[key]
    ELSE IF LinesOf(lines, key) # {}
    THEN lines[CHOOSE i \in LinesOf(lines, key) : \A j \in LinesOf(lines, key) : i <= j].text
    ELSE Default[key]

-----------------------------------------------------------------------------
(* The parsers.                                                            *)

\* parse_size_t: std::stoull takes a minus sign and wraps the number around.
ParseCount(text) ==
    IF text \in (1 - SizeRange)..(SizeRange - 1) THEN text % SizeRange ELSE Invalid

ParsePort(text) ==
    IF ParseCount(text) \in 0..MaxPort THEN ParseCount(text) ELSE Invalid

ParseMilliseconds(text) ==
    IF text \in 0..(SizeRange \div 2 - 1) THEN text ELSE Invalid

ParseFlag(text) ==
    CASE text \in {Yes, 1} -> TRUE [] text \in {No, 0} -> FALSE [] OTHER -> Invalid

\* No extension is the default list.
ParseList(text, default) == IF text = Blank THEN default ELSE text

Parse(key, text) ==
    CASE Kind[key] = "text"         -> text
      [] Kind[key] = "list"         -> ParseList(text, Default[key])
      [] Kind[key] = "count"        -> ParseCount(text)
      [] Kind[key] = "port"         -> ParsePort(text)
      [] Kind[key] = "milliseconds" -> ParseMilliseconds(text)
      [] Kind[key] = "flag"         -> ParseFlag(text)

\* load() raises for the first text that its parser refuses, whichever
\* component the key belongs to.
Loaded(environment, lines) ==
    [key \in Keys |-> Parse(key, Lookup(environment, lines, key))]

Raises(options) == \E key \in Keys : options[key] = Invalid

=============================================================================
