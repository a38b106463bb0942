---------------------------- MODULE MCLlmClient ----------------------------
EXTENDS LlmClient, TLC

\* The client's keys, and one of each kind of some other component.
SomeKeys == {"host", "port", "api_path", "model", "timeout", "max_retries",
             "initial_backoff", "max_backoff", "batch_size", "qdrant_enabled", "extensions"}
SomeKind ==
    [key \in SomeKeys |->
        CASE key \in {"host", "api_path", "model"} -> "text"
          [] key \in {"timeout", "initial_backoff", "max_backoff"} -> "milliseconds"
          [] key \in {"max_retries", "batch_size"} -> "count"
          [] key = "port" -> "port"
          [] key = "qdrant_enabled" -> "flag"
          [] key = "extensions" -> "list"]
SomeDefault ==
    [key \in SomeKeys |->
        CASE key \in {"host", "api_path", "model", "extensions"} -> Word
          [] key = "qdrant_enabled" -> No
          [] key \in {"max_retries", "max_backoff"} -> 3
          [] OTHER -> 1]

Nothing == [key \in SomeKeys |-> Unset]
Line(key, text) == [key |-> key, text |-> text]

\* Below the cap, reaching it between two doublings, at it from the start, and
\* over it; counts that are zero, blank, negative and no numbers.
SomeEnvironments ==
    {("max_retries" :> retries) @@ other @@ Nothing :
        retries \in {Unset, 0, 1, -1, Blank},
        other \in {"max_backoff" :> 4, "initial_backoff" :> 2, "initial_backoff" :> 4,
                   "port" :> 9, "timeout" :> -1, "batch_size" :> Word}}
    \cup {("host" :> Blank) @@ Nothing, ("qdrant_enabled" :> Word) @@ Nothing,
          ("qdrant_enabled" :> Yes) @@ ("extensions" :> Blank) @@ Nothing}
SomeFiles ==
    {<<>>, <<Line("max_retries", 2), Line("max_retries", 0), Line("max_backoff", 2)>>,
     <<Line("timeout", 0)>>}
=============================================================================
