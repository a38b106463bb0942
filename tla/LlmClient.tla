------------------------------ MODULE LlmClient ------------------------------
(***************************************************************************)
(* One call of LlmClient::complete or stream (core/src/llm.cpp): attempts  *)
(* against the LiteLLM router with exponential backoff, and the delivery   *)
(* of a streamed reply to the caller's callback.  The reply is read whole  *)
(* before the first chunk is delivered.  A body is the sequence of its     *)
(* server-sent events; a plain completion has one event.  A request        *)
(* without messages is refused before the first attempt and left out.      *)
(* The client is made first, from the process's configuration: main ends   *)
(* when that raises.                                                       *)
(***************************************************************************)
EXTENDS Config

CONSTANTS
    Environments, EnvFiles,   \* what the process may find
    Chunks,         \* contents a choice may carry
    MaxEvents       \* bound on the events of a body

ASSUME BoundIsNumber == MaxEvents \in Nat
ASSUME KeysOfTheClient ==
    /\ {"host", "port", "api_path", "model", "timeout", "max_retries", "initial_backoff",
        "max_backoff"} \subseteq Keys
    /\ Kind["max_retries"] = "count"
    /\ \A key \in {"timeout", "initial_backoff", "max_backoff"} : Kind[key] = "milliseconds"

ASSUME FilesHaveLines == EnvFiles \subseteq Seq([key : Keys, text : Texts])

\* An event without content, "[DONE]" or without data, and one that is not JSON.
CONSTANTS Empty, Skipped, BadJson

VARIABLES
    environment, lines,
    streaming,
    max_retries, initial_backoff, max_backoff,
    phase,      \* "configuring", "refused", "connecting", "reading", "events",
                \* "sleeping", "returned" or "raised"
    attempt, backoff,
    body,       \* events not yet looked at
    content,    \* assembled_content
    delivered,  \* chunks the callback has seen
    sent,       \* requests the router has received
    slept,      \* sum of the waits
    fault       \* the class of the last error

request == <<environment, lines, streaming, max_retries, initial_backoff, max_backoff>>
vars == <<request, phase, attempt, backoff, body, content, delivered, sent,
          slept, fault>>

Smaller(a, b) == IF a <= b THEN a ELSE b

Event == Chunks \cup {Empty, Skipped, BadJson}
Bodies == UNION {[1..n -> Event] : n \in 0..MaxEvents}
Faults == {"none", "retryable", "final"}

Init ==
    /\ environment \in Environments /\ lines \in EnvFiles
    /\ streaming \in BOOLEAN
    /\ max_retries = 0 /\ initial_backoff = 0 /\ max_backoff = 0
    /\ phase = "configuring" /\ attempt = 0 /\ backoff = 0
    /\ body = <<>> /\ content = <<>> /\ delivered = <<>>
    /\ sent = 0 /\ slept = 0 /\ fault = "none"

-----------------------------------------------------------------------------
(* Config::current() and the constructor.                                  *)

\* What the constructor demands of the options it is given.
Accepts(options) ==
    /\ \A key \in {"host", "api_path", "model"} : options[key] # Blank
    /\ \A key \in {"port", "timeout", "initial_backoff", "max_backoff"} : options[key] > 0
    /\ options["max_backoff"] >= options["initial_backoff"]

Construct ==
    /\ phase = "configuring"
    /\ LET options == Loaded(environment, lines) IN
         IF Raises(options) \/ ~ Accepts(options)
         THEN phase' = "refused" /\ UNCHANGED <<max_retries, initial_backoff, max_backoff, backoff>>
         ELSE /\ phase' = "connecting"
              /\ max_retries' = options["max_retries"]
              /\ initial_backoff' = options["initial_backoff"]
              /\ max_backoff' = options["max_backoff"]
              /\ backoff' = options["initial_backoff"]
    /\ UNCHANGED <<environment, lines, streaming, attempt, body, content, delivered, sent, slept,
                   fault>>

-----------------------------------------------------------------------------
(* What ends an attempt.                                                   *)

\* Variant: the last retry is not used.
MayRetryLess == attempt + 1 < max_retries

MayRetry == attempt < max_retries

\* catch (const RequestError&): sleep and go round again, or rethrow.
Fail(class) ==
    /\ fault' = class
    /\ phase' = IF class = "retryable" /\ MayRetry THEN "sleeping" ELSE "raised"

\* resolve or connect fails; a write may fail after the router got it all.
SendFails ==
    /\ phase = "connecting"
    /\ sent' \in {sent, sent + 1}
    /\ Fail("retryable")
    /\ UNCHANGED <<request, attempt, backoff, body, content, delivered, slept>>

Send ==
    /\ phase = "connecting"
    /\ sent' = sent + 1
    /\ phase' = "reading"
    /\ UNCHANGED <<request, attempt, backoff, body, content, delivered, slept, fault>>

\* Retryable unless the read was aborted.
ReadFails ==
    /\ phase = "reading"
    /\ \E class \in {"retryable", "final"} : Fail(class)
    /\ UNCHANGED <<request, attempt, backoff, body, content, delivered, sent, slept>>

\* is_retryable_status: 429 and 5xx.
StatusIsError ==
    /\ phase = "reading"
    /\ \E status \in {404, 429, 499, 500, 599, 600} :
         Fail(IF status = 429 \/ status \in 500..599 THEN "retryable" ELSE "final")
    /\ UNCHANGED <<request, attempt, backoff, body, content, delivered, sent, slept>>

\* A 2xx reply to complete(): its content, or a parse error that no catch of
\* RequestError sees.
Completion ==
    /\ phase = "reading" /\ ~ streaming
    /\ \E e \in Event :
         IF e \in Chunks
         THEN content' = <<e>> /\ phase' = "returned" /\ UNCHANGED fault
         ELSE phase' = "raised" /\ fault' = "final" /\ UNCHANGED content
    /\ UNCHANGED <<request, attempt, backoff, body, delivered, sent, slept>>

StreamRead ==
    /\ phase = "reading" /\ streaming
    /\ body' \in Bodies
    /\ content' = <<>>
    /\ phase' = "events"
    /\ UNCHANGED <<request, attempt, backoff, delivered, sent, slept, fault>>

\* Variant: a callback that refuses a chunk is asked again.
AbortRetries == "retryable"

AbortClass == "final"

Deliver ==
    /\ phase = "events" /\ body # <<>> /\ Head(body) \in Chunks
    /\ body' = Tail(body)
    /\ content' = Append(content, Head(body))
    /\ delivered' = Append(delivered, Head(body))
    /\ \E accepted \in BOOLEAN :
         IF accepted THEN UNCHANGED <<phase, fault>> ELSE Fail(AbortClass)
    /\ UNCHANGED <<request, attempt, backoff, sent, slept>>

\* Variant: an event without content stays in the buffer.
SkipKeepsEvent ==
    /\ phase = "events" /\ body # <<>> /\ Head(body) \in {Empty, Skipped}
    /\ UNCHANGED vars

Skip ==
    /\ phase = "events" /\ body # <<>> /\ Head(body) \in {Empty, Skipped}
    /\ body' = Tail(body)
    /\ UNCHANGED <<request, phase, attempt, backoff, content, delivered, sent, slept, fault>>

ParseFails ==
    /\ phase = "events" /\ body # <<>> /\ Head(body) = BadJson
    /\ phase' = "raised" /\ fault' = "final"
    /\ UNCHANGED <<request, attempt, backoff, body, content, delivered, sent, slept>>

StreamEnds ==
    /\ phase = "events" /\ body = <<>>
    /\ phase' = "returned"
    /\ UNCHANGED <<request, attempt, backoff, body, content, delivered, sent, slept, fault>>

\* Variant: the cap is forgotten.
Doubled(b) == b * 2

NextBackoff(b) == Smaller(b * 2, max_backoff)

Sleep ==
    /\ phase = "sleeping"
    /\ slept' = slept + backoff
    /\ backoff' = NextBackoff(backoff)
    /\ attempt' = attempt + 1
    /\ phase' = "connecting"
    /\ UNCHANGED <<request, body, content, delivered, sent, fault>>

Exchange == SendFails \/ Send \/ ReadFails \/ StatusIsError \/ Completion \/ StreamRead
Local == Construct \/ Deliver \/ Skip \/ ParseFails \/ StreamEnds \/ Sleep
Next == Exchange \/ Local

\* The calling thread goes on.  That every exchange with the router ends, with a
\* reply or with an error of the connection, is a promise of the router and of
\* TCP: the calls are synchronous and expires_after() does not bound them.
Spec == Init /\ [][Next]_vars /\ WF_vars(Local) /\ WF_vars(Exchange)

-----------------------------------------------------------------------------

TypeOK ==
    /\ streaming \in BOOLEAN /\ max_retries \in 0..(SizeRange - 1)
    /\ phase \in {"configuring", "refused", "connecting", "reading", "events", "sleeping",
                  "returned", "raised"}
    /\ attempt \in 0..max_retries
    /\ backoff \in initial_backoff..max_backoff
    /\ phase \notin {"configuring", "refused"} => backoff > 0
    /\ body \in Seq(Event) /\ content \in Seq(Chunks) /\ delivered \in Seq(Chunks)
    /\ sent \in 0..(attempt + 1) /\ slept \in Nat
    /\ fault \in Faults

\* execute waits initial_backoff before the first retry and twice as long before
\* each next one, never longer than max_backoff: the whole of the waits is this
\* sum (llm.cpp:286-299).
Doublings(first, i) ==
    LET doubled[k \in 0..i] == IF k = 0 THEN first ELSE 2 * doubled[k - 1]
    IN  doubled[i]
Wait(first, longest, i) == Smaller(Doublings(first, i), longest)
Waits(first, longest, n) ==
    LET total[k \in 0..n] == IF k = 0 THEN 0 ELSE total[k - 1] + Wait(first, longest, k - 1)
    IN  total[n]
WaitsDouble ==
    /\ backoff = Wait(initial_backoff, max_backoff, attempt)
    /\ slept = Waits(initial_backoff, max_backoff, attempt)

\* "The client retries transient transport failures and 429/5xx responses":
\* execute raises on the first error that is not transient, and on a transient
\* one only when every retry is used.
GivesUpRightly ==
    /\ phase = "raised" /\ fault = "retryable" => attempt = max_retries
    /\ phase \in {"connecting", "reading"} => attempt = 0 \/ fault = "retryable"

\* A call that fails has tried as often as the process was told to: by the
\* environment before the .env file, by a line before a later one of the same
\* key, and only then by the default (config.cpp:192-203, llm.cpp:286-299).
\* Not so for a count below zero, which wraps around.
Told(retries) ==
    LET key == "max_retries" IN
    IF environment[key] # Unset THEN environment[key] = retries
    ELSE \/ \E i \in DOMAIN lines : /\ lines[i] = [key |-> key, text |-> retries]
                                    /\ \A j \in 1..(i - 1) : lines[j].key # key
         \/ (\A i \in DOMAIN lines : lines[i].key # key) /\ Default[key] = retries
TriesAsConfigured ==
    phase = "raised" /\ fault = "retryable" =>
        \A retries \in {environment["max_retries"], Default["max_retries"]}
                          \cup {lines[i].text : i \in DOMAIN lines} :
            retries \in Nat /\ Told(retries) => sent <= retries + 1 /\ attempt = retries

\* A chunk the callback has seen is never taken back: no attempt follows, so
\* no chunk is delivered twice, whatever ends the stream (llm.cpp:268-299).
DeliveredOnce ==
    [][delivered # <<>> => attempt' = attempt /\ sent' = sent]_vars

\* What stream() returns is what its callback saw, and complete() returns one
\* completion without calling back (llm.cpp:245-285).
ReturnsTheReply ==
    phase = "returned" => IF streaming THEN content = delivered
                                       ELSE Len(content) = 1 /\ delivered = <<>>

\* Every call of complete or stream ends.
CallEnds == <>(phase \in {"refused", "returned", "raised"})

=============================================================================
