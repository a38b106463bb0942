---------------------------- MODULE LlmClientProofs ----------------------------
(***************************************************************************)
(* For any configuration, any number of retries and any replies: how       *)
(* often a call tries, what it delivers and what it returns.               *)
(***************************************************************************)
EXTENDS LlmClient, WellFoundedInduction, TLAPS

(* Recursion over numbers.                                                 *)

LEMMA LeastExists ==
    ASSUME NEW S \in SUBSET Nat, S # {}
    PROVE  \E m \in S : \A n \in S : m <= n
<1> DEFINE less == OpToRel(<, Nat)
<1>1. IsWellFoundedOn(less, Nat)
  BY NatLessThanWellFounded
<1>2. \A x, y \in Nat : y < x => <<y, x>> \in less
  BY DEF OpToRel
<1> HIDE DEF less
<1>3. PICK m \in S : \A n \in S : ~ (<<n, m>> \in less)
  BY <1>1, WFMin
<1>4. ASSUME NEW n \in S PROVE m <= n
  <2>1. m \in Nat /\ n \in Nat
    OBVIOUS
  <2>2. ~ (n < m)
    BY <1>2, <1>3, <2>1
  <2> QED BY <2>1, <2>2
<1> QED BY <1>4

\* Induction over the numbers up to n.
LEMMA Inductive ==
    ASSUME NEW n \in Nat, NEW S, 0 \in S, \A k \in 0..(n - 1) : k \in S => k + 1 \in S
    PROVE  0..n \subseteq S
<1> DEFINE missing == (0..n) \ S
<1> SUFFICES ASSUME missing # {} PROVE FALSE
  OBVIOUS
<1>1. missing \in SUBSET Nat
  OBVIOUS
<1>2. PICK m \in missing : \A k \in missing : m <= k
  <2> HIDE DEF missing
  <2> QED BY <1>1, LeastExists
<1>3. m \in 1..n /\ m \notin S
  OBVIOUS
<1>4. m - 1 \in S
  BY <1>1, <1>2, <1>3
<1> QED BY <1>3, <1>4

\* s goes from b to its value at n in steps of g.
Goes(s, b, g, n) ==
    /\ s \in [0..n -> Nat]
    /\ s[0] = b
    /\ \A i \in 0..(n - 1) : s[i + 1] = g[i][s[i]]

LEMMA RecursionExists ==
    ASSUME NEW b \in Nat, NEW g \in [Nat -> [Nat -> Nat]], NEW n \in Nat
    PROVE  \E s : Goes(s, b, g, n)
<1> DEFINE S == {k \in 0..n : \E s : Goes(s, b, g, k)}
<1>1. 0 \in S
  <2>1. Goes([i \in 0..0 |-> b], b, g, 0)
    BY DEF Goes
  <2> QED BY <2>1
<1>2. ASSUME NEW k \in 0..(n - 1), k \in S PROVE k + 1 \in S
  <2>1. PICK s : Goes(s, b, g, k)
    BY <1>2
  <2> DEFINE t == [i \in 0..(k + 1) |-> IF i = k + 1 THEN g[k][s[k]] ELSE s[i]]
  <2>2. s \in [0..k -> Nat] /\ s[0] = b /\ \A i \in 0..(k - 1) : s[i + 1] = g[i][s[i]]
    BY <2>1 DEF Goes
  <2>3. k \in Nat /\ s[k] \in Nat
    BY <2>2
  <2>4. g[k] \in [Nat -> Nat]
    BY <2>3
  <2>5. g[k][s[k]] \in Nat
    BY <2>3, <2>4
  <2>6. t \in [0..(k + 1) -> Nat]
    <3>1. ASSUME NEW i \in 0..(k + 1), i # k + 1 PROVE s[i] \in Nat
      <4>1. i \in 0..k
        BY <2>3, <3>1
      <4> QED BY <2>2, <4>1
    <3> QED BY <2>5, <3>1
  <2>7. t[0] = b
    BY <2>2, <2>3
  <2>8. ASSUME NEW i \in 0..((k + 1) - 1) PROVE t[i + 1] = g[i][t[i]]
    <3>1. CASE i = k
      <4>1. t[k + 1] = g[k][s[k]] /\ t[k] = s[k]
        BY <2>3
      <4> QED BY <3>1, <4>1
    <3>2. CASE i # k
      <4>1. i \in 0..(k - 1)
        BY <2>3, <3>2
      <4>2. /\ i \in 0..(k + 1) /\ i + 1 \in 0..(k + 1)
            /\ i # k + 1 /\ i + 1 # k + 1
        BY <2>3, <4>1
      <4>3. t[i + 1] = s[i + 1] /\ t[i] = s[i]
        BY <4>2
      <4> QED BY <2>2, <4>1, <4>3
    <3> QED BY <3>1, <3>2
  <2> HIDE DEF t
  <2>9. Goes(t, b, g, k + 1)
    BY <2>6, <2>7, <2>8 DEF Goes
  <2>10. k + 1 \in 0..n
    BY <2>3
  <2> QED BY <2>9, <2>10
<1>3. 0..n \subseteq S
  <2> HIDE DEF S
  <2> QED BY <1>1, <1>2, Inductive
<1>4. n \in S
  BY <1>3
<1> QED BY <1>4

\* Two functions that take the same steps are the same.
Alike(s, t, n) ==
    /\ s[0] = t[0]
    /\ \A i \in 0..(n - 1) : s[i] = t[i] => s[i + 1] = t[i + 1]

LEMMA SameSteps ==
    ASSUME NEW n \in Nat, NEW s, NEW t, Alike(s, t, n)
    PROVE  \A i \in 0..n : s[i] = t[i]
<1> DEFINE S == {i \in 0..n : s[i] = t[i]}
<1>1. 0 \in S
  BY DEF Alike
<1>2. ASSUME NEW i \in 0..(n - 1), i \in S PROVE i + 1 \in S
  <2>1. s[i + 1] = t[i + 1]
    BY <1>2 DEF Alike
  <2> QED BY <2>1
<1>3. 0..n \subseteq S
  <2> HIDE DEF S
  <2> QED BY <1>1, <1>2, Inductive
<1> QED BY <1>3

-----------------------------------------------------------------------------
(* The waits.                                                              *)

DoublingFrom(s, first, n) ==
    s = [k \in 0..n |-> IF k = 0 THEN first ELSE 2 * s[k - 1]]

LEMMA DoublingExists ==
    ASSUME NEW first \in Nat, NEW n \in Nat
    PROVE  \E s \in [0..n -> Nat] : DoublingFrom(s, first, n)
<1> DEFINE g == [k \in Nat |-> [v \in Nat |-> 2 * v]]
<1>1. g \in [Nat -> [Nat -> Nat]] /\ \A k, v \in Nat : g[k][v] = 2 * v
  OBVIOUS
<1> HIDE DEF g
<1>2. PICK s : Goes(s, first, g, n)
  BY <1>1, RecursionExists
<1>3. s \in [0..n -> Nat] /\ s[0] = first /\ \A i \in 0..(n - 1) : s[i + 1] = 2 * s[i]
  <2>1. s \in [0..n -> Nat] /\ s[0] = first /\ \A i \in 0..(n - 1) : s[i + 1] = g[i][s[i]]
    BY <1>2 DEF Goes
  <2>2. \A i \in 0..(n - 1) : i \in Nat /\ s[i] \in Nat
    BY <2>1
  <2> QED BY <1>1, <2>1, <2>2
<1>4. s = [k \in 0..n |-> IF k = 0 THEN first ELSE 2 * s[k - 1]]
  <2>1. ASSUME NEW k \in 0..n, k # 0 PROVE s[k] = 2 * s[k - 1]
    <3>1. k - 1 \in 0..(n - 1) /\ (k - 1) + 1 = k
      BY <2>1
    <3> QED BY <1>3, <3>1
  <2>2. \A k \in 0..n : s[k] = IF k = 0 THEN first ELSE 2 * s[k - 1]
    BY <1>3, <2>1
  <2> QED BY <1>3, <2>2
<1> QED BY <1>3, <1>4 DEF DoublingFrom

LEMMA DoublingIs ==
    ASSUME NEW first \in Nat, NEW n \in Nat
    PROVE  \E s \in [0..n -> Nat] : DoublingFrom(s, first, n) /\ Doublings(first, n) = s[n]
<1> DEFINE d == CHOOSE d : d = [k \in 0..n |-> IF k = 0 THEN first ELSE 2 * d[k - 1]]
<1>1. Doublings(first, n) = d[n]
  BY DEF Doublings
<1>2. PICK s \in [0..n -> Nat] : DoublingFrom(s, first, n)
  BY DoublingExists
<1>3. DoublingFrom(d, first, n)
  <2>1. \E t : t = [k \in 0..n |-> IF k = 0 THEN first ELSE 2 * t[k - 1]]
    BY <1>2 DEF DoublingFrom
  <2>2. d = [k \in 0..n |-> IF k = 0 THEN first ELSE 2 * d[k - 1]]
    BY <2>1
  <2> HIDE DEF d
  <2> QED BY <2>2 DEF DoublingFrom
<1> HIDE DEF d
<1>4. /\ \A k \in 0..n : d[k] = IF k = 0 THEN first ELSE 2 * d[k - 1]
      /\ \A k \in 0..n : s[k] = IF k = 0 THEN first ELSE 2 * s[k - 1]
  BY <1>2, <1>3 DEF DoublingFrom
<1>5. Alike(s, d, n)
  <2>1. s[0] = d[0]
    BY <1>4
  <2>2. ASSUME NEW k \in 0..(n - 1), s[k] = d[k] PROVE s[k + 1] = d[k + 1]
    <3>1. k + 1 \in 0..n /\ k + 1 # 0 /\ (k + 1) - 1 = k
      OBVIOUS
    <3> QED BY <1>4, <2>2, <3>1
  <2> QED BY <2>1, <2>2 DEF Alike
<1>6. \A k \in 0..n : s[k] = d[k]
  BY <1>5, SameSteps
<1> QED BY <1>1, <1>2, <1>6

LEMMA DoublingStep ==
    ASSUME NEW first \in Nat, NEW n \in Nat
    PROVE  /\ Doublings(first, 0) = first
           /\ Doublings(first, n) \in Nat
           /\ Doublings(first, n + 1) = 2 * Doublings(first, n)
<1>1. PICK s \in [0..n -> Nat] : DoublingFrom(s, first, n) /\ Doublings(first, n) = s[n]
  BY DoublingIs
<1>2. PICK t \in [0..(n + 1) -> Nat] :
          DoublingFrom(t, first, n + 1) /\ Doublings(first, n + 1) = t[n + 1]
  <2>1. n + 1 \in Nat
    OBVIOUS
  <2> QED BY <2>1, DoublingIs
<1>3. /\ \A k \in 0..n : s[k] = IF k = 0 THEN first ELSE 2 * s[k - 1]
      /\ \A k \in 0..(n + 1) : t[k] = IF k = 0 THEN first ELSE 2 * t[k - 1]
  BY <1>1, <1>2 DEF DoublingFrom
<1>4. Alike(s, t, n)
  <2>1. s[0] = t[0]
    BY <1>3
  <2>2. ASSUME NEW k \in 0..(n - 1), s[k] = t[k] PROVE s[k + 1] = t[k + 1]
    <3>1. k + 1 \in 0..n /\ k + 1 \in 0..(n + 1) /\ k + 1 # 0 /\ (k + 1) - 1 = k
      OBVIOUS
    <3> QED BY <1>3, <2>2, <3>1
  <2> QED BY <2>1, <2>2 DEF Alike
<1>5. s[n] = t[n]
  BY <1>4, SameSteps
<1>6. Doublings(first, 0) = first
  <2>1. PICK z \in [0..0 -> Nat] : DoublingFrom(z, first, 0) /\ Doublings(first, 0) = z[0]
    BY DoublingIs
  <2> QED BY <2>1 DEF DoublingFrom
<1>7. t[n + 1] = 2 * t[n]
  BY <1>3
<1> QED BY <1>1, <1>2, <1>5, <1>6, <1>7

LEMMA WaitIsNat ==
    ASSUME NEW first \in Nat, NEW longest \in Nat, NEW n \in Nat
    PROVE  Wait(first, longest, n) \in Nat
  BY DoublingStep DEF Wait, Smaller

\* One doubling, then the cap, is the wait after.
LEMMA WaitStep ==
    ASSUME NEW first \in Nat, NEW longest \in Nat, NEW n \in Nat
    PROVE  Wait(first, longest, n + 1) = Smaller(Wait(first, longest, n) * 2, longest)
<1>1. Doublings(first, n) \in Nat /\ Doublings(first, n + 1) = 2 * Doublings(first, n)
  BY DoublingStep
<1> QED BY <1>1 DEF Wait, Smaller

SummingTo(s, first, longest, n) ==
    s = [k \in 0..n |-> IF k = 0 THEN 0 ELSE s[k - 1] + Wait(first, longest, k - 1)]

LEMMA SummingExists ==
    ASSUME NEW first \in Nat, NEW longest \in Nat, NEW n \in Nat
    PROVE  \E s \in [0..n -> Nat] : SummingTo(s, first, longest, n)
<1> DEFINE g == [k \in Nat |-> [v \in Nat |-> v + Wait(first, longest, k)]]
<1>1. g \in [Nat -> [Nat -> Nat]] /\ \A k, v \in Nat : g[k][v] = v + Wait(first, longest, k)
  BY WaitIsNat
<1> HIDE DEF g
<1>2. PICK s : Goes(s, 0, g, n)
  BY <1>1, RecursionExists
<1>3. /\ s \in [0..n -> Nat] /\ s[0] = 0
      /\ \A i \in 0..(n - 1) : s[i + 1] = s[i] + Wait(first, longest, i)
  <2>1. s \in [0..n -> Nat] /\ s[0] = 0 /\ \A i \in 0..(n - 1) : s[i + 1] = g[i][s[i]]
    BY <1>2 DEF Goes
  <2>2. \A i \in 0..(n - 1) : i \in Nat /\ s[i] \in Nat
    BY <2>1
  <2> QED BY <1>1, <2>1, <2>2
<1>4. s = [k \in 0..n |-> IF k = 0 THEN 0 ELSE s[k - 1] + Wait(first, longest, k - 1)]
  <2>1. ASSUME NEW k \in 0..n, k # 0 PROVE s[k] = s[k - 1] + Wait(first, longest, k - 1)
    <3>1. k - 1 \in 0..(n - 1) /\ (k - 1) + 1 = k
      BY <2>1
    <3> QED BY <1>3, <3>1
  <2>2. \A k \in 0..n : s[k] = IF k = 0 THEN 0 ELSE s[k - 1] + Wait(first, longest, k - 1)
    BY <1>3, <2>1
  <2> QED BY <1>3, <2>2
<1> QED BY <1>3, <1>4 DEF SummingTo

LEMMA SummingIs ==
    ASSUME NEW first \in Nat, NEW longest \in Nat, NEW n \in Nat
    PROVE  \E s \in [0..n -> Nat] :
              SummingTo(s, first, longest, n) /\ Waits(first, longest, n) = s[n]
<1> DEFINE d == CHOOSE d :
              d = [k \in 0..n |-> IF k = 0 THEN 0 ELSE d[k - 1] + Wait(first, longest, k - 1)]
<1>1. Waits(first, longest, n) = d[n]
  BY DEF Waits
<1>2. PICK s \in [0..n -> Nat] : SummingTo(s, first, longest, n)
  BY SummingExists
<1>3. SummingTo(d, first, longest, n)
  <2>1. \E t : t = [k \in 0..n |-> IF k = 0 THEN 0 ELSE t[k - 1] + Wait(first, longest, k - 1)]
    BY <1>2 DEF SummingTo
  <2>2. d = [k \in 0..n |-> IF k = 0 THEN 0 ELSE d[k - 1] + Wait(first, longest, k - 1)]
    BY <2>1
  <2> HIDE DEF d
  <2> QED BY <2>2 DEF SummingTo
<1> HIDE DEF d
<1>4. /\ \A k \in 0..n : d[k] = IF k = 0 THEN 0 ELSE d[k - 1] + Wait(first, longest, k - 1)
      /\ \A k \in 0..n : s[k] = IF k = 0 THEN 0 ELSE s[k - 1] + Wait(first, longest, k - 1)
  BY <1>2, <1>3 DEF SummingTo
<1>5. Alike(s, d, n)
  <2>1. s[0] = d[0]
    BY <1>4
  <2>2. ASSUME NEW k \in 0..(n - 1), s[k] = d[k] PROVE s[k + 1] = d[k + 1]
    <3>1. k + 1 \in 0..n /\ k + 1 # 0 /\ (k + 1) - 1 = k
      OBVIOUS
    <3> QED BY <1>4, <2>2, <3>1
  <2> QED BY <2>1, <2>2 DEF Alike
<1>6. \A k \in 0..n : s[k] = d[k]
  BY <1>5, SameSteps
<1> QED BY <1>1, <1>2, <1>6

LEMMA WaitsStep ==
    ASSUME NEW first \in Nat, NEW longest \in Nat, NEW n \in Nat
    PROVE  /\ Waits(first, longest, 0) = 0
           /\ Waits(first, longest, n + 1) = Waits(first, longest, n) + Wait(first, longest, n)
<1>1. PICK s \in [0..n -> Nat] :
          SummingTo(s, first, longest, n) /\ Waits(first, longest, n) = s[n]
  BY SummingIs
<1>2. PICK t \in [0..(n + 1) -> Nat] :
          SummingTo(t, first, longest, n + 1) /\ Waits(first, longest, n + 1) = t[n + 1]
  <2>1. n + 1 \in Nat
    OBVIOUS
  <2> QED BY <2>1, SummingIs
<1>3. /\ \A k \in 0..n : s[k] = IF k = 0 THEN 0 ELSE s[k - 1] + Wait(first, longest, k - 1)
      /\ \A k \in 0..(n + 1) : t[k] = IF k = 0 THEN 0 ELSE t[k - 1] + Wait(first, longest, k - 1)
  BY <1>1, <1>2 DEF SummingTo
<1>4. Alike(s, t, n)
  <2>1. s[0] = t[0]
    BY <1>3
  <2>2. ASSUME NEW k \in 0..(n - 1), s[k] = t[k] PROVE s[k + 1] = t[k + 1]
    <3>1. k + 1 \in 0..n /\ k + 1 \in 0..(n + 1) /\ k + 1 # 0 /\ (k + 1) - 1 = k
      OBVIOUS
    <3> QED BY <1>3, <2>2, <3>1
  <2> QED BY <2>1, <2>2 DEF Alike
<1>5. s[n] = t[n]
  BY <1>4, SameSteps
<1>6. Waits(first, longest, 0) = 0
  <2>1. PICK z \in [0..0 -> Nat] :
            SummingTo(z, first, longest, 0) /\ Waits(first, longest, 0) = z[0]
    BY SummingIs
  <2> QED BY <2>1 DEF SummingTo
<1>7. t[n + 1] = t[n] + Wait(first, longest, n)
  BY <1>3
<1> QED BY <1>1, <1>2, <1>5, <1>6, <1>7

-----------------------------------------------------------------------------
(* The invariant.                                                          *)

\* What the caller has seen by phase: nothing before the reply was read, and
\* then what was assembled.
Delivery ==
    /\ phase \notin {"events", "returned", "raised"} \/ ~ streaming => delivered = <<>>
    /\ phase = "events" => streaming
    /\ phase \in {"events", "returned"} => IF streaming THEN content = delivered
                                                       ELSE Len(content) = 1

\* Attempts by phase: a request is sent once per attempt, and only a transient
\* error with retries left leads to a wait.
Attempts ==
    /\ phase \in {"configuring", "refused"} => attempt = 0 /\ max_retries = 0
                                               /\ initial_backoff = 0 /\ max_backoff = 0
    /\ phase \in {"configuring", "refused", "connecting", "sleeping"} => sent <= attempt + 1
    /\ phase \in {"configuring", "connecting"} => sent <= attempt
    /\ phase = "sleeping" => attempt < max_retries /\ fault = "retryable"

\* Backoffs are numbers of milliseconds, smallest first.
Backoffs == initial_backoff \in Nat /\ max_backoff \in Nat /\ initial_backoff <= max_backoff

ClientInv == TypeOK /\ Backoffs /\ Attempts /\ Delivery /\ GivesUpRightly

-----------------------------------------------------------------------------

\* What Config gives for a count and for milliseconds.
LEMMA CountsHaveWidth ==
    ASSUME NEW text, ParseCount(text) # Invalid
    PROVE  ParseCount(text) \in 0..(SizeRange - 1)
  BY KeysAreTyped DEF ParseCount

LEMMA MillisecondsAreNat ==
    ASSUME NEW text, ParseMilliseconds(text) # Invalid
    PROVE  ParseMilliseconds(text) \in Nat
  BY KeysAreTyped DEF ParseMilliseconds

LEMMA OptionsAreTyped ==
    ASSUME NEW options, NEW texts,
           options = [key \in Keys |-> Parse(key, texts[key])], ~ Raises(options)
    PROVE  /\ options["max_retries"] \in 0..(SizeRange - 1)
           /\ options["initial_backoff"] \in Nat
           /\ options["max_backoff"] \in Nat
<1>1. \A key \in {"max_retries", "initial_backoff", "max_backoff"} :
         key \in Keys /\ options[key] # Invalid
  BY KeysOfTheClient DEF Raises
<1>2. options["max_retries"] = ParseCount(texts["max_retries"])
  BY <1>1, KeysOfTheClient DEF Parse
<1>3. \A key \in {"initial_backoff", "max_backoff"} :
         options[key] = ParseMilliseconds(texts[key])
  BY <1>1, KeysOfTheClient DEF Parse
<1> QED
  BY <1>1, <1>2, <1>3, CountsHaveWidth, MillisecondsAreNat

LEMMA BodiesAreSequences == Bodies \subseteq Seq(Event)
  BY BoundIsNumber DEF Bodies

LEMMA FailKeeps ==
    ASSUME ClientInv, NEW class \in {"retryable", "final"}, Fail(class)
    PROVE  /\ fault' = class /\ phase' \in {"sleeping", "raised"}
           /\ phase' = "sleeping" => attempt < max_retries /\ class = "retryable"
           /\ phase' = "raised" /\ class = "retryable" => attempt = max_retries
  BY KeysAreTyped DEF Fail, MayRetry, ClientInv, TypeOK

LEMMA InitClientInv == Init => ClientInv
<1> SUFFICES ASSUME Init PROVE ClientInv
  OBVIOUS
<1>1. TypeOK
  BY KeysAreTyped DEF Init, TypeOK, Faults
<1> QED
  BY <1>1 DEF Init, ClientInv, Backoffs, Attempts, Delivery, GivesUpRightly

-----------------------------------------------------------------------------
(* Steps before a reply.                                                   *)

LEMMA ConstructKeeps == ClientInv /\ Construct => ClientInv'
<1> SUFFICES ASSUME ClientInv, Construct PROVE ClientInv'
  OBVIOUS
<1> DEFINE texts == [key \in Keys |-> Lookup(environment, lines, key)]
           options == Loaded(environment, lines)
<1>1. CASE Raises(options) \/ ~ Accepts(options)
  BY <1>1 DEF Construct, ClientInv, TypeOK, Backoffs, Attempts, Delivery, GivesUpRightly
<1>2. CASE ~ Raises(options) /\ Accepts(options)
  <2>1. options = [key \in Keys |-> Parse(key, texts[key])]
    BY DEF Loaded
  <2>2. /\ options["max_retries"] \in 0..(SizeRange - 1)
        /\ options["initial_backoff"] \in Nat
        /\ options["max_backoff"] \in Nat
    BY <1>2, <2>1, OptionsAreTyped
  <2>3. options["initial_backoff"] > 0 /\ options["max_backoff"] >= options["initial_backoff"]
    BY <1>2 DEF Accepts
  <2>4. /\ phase = "configuring" /\ phase' = "connecting"
        /\ max_retries' = options["max_retries"]
        /\ initial_backoff' = options["initial_backoff"]
        /\ max_backoff' = options["max_backoff"]
        /\ backoff' = options["initial_backoff"]
        /\ UNCHANGED <<environment, lines, streaming, attempt, body, content, delivered, sent,
                       slept, fault>>
    BY <1>2 DEF Construct
  <2> HIDE DEF options
  <2>5. TypeOK'
    BY <2>2, <2>3, <2>4, KeysAreTyped DEF ClientInv, TypeOK, Attempts
  <2> QED
    BY <2>2, <2>3, <2>4, <2>5
       DEF ClientInv, TypeOK, Backoffs, Attempts, Delivery, GivesUpRightly
<1> QED
  BY <1>1, <1>2

LEMMA ExchangeKeeps == ClientInv /\ Exchange => ClientInv'
<1> SUFFICES ASSUME ClientInv, Exchange PROVE ClientInv'
  OBVIOUS
<1> USE DEF ClientInv, request
<1>1. CASE SendFails
  <2>1. Fail("retryable")
    BY <1>1 DEF SendFails
  <2>2. TypeOK'
    BY <1>1, <2>1, FailKeeps DEF SendFails, TypeOK, Attempts, Faults
  <2> QED
    BY <1>1, <2>1, <2>2, FailKeeps
       DEF SendFails, TypeOK, Backoffs, Attempts, Delivery, GivesUpRightly
<1>2. CASE Send
  BY <1>2 DEF Send, TypeOK, Backoffs, Attempts, Delivery, GivesUpRightly
<1>3. CASE ReadFails \/ StatusIsError
  <2>1. PICK class \in {"retryable", "final"} : Fail(class)
    BY <1>3 DEF ReadFails, StatusIsError
  <2>2. /\ phase = "reading"
        /\ UNCHANGED <<environment, lines, streaming, max_retries, initial_backoff, max_backoff,
                       attempt, backoff, body, content, delivered, sent, slept>>
    BY <1>3 DEF ReadFails, StatusIsError
  <2>3. TypeOK'
    BY <2>1, <2>2, FailKeeps DEF TypeOK, Attempts, Faults
  <2> QED
    BY <2>1, <2>2, <2>3, FailKeeps DEF TypeOK, Backoffs, Attempts, Delivery, GivesUpRightly
<1>4. CASE Completion
  <2>1. /\ phase = "reading" /\ ~ streaming
        /\ \/ phase' = "returned" /\ UNCHANGED fault /\ \E e \in Chunks : content' = <<e>>
           \/ phase' = "raised" /\ fault' = "final" /\ UNCHANGED content
        /\ UNCHANGED <<environment, lines, streaming, max_retries, initial_backoff, max_backoff,
                       attempt, backoff, body, delivered, sent, slept>>
    BY <1>4 DEF Completion
  <2>2. \A e \in Chunks : <<e>> \in Seq(Chunks)
    OBVIOUS
  <2>3. content' \in Seq(Chunks)
    BY <2>1, <2>2 DEF TypeOK
  <2>4. TypeOK'
    BY <2>1, <2>3 DEF TypeOK, Attempts, Faults
  <2>5. ~ streaming' /\ (phase' = "returned" => Len(content') = 1)
    BY <2>1
  <2> QED
    BY <2>1, <2>4, <2>5 DEF TypeOK, Backoffs, Attempts, Delivery, GivesUpRightly
<1>5. CASE StreamRead
  BY <1>5, BodiesAreSequences
     DEF StreamRead, TypeOK, Backoffs, Attempts, Delivery, GivesUpRightly
<1> QED
  BY <1>1, <1>2, <1>3, <1>4, <1>5 DEF Exchange

-----------------------------------------------------------------------------
(* Steps on a reply, and the wait.                                         *)

LEMMA LocalKeeps == ClientInv /\ Local => ClientInv'
<1> SUFFICES ASSUME ClientInv, Local PROVE ClientInv'
  OBVIOUS
<1> USE DEF ClientInv, request
<1>1. CASE Construct
  BY <1>1, ConstructKeeps
<1>2. CASE Deliver
  <2>1. /\ phase = "events" /\ body # <<>> /\ Head(body) \in Chunks
        /\ body' = Tail(body)
        /\ content' = Append(content, Head(body))
        /\ delivered' = Append(delivered, Head(body))
        /\ UNCHANGED <<environment, lines, streaming, max_retries, initial_backoff, max_backoff,
                       attempt, backoff, sent, slept>>
    BY <1>2 DEF Deliver
  <2>2. \/ phase' = "events" /\ fault' = fault
        \/ phase' = "raised" /\ fault' = "final"
    BY <1>2 DEF Deliver, Fail, AbortClass
  <2>3. TypeOK'
    BY <2>1, <2>2 DEF TypeOK, Faults
  <2> QED
    BY <2>1, <2>2, <2>3 DEF TypeOK, Backoffs, Attempts, Delivery, GivesUpRightly
<1>3. CASE Skip
  BY <1>3 DEF Skip, TypeOK, Backoffs, Attempts, Delivery, GivesUpRightly
<1>4. CASE ParseFails
  BY <1>4 DEF ParseFails, TypeOK, Backoffs, Attempts, Delivery, GivesUpRightly, Faults
<1>5. CASE StreamEnds
  BY <1>5 DEF StreamEnds, TypeOK, Backoffs, Attempts, Delivery, GivesUpRightly
<1>6. CASE Sleep
  <2>1. TypeOK'
    BY <1>6, KeysAreTyped DEF Sleep, NextBackoff, Smaller, TypeOK, Backoffs, Attempts
  <2> QED
    BY <1>6, <2>1 DEF Sleep, TypeOK, Backoffs, Attempts, Delivery, GivesUpRightly
<1> QED
  BY <1>1, <1>2, <1>3, <1>4, <1>5, <1>6 DEF Local

LEMMA StepClientInv == ClientInv /\ [Next]_vars => ClientInv'
<1>1. CASE UNCHANGED vars
  BY <1>1 DEF vars, request, ClientInv, TypeOK, Backoffs, Attempts, Delivery, GivesUpRightly
<1> QED
  BY <1>1, ExchangeKeeps, LocalKeeps DEF Next

LEMMA ClientInvHolds == Spec => []ClientInv
  BY InitClientInv, StepClientInv, PTL DEF Spec

-----------------------------------------------------------------------------

\* A failed call has used every retry or met an error that is not transient,
\* and nothing else is tried again (llm.cpp:286-299).
THEOREM RetriesAreUsedUp == Spec => []GivesUpRightly
<1>1. ClientInv => GivesUpRightly
  BY DEF ClientInv
<1> QED BY <1>1, ClientInvHolds, PTL

\* What a call returns is what its callback saw, or the one completion.
THEOREM ReplyIsDelivered == Spec => []ReturnsTheReply
<1>1. ClientInv => ReturnsTheReply
  BY DEF ClientInv, Delivery, ReturnsTheReply
<1> QED BY <1>1, ClientInvHolds, PTL

\* No attempt follows the delivery of a chunk, whatever ends the stream.
THEOREM ChunksAreDeliveredOnce == Spec => DeliveredOnce
<1>1. ClientInv /\ [Next]_vars =>
         [delivered # <<>> => attempt' = attempt /\ sent' = sent]_vars
  <2> SUFFICES ASSUME ClientInv, Next, delivered # <<>>
               PROVE  attempt' = attempt /\ sent' = sent
    OBVIOUS
  <2>1. phase \in {"events", "returned", "raised"}
    BY DEF ClientInv, Delivery
  <2> QED
    BY <2>1 DEF Next, Exchange, Local, Construct, SendFails, Send, ReadFails, StatusIsError,
       Completion, StreamRead, Deliver, Skip, ParseFails, StreamEnds, Sleep
<1> QED BY <1>1, ClientInvHolds, PTL DEF Spec, DeliveredOnce

\* Types; of these the bounds on attempt, backoff and sent are the content.
THEOREM ClientTypes == Spec => []TypeOK
<1>1. ClientInv => TypeOK
  BY DEF ClientInv
<1> QED BY <1>1, ClientInvHolds, PTL

-----------------------------------------------------------------------------
(* What the waits and the number of tries come to.                         *)

LEMMA InitWaits == Init => WaitsDouble
<1> SUFFICES ASSUME Init PROVE WaitsDouble
  OBVIOUS
<1>1. /\ initial_backoff = 0 /\ max_backoff = 0 /\ attempt = 0 /\ backoff = 0 /\ slept = 0
  BY DEF Init
<1>2. Wait(0, 0, 0) = 0 /\ Waits(0, 0, 0) = 0
  BY DoublingStep, WaitsStep DEF Wait, Smaller
<1> QED BY <1>1, <1>2 DEF WaitsDouble

LEMMA StepWaits == ClientInv /\ WaitsDouble /\ [Next]_vars => WaitsDouble'
<1> SUFFICES ASSUME ClientInv, WaitsDouble, [Next]_vars PROVE WaitsDouble'
  OBVIOUS
<1>1. ASSUME UNCHANGED <<initial_backoff, max_backoff, attempt, backoff, slept>>
      PROVE  WaitsDouble'
  BY <1>1 DEF WaitsDouble
<1>2. CASE Construct
  <2> DEFINE options == Loaded(environment, lines)
             texts == [key \in Keys |-> Lookup(environment, lines, key)]
  <2>1. CASE Raises(options) \/ ~ Accepts(options)
    BY <1>1, <1>2, <2>1 DEF Construct
  <2>2. CASE ~ Raises(options) /\ Accepts(options)
    <3>1. options = [key \in Keys |-> Parse(key, texts[key])]
      BY DEF Loaded
    <3>2. options["initial_backoff"] \in Nat /\ options["max_backoff"] \in Nat
      BY <2>2, <3>1, OptionsAreTyped
    <3>3. options["max_backoff"] >= options["initial_backoff"]
      BY <2>2 DEF Accepts
    <3>4. /\ initial_backoff' = options["initial_backoff"]
          /\ max_backoff' = options["max_backoff"]
          /\ backoff' = options["initial_backoff"]
          /\ attempt' = attempt /\ slept' = slept /\ phase = "configuring"
      BY <1>2, <2>2 DEF Construct
    <3> HIDE DEF options
    <3>5. attempt = 0 /\ initial_backoff = 0 /\ max_backoff = 0
      BY <3>4 DEF ClientInv, Attempts
    <3>6. slept = 0
      BY <3>5, WaitsStep DEF WaitsDouble
    <3>7. /\ Wait(options["initial_backoff"], options["max_backoff"], 0) = options["initial_backoff"]
          /\ Waits(options["initial_backoff"], options["max_backoff"], 0) = 0
      BY <3>2, <3>3, DoublingStep, WaitsStep DEF Wait, Smaller
    <3> QED BY <3>4, <3>5, <3>6, <3>7 DEF WaitsDouble
  <2> QED BY <2>1, <2>2
<1>3. CASE Sleep
  <2>1. initial_backoff \in Nat /\ max_backoff \in Nat /\ attempt \in Nat
    BY KeysAreTyped DEF ClientInv, TypeOK, Backoffs
  <2>2. /\ slept' = slept + backoff /\ backoff' = Smaller(backoff * 2, max_backoff)
        /\ attempt' = attempt + 1
        /\ initial_backoff' = initial_backoff /\ max_backoff' = max_backoff
    BY <1>3 DEF Sleep, NextBackoff, request
  <2>3. /\ Wait(initial_backoff, max_backoff, attempt + 1) = Smaller(backoff * 2, max_backoff)
        /\ Waits(initial_backoff, max_backoff, attempt + 1) = slept + backoff
    BY <2>1, WaitStep, WaitsStep DEF WaitsDouble
  <2> QED BY <2>2, <2>3 DEF WaitsDouble
<1>4. CASE Exchange \/ Deliver \/ Skip \/ ParseFails \/ StreamEnds
  BY <1>1, <1>4 DEF Exchange, SendFails, Send, ReadFails, StatusIsError, Completion, StreamRead,
     Deliver, Skip, ParseFails, StreamEnds, request
<1>5. CASE UNCHANGED vars
  BY <1>1, <1>5 DEF vars, request
<1> QED BY <1>2, <1>3, <1>4, <1>5 DEF Next, Local

\* The backoff doubles from attempt to attempt up to its cap, and a call sleeps
\* for as long as these waits are together.
THEOREM WaitsAreDoubled == Spec => []WaitsDouble
<1>1. ClientInv /\ WaitsDouble /\ [Next]_vars => WaitsDouble'
  BY StepWaits
<1> QED BY <1>1, InitWaits, ClientInvHolds, PTL DEF Spec

\* The retries are those that Config found, for a client that was made.
Configured ==
    /\ lines \in EnvFiles
    /\ phase \notin {"configuring", "refused"} =>
           max_retries = ParseCount(Lookup(environment, lines, "max_retries"))

LEMMA StepConfigured == Configured /\ [Next]_vars => Configured'
<1> SUFFICES ASSUME Configured, [Next]_vars PROVE Configured'
  OBVIOUS
<1>1. ASSUME UNCHANGED <<environment, lines, max_retries>>,
             phase' \notin {"configuring", "refused"} => phase \notin {"configuring", "refused"}
      PROVE  Configured'
  BY <1>1 DEF Configured
<1>2. CASE Construct
  <2> DEFINE options == Loaded(environment, lines)
  <2>1. CASE Raises(options) \/ ~ Accepts(options)
    BY <1>1, <1>2, <2>1 DEF Construct
  <2>2. CASE ~ Raises(options) /\ Accepts(options)
    <3>1. max_retries' = options["max_retries"] /\ environment' = environment /\ lines' = lines
      BY <1>2, <2>2 DEF Construct
    <3>2. options["max_retries"] = ParseCount(Lookup(environment, lines, "max_retries"))
      BY KeysOfTheClient DEF Loaded, Parse
    <3> HIDE DEF options
    <3> QED BY <3>1, <3>2 DEF Configured
  <2> QED BY <2>1, <2>2
<1>3. CASE SendFails \/ Send \/ ReadFails \/ StatusIsError \/ Completion \/ StreamRead
  BY <1>1, <1>3 DEF SendFails, Send, ReadFails, StatusIsError, Completion, StreamRead, request
<1>4. CASE Deliver \/ Skip \/ ParseFails \/ StreamEnds \/ Sleep
  BY <1>1, <1>4 DEF Deliver, Skip, ParseFails, StreamEnds, Sleep, request
<1>5. CASE UNCHANGED vars
  BY <1>1, <1>5 DEF vars, request
<1> QED BY <1>2, <1>3, <1>4, <1>5 DEF Next, Exchange, Local

\* What Told says of a number is what Lookup gives.
LEMMA ToldIsLookedUp ==
    ASSUME lines \in EnvFiles, NEW retries, Told(retries)
    PROVE  Lookup(environment, lines, "max_retries") = retries
<1> DEFINE key == "max_retries"
<1>1. CASE environment[key] # Unset
  BY <1>1 DEF Told, Lookup
<1>2. CASE environment[key] = Unset /\ LinesOf(lines, key) = {}
  BY <1>2 DEF Told, Lookup, LinesOf
<1>3. CASE environment[key] = Unset /\ LinesOf(lines, key) # {}
  <2>1. PICK i \in DOMAIN lines : /\ lines[i] = [key |-> key, text |-> retries]
                                  /\ \A j \in 1..(i - 1) : lines[j].key # key
    BY <1>3 DEF Told, LinesOf
  <2>2. DOMAIN lines = 1..Len(lines) /\ Len(lines) \in Nat
    BY FilesHaveLines
  <2>3. i \in LinesOf(lines, key) /\ \A j \in LinesOf(lines, key) : i <= j
    BY <2>1, <2>2 DEF LinesOf
  <2> DEFINE c == CHOOSE c \in LinesOf(lines, key) : \A j \in LinesOf(lines, key) : c <= j
  <2>4. c \in LinesOf(lines, key) /\ \A j \in LinesOf(lines, key) : c <= j
    BY <2>3
  <2>5. Lookup(environment, lines, key) = lines[c].text
    BY <1>3 DEF Lookup
  <2> HIDE DEF c
  <2>6. c = i
    BY <2>2, <2>3, <2>4 DEF LinesOf
  <2> QED BY <2>1, <2>5, <2>6
<1> QED BY <1>1, <1>2, <1>3

\* A call that fails for good has tried as often as it was told to.
THEOREM TriesAreConfigured == Spec => []TriesAsConfigured
<1>1. ASSUME ClientInv, Configured PROVE TriesAsConfigured
  <2> SUFFICES ASSUME phase = "raised", fault = "retryable", NEW retries \in Nat, Told(retries)
               PROVE  sent <= retries + 1 /\ attempt = retries
    BY DEF TriesAsConfigured
  <2>1. Lookup(environment, lines, "max_retries") = retries
    BY <1>1, ToldIsLookedUp DEF Configured
  <2>2. max_retries = ParseCount(retries) /\ max_retries \in Nat
    BY <1>1, <2>1, KeysAreTyped DEF Configured, ClientInv, TypeOK
  <2>3. max_retries = retries
    <3>1. retries \in 0..(SizeRange - 1) => retries % SizeRange = retries
      BY KeysAreTyped
    <3>2. ParseCount(retries) # Invalid
      BY <2>2, KeysAreTyped
    <3> QED BY <2>2, <3>1, <3>2, KeysAreTyped DEF ParseCount
  <2>4. attempt = max_retries /\ sent \in 0..(attempt + 1)
    BY <1>1 DEF ClientInv, TypeOK, GivesUpRightly
  <2> QED BY <2>3, <2>4
<1>2. ClientInv /\ Configured => TriesAsConfigured
  BY <1>1
<1>3. Init => Configured
  BY DEF Init, Configured
<1>4. Configured /\ [Next]_vars => Configured'
  BY StepConfigured
<1> QED BY <1>2, <1>3, <1>4, ClientInvHolds, PTL DEF Spec

================================================================================
