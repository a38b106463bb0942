------------------------- MODULE PromptBuilderProofs -------------------------
(***************************************************************************)
(* For any requests, budgets and template files: a prompt and its sections *)
(* keep their limits, what is cut is an end, and no failed reading of a    *)
(* template leaves a trace.                                                *)
(***************************************************************************)
EXTENDS PromptBuilder, SequenceTheorems, WellFoundedInduction, TLAPS

(* Recursion over sequences.                                               *)

LEMMA LeastExists ==
    ASSUME NEW S \in SUBSET Nat, S # {}
    PROVE  \E m \in S : \A n \in S : m <= n
<1> DEFINE less == OpToRel(<, Nat)
<1>1. IsWellFoundedOn(less, Nat)
  BY NatLessThanWellFounded
<1>2. \A x, y \in Nat : y < x => <<y, x>> \in less
  BY DEF OpToRel
<1> HIDE DEF less
<1>3. PICK m \in S : \A n \in S : ~ (<<n, m>> \in less)
  BY <1>1, WFMin
<1>4. ASSUME NEW n \in S PROVE m <= n
  <2>1. m \in Nat /\ n \in Nat
    OBVIOUS
  <2>2. ~ (n < m)
    BY <1>2, <1>3, <2>1
  <2> QED BY <2>1, <2>2
<1> QED BY <1>4

\* Induction over the numbers up to n.
LEMMA Inductive ==
    ASSUME NEW n \in Nat, NEW S, 0 \in S, \A k \in 0..(n - 1) : k \in S => k + 1 \in S
    PROVE  0..n \subseteq S
<1> DEFINE missing == (0..n) \ S
<1> SUFFICES ASSUME missing # {} PROVE FALSE
  OBVIOUS
<1>1. missing \in SUBSET Nat
  OBVIOUS
<1>2. PICK m \in missing : \A k \in missing : m <= k
  <2> HIDE DEF missing
  <2> QED BY <1>1, LeastExists
<1>3. m \in 1..n /\ m \notin S
  OBVIOUS
<1>4. m - 1 \in S
  BY <1>1, <1>2, <1>3
<1> QED BY <1>3, <1>4

Runs(s, start, steps) ==
    s = [i \in 0..Len(steps) |-> IF i = 0 THEN start ELSE steps[i][s[i - 1]]]

\* Steps that stay in W.
Stay(steps, W) == Len(steps) \in Nat /\ \A i \in 1..Len(steps) : \A w \in W : steps[i][w] \in W

LEMMA RunExists ==
    ASSUME NEW W, NEW start \in W, NEW steps, Stay(steps, W)
    PROVE  \E s \in [0..Len(steps) -> W] : Runs(s, start, steps)
<1> DEFINE n == Len(steps)
           From(s, k) == s[0] = start /\ \A i \in 0..(k - 1) : s[i + 1] = steps[i + 1][s[i]]
           S == {k \in 0..n : \E s \in [0..k -> W] : From(s, k)}
<1>1. n \in Nat /\ \A i \in 1..n : \A w \in W : steps[i][w] \in W
  BY DEF Stay
<1> HIDE DEF n
<1>2. 0 \in S
  <2>1. [i \in 0..0 |-> start] \in [0..0 -> W] /\ From([i \in 0..0 |-> start], 0)
    OBVIOUS
  <2>2. 0 \in 0..n
    BY <1>1
  <2> HIDE DEF From
  <2> QED BY <2>1, <2>2
<1>3. ASSUME NEW k \in 0..(n - 1), k \in S PROVE k + 1 \in S
  <2>1. PICK s \in [0..k -> W] : From(s, k)
    BY <1>3
  <2>2. s[0] = start /\ \A i \in 0..(k - 1) : s[i + 1] = steps[i + 1][s[i]]
    BY <2>1
  <2> DEFINE t == [i \in 0..(k + 1) |-> IF i = k + 1 THEN steps[k + 1][s[k]] ELSE s[i]]
  <2>3. k \in Nat /\ k + 1 \in 1..n /\ k + 1 \in 0..n /\ s[k] \in W
    BY <1>1, <2>1
  <2>4. steps[k + 1][s[k]] \in W
    BY <1>1, <2>3
  <2>5. t \in [0..(k + 1) -> W]
    <3>1. ASSUME NEW i \in 0..(k + 1), i # k + 1 PROVE s[i] \in W
      <4>1. i \in 0..k
        BY <2>3, <3>1
      <4> QED BY <2>1, <4>1
    <3> QED BY <2>4, <3>1
  <2>6. t[0] = start
    BY <2>2, <2>3
  <2>7. ASSUME NEW i \in 0..((k + 1) - 1) PROVE t[i + 1] = steps[i + 1][t[i]]
    <3>1. CASE i = k
      <4>1. t[k + 1] = steps[k + 1][s[k]] /\ t[k] = s[k]
        BY <2>3
      <4> QED BY <3>1, <4>1
    <3>2. CASE i # k
      <4>1. i \in 0..(k - 1)
        BY <2>3, <3>2
      <4>2. /\ i \in 0..(k + 1) /\ i + 1 \in 0..(k + 1)
            /\ i # k + 1 /\ i + 1 # k + 1
        BY <2>3, <4>1
      <4>3. t[i + 1] = s[i + 1] /\ t[i] = s[i]
        BY <4>2
      <4> QED BY <2>2, <4>1, <4>3
    <3> QED BY <3>1, <3>2
  <2> HIDE DEF t
  <2>8. From(t, k + 1)
    BY <2>6, <2>7
  <2> HIDE DEF From
  <2> QED BY <2>3, <2>5, <2>8
<1>4. 0..n \subseteq S
  <2> HIDE DEF S
  <2> QED BY <1>1, <1>2, <1>3, Inductive
<1>5. PICK s \in [0..n -> W] : From(s, n)
  <2>1. n \in S
    BY <1>1, <1>4
  <2> QED BY <2>1
<1>6. ASSUME NEW i \in 0..n, i # 0 PROVE s[i] = steps[i][s[i - 1]]
  <2>1. i - 1 \in 0..(n - 1) /\ (i - 1) + 1 = i
    BY <1>1, <1>6
  <2> QED BY <1>5, <2>1
<1>7. s = [i \in 0..n |-> IF i = 0 THEN start ELSE steps[i][s[i - 1]]]
  <2>1. \A i \in 0..n : s[i] = IF i = 0 THEN start ELSE steps[i][s[i - 1]]
    BY <1>5, <1>6
  <2> QED BY <2>1
<1> QED BY <1>7 DEF Runs, n

\* The two agree as far as their steps are the same.
LEMMA RunsAgree ==
    ASSUME NEW start, NEW p, NEW q, Len(p) \in Nat, Len(q) \in Nat, Len(p) <= Len(q),
           \A i \in 1..Len(p) : p[i] = q[i],
           NEW s, NEW t, Runs(s, start, p), Runs(t, start, q)
    PROVE  s[Len(p)] = t[Len(p)]
<1> DEFINE n == Len(p)
           S == {i \in 0..n : s[i] = t[i]}
<1>1. \A i \in 0..n : s[i] = IF i = 0 THEN start ELSE p[i][s[i - 1]]
  BY DEF Runs
<1>2. \A i \in 0..n : t[i] = IF i = 0 THEN start ELSE q[i][t[i - 1]]
  <2>1. \A i \in 0..Len(q) : t[i] = IF i = 0 THEN start ELSE q[i][t[i - 1]]
    BY DEF Runs
  <2>2. \A i \in 0..n : i \in 0..Len(q)
    OBVIOUS
  <2> HIDE DEF n
  <2> QED BY <2>1, <2>2
<1>3. n \in Nat /\ \A i \in 1..n : p[i] = q[i]
  OBVIOUS
<1> HIDE DEF n
<1>4. 0 \in S
  BY <1>1, <1>2, <1>3
<1>5. ASSUME NEW i \in 0..(n - 1), i \in S PROVE i + 1 \in S
  <2>1. i + 1 \in 0..n /\ i + 1 \in 1..n /\ i + 1 # 0 /\ (i + 1) - 1 = i
    BY <1>3
  <2>2. s[i + 1] = p[i + 1][s[i]] /\ t[i + 1] = q[i + 1][t[i]]
    BY <1>1, <1>2, <2>1
  <2> QED BY <1>3, <1>5, <2>1, <2>2
<1>6. 0..n \subseteq S
  <2> HIDE DEF S
  <2> QED BY <1>3, <1>4, <1>5, Inductive
<1>7. n \in S
  BY <1>3, <1>6
<1> QED BY <1>7 DEF n

LEMMA ThroughIsRun ==
    ASSUME NEW W, NEW start \in W, NEW steps, Stay(steps, W)
    PROVE  \E s \in [0..Len(steps) -> W] :
              Runs(s, start, steps) /\ Through(start, steps) = s[Len(steps)]
<1> DEFINE d == CHOOSE d : d = [i \in 0..Len(steps) |-> IF i = 0 THEN start ELSE steps[i][d[i - 1]]]
<1>1. Through(start, steps) = d[Len(steps)]
  BY DEF Through
<1>2. PICK s \in [0..Len(steps) -> W] : Runs(s, start, steps)
  BY RunExists
<1>3. Runs(d, start, steps)
  <2>1. \E t : t = [i \in 0..Len(steps) |-> IF i = 0 THEN start ELSE steps[i][t[i - 1]]]
    BY <1>2 DEF Runs
  <2>2. d = [i \in 0..Len(steps) |-> IF i = 0 THEN start ELSE steps[i][d[i - 1]]]
    BY <2>1
  <2> HIDE DEF d
  <2> QED BY <2>2 DEF Runs
<1> HIDE DEF d
<1>4. s[Len(steps)] = d[Len(steps)]
  <2>1. Len(steps) \in Nat
    BY DEF Stay
  <2> QED BY <1>2, <1>3, <2>1, RunsAgree
<1> QED BY <1>1, <1>2, <1>4

LEMMA ThroughStays ==
    ASSUME NEW W, NEW start \in W, NEW steps, Stay(steps, W)
    PROVE  Through(start, steps) \in W
<1>1. PICK s \in [0..Len(steps) -> W] : Through(start, steps) = s[Len(steps)]
  BY ThroughIsRun
<1>2. Len(steps) \in 0..Len(steps)
  BY DEF Stay
<1> QED BY <1>1, <1>2

LEMMA ThroughNone ==
    ASSUME NEW start, NEW steps, Len(steps) = 0
    PROVE  Through(start, steps) = start
<1>1. Stay(steps, {start})
  BY DEF Stay
<1>2. Through(start, steps) \in {start}
  BY <1>1, ThroughStays
<1> QED BY <1>2

LEMMA ThroughStep ==
    ASSUME NEW W, NEW start \in W, NEW p, NEW q, Stay(q, W),
           Len(p) \in Nat, Len(q) = Len(p) + 1, \A i \in 1..Len(p) : p[i] = q[i]
    PROVE  Through(start, q) = q[Len(q)][Through(start, p)]
<1>1. Stay(p, W)
  BY DEF Stay
<1>2. PICK s \in [0..Len(p) -> W] : Runs(s, start, p) /\ Through(start, p) = s[Len(p)]
  BY <1>1, ThroughIsRun
<1>3. PICK t \in [0..Len(q) -> W] : Runs(t, start, q) /\ Through(start, q) = t[Len(q)]
  BY ThroughIsRun
<1>4. s[Len(p)] = t[Len(p)]
  BY <1>2, <1>3, RunsAgree
<1>5. t[Len(q)] = q[Len(q)][t[Len(p)]]
  <2>1. \A i \in 0..Len(q) : t[i] = IF i = 0 THEN start ELSE q[i][t[i - 1]]
    BY <1>3 DEF Runs
  <2>2. Len(q) \in 0..Len(q) /\ Len(q) # 0 /\ Len(q) - 1 = Len(p)
    OBVIOUS
  <2> QED BY <2>1, <2>2
<1> QED BY <1>2, <1>3, <1>4, <1>5

LEMMA GreatestExists ==
    ASSUME NEW n \in Nat, NEW S \in SUBSET (0..n), S # {}
    PROVE  \E m \in S : \A k \in S : k <= m
<1> DEFINE below == {n - k : k \in S}
<1>1. below \in SUBSET Nat /\ below # {}
  <2>1. \A k \in S : n - k \in Nat
    OBVIOUS
  <2> QED BY <2>1
<1>2. PICK d \in below : \A e \in below : d <= e
  <2> HIDE DEF below
  <2> QED BY <1>1, LeastExists
<1>3. PICK m \in S : d = n - m
  OBVIOUS
<1>4. ASSUME NEW k \in S PROVE k <= m
  <2>1. n - k \in below
    OBVIOUS
  <2>2. n - m <= n - k
    BY <1>2, <1>3, <2>1
  <2> QED BY <2>2
<1> QED BY <1>4

\* Induction over the sequences over T.
LEMMA SequencesFrom ==
    ASSUME NEW T, NEW S, <<>> \in S,
           \A s \in Seq(T), e \in T : s \in S => Append(s, e) \in S
    PROVE  Seq(T) \subseteq S
<1> SUFFICES ASSUME NEW s \in Seq(T) PROVE s \in S
  OBVIOUS
<1> DEFINE K == {k \in 0..Len(s) : SubSeq(s, 1, k) \in S}
<1>1. 0 \in K
  <2>1. SubSeq(s, 1, 0) = <<>> /\ 0 \in 0..Len(s)
    OBVIOUS
  <2> QED BY <2>1
<1>2. ASSUME NEW k \in 0..(Len(s) - 1), k \in K PROVE k + 1 \in K
  <2>1. SubSeq(s, 1, k) \in Seq(T) /\ s[k + 1] \in T
    OBVIOUS
  <2>2. SubSeq(s, 1, k + 1) = Append(SubSeq(s, 1, k), s[k + 1])
    OBVIOUS
  <2>3. Append(SubSeq(s, 1, k), s[k + 1]) \in S
    BY <1>2, <2>1
  <2>4. k + 1 \in 0..Len(s)
    OBVIOUS
  <2> QED BY <2>2, <2>3, <2>4
<1>3. Len(s) \in Nat
  OBVIOUS
<1>4. 0..Len(s) \subseteq K
  <2> HIDE DEF K
  <2> QED BY <1>1, <1>2, <1>3, Inductive
<1>5. SubSeq(s, 1, Len(s)) \in S
  BY <1>3, <1>4
<1> QED BY <1>5, SubSeqFull

-----------------------------------------------------------------------------
(* Token counts.                                                           *)

LEMMA TokensOfNone == Tokens(<<>>) = 0
<1>1. Len([i \in DOMAIN <<>> |-> [sum \in Nat |-> sum + <<>>[i]]]) = 0
  OBVIOUS
<1> QED BY <1>1, ThroughNone DEF Tokens

LEMMA TokensTyped ==
    ASSUME NEW lines \in Texts
    PROVE  Tokens(lines) \in Nat
<1> DEFINE steps == [i \in DOMAIN lines |-> [sum \in Nat |-> sum + lines[i]]]
<1>1. Len(steps) = Len(lines) /\ Len(lines) \in Nat
  BY DEF Texts
<1>2. \A i \in 1..Len(lines) : \A w \in Nat : steps[i][w] \in Nat
  BY DEF Texts
<1>3. Stay(steps, Nat)
  BY <1>1, <1>2 DEF Stay
<1> HIDE DEF steps
<1> QED BY <1>3, ThroughStays DEF Tokens, steps

LEMMA TokensOfAppend ==
    ASSUME NEW lines \in Texts, NEW n \in Nat
    PROVE  Tokens(Append(lines, n)) = Tokens(lines) + n
<1> DEFINE all == Append(lines, n)
           p == [i \in DOMAIN lines |-> [sum \in Nat |-> sum + lines[i]]]
           q == [i \in DOMAIN all |-> [sum \in Nat |-> sum + all[i]]]
<1>1. /\ Len(p) = Len(lines) /\ Len(lines) \in Nat /\ Len(q) = Len(lines) + 1
      /\ all \in Texts /\ Len(all) = Len(lines) + 1
      /\ \A i \in 1..Len(lines) : all[i] = lines[i]
      /\ all[Len(lines) + 1] = n
  BY DEF Texts
<1>2. ASSUME NEW i \in 1..Len(q), NEW w \in Nat PROVE q[i][w] \in Nat
  <2>1. i \in DOMAIN all /\ all[i] \in Nat
    BY <1>1 DEF Texts
  <2>2. q[i] = [sum \in Nat |-> sum + all[i]]
    BY <2>1
  <2>3. [sum \in Nat |-> sum + all[i]][w] = w + all[i]
    OBVIOUS
  <2> HIDE DEF q, all
  <2>4. w + all[i] \in Nat
    BY <2>1
  <2> QED BY ONLY <2>2, <2>3, <2>4, Zenon
<1>3. \A i \in 1..Len(p) : p[i] = q[i]
  BY <1>1 DEF Texts
<1>4. q[Len(q)] = [sum \in Nat |-> sum + n]
  <2>1. Len(q) \in DOMAIN all /\ all[Len(q)] = n
    BY <1>1 DEF Texts
  <2>2. \A i \in DOMAIN all : q[i] = [sum \in Nat |-> sum + all[i]]
    OBVIOUS
  <2> HIDE DEF q, all
  <2> QED BY <2>1, <2>2
<1>5. Stay(q, Nat)
  <2>1. Len(q) \in Nat
    BY <1>1
  <2> HIDE DEF q
  <2> QED BY <1>2, <2>1 DEF Stay
<1>6. Through(0, p) = Tokens(lines) /\ Through(0, q) = Tokens(Append(lines, n))
  BY DEF Tokens
<1> HIDE DEF p, q
<1>7. Len(p) \in Nat /\ Len(q) = Len(p) + 1
  BY <1>1
<1>8. Through(0, q) = q[Len(q)][Through(0, p)]
  <2>1. 0 \in Nat
    OBVIOUS
  <2>2. ASSUME NEW W, 0 \in W, Stay(q, W) PROVE Through(0, q) = q[Len(q)][Through(0, p)]
    BY <1>3, <1>7, <2>2, ThroughStep
  <2> QED BY ONLY <1>5, <2>1, <2>2, Zenon
<1> QED BY <1>4, <1>6, <1>8, TokensTyped

LEMMA TokensOfConcat ==
    ASSUME NEW lines \in Texts, NEW more \in Texts
    PROVE  Tokens(lines \o more) = Tokens(lines) + Tokens(more)
<1> DEFINE S == {t \in Texts : Tokens(lines \o t) = Tokens(lines) + Tokens(t)}
<1>1. <<>> \in S
  BY TokensOfNone, TokensTyped DEF Texts
<1>2. ASSUME NEW t \in Texts, NEW n \in Nat, t \in S PROVE Append(t, n) \in S
  <2>1. lines \o t \in Texts /\ Append(t, n) \in Texts
    BY DEF Texts
  <2>2. lines \o Append(t, n) = Append(lines \o t, n)
    BY DEF Texts
  <2>3. /\ Tokens(Append(lines \o t, n)) = Tokens(lines \o t) + n
        /\ Tokens(Append(t, n)) = Tokens(t) + n
    BY <2>1, TokensOfAppend
  <2>4. Tokens(lines) \in Nat /\ Tokens(t) \in Nat
    BY TokensTyped
  <2>5. Tokens(lines \o t) = Tokens(lines) + Tokens(t)
    BY <1>2
  <2>6. Tokens(lines \o Append(t, n)) = Tokens(lines) + Tokens(Append(t, n))
    BY <2>2, <2>3, <2>4, <2>5
  <2> QED BY <2>1, <2>6
<1>3. Texts \subseteq S
  <2> HIDE DEF S
  <2> QED BY <1>1, <1>2, SequencesFrom DEF Texts
<1> QED BY <1>3

LEMMA InkedTokens ==
    ASSUME NEW lines \in Texts
    PROVE  Inked(lines) \in Texts /\ Tokens(Inked(lines)) = Tokens(lines)
<1> DEFINE Ink(t) == [i \in DOMAIN t |->
                        [out \in Texts |-> IF t[i] > 0 THEN Append(out, t[i]) ELSE out]]
           S == {t \in Texts : Inked(t) \in Texts /\ Tokens(Inked(t)) = Tokens(t)}
<1>1. <<>> \in S
  <2>1. Len(Ink(<<>>)) = 0
    OBVIOUS
  <2>2. Inked(<<>>) = Through(<<>>, Ink(<<>>))
    BY DEF Inked
  <2>3. Inked(<<>>) = <<>>
    BY <2>1, <2>2, ThroughNone
  <2>4. <<>> \in Texts
    BY DEF Texts
  <2> QED BY <2>3, <2>4
<1>2. ASSUME NEW t \in Texts, NEW n \in Nat, t \in S PROVE Append(t, n) \in S
  <2> DEFINE all == Append(t, n)
             p == Ink(t)
             q == Ink(all)
  <2>1. /\ Len(p) = Len(t) /\ Len(t) \in Nat /\ Len(q) = Len(t) + 1
        /\ all \in Texts /\ Len(all) = Len(t) + 1
        /\ \A i \in 1..Len(t) : all[i] = t[i]
        /\ all[Len(t) + 1] = n
    BY DEF Texts
  <2>2. ASSUME NEW i \in 1..Len(q), NEW w \in Texts PROVE q[i][w] \in Texts
    <3>1. i \in DOMAIN all /\ all[i] \in Nat
      BY <2>1 DEF Texts
    <3>2. q[i] = [out \in Texts |-> IF all[i] > 0 THEN Append(out, all[i]) ELSE out]
      BY <3>1
    <3>3. Append(w, all[i]) \in Texts
      BY <3>1 DEF Texts
    <3> HIDE DEF q, all
    <3> QED BY <3>2, <3>3
  <2>3. ASSUME NEW i \in 1..Len(p) PROVE p[i] = q[i]
    <3>1. i \in DOMAIN t /\ i \in DOMAIN all /\ all[i] = t[i]
      BY <2>1 DEF Texts
    <3> HIDE DEF all
    <3> QED BY <3>1
  <2>4. q[Len(q)] = [out \in Texts |-> IF n > 0 THEN Append(out, n) ELSE out]
    <3>1. Len(q) \in DOMAIN all /\ all[Len(q)] = n
      BY <2>1 DEF Texts
    <3>2. \A i \in DOMAIN all :
             q[i] = [out \in Texts |-> IF all[i] > 0 THEN Append(out, all[i]) ELSE out]
      OBVIOUS
    <3> HIDE DEF q, all
    <3> QED BY <3>1, <3>2
  <2>5. Stay(q, Texts)
    <3>1. Len(q) \in Nat
      BY <2>1
    <3> HIDE DEF q
    <3> QED BY <2>2, <3>1 DEF Stay
  <2>6. Through(<<>>, p) = Inked(t) /\ Through(<<>>, q) = Inked(all) /\ <<>> \in Texts
    BY DEF Inked, Texts
  <2> HIDE DEF p, q
  <2>7. Through(<<>>, q) = q[Len(q)][Through(<<>>, p)]
    BY <2>1, <2>3, <2>5, <2>6, ThroughStep
  <2>8. Inked(all) = IF n > 0 THEN Append(Inked(t), n) ELSE Inked(t)
    BY <1>2, <2>4, <2>6, <2>7
  <2>9. Tokens(all) = Tokens(t) + n /\ Tokens(t) \in Nat
    BY TokensOfAppend, TokensTyped
  <2>10. Inked(all) \in Texts
    BY <1>2, <2>8 DEF Texts
  <2>11. Tokens(Inked(all)) = Tokens(all)
    <3>1. CASE n > 0
      <4>1. Tokens(Append(Inked(t), n)) = Tokens(Inked(t)) + n
        BY <1>2, TokensOfAppend
      <4> QED BY <1>2, <2>8, <2>9, <3>1, <4>1
    <3>2. CASE ~ (n > 0)
      BY <1>2, <2>8, <2>9, <3>2
    <3> QED BY <3>1, <3>2
  <2> QED BY <2>1, <2>10, <2>11
<1>3. Texts \subseteq S
  <2> HIDE DEF S
  <2> QED BY <1>1, <1>2, SequencesFrom DEF Texts
<1> QED BY <1>3

-----------------------------------------------------------------------------
(* What is appended under a limit.                                         *)

LEMMA AppendedIs ==
    ASSUME NEW lines \in Texts, NEW more \in Texts, NEW limit \in Nat, Tokens(lines) <= limit
    PROVE  \E k \in 0..Len(more) :
              /\ Appended(lines, more, limit) = lines \o Inked(SubSeq(more, 1, k))
              /\ Tokens(lines) + Tokens(SubSeq(more, 1, k)) <= limit
              /\ \A j \in 0..Len(more) :
                    Tokens(lines) + Tokens(SubSeq(more, 1, j)) <= limit => j <= k
<1> DEFINE fitting == {k \in 0..Len(more) : FitsIn(lines \o SubSeq(more, 1, k), limit)}
           last == CHOOSE k \in fitting : \A j \in fitting : j <= k
<1>1. \A k \in 0..Len(more) : SubSeq(more, 1, k) \in Texts
  BY DEF Texts
<1>2. \A k \in 0..Len(more) :
         FitsIn(lines \o SubSeq(more, 1, k), limit)
            <=> Tokens(lines) + Tokens(SubSeq(more, 1, k)) <= limit
  BY <1>1, TokensOfConcat DEF FitsIn
<1>3. 0 \in fitting
  <2>1. SubSeq(more, 1, 0) = <<>> /\ 0 \in 0..Len(more)
    BY DEF Texts
  <2>2. Tokens(lines) + Tokens(SubSeq(more, 1, 0)) <= limit
    <3>1. Tokens(SubSeq(more, 1, 0)) = 0 /\ Tokens(lines) \in Nat
      BY <2>1, TokensOfNone, TokensTyped
    <3> QED BY <3>1
  <2> QED BY <1>2, <2>1, <2>2
<1>4. Len(more) \in Nat /\ fitting \in SUBSET (0..Len(more))
  BY DEF Texts
<1>5. last \in fitting /\ \A j \in fitting : j <= last
  <2>1. \E k \in fitting : \A j \in fitting : j <= k
    <3> HIDE DEF fitting
    <3> QED BY <1>3, <1>4, GreatestExists
  <2> HIDE DEF fitting
  <2> QED BY <2>1
<1>6. Appended(lines, more, limit) = lines \o Inked(SubSeq(more, 1, last))
  BY DEF Appended
<1> HIDE DEF last
<1> QED BY <1>2, <1>5, <1>6

LEMMA AppendedFits ==
    ASSUME NEW lines \in Texts, NEW more \in Texts, NEW limit \in Nat, Tokens(lines) <= limit
    PROVE  /\ Appended(lines, more, limit) \in Texts
           /\ Tokens(Appended(lines, more, limit)) <= limit
<1>1. PICK k \in 0..Len(more) :
          /\ Appended(lines, more, limit) = lines \o Inked(SubSeq(more, 1, k))
          /\ Tokens(lines) + Tokens(SubSeq(more, 1, k)) <= limit
  BY AppendedIs
<1> DEFINE kept == Inked(SubSeq(more, 1, k))
<1>2. SubSeq(more, 1, k) \in Texts
  BY DEF Texts
<1>3. kept \in Texts /\ Tokens(kept) = Tokens(SubSeq(more, 1, k))
  BY <1>2, InkedTokens
<1>4. lines \o kept \in Texts
  BY <1>3 DEF Texts
<1>5. Tokens(lines \o kept) = Tokens(lines) + Tokens(kept)
  BY <1>3, TokensOfConcat
<1> HIDE DEF kept
<1> QED BY <1>1, <1>3, <1>4, <1>5 DEF kept

\* A cut text fits; what is left of a text that did not is an end cut off.
LEMMA TrimCuts ==
    ASSUME NEW text \in Texts, NEW limit \in Nat
    PROVE  LET cut == TrimToTokenLimit(text, limit) IN
           /\ cut \in Texts
           /\ Tokens(cut) <= limit
           /\ cut # text =>
                 \E k \in 0..(Len(text) - 1) :
                    /\ LET kept == Inked(SubSeq(text, 1, k))
                       IN  cut \in {kept, Append(kept, 1), <<>>}
                    /\ Tokens(SubSeq(text, 1, k + 1)) > limit
<1> DEFINE cut == TrimToTokenLimit(text, limit)
           kept == Appended(<<>>, text, limit)
<1>0. <<>> \in Texts /\ Tokens(<<>>) = 0 /\ Len(text) \in Nat
  BY TokensOfNone DEF Texts
<1>1. kept \in Texts /\ Tokens(kept) <= limit /\ Tokens(kept) \in Nat
  <2>1. Tokens(<<>>) <= limit
    BY <1>0
  <2>2. kept \in Texts /\ Tokens(kept) <= limit
    BY <1>0, <2>1, AppendedFits
  <2> QED BY <2>2, TokensTyped
<1>2. cut = IF FitsIn(text, limit) THEN text
            ELSE IF Tokens(kept) = 0 THEN <<>>
            ELSE IF RoomForMarker(kept, limit) THEN Append(kept, 1) ELSE kept
  BY DEF TrimToTokenLimit
<1>3. PICK k \in 0..Len(text) :
         /\ kept = <<>> \o Inked(SubSeq(text, 1, k))
         /\ \A j \in 0..Len(text) : Tokens(<<>>) + Tokens(SubSeq(text, 1, j)) <= limit => j <= k
  <2>1. Tokens(<<>>) <= limit
    BY <1>0
  <2> QED BY <1>0, <2>1, AppendedIs
<1>4. kept = Inked(SubSeq(text, 1, k))
  <2>1. SubSeq(text, 1, k) \in Texts
    BY DEF Texts
  <2>2. Inked(SubSeq(text, 1, k)) \in Texts
    BY <2>1, InkedTokens
  <2> QED BY <1>3, <2>2 DEF Texts
<1>5. cut \in Texts /\ Tokens(cut) <= limit
  <2>1. Append(kept, 1) \in Texts /\ Tokens(Append(kept, 1)) = Tokens(kept) + 1
    BY <1>1, TokensOfAppend DEF Texts
  <2> HIDE DEF kept, cut
  <2> QED BY <1>0, <1>1, <1>2, <2>1 DEF FitsIn, RoomForMarker
<1>6. ASSUME cut # text
      PROVE  /\ k \in 0..(Len(text) - 1)
             /\ cut \in {kept, Append(kept, 1), <<>>}
             /\ Tokens(SubSeq(text, 1, k + 1)) > limit
  <2>1. ~ FitsIn(text, limit)
    BY <1>2, <1>6
  <2>2. cut \in {kept, Append(kept, 1), <<>>}
    BY <1>2, <2>1
  <2>3. \A j \in 0..Len(text) : SubSeq(text, 1, j) \in Texts
    BY DEF Texts
  <2>4. \A j \in 0..Len(text) : Tokens(SubSeq(text, 1, j)) <= limit => j <= k
    BY <1>0, <1>3, <2>3, TokensTyped
  <2>5. k # Len(text)
    <3>1. ASSUME k = Len(text) PROVE FALSE
      <4>1. kept = Inked(text)
        BY <1>4, <3>1, SubSeqFull DEF Texts
      <4>2. Tokens(kept) = Tokens(text)
        BY <4>1, InkedTokens
      <4> QED BY <1>1, <2>1, <4>2 DEF FitsIn
    <3> QED BY <3>1
  <2>6. k + 1 \in 0..Len(text) /\ ~ (k + 1 <= k) /\ k \in 0..(Len(text) - 1)
    BY <1>0, <2>5
  <2>7. Tokens(SubSeq(text, 1, k + 1)) \in Nat
    BY <2>3, <2>6, TokensTyped
  <2>8. ~ (Tokens(SubSeq(text, 1, k + 1)) <= limit)
    BY <2>4, <2>6
  <2> QED BY <2>2, <2>6, <2>7, <2>8
<1> HIDE DEF cut, kept
<1> QED BY <1>4, <1>5, <1>6 DEF cut

-----------------------------------------------------------------------------
(* Sections.                                                               *)

Within(limit) == {acc \in Progress : Tokens(acc.lines) <= limit}

LEMMA EmptyIsWithin ==
    ASSUME NEW limit \in Nat
    PROVE  Empty \in Within(limit)
<1>1. Empty.lines = <<>> /\ Empty.open = TRUE /\ Empty \in Progress
  BY DEF Empty, Progress, Texts
<1> QED BY <1>1, TokensOfNone DEF Within

LEMMA FitsWithin ==
    ASSUME NEW limit, NEW text \in Texts, Tokens(text) <= limit, NEW open \in BOOLEAN
    PROVE  [lines |-> text, open |-> open] \in Within(limit)
<1> DEFINE acc == [lines |-> text, open |-> open]
<1>1. acc \in Progress /\ acc.lines = text
  BY DEF Progress
<1> HIDE DEF acc
<1>2. acc \in Within(limit)
  BY <1>1 DEF Within
<1> QED BY <1>2 DEF acc

LEMMA AddHitKeeps ==
    ASSUME NEW limit \in Nat, NEW acc \in Within(limit), NEW head \in Texts, NEW rest \in Texts
    PROVE  AddHit(acc, head, rest, limit) \in Within(limit)
<1> DEFINE lines == Appended(acc.lines, head, limit)
           all == Appended(lines, rest, limit)
<1>1. acc.lines \in Texts /\ Tokens(acc.lines) <= limit
  BY DEF Within, Progress
<1>2. lines \in Texts /\ Tokens(lines) <= limit
  BY <1>1, AppendedFits
<1>3. all \in Texts /\ Tokens(all) <= limit
  <2> HIDE DEF lines
  <2> QED BY <1>2, AppendedFits
<1>4. \/ AddHit(acc, head, rest, limit) = acc
      \/ AddHit(acc, head, rest, limit) = [lines |-> lines, open |-> FALSE]
      \/ AddHit(acc, head, rest, limit) = [lines |-> all, open |-> TRUE]
  BY DEF AddHit
<1> HIDE DEF lines, all
<1> QED BY <1>2, <1>3, <1>4, FitsWithin

LEMMA AddFileKeeps ==
    ASSUME NEW limit \in Nat, NEW acc \in Within(limit), NEW block \in Texts
    PROVE  AddFile(acc, block, limit) \in Within(limit)
<1>1. acc.lines \in Texts /\ Tokens(acc.lines) <= limit
  BY DEF Within, Progress
<1>2. acc.lines \o block \in Texts
  BY <1>1 DEF Texts
<1>3. \/ AddFile(acc, block, limit) = [lines |-> acc.lines, open |-> FALSE]
      \/ /\ AddFile(acc, block, limit) = [lines |-> acc.lines \o block, open |-> TRUE]
         /\ Tokens(acc.lines \o block) <= limit
  BY DEF AddFile, BlockFits, FitsIn
<1> QED BY <1>1, <1>2, <1>3, FitsWithin

LEMMA FileBlockTyped ==
    ASSUME NEW file \in [path : Nat, content : Texts], NEW limit \in Nat
    PROVE  FileBlock(file, limit) \in Texts
<1> DEFINE head == Appended(<<>>, <<file.path, 1>>, limit)
<1>1. <<>> \in Texts /\ Tokens(<<>>) <= limit /\ <<file.path, 1>> \in Texts
  BY TokensOfNone DEF Texts
<1>2. head \in Texts /\ Tokens(head) <= limit
  BY <1>1, AppendedFits
<1>3. Appended(head, file.content, limit) \in Texts
  <2> HIDE DEF head
  <2> QED BY <1>2, AppendedFits
<1> HIDE DEF head
<1> QED BY <1>2, <1>3 DEF FileBlock, head

LEMMA FilledFits ==
    ASSUME NEW limit \in Nat \ {0}, NEW steps, Stay(steps, Within(limit))
    PROVE  /\ Filled(steps) \in Texts
           /\ Filled(steps) # <<>>
           /\ Tokens(Filled(steps)) <= limit
<1> DEFINE lines == Through(Empty, steps).lines
<1>1. Through(Empty, steps) \in Within(limit)
  BY EmptyIsWithin, ThroughStays
<1>2. lines \in Texts /\ Tokens(lines) <= limit
  BY <1>1 DEF Within, Progress
<1>3. <<1>> \in Texts /\ <<1>> # <<>> /\ Tokens(<<1>>) = 1
  <2>1. <<1>> = Append(<<>>, 1) /\ <<>> \in Texts /\ <<1>> \in Texts
    BY DEF Texts
  <2>2. Tokens(Append(<<>>, 1)) = Tokens(<<>>) + 1
    BY <2>1, TokensOfAppend
  <2> QED BY <2>1, <2>2, TokensOfNone
<1>4. Filled(steps) = IF lines = <<>> THEN <<1>> ELSE lines
  BY DEF Filled
<1> HIDE DEF lines
<1> QED BY <1>2, <1>3, <1>4

LEMMA FirstTyped ==
    ASSUME NEW T, NEW hits \in Seq(T), NEW n \in Nat
    PROVE  First(hits, n) \in Seq(T)
BY DEF First

ModuleHits == [header : Nat, summary : Nat]
SymbolHits == [header : Nat, signature : Nat, context : Texts]
LocalFiles == [path : Nat, content : Texts]

LEMMA ModulesFit ==
    ASSUME NEW hits \in Seq(ModuleHits), NEW budget \in [items : Nat, tokens : Nat \ {0}]
    PROVE  LET lines == FormatModules(hits, budget)
           IN  lines \in Texts /\ lines # <<>> /\ Tokens(lines) <= budget.tokens
<1> DEFINE taken == First(hits, budget.items)
           steps == [i \in DOMAIN taken |-> [acc \in Progress |->
                       AddHit(acc, ModuleHead(taken[i]), <<>>, budget.tokens)]]
<1>1. taken \in Seq(ModuleHits)
  BY FirstTyped
<1>2. Len(steps) = Len(taken) /\ Len(steps) \in Nat
  <2> HIDE DEF taken
  <2> QED BY <1>1
<1>3. ASSUME NEW i \in 1..Len(steps), NEW acc \in Within(budget.tokens)
      PROVE  steps[i][acc] \in Within(budget.tokens)
  <2> HIDE DEF taken
  <2>1. i \in DOMAIN taken /\ taken[i] \in ModuleHits
    BY <1>1, <1>2
  <2>2. ModuleHead(taken[i]) \in Texts
    <3>1. taken[i].header \in Nat /\ 1 + Truncated(taken[i].summary) \in Nat
      BY <2>1 DEF ModuleHits, Truncated, SummaryWords
    <3> QED BY <3>1 DEF ModuleHead, Texts
  <2>3. <<>> \in Texts
    BY DEF Texts
  <2>4. AddHit(acc, ModuleHead(taken[i]), <<>>, budget.tokens) \in Within(budget.tokens)
    BY <2>2, <2>3, AddHitKeeps
  <2>5. acc \in Progress
    BY DEF Within
  <2>6. steps[i][acc] = AddHit(acc, ModuleHead(taken[i]), <<>>, budget.tokens)
    BY <2>1, <2>5, Zenon
  <2> QED BY ONLY <2>4, <2>6, Zenon
<1>4. FormatModules(hits, budget) = Filled(steps)
  BY DEF FormatModules
<1> HIDE DEF steps
<1>5. Stay(steps, Within(budget.tokens))
  BY <1>2, <1>3 DEF Stay
<1> QED BY <1>4, <1>5, FilledFits

LEMMA SymbolsFit ==
    ASSUME NEW hits \in Seq(SymbolHits), NEW budget \in [items : Nat, tokens : Nat \ {0}]
    PROVE  LET lines == FormatSymbols(hits, budget)
           IN  lines \in Texts /\ lines # <<>> /\ Tokens(lines) <= budget.tokens
<1> DEFINE taken == First(hits, budget.items)
           steps == [i \in DOMAIN taken |-> [acc \in Progress |->
                       AddHit(acc, SymbolHead(taken[i]), taken[i].context, budget.tokens)]]
<1>1. taken \in Seq(SymbolHits)
  BY FirstTyped
<1>2. Len(steps) = Len(taken) /\ Len(steps) \in Nat
  <2> HIDE DEF taken
  <2> QED BY <1>1
<1>3. ASSUME NEW i \in 1..Len(steps), NEW acc \in Within(budget.tokens)
      PROVE  steps[i][acc] \in Within(budget.tokens)
  <2> HIDE DEF taken
  <2>1. i \in DOMAIN taken /\ taken[i] \in SymbolHits
    BY <1>1, <1>2
  <2>2. taken[i].header \in Nat /\ taken[i].signature \in Nat /\ taken[i].context \in Texts
    BY <2>1 DEF SymbolHits
  <2>3. SymbolHead(taken[i]) \in Texts
    BY <2>2 DEF SymbolHead, Texts
  <2>4. AddHit(acc, SymbolHead(taken[i]), taken[i].context, budget.tokens)
          \in Within(budget.tokens)
    BY <2>2, <2>3, AddHitKeeps
  <2>5. acc \in Progress
    BY DEF Within
  <2>6. steps[i][acc] = AddHit(acc, SymbolHead(taken[i]), taken[i].context, budget.tokens)
    BY <2>1, <2>5, Zenon
  <2> QED BY ONLY <2>4, <2>6, Zenon
<1>4. FormatSymbols(hits, budget) = Filled(steps)
  BY DEF FormatSymbols
<1> HIDE DEF steps
<1>5. Stay(steps, Within(budget.tokens))
  BY <1>2, <1>3 DEF Stay
<1> QED BY <1>4, <1>5, FilledFits

LEMMA FilesFit ==
    ASSUME NEW files \in Seq(LocalFiles), NEW budget \in [items : Nat, tokens : Nat \ {0}]
    PROVE  LET lines == FormatLocalFiles(files, budget)
           IN  lines \in Texts /\ lines # <<>> /\ Tokens(lines) <= budget.tokens
<1> DEFINE taken == First(files, budget.items)
           steps == [i \in DOMAIN taken |-> [acc \in Progress |->
                       AddFile(acc, FileBlock(taken[i], budget.tokens), budget.tokens)]]
<1>1. taken \in Seq(LocalFiles)
  BY FirstTyped
<1>2. Len(steps) = Len(taken) /\ Len(steps) \in Nat
  <2> HIDE DEF taken
  <2> QED BY <1>1
<1>3. ASSUME NEW i \in 1..Len(steps), NEW acc \in Within(budget.tokens)
      PROVE  steps[i][acc] \in Within(budget.tokens)
  <2> HIDE DEF taken
  <2>1. i \in DOMAIN taken /\ taken[i] \in LocalFiles
    BY <1>1, <1>2
  <2>2. FileBlock(taken[i], budget.tokens) \in Texts
    BY <2>1, FileBlockTyped DEF LocalFiles
  <2>3. AddFile(acc, FileBlock(taken[i], budget.tokens), budget.tokens)
          \in Within(budget.tokens)
    BY <2>2, AddFileKeeps
  <2>4. acc \in Progress
    BY DEF Within
  <2>5. steps[i][acc] = AddFile(acc, FileBlock(taken[i], budget.tokens), budget.tokens)
    BY <2>1, <2>4, Zenon
  <2> QED BY ONLY <2>3, <2>5, Zenon
<1>4. FormatLocalFiles(files, budget) = Filled(steps)
  BY DEF FormatLocalFiles
<1> HIDE DEF steps
<1>5. Stay(steps, Within(budget.tokens))
  BY <1>2, <1>3 DEF Stay
<1> QED BY <1>4, <1>5, FilledFits

LEMMA RenderTyped ==
    ASSUME NEW text \in Templates, NEW filled \in Sections(Texts), request.query \in Texts,
           Renders(text)
    PROVE  RenderTemplate(text, filled) \in Texts
<1> DEFINE steps == [i \in DOMAIN text |-> [out \in Texts |->
                       out \o text[i].lines \o Variables(filled)[text[i].slot]]]
<1>1. Len(steps) = Len(text) /\ Len(steps) \in Nat /\ DOMAIN text = 1..Len(text)
  BY DEF Templates
<1>2. ASSUME NEW i \in 1..Len(steps), NEW out \in Texts PROVE steps[i][out] \in Texts
  <2>1. i \in DOMAIN text /\ text[i].lines \in Texts
    <3>1. i \in 1..Len(text)
      BY <1>1
    <3>2. text[i] \in [lines : Texts, slot : STRING]
      <4> DEFINE R == [lines : Texts, slot : STRING]
      <4>1. text \in Seq(R)
        BY DEF Templates
      <4> HIDE DEF R
      <4>2. text[i] \in R
        BY ONLY <3>1, <4>1
      <4> QED BY <4>2 DEF R
    <3> QED BY <1>1, <3>1, <3>2
  <2>2. text[i].slot \in {"modules", "symbols", "local_files", "query", "nothing"}
    BY <2>1 DEF Renders, Variables
  <2>3. Variables(filled)[text[i].slot] \in Texts
    <3>1. filled.modules \in Texts /\ filled.symbols \in Texts /\ filled.files \in Texts
      BY DEF Sections
    <3>2. <<>> \in Texts
      BY DEF Texts
    <3> QED BY <2>2, <3>1, <3>2 DEF Variables
  <2>4. out \o text[i].lines \o Variables(filled)[text[i].slot] \in Texts
    BY <2>1, <2>3 DEF Texts
  <2>5. steps[i][out] = out \o text[i].lines \o Variables(filled)[text[i].slot]
    BY <2>1, Zenon
  <2> QED BY ONLY <2>4, <2>5, Zenon
<1>3. RenderTemplate(text, filled) = Through(<<>>, steps)
  BY DEF RenderTemplate
<1> HIDE DEF steps
<1>4. Stay(steps, Texts)
  BY <1>1, <1>2 DEF Stay
<1>5. <<>> \in Texts
  BY DEF Texts
<1> QED BY <1>3, <1>4, <1>5, ThroughStays

-----------------------------------------------------------------------------
(* The inductive invariant.                                                *)

\* What a build may be rendered from.
Usable(t) ==
    t.limit \in Nat /\ t.system \in Templates /\ t.user \in Templates /\ Complete(t)

Settings ==
    /\ request \in Requests
    /\ options \in Options /\ Accepts(options)

\* Only a complete reading is kept, and every build past its loading uses it.
CacheInv ==
    /\ cache # None => Usable(cache)
    /\ phase \in {"sections", "rendered", "userCut", "built"} => template = cache /\ Usable(cache)
    /\ phase = "raised" => cache = None \/ ~ Renders(cache.system) \/ ~ Renders(cache.user)

SectionsFit ==
    /\ sections \in Sections(Texts)
    /\ \A name \in {"modules", "symbols", "files"} :
          sections[name] # <<>> /\ Tokens(sections[name]) <= options.budget[name].tokens

SystemText == RenderTemplate(template.system, sections)
UserText == RenderTemplate(template.user, sections)

UserCutAtTheEnd ==
    user # UserText =>
        \E k \in 0..(Len(UserText) - 1) :
           /\ LET kept == Inked(SubSeq(UserText, 1, k))
              IN  user \in {kept, Append(kept, 1), <<>>}
           /\ Tokens(SubSeq(UserText, 1, k + 1)) + Tokens(SystemText) > ContextLimit

\* While the user text is cut the system text is whole; the system text is cut
\* when there is no user text left.
TextsInv ==
    /\ phase \in {"loading", "sections", "rendered", "userCut", "built", "raised"}
    /\ phase \in {"rendered", "userCut", "built"} =>
          /\ SectionsFit
          /\ system \in Texts /\ user \in Texts
          /\ SystemText \in Texts /\ UserText \in Texts
    /\ phase \in {"rendered", "userCut"} => system = SystemText
    /\ phase = "rendered" => user = UserText
    /\ phase = "userCut" => Tokens(user) = 0 \/ ~ TooLong
    /\ phase \in {"userCut", "built"} => UserCutAtTheEnd
    /\ phase = "built" =>
          /\ ~ TooLong
          /\ system # SystemText => Tokens(user) = 0 /\ Tokens(SystemText) > ContextLimit

PromptInv == Settings /\ CacheInv /\ TextsInv

LEMMA Limits ==
    ASSUME Settings
    PROVE  /\ options.context \in Nat
           /\ \A name \in {"modules", "symbols", "files"} :
                 options.budget[name] \in [items : Nat, tokens : Nat \ {0}]
<1>1. options \in [context : Nat, budget : Sections([items : Nat, tokens : Nat])]
  BY OptionsAreLimits DEF Settings
<1>2. options.budget \in Sections([items : Nat, tokens : Nat]) /\ options.context \in Nat
  BY <1>1
<1>3. ASSUME NEW name \in {"modules", "symbols", "files"}
      PROVE  options.budget[name] \in [items : Nat, tokens : Nat \ {0}]
  <2>1. name \in DOMAIN options.budget /\ options.budget[name] \in [items : Nat, tokens : Nat]
    BY <1>2 DEF Sections
  <2>2. options.budget[name].tokens > 0
    BY <2>1 DEF Settings, Accepts
  <2> QED BY <2>1, <2>2
<1> QED BY <1>2, <1>3

LEMMA RequestParts ==
    ASSUME Settings
    PROVE  /\ request.query \in Texts
           /\ request.modules \in Seq(ModuleHits)
           /\ request.symbols \in Seq(SymbolHits)
           /\ request.files \in Seq(LocalFiles)
<1>1. request \in [query : Texts, modules : Seq(ModuleHits), symbols : Seq(SymbolHits),
                   files : Seq(LocalFiles)]
  BY RequestsAreTexts DEF Settings, ModuleHits, SymbolHits, LocalFiles
<1> QED BY <1>1

LEMMA ContextLimitTyped ==
    ASSUME Settings, Usable(template)
    PROVE  ContextLimit \in Nat
BY Limits DEF ContextLimit, Usable

\* What the last entry of a key says.
LEMMA LastOfIs ==
    ASSUME NEW file, Len(file) \in Nat, DOMAIN file = 1..Len(file), NEW key, NEW default
    PROVE  \/ LastOf(file, key, default) = default
           \/ \E i \in DOMAIN file : file[i].key = key /\ LastOf(file, key, default) = file[i].value
<1> DEFINE at == {i \in DOMAIN file : file[i].key = key}
           last == CHOOSE i \in at : \A j \in at : j <= i
<1>1. CASE at = {}
  BY <1>1 DEF LastOf
<1>2. CASE at # {}
  <2>1. at \in SUBSET (0..Len(file))
    OBVIOUS
  <2>2. \E i \in at : \A j \in at : j <= i
    <3> HIDE DEF at
    <3> QED BY <1>2, <2>1, GreatestExists
  <2>3. last \in at
    <3> HIDE DEF at
    <3> QED BY <2>2
  <2>4. LastOf(file, key, default) = file[last].value
    BY <1>2 DEF LastOf
  <2> HIDE DEF last
  <2> QED BY <2>3, <2>4
<1> QED BY <1>1, <1>2

LEMMA ParsedUsable ==
    ASSUME NEW file \in Readings, Kept(file)
    PROVE  Usable(Parsed(file))
<1>1. /\ file \in Readings \ {Unreadable}
      /\ \A i \in DOMAIN file : file[i].value # Malformed
      /\ Complete(Parsed(file))
  BY DEF Kept, Parses
<1>2. /\ Len(file) \in Nat /\ DOMAIN file = 1..Len(file)
      /\ \A i \in DOMAIN file :
            /\ file[i].key = "context_token_limit" => file[i].value \in Nat
            /\ file[i].key \in {"system", "user"} => file[i].value \in Templates
  BY <1>1, ReadingsAreTyped
<1>3. LastOf(file, "context_token_limit", 0) \in Nat
  <2>1. \/ LastOf(file, "context_token_limit", 0) = 0
        \/ \E i \in DOMAIN file :
              /\ file[i].key = "context_token_limit"
              /\ LastOf(file, "context_token_limit", 0) = file[i].value
    BY <1>2, LastOfIs
  <2> QED BY <1>2, <2>1
<1>4. ASSUME NEW key \in {"system", "user"} PROVE LastOf(file, key, <<>>) \in Templates
  <2>1. \/ LastOf(file, key, <<>>) = <<>>
        \/ \E i \in DOMAIN file :
              file[i].key = key /\ LastOf(file, key, <<>>) = file[i].value
    BY <1>2, LastOfIs
  <2>2. <<>> \in Templates
    BY DEF Templates
  <2> QED BY <1>2, <2>1, <2>2
<1>5. /\ Parsed(file).limit = LastOf(file, "context_token_limit", 0)
      /\ Parsed(file).system = LastOf(file, "system", <<>>)
      /\ Parsed(file).user = LastOf(file, "user", <<>>)
  BY DEF Parsed
<1> QED BY <1>1, <1>3, <1>4, <1>5 DEF Usable

LEMMA InitInv == Init => PromptInv
BY DEF Init, PromptInv, Settings, CacheInv, TextsInv

LEMMA LoadKeeps == PromptInv /\ Load => PromptInv'
<1> SUFFICES ASSUME PromptInv, Load PROVE PromptInv'
  OBVIOUS
<1>1. Settings'
  BY DEF PromptInv, Load, Settings, Accepts
<1>2. phase' \in {"sections", "raised"}
  BY DEF Load
<1>3. TextsInv'
  BY <1>2 DEF TextsInv
<1>4. CacheInv'
  <2>1. CASE cache # None
    BY <2>1 DEF PromptInv, CacheInv, Load
  <2>2. CASE cache = None
    <3>1. PICK file \in Readings :
             /\ cache' = IF Kept(file) THEN Parsed(file) ELSE None
             /\ IF Parses(file) /\ Complete(Parsed(file))
                THEN template' = Parsed(file) /\ phase' = "sections"
                ELSE template' = None /\ phase' = "raised"
      BY <2>2 DEF Load
    <3>2. CASE Kept(file)
      BY <3>1, <3>2, ParsedUsable DEF CacheInv, Kept
    <3>3. CASE ~ Kept(file)
      BY <3>1, <3>3 DEF CacheInv, Kept
    <3> QED BY <3>2, <3>3
  <2> QED BY <2>1, <2>2
<1> QED BY <1>1, <1>3, <1>4 DEF PromptInv

LEMMA RenderKeeps == PromptInv /\ Render => PromptInv'
<1> SUFFICES ASSUME PromptInv, Render PROVE PromptInv'
  OBVIOUS
<1>1. Settings' /\ Settings
  BY DEF PromptInv, Render, Settings, Accepts
<1>2. template = cache /\ Usable(cache) /\ UNCHANGED <<request, options, cache, template>>
  BY DEF PromptInv, CacheInv, Render
<1>3. CASE Renders(template.system) /\ Renders(template.user)
  <2>1. /\ system' = RenderTemplate(template.system, sections')
        /\ user' = RenderTemplate(template.user, sections')
        /\ phase' = "rendered"
    BY <1>3 DEF Render
  <2>2. sections' = [modules |-> FormatModules(request.modules, options.budget.modules),
                     symbols |-> FormatSymbols(request.symbols, options.budget.symbols),
                     files   |-> FormatLocalFiles(request.files, options.budget.files)]
    BY DEF Render
  <2>3. LET lines == FormatModules(request.modules, options.budget.modules)
        IN  lines \in Texts /\ lines # <<>> /\ Tokens(lines) <= options.budget.modules.tokens
    BY <1>1, Limits, RequestParts, ModulesFit
  <2>4. LET lines == FormatSymbols(request.symbols, options.budget.symbols)
        IN  lines \in Texts /\ lines # <<>> /\ Tokens(lines) <= options.budget.symbols.tokens
    BY <1>1, Limits, RequestParts, SymbolsFit
  <2>5. LET lines == FormatLocalFiles(request.files, options.budget.files)
        IN  lines \in Texts /\ lines # <<>> /\ Tokens(lines) <= options.budget.files.tokens
    BY <1>1, Limits, RequestParts, FilesFit
  <2>6. SectionsFit'
    BY <1>2, <2>2, <2>3, <2>4, <2>5 DEF SectionsFit, Sections
  <2>7. /\ RenderTemplate(template.system, sections') \in Texts
        /\ RenderTemplate(template.user, sections') \in Texts
    <3>1. sections' \in Sections(Texts)
      BY <2>6 DEF SectionsFit
    <3>2. template.system \in Templates /\ template.user \in Templates
      BY <1>2 DEF Usable
    <3> QED BY <1>1, <1>3, <3>1, <3>2, RequestParts, RenderTyped
  <2>8. SystemText' = system' /\ UserText' = user'
    BY <1>2, <2>1 DEF SystemText, UserText, RenderTemplate, Variables
  <2>9. TextsInv'
    BY <2>1, <2>6, <2>7, <2>8 DEF TextsInv
  <2>10. CacheInv'
    BY <1>2, <2>1 DEF CacheInv
  <2> QED BY <1>1, <2>9, <2>10 DEF PromptInv
<1>4. CASE ~ (Renders(template.system) /\ Renders(template.user))
  <2>1. phase' = "raised"
    BY <1>4 DEF Render
  <2>2. ~ Renders(cache.system)' \/ ~ Renders(cache.user)'
    BY <1>2, <1>4 DEF Renders, Variables
  <2>3. CacheInv'
    BY <1>2, <2>1, <2>2 DEF CacheInv
  <2>4. TextsInv'
    BY <2>1 DEF TextsInv
  <2> QED BY <1>1, <2>3, <2>4 DEF PromptInv
<1> QED BY <1>3, <1>4

LEMMA CutUserKeeps == PromptInv /\ CutUser => PromptInv'
<1> SUFFICES ASSUME PromptInv, CutUser PROVE PromptInv'
  OBVIOUS
<1>1. /\ phase = "rendered" /\ phase' = "userCut"
      /\ UNCHANGED <<request, options, cache, template, sections, system>>
      /\ user' = IF TooLong THEN TrimToTokenLimit(user, Remaining) ELSE user
  BY DEF CutUser
<1>2. Settings /\ Usable(template)
  BY <1>1 DEF PromptInv, CacheInv
<1>3. /\ SectionsFit /\ system \in Texts /\ user \in Texts
      /\ system = SystemText /\ user = UserText
  BY <1>1 DEF PromptInv, TextsInv
<1>4. ContextLimit \in Nat /\ Tokens(system) \in Nat /\ Tokens(user) \in Nat
  BY <1>2, <1>3, ContextLimitTyped, TokensTyped
<1>5. Remaining \in Nat
  BY <1>4 DEF Remaining
<1>6. ContextLimit' = ContextLimit
  BY <1>1 DEF ContextLimit
<1>7. SystemText' = SystemText /\ UserText' = UserText
  BY <1>1 DEF SystemText, UserText, RenderTemplate, Variables
<1>8. user' \in Texts
  BY <1>1, <1>3, <1>5, TrimCuts
<1>9. Tokens(user') = 0 \/ ~ TooLong'
  <2>1. CASE ~ TooLong
    BY <1>1, <1>6, <2>1 DEF TooLong
  <2>2. CASE TooLong
    <3>1. Tokens(user') <= Remaining /\ Tokens(user') \in Nat
      BY <1>1, <1>3, <1>5, <1>8, <2>2, TrimCuts, TokensTyped
    <3>2. system' = system
      BY <1>1
    <3> QED BY <1>4, <1>6, <3>1, <3>2 DEF Remaining, TooLong
  <2> QED BY <2>1, <2>2
<1>10. UserCutAtTheEnd'
  <2>1. CASE ~ TooLong
    BY <1>1, <1>3, <1>7, <2>1 DEF UserCutAtTheEnd
  <2>2. CASE TooLong
    <3> SUFFICES ASSUME user' # user
                 PROVE  \E k \in 0..(Len(user) - 1) :
                           /\ LET kept == Inked(SubSeq(user, 1, k))
                              IN  user' \in {kept, Append(kept, 1), <<>>}
                           /\ Tokens(SubSeq(user, 1, k + 1)) + Tokens(system) > ContextLimit
      BY <1>3, <1>6, <1>7 DEF UserCutAtTheEnd
    <3>1. PICK k \in 0..(Len(user) - 1) :
             /\ LET kept == Inked(SubSeq(user, 1, k))
                IN  user' \in {kept, Append(kept, 1), <<>>}
             /\ Tokens(SubSeq(user, 1, k + 1)) > Remaining
      BY <1>1, <1>3, <1>5, <2>2, TrimCuts
    <3>2. SubSeq(user, 1, k + 1) \in Texts
      BY <1>3 DEF Texts
    <3>3. Tokens(SubSeq(user, 1, k + 1)) \in Nat
      BY <3>2, TokensTyped
    <3>4. Tokens(SubSeq(user, 1, k + 1)) + Tokens(system) > ContextLimit
      BY <1>4, <3>1, <3>3 DEF Remaining
    <3> QED BY <3>1, <3>4
  <2> QED BY <2>1, <2>2
<1>11. SectionsFit'
  BY <1>1, <1>3 DEF SectionsFit
<1>12. TextsInv'
  BY <1>1, <1>3, <1>7, <1>8, <1>9, <1>10, <1>11 DEF TextsInv
<1>13. CacheInv'
  BY <1>1 DEF PromptInv, CacheInv
<1>14. Settings'
  BY <1>1, <1>2 DEF Settings, Accepts
<1> QED BY <1>12, <1>13, <1>14 DEF PromptInv

LEMMA CutSystemKeeps == PromptInv /\ CutSystem => PromptInv'
<1> SUFFICES ASSUME PromptInv, CutSystem PROVE PromptInv'
  OBVIOUS
<1>1. /\ phase = "userCut" /\ phase' = "built"
      /\ UNCHANGED <<request, options, cache, template, sections, user>>
      /\ system' = IF TooLong THEN TrimToTokenLimit(system, ContextLimit) ELSE system
  BY DEF CutSystem
<1>2. Settings /\ Usable(template)
  BY <1>1 DEF PromptInv, CacheInv
<1>3. /\ SectionsFit /\ system \in Texts /\ user \in Texts /\ SystemText \in Texts
      /\ UserText \in Texts /\ system = SystemText /\ (Tokens(user) = 0 \/ ~ TooLong)
      /\ UserCutAtTheEnd
  BY <1>1 DEF PromptInv, TextsInv
<1>4. ContextLimit \in Nat /\ Tokens(system) \in Nat /\ Tokens(user) \in Nat
  BY <1>2, <1>3, ContextLimitTyped, TokensTyped
<1>5. ContextLimit' = ContextLimit /\ user' = user
  BY <1>1 DEF ContextLimit
<1>6. SystemText' = SystemText /\ UserText' = UserText
  BY <1>1 DEF SystemText, UserText, RenderTemplate, Variables
<1>7. system' \in Texts /\ ~ TooLong'
  <2>1. CASE ~ TooLong
    BY <1>1, <1>3, <1>5, <2>1 DEF TooLong
  <2>2. CASE TooLong
    <3>1. system' \in Texts /\ Tokens(system') <= ContextLimit
      BY <1>1, <1>3, <1>4, <2>2, TrimCuts
    <3>2. Tokens(user) = 0 /\ Tokens(system') \in Nat
      BY <1>3, <2>2, <3>1, TokensTyped
    <3> QED BY <1>4, <1>5, <3>1, <3>2 DEF TooLong
  <2> QED BY <2>1, <2>2
<1>8. ASSUME system' # SystemText
      PROVE  Tokens(user) = 0 /\ Tokens(SystemText) > ContextLimit
  <2>1. TooLong
    BY <1>1, <1>3, <1>8
  <2>2. Tokens(user) = 0
    BY <1>3, <2>1
  <2> QED BY <1>3, <1>4, <2>1, <2>2 DEF TooLong
<1>9. UserCutAtTheEnd'
  BY <1>3, <1>5, <1>6 DEF UserCutAtTheEnd
<1>10. SectionsFit'
  BY <1>1, <1>3 DEF SectionsFit
<1>11. TextsInv'
  BY <1>1, <1>3, <1>5, <1>6, <1>7, <1>8, <1>9, <1>10 DEF TextsInv
<1>12. CacheInv'
  BY <1>1 DEF PromptInv, CacheInv
<1>13. Settings'
  BY <1>1, <1>2 DEF Settings, Accepts
<1> QED BY <1>11, <1>12, <1>13 DEF PromptInv

LEMMA BuildAgainKeeps == PromptInv /\ BuildAgain => PromptInv'
<1> SUFFICES ASSUME PromptInv, BuildAgain PROVE PromptInv'
  OBVIOUS
<1>1. phase' = "loading" /\ UNCHANGED <<request, options, cache>>
  BY DEF BuildAgain
<1>2. Settings'
  BY <1>1 DEF PromptInv, Settings, Accepts
<1>3. CacheInv'
  BY <1>1 DEF PromptInv, CacheInv
<1>4. TextsInv'
  BY <1>1 DEF TextsInv
<1> QED BY <1>2, <1>3, <1>4 DEF PromptInv

LEMMA StutterKeeps == PromptInv /\ UNCHANGED vars => PromptInv'
<1> SUFFICES ASSUME PromptInv, UNCHANGED vars PROVE PromptInv'
  OBVIOUS
<1>1. UNCHANGED <<request, options, cache, template, sections, system, user, phase>>
  BY DEF vars
<1>2. SystemText' = SystemText /\ UserText' = UserText /\ ContextLimit' = ContextLimit
  BY <1>1 DEF SystemText, UserText, RenderTemplate, Variables, ContextLimit
<1>3. Settings' /\ CacheInv'
  BY <1>1 DEF PromptInv, Settings, Accepts, CacheInv, Renders, Variables
<1>4. SectionsFit' = SectionsFit /\ UserCutAtTheEnd' = UserCutAtTheEnd /\ TooLong' = TooLong
  BY <1>1, <1>2 DEF SectionsFit, UserCutAtTheEnd, TooLong
<1>5. TextsInv'
  BY <1>1, <1>2, <1>4 DEF PromptInv, TextsInv
<1> QED BY <1>3, <1>5 DEF PromptInv

\* PromptInv holds throughout every behaviour (prompt_builder.cpp:114-189).
THEOREM PromptInvariant == Spec => []PromptInv
<1>1. PromptInv /\ [Next]_vars => PromptInv'
  BY LoadKeeps, RenderKeeps, CutUserKeeps, CutSystemKeeps, BuildAgainKeeps, StutterKeeps
     DEF Next
<1> QED BY InitInv, <1>1, PTL DEF Spec

-----------------------------------------------------------------------------

\* However large the sections, the query and the template are, a prompt that
\* was built is within the context limit (prompt_builder.cpp:135-189).
THEOREM PromptsFit == Spec => []WithinContext
<1>1. PromptInv => WithinContext
  <2> SUFFICES ASSUME PromptInv, phase = "built"
               PROVE  Tokens(system) + Tokens(user) <= ContextLimit
    BY DEF WithinContext
  <2>1. /\ ~ TooLong /\ system \in Texts /\ user \in Texts
        /\ Settings /\ Usable(template)
    BY DEF PromptInv, TextsInv, CacheInv
  <2>2. ContextLimit \in Nat /\ Tokens(system) \in Nat /\ Tokens(user) \in Nat
    BY <2>1, ContextLimitTyped, TokensTyped
  <2> QED BY <2>1, <2>2 DEF TooLong
<1> QED BY PromptInvariant, <1>1, PTL

\* No section passes its own limit, and none is empty, for any hits and files
\* (prompt_builder.cpp:399-514).
THEOREM SectionsFitTheirBudgets == Spec => []SectionsWithinLimits
<1>1. PromptInv => SectionsWithinLimits
  <2> SUFFICES ASSUME PromptInv, phase \in {"rendered", "userCut", "built"}
               PROVE  \A name \in DOMAIN sections :
                         /\ sections[name] # <<>>
                         /\ Tokens(sections[name]) <= options.budget[name].tokens
    BY DEF SectionsWithinLimits, PromptInv, TextsInv
  <2>1. SectionsFit
    BY DEF PromptInv, TextsInv
  <2>2. DOMAIN sections = {"modules", "symbols", "files"}
    BY <2>1 DEF SectionsFit, Sections
  <2> QED BY <2>1, <2>2 DEF SectionsFit
<1> QED BY PromptInvariant, <1>1, PTL

\* What is missing from a prompt is an end that did not fit, of the user text
\* before the system text (prompt_builder.cpp:166-176, 366-397).
THEOREM OnlyEndsAreCut == Spec => []CutsAtTheEnd
<1>1. PromptInv => CutsAtTheEnd
  <2> SUFFICES ASSUME PromptInv, phase = "built" PROVE CutsAtTheEnd
    BY DEF CutsAtTheEnd
  <2>1. /\ UserCutAtTheEnd
        /\ system # SystemText => Tokens(user) = 0 /\ Tokens(SystemText) > ContextLimit
    BY DEF PromptInv, TextsInv
  <2> QED BY <2>1 DEF CutsAtTheEnd, UserCutAtTheEnd, SystemText, UserText
<1> QED BY PromptInvariant, <1>1, PTL

\* Whatever the file held before, a prompt is rendered from one complete
\* reading, and a failed one is read anew (prompt_builder.cpp:191-325).
THEOREM NoTraceOfFailedReadings == Spec => []FailedReadingsForgotten
<1>1. PromptInv => FailedReadingsForgotten
  BY DEF PromptInv, CacheInv, Usable, FailedReadingsForgotten
<1> QED BY PromptInvariant, <1>1, PTL

=============================================================================
