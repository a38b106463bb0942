---------------------------- MODULE LinkingProofs ----------------------------
(***************************************************************************)
(* For any syntax trees and any files of a pass.                           *)
(*                                                                         *)
(* WalkInv: the open frames carry the scope of their node and list, in the *)
(* order of the source, the nodes that come next; the symbols are those of *)
(* the shown nodes before them that declare one, each read rightly.        *)
(* PassInv and EdgesInv carry this over the files of the pass and through  *)
(* the resolution of names.  The properties follow from the invariant and  *)
(* from what CandidateNames, Resolved and QualifyName return.              *)
(***************************************************************************)
EXTENDS Linking, SequenceTheorems, WellFoundedInduction, TLAPS

LEMMA LeastExists ==
    ASSUME NEW S \in SUBSET Nat, S # {}
    PROVE  \E m \in S : \A n \in S : m <= n
<1> DEFINE less == OpToRel(<, Nat)
<1>1. IsWellFoundedOn(less, Nat)
  BY NatLessThanWellFounded
<1>2. \A x, y \in Nat : y < x => <<y, x>> \in less
  BY DEF OpToRel
<1> HIDE DEF less
<1>3. PICK m \in S : \A n \in S : ~ (<<n, m>> \in less)
  BY <1>1, WFMin
<1>4. ASSUME NEW n \in S PROVE m <= n
  <2>1. m \in Nat /\ n \in Nat
    OBVIOUS
  <2>2. ~ (n < m)
    BY <1>2, <1>3, <2>1
  <2> QED BY <2>1, <2>2
<1> QED BY <1>4

\* Induction over the numbers up to n.
LEMMA Inductive ==
    ASSUME NEW n \in Nat, NEW S, 0 \in S, \A k \in 0..(n - 1) : k \in S => k + 1 \in S
    PROVE  0..n \subseteq S
<1> DEFINE missing == (0..n) \ S
<1> SUFFICES ASSUME missing # {} PROVE FALSE
  OBVIOUS
<1>1. missing \in SUBSET Nat
  OBVIOUS
<1>2. PICK m \in missing : \A k \in missing : m <= k
  <2> HIDE DEF missing
  <2> QED BY <1>1, LeastExists
<1>3. m \in 1..n /\ m \notin S
  OBVIOUS
<1>4. m - 1 \in S
  BY <1>1, <1>2, <1>3
<1> QED BY <1>3, <1>4

LEMMA GreatestExists ==
    ASSUME NEW n \in Nat, NEW S \in SUBSET (0..n), S # {}
    PROVE  \E m \in S : \A k \in S : k <= m
<1> DEFINE below == {n - k : k \in S}
<1>1. below \in SUBSET Nat /\ below # {}
  <2>1. \A k \in S : n - k \in Nat
    OBVIOUS
  <2> QED BY <2>1
<1>2. PICK d \in below : \A e \in below : d <= e
  <2> HIDE DEF below
  <2> QED BY <1>1, LeastExists
<1>3. PICK m \in S : d = n - m
  OBVIOUS
<1>4. ASSUME NEW k \in S PROVE k <= m
  <2>1. n - k \in below
    OBVIOUS
  <2>2. n - m <= n - k
    BY <1>2, <1>3, <2>1
  <2> QED BY <2>2
<1> QED BY <1>4

\* What is made along 1..n, each from what was made of one before it.
Along(s, n, start, steps, prev) ==
    s[0] = start /\ \A j \in 1..n : s[j] = steps[j][s[prev[j]]]

\* Steps that stay in W.
Stay(n, W, steps, prev) ==
    \A j \in 1..n : prev[j] \in 0..(j - 1) /\ \A w \in W : steps[j][w] \in W

LEMMA RecursionExists ==
    ASSUME NEW n \in Nat, NEW W, NEW start \in W, NEW steps, NEW prev, Stay(n, W, steps, prev)
    PROVE  \E s \in [0..n -> W] : Along(s, n, start, steps, prev)
<1> DEFINE S == {k \in 0..n : \E s \in [0..k -> W] : Along(s, k, start, steps, prev)}
<1>1. \A j \in 1..n : prev[j] \in 0..(j - 1) /\ \A w \in W : steps[j][w] \in W
  BY DEF Stay
<1>2. 0 \in S
  <2>1. [i \in 0..0 |-> start] \in [0..0 -> W]
    OBVIOUS
  <2>2. Along([i \in 0..0 |-> start], 0, start, steps, prev)
    BY DEF Along
  <2>3. 0 \in 0..n
    OBVIOUS
  <2> QED BY <2>1, <2>2, <2>3
<1>3. ASSUME NEW k \in 0..(n - 1), k \in S PROVE k + 1 \in S
  <2>1. PICK s \in [0..k -> W] : Along(s, k, start, steps, prev)
    BY <1>3
  <2>2. s[0] = start /\ \A j \in 1..k : s[j] = steps[j][s[prev[j]]]
    BY <2>1 DEF Along
  <2>3. k \in Nat /\ k + 1 \in 1..n /\ k + 1 \in 0..n /\ prev[k + 1] \in 0..k
    <3>1. k \in Nat /\ k + 1 \in 1..n /\ k + 1 \in 0..n /\ (k + 1) - 1 = k
      OBVIOUS
    <3> QED BY <1>1, <3>1
  <2> DEFINE last == steps[k + 1][s[prev[k + 1]]]
             t == [i \in 0..(k + 1) |-> IF i = k + 1 THEN last ELSE s[i]]
  <2>4. last \in W
    BY <1>1, <2>1, <2>3
  <2> HIDE DEF last
  <2>5. t \in [0..(k + 1) -> W]
    <3>1. ASSUME NEW i \in 0..(k + 1), i # k + 1 PROVE s[i] \in W
      <4>1. i \in 0..k
        BY <2>3, <3>1
      <4> QED BY <2>1, <4>1
    <3> QED BY <2>4, <3>1
  <2>6. \A i \in 0..k : t[i] = s[i]
    BY <2>3
  <2>7. t[k + 1] = last
    BY <2>3
  <2> HIDE DEF t
  <2>8. t[0] = start
    <3>1. 0 \in 0..k
      BY <2>3
    <3> QED BY <2>2, <2>6, <3>1
  <2>9. ASSUME NEW j \in 1..(k + 1) PROVE t[j] = steps[j][t[prev[j]]]
    <3>1. CASE j = k + 1
      BY <2>3, <2>6, <2>7, <3>1 DEF last
    <3>2. CASE j # k + 1
      <4>1. j \in 1..k /\ j \in 0..k /\ j \in 1..n
        BY <2>3, <3>2
      <4>2. prev[j] \in 0..k
        <5>1. prev[j] \in 0..(j - 1)
          BY <1>1, <4>1
        <5> QED BY <2>3, <4>1, <5>1
      <4> QED BY <2>2, <2>6, <4>1, <4>2
    <3> QED BY <3>1, <3>2
  <2>10. Along(t, k + 1, start, steps, prev)
    BY <2>8, <2>9 DEF Along
  <2> QED BY <2>3, <2>5, <2>10
<1>4. 0..n \subseteq S
  <2> HIDE DEF S
  <2> QED BY <1>2, <1>3, Inductive
<1>5. n \in S
  BY <1>4
<1> QED BY <1>5

-----------------------------------------------------------------------------
(* The tree.                                                               *)

LEMMA Typed ==
    ASSUME NEW t \in Trees
    PROVE  /\ Len(t) \in Nat /\ DOMAIN t = 1..Len(t) /\ t \in Seq(Node)
           /\ \A i \in 1..Len(t) :
                 /\ t[i].type \in NodeTypes /\ t[i].name \in Name /\ t[i].parameters \in Name /\ t[i].bases \in Seq(Base)
                 /\ t[i].up \in 0..(i - 1)
                 /\ \A j \in (t[i].up + 1)..(i - 1) : t[j].up >= t[i].up
<1>1. t \in Seq(Node)
  BY TreesAreInOrder
<1>2. Len(t) \in Nat /\ DOMAIN t = 1..Len(t)
  BY <1>1
<1>3. ASSUME NEW i \in 1..Len(t)
      PROVE  /\ t[i].type \in NodeTypes /\ t[i].name \in Name /\ t[i].parameters \in Name /\ t[i].bases \in Seq(Base)
             /\ t[i].up \in 0..(i - 1)
             /\ \A j \in (t[i].up + 1)..(i - 1) : t[j].up >= t[i].up
  <2>1. t[i] \in Node
    <3> HIDE DEF Node
    <3> QED BY <1>1
  <2>2. t[i].type \in NodeTypes /\ t[i].up \in Nat /\ t[i].name \in Name /\ t[i].parameters \in Name /\ t[i].bases \in Seq(Base)
    BY <2>1 DEF Node
  <2>3. t[i].up < i /\ \A j \in (t[i].up + 1)..(i - 1) : t[j].up >= t[i].up
    BY <1>2, TreesAreInOrder
  <2> QED BY <2>2, <2>3
<1> QED BY <1>1, <1>2, <1>3

\* The elements of S in order.
Lists(c, S) ==
    /\ c \in Seq(S)
    /\ \A a, b \in DOMAIN c : a < b => c[a] < c[b]
    /\ \A j \in S : \E a \in DOMAIN c : c[a] = j

LEMMA ListsMore ==
    ASSUME NEW n \in Nat, NEW S \in SUBSET (1..n), NEW c, Lists(c, S)
    PROVE  Lists(Append(c, n + 1), S \cup {n + 1})
<1> DEFINE d == Append(c, n + 1)
           T == S \cup {n + 1}
<1>1. /\ c \in Seq(S) /\ \A a, b \in DOMAIN c : a < b => c[a] < c[b]
      /\ \A j \in S : \E a \in DOMAIN c : c[a] = j
  BY DEF Lists
<1>2. c \in Seq(T) /\ n + 1 \in T
  <2>1. S \subseteq T /\ n + 1 \in T
    OBVIOUS
  <2> HIDE DEF T
  <2>2. ASSUME NEW a \in 1..Len(c) PROVE c[a] \in T
    <3>1. c \in Seq(S)
      BY <1>1
    <3>2. c[a] \in S
      BY ONLY <3>1
    <3> QED BY <2>1, <3>2
  <2>3. Len(c) \in Nat /\ c = [a \in 1..Len(c) |-> c[a]]
    BY <1>1
  <2> QED BY <2>1, <2>2, <2>3
<1>3. /\ d \in Seq(T) /\ Len(d) = Len(c) + 1 /\ Len(c) \in Nat
      /\ DOMAIN d = 1..(Len(c) + 1) /\ DOMAIN c = 1..Len(c)
      /\ \A a \in 1..Len(c) : d[a] = c[a]
      /\ d[Len(c) + 1] = n + 1
  <2> HIDE DEF T
  <2> QED BY <1>2
<1> HIDE DEF d
<1>4. ASSUME NEW a \in 1..Len(c) PROVE c[a] \in 1..n
  <2>1. c[a] \in S
    BY <1>1
  <2> QED BY <2>1
<1>5. ASSUME NEW a \in DOMAIN d, NEW b \in DOMAIN d, a < b PROVE d[a] < d[b]
  <2>1. CASE b = Len(c) + 1
    <3>1. a \in 1..Len(c)
      BY <1>3, <1>5, <2>1
    <3>2. c[a] < n + 1
      BY <1>4, <3>1
    <3> QED BY <1>3, <2>1, <3>1, <3>2
  <2>2. CASE b # Len(c) + 1
    <3>1. a \in 1..Len(c) /\ b \in 1..Len(c)
      BY <1>3, <1>5, <2>2
    <3> QED BY <1>1, <1>3, <1>5, <3>1
  <2> QED BY <2>1, <2>2
<1>6. ASSUME NEW j \in T PROVE \E a \in DOMAIN d : d[a] = j
  <2>1. CASE j \in S
    <3>1. PICK a \in DOMAIN c : c[a] = j
      BY <1>1, <2>1
    <3>2. a \in DOMAIN d /\ d[a] = j
      BY <1>3, <3>1
    <3> QED BY <3>2
  <2>2. CASE j = n + 1
    <3>1. Len(c) + 1 \in DOMAIN d
      BY <1>3
    <3> QED BY <1>3, <2>2, <3>1
  <2> QED BY <2>1, <2>2
<1> HIDE DEF T
<1>7. Lists(d, T)
  BY <1>3, <1>5, <1>6 DEF Lists
<1> QED BY <1>7 DEF d, T

LEMMA ChildrenAre ==
    ASSUME NEW t \in Trees, NEW i
    PROVE  Lists(ChildrenIn(t, i), {j \in 1..Len(t) : t[j].up = i})
<1> DEFINE N == Len(t)
           Sub(n) == {j \in 1..n : t[j].up = i}
           u == CHOOSE u : u = [n \in 0..N |->
                  IF n = 0 THEN <<>>
                  ELSE IF t[n].up = i THEN Append(u[n - 1], n) ELSE u[n - 1]]
           steps == [n \in 1..N |-> [c \in Seq(Nat) |-> IF t[n].up = i THEN Append(c, n) ELSE c]]
           prev == [n \in 1..N |-> n - 1]
<1>1. N \in Nat
  BY Typed
<1>2. ChildrenIn(t, i) = u[N]
  BY DEF ChildrenIn
<1> HIDE DEF N
<1>3. Stay(N, Seq(Nat), steps, prev)
  <2>1. ASSUME NEW n \in 1..N, NEW c \in Seq(Nat) PROVE steps[n][c] \in Seq(Nat)
    <3>1. steps[n][c] = IF t[n].up = i THEN Append(c, n) ELSE c
      OBVIOUS
    <3>2. Append(c, n) \in Seq(Nat)
      BY <1>1
    <3> HIDE DEF steps
    <3> QED BY <3>1, <3>2
  <2>2. \A n \in 1..N : prev[n] \in 0..(n - 1)
    BY <1>1
  <2> HIDE DEF steps, prev
  <2> QED BY <2>1, <2>2 DEF Stay
<1>4. \E s : s = [n \in 0..N |->
                IF n = 0 THEN <<>>
                ELSE IF t[n].up = i THEN Append(s[n - 1], n) ELSE s[n - 1]]
  <2>1. <<>> \in Seq(Nat)
    OBVIOUS
  <2>2. PICK s \in [0..N -> Seq(Nat)] : Along(s, N, <<>>, steps, prev)
    <3> HIDE DEF steps, prev
    <3> QED BY <1>1, <1>3, <2>1, RecursionExists
  <2>3. s[0] = <<>> /\ \A n \in 1..N : s[n] = steps[n][s[prev[n]]]
    BY <2>2 DEF Along
  <2>4. ASSUME NEW n \in 0..N
        PROVE  s[n] = IF n = 0 THEN <<>>
                      ELSE IF t[n].up = i THEN Append(s[n - 1], n) ELSE s[n - 1]
    <3>1. CASE n = 0
      BY <2>3, <3>1
    <3>2. CASE n # 0
      <4>1. n \in 1..N /\ n - 1 \in 0..N
        BY <1>1, <3>2
      <4>2. s[n - 1] \in Seq(Nat)
        BY <2>2, <4>1
      <4>3. prev[n] = n - 1 /\ steps[n][s[n - 1]]
                = IF t[n].up = i THEN Append(s[n - 1], n) ELSE s[n - 1]
        BY <4>1, <4>2
      <4>4. s[n] = steps[n][s[n - 1]]
        <5> HIDE DEF steps
        <5> QED BY <2>3, <4>1, <4>3
      <4> QED BY <3>2, <4>3, <4>4
    <3> QED BY <3>1, <3>2
  <2>5. s = [n \in 0..N |->
               IF n = 0 THEN <<>>
               ELSE IF t[n].up = i THEN Append(s[n - 1], n) ELSE s[n - 1]]
    <3> HIDE DEF steps, prev
    <3> QED BY ONLY <2>2, <2>4
  <2> QED BY <2>5
<1>5. u = [n \in 0..N |->
             IF n = 0 THEN <<>>
             ELSE IF t[n].up = i THEN Append(u[n - 1], n) ELSE u[n - 1]]
  BY <1>4
<1> HIDE DEF u
<1>6. u[0] = <<>> /\ \A n \in 1..N : u[n] = IF t[n].up = i THEN Append(u[n - 1], n) ELSE u[n - 1]
  <2>1. \A n \in 0..N : u[n] = IF n = 0 THEN <<>>
                               ELSE IF t[n].up = i THEN Append(u[n - 1], n) ELSE u[n - 1]
    BY <1>5
  <2> QED BY <1>1, <2>1
<1> DEFINE S == {n \in 0..N : Lists(u[n], Sub(n))}
<1>7. 0 \in S
  <2>1. Sub(0) = {} /\ 0 \in 0..N
    BY <1>1
  <2>2. Lists(<<>>, {})
    BY DEF Lists
  <2> HIDE DEF Sub
  <2> QED BY <1>6, <2>1, <2>2
<1>8. ASSUME NEW n \in 0..(N - 1), n \in S PROVE n + 1 \in S
  <2>1. n \in Nat /\ n + 1 \in 1..N /\ n + 1 \in 0..N /\ (n + 1) - 1 = n
    BY <1>1
  <2>2. u[n + 1] = IF t[n + 1].up = i THEN Append(u[n], n + 1) ELSE u[n]
    BY <1>6, <2>1
  <2>3. Lists(u[n], Sub(n)) /\ Sub(n) \in SUBSET (1..n)
    BY <1>8
  <2>4. Sub(n + 1) = IF t[n + 1].up = i THEN Sub(n) \cup {n + 1} ELSE Sub(n)
    BY <2>1
  <2>5. Lists(Append(u[n], n + 1), Sub(n) \cup {n + 1})
    <3> HIDE DEF Sub
    <3> QED BY <2>1, <2>3, ListsMore
  <2>6. Lists(u[n + 1], Sub(n + 1))
    <3> HIDE DEF Sub
    <3> QED BY <2>2, <2>3, <2>4, <2>5
  <2> HIDE DEF Sub
  <2> QED BY <2>1, <2>6
<1>9. N \in S
  <2>1. 0..N \subseteq S
    <3> HIDE DEF S
    <3> QED BY <1>1, <1>7, <1>8, Inductive
  <2> QED BY <1>1, <2>1
<1> QED BY <1>2, <1>9 DEF N

LEMMA AboveIs ==
    ASSUME tree \in Trees
    PROVE  /\ Above(0) = {0}
           /\ \A j \in 1..Len(tree) : Above(j) = {j} \cup Above(tree[j].up)
<1> DEFINE N == Len(tree)
           a == CHOOSE a : a = [j \in 0..N |-> IF j = 0 THEN {0} ELSE {j} \cup a[tree[j].up]]
           steps == [j \in 1..N |-> [above \in SUBSET Nat |-> {j} \cup above]]
           prev == [j \in 1..N |-> tree[j].up]
<1>1. N \in Nat /\ \A j \in 1..N : tree[j].up \in 0..(j - 1)
  BY Typed
<1>2. \A i : Above(i) = a[i]
  BY DEF Above
<1> HIDE DEF N
<1>3. \E s : s = [j \in 0..N |-> IF j = 0 THEN {0} ELSE {j} \cup s[tree[j].up]]
  <2>1. Stay(N, SUBSET Nat, steps, prev)
    BY <1>1 DEF Stay
  <2>2. {0} \in SUBSET Nat
    OBVIOUS
  <2>3. PICK s \in [0..N -> SUBSET Nat] : Along(s, N, {0}, steps, prev)
    <3> HIDE DEF steps, prev
    <3> QED BY <1>1, <2>1, <2>2, RecursionExists
  <2>4. s[0] = {0} /\ \A j \in 1..N : s[j] = steps[j][s[prev[j]]]
    BY <2>3 DEF Along
  <2>5. ASSUME NEW j \in 0..N PROVE s[j] = IF j = 0 THEN {0} ELSE {j} \cup s[tree[j].up]
    <3>1. CASE j = 0
      BY <2>4, <3>1
    <3>2. CASE j # 0
      <4>1. j \in 1..N /\ tree[j].up \in 0..N
        BY <1>1, <3>2
      <4>2. s[tree[j].up] \in SUBSET Nat
        BY <2>3, <4>1
      <4>3. prev[j] = tree[j].up /\ steps[j][s[tree[j].up]] = {j} \cup s[tree[j].up]
        BY <4>1, <4>2
      <4> HIDE DEF steps, prev
      <4> QED BY <2>4, <3>2, <4>1, <4>3
    <3> QED BY <3>1, <3>2
  <2> HIDE DEF steps, prev
  <2>6. s = [j \in 0..N |-> IF j = 0 THEN {0} ELSE {j} \cup s[tree[j].up]]
    BY ONLY <2>3, <2>5
  <2> QED BY <2>6
<1>4. a = [j \in 0..N |-> IF j = 0 THEN {0} ELSE {j} \cup a[tree[j].up]]
  BY <1>3
<1> HIDE DEF a
<1>5. \A j \in 0..N : a[j] = IF j = 0 THEN {0} ELSE {j} \cup a[tree[j].up]
  BY <1>4
<1>6. a[0] = {0} /\ \A j \in 1..N : a[j] = {j} \cup a[tree[j].up]
  <2>1. 0 \in 0..N /\ \A j \in 1..N : j \in 0..N /\ j # 0
    BY <1>1
  <2> QED BY <1>5, <2>1, Zenon
<1> QED BY <1>2, <1>6 DEF N

LEMMA AboveBounds ==
    ASSUME tree \in Trees
    PROVE  \A j \in 0..Len(tree) : Above(j) \subseteq 0..j /\ 0 \in Above(j) /\ j \in Above(j)
<1> DEFINE N == Len(tree)
           Good(j) == Above(j) \subseteq 0..j /\ 0 \in Above(j) /\ j \in Above(j)
           S == {k \in 0..N : \A j \in 0..k : Good(j)}
<1>1. N \in Nat /\ \A j \in 1..N : tree[j].up \in 0..(j - 1)
  BY Typed
<1>2. Above(0) = {0} /\ \A j \in 1..N : Above(j) = {j} \cup Above(tree[j].up)
  BY AboveIs
<1> HIDE DEF N
<1>3. 0 \in S
  BY <1>1, <1>2
<1>4. ASSUME NEW k \in 0..(N - 1), k \in S PROVE k + 1 \in S
  <2>1. k \in Nat /\ k + 1 \in 1..N /\ k + 1 \in 0..N /\ tree[k + 1].up \in 0..k
    <3>1. k \in Nat /\ k + 1 \in 1..N /\ k + 1 \in 0..N /\ (k + 1) - 1 = k
      BY <1>1
    <3> QED BY <1>1, <3>1
  <2>2. \A j \in 0..k : Good(j)
    BY <1>4
  <2>3. Good(k + 1)
    <3>1. Above(k + 1) = {k + 1} \cup Above(tree[k + 1].up)
      BY <1>2, <2>1
    <3>2. Above(tree[k + 1].up) \subseteq 0..(tree[k + 1].up) /\ 0 \in Above(tree[k + 1].up)
      BY <2>1, <2>2
    <3>3. 0..(tree[k + 1].up) \subseteq 0..(k + 1)
      BY <2>1
    <3>4. k + 1 \in 0..(k + 1)
      BY <2>1
    <3> QED BY <3>1, <3>2, <3>3, <3>4
  <2> HIDE DEF Good
  <2>4. ASSUME NEW j \in 0..(k + 1) PROVE Good(j)
    <3>1. j \in 0..k \/ j = k + 1
      BY <2>1
    <3> QED BY <2>2, <2>3, <3>1
  <2> QED BY <2>1, <2>4
<1>5. 0..N \subseteq S
  <2> HIDE DEF S
  <2> QED BY <1>1, <1>3, <1>4, Inductive
<1>6. N \in S
  BY <1>1, <1>5
<1> QED BY <1>6 DEF N

-----------------------------------------------------------------------------
(* Names.                                                                  *)

LEMMA FollowedTyped ==
    ASSUME NEW name \in Name, NEW text \in Name
    PROVE  Followed(name, text) \in Name
<1>1. CASE name = <<>> \/ text = <<>>
  <2>1. name \o text \in Seq(Words)
    BY DEF Name
  <2> QED BY <1>1, <2>1 DEF Followed, Name
<1>2. CASE name # <<>> /\ text # <<>>
  <2>1. /\ Qualifier(name) \in Seq(Words) /\ Tail(text) \in Seq(Words)
        /\ name[Len(name)] \in Words /\ Head(text) \in Words
    BY <1>2 DEF Qualifier, Name
  <2> DEFINE glue == Glued[<<name[Len(name)], Head(text)>>]
  <2>2. glue \in Words
    BY <2>1, WordsAreNamed
  <2>3. Followed(name, text) = Qualifier(name) \o <<glue>> \o Tail(text)
    BY <1>2 DEF Followed
  <2> HIDE DEF glue
  <2>4. <<glue>> \in Seq(Words)
    BY <2>2
  <2> QED BY <2>1, <2>3, <2>4 DEF Name
<1> QED BY <1>1, <1>2

LEMMA FunctionLikeNameTyped ==
    ASSUME NEW node, node.name \in Name, node.parameters \in Name
    PROVE  FunctionLikeName(node) \in Name
<1>1. <<Star>> \in Name
  BY WordsAreNamed DEF Name
<1> QED BY <1>1, FollowedTyped DEF FunctionLikeName

Or(name) == IF name = <<>> THEN <<Anonymous>> ELSE name

LEMMA SymbolNameIs ==
    ASSUME tree \in Trees
    PROVE  \A j \in 1..Len(tree) :
              /\ SymbolName(j) \in Name
              /\ tree[j].type \in {"namespace", "class", "enum"} =>
                    SymbolName(j) = Or(tree[j].name)
<1> DEFINE N == Len(tree)
           Last(j) == Children(j)[Len(Children(j))]
           Defers(j) == tree[j].type = "template" /\ Children(j) # <<>>
           a == CHOOSE a : a = [j \in DOMAIN tree |->
                  IF tree[j].type = "template" /\ Children(j) # <<>>
                  THEN a[Children(j)[Len(Children(j))]]
                  ELSE NodeName(tree[j])]
           steps == [k \in 1..N |-> [name \in Name |->
                       IF Defers(N + 1 - k) THEN name ELSE NodeName(tree[N + 1 - k])]]
           prev == [k \in 1..N |-> IF Defers(N + 1 - k) THEN N + 1 - Last(N + 1 - k) ELSE 0]
<1>1. N \in Nat /\ DOMAIN tree = 1..N /\ \A j \in 1..N : tree[j].name \in Name /\ tree[j].up \in 0..(j - 1)
  BY Typed
<1>2. \A i : SymbolName(i) = a[i]
  BY DEF SymbolName
<1>3. \A j \in 1..N : NodeName(tree[j]) \in Name
  <2>1. <<Anonymous>> \in Name /\ <<>> \in Name
    BY WordsAreNamed DEF Name
  <2>2. ASSUME NEW j \in 1..N PROVE NodeName(tree[j]) \in Name
    <3>1. FunctionLikeName(tree[j]) \in Name /\ tree[j].name \in Name
      BY <1>1, Typed, FunctionLikeNameTyped
    <3> QED BY <2>1, <3>1 DEF NodeName
  <2> QED BY <2>2
<1>4. ASSUME NEW j \in 1..N, Defers(j) PROVE Last(j) \in (j + 1)..N
  <2>1. Lists(Children(j), {i \in 1..N : tree[i].up = j})
    BY ChildrenAre DEF Children
  <2>2. Children(j) \in Seq({i \in 1..N : tree[i].up = j}) /\ Children(j) # <<>>
    BY <1>4, <2>1 DEF Lists
  <2>3. Len(Children(j)) \in 1..Len(Children(j))
    BY <2>2
  <2>4. Last(j) \in 1..N /\ tree[Last(j)].up = j
    BY <2>2, <2>3
  <2> HIDE DEF Last, N
  <2> QED BY <1>1, <2>4
<1> HIDE DEF N, Last, Defers
<1>5. Stay(N, Name, steps, prev)
  <2>1. ASSUME NEW k \in 1..N PROVE prev[k] \in 0..(k - 1)
    <3>1. N + 1 - k \in 1..N
      BY <1>1
    <3>2. CASE Defers(N + 1 - k)
      <4>1. Last(N + 1 - k) \in ((N + 1 - k) + 1)..N
        BY <1>4, <3>1, <3>2
      <4> QED BY <1>1, <3>2, <4>1
    <3> QED BY <1>1, <3>2
  <2>2. ASSUME NEW k \in 1..N, NEW w \in Name PROVE steps[k][w] \in Name
    <3>1. N + 1 - k \in 1..N
      BY <1>1
    <3>2. steps[k][w] = IF Defers(N + 1 - k) THEN w ELSE NodeName(tree[N + 1 - k])
      OBVIOUS
    <3> HIDE DEF steps
    <3> QED BY <1>3, <3>1, <3>2
  <2> HIDE DEF steps, prev
  <2> QED BY <2>1, <2>2 DEF Stay
<1>6. PICK s \in [0..N -> Name] : Along(s, N, <<>>, steps, prev)
  <2>1. <<>> \in Name
    BY DEF Name
  <2> HIDE DEF steps, prev
  <2> QED BY <1>1, <1>5, <2>1, RecursionExists
<1> DEFINE t == [j \in 1..N |-> s[N + 1 - j]]
<1>7. ASSUME NEW j \in 1..N PROVE t[j] \in Name /\ t[j] = IF Defers(j) THEN t[Last(j)] ELSE NodeName(tree[j])
  <2>1. /\ N + 1 - j \in 1..N /\ N + 1 - j \in 0..N /\ N + 1 - (N + 1 - j) = j
    BY <1>1
  <2>2. s[N + 1 - j] \in Name /\ t[j] = s[N + 1 - j]
    BY <1>6, <2>1
  <2>3. s[N + 1 - j] = steps[N + 1 - j][s[prev[N + 1 - j]]]
    <3> HIDE DEF steps, prev
    <3> QED BY <1>6, <2>1 DEF Along
  <2>4. prev[N + 1 - j] \in 0..N
    <3>1. prev[N + 1 - j] \in 0..((N + 1 - j) - 1)
      <4> HIDE DEF prev, steps
      <4> QED BY <1>5, <2>1 DEF Stay
    <3> HIDE DEF prev
    <3> QED BY <1>1, <2>1, <3>1
  <2>5. s[prev[N + 1 - j]] \in Name
    BY <1>6, <2>4
  <2>6. steps[N + 1 - j][s[prev[N + 1 - j]]]
          = IF Defers(N + 1 - (N + 1 - j)) THEN s[prev[N + 1 - j]] ELSE NodeName(tree[N + 1 - (N + 1 - j)])
    <3> HIDE DEF prev
    <3> QED BY <2>1, <2>5, Zenon
  <2>7. CASE Defers(j)
    <3>1. Last(j) \in 1..N
      BY <1>1, <1>4, <2>7
    <3>2. prev[N + 1 - j] = N + 1 - Last(j)
      <4>1. prev[N + 1 - j] = IF Defers(N + 1 - (N + 1 - j)) THEN N + 1 - Last(N + 1 - (N + 1 - j)) ELSE 0
        BY <2>1, Zenon
      <4> QED BY <2>1, <2>7, <4>1
    <3>3. t[Last(j)] = s[N + 1 - Last(j)]
      BY <3>1
    <3> HIDE DEF t, prev, steps
    <3> QED BY <2>1, <2>2, <2>3, <2>6, <2>7, <3>2, <3>3
  <2>8. CASE ~ Defers(j)
    <3> HIDE DEF t, prev, steps
    <3> QED BY <2>1, <2>2, <2>3, <2>6, <2>8
  <2> QED BY <2>2, <2>7, <2>8
<1>8. t \in [1..N -> Name]
  <2>1. \A j \in 1..N : N + 1 - j \in 0..N
    BY <1>1
  <2> QED BY <1>6, <2>1
<1> HIDE DEF t, steps, prev
<1>9. t = [j \in DOMAIN tree |->
             IF tree[j].type = "template" /\ Children(j) # <<>>
             THEN t[Children(j)[Len(Children(j))]]
             ELSE NodeName(tree[j])]
  <2>1. ASSUME NEW j \in 1..N
        PROVE  t[j] = IF tree[j].type = "template" /\ Children(j) # <<>>
                      THEN t[Children(j)[Len(Children(j))]]
                      ELSE NodeName(tree[j])
    BY <1>7 DEF Defers, Last
  <2> QED BY ONLY <1>1, <1>8, <2>1
<1>10. a = [j \in DOMAIN tree |->
             IF tree[j].type = "template" /\ Children(j) # <<>>
             THEN a[Children(j)[Len(Children(j))]]
             ELSE NodeName(tree[j])]
  BY <1>9
<1> HIDE DEF a
<1>11. \A j \in 1..N : a[j] = IF Defers(j) THEN a[Last(j)] ELSE NodeName(tree[j])
  <2>1. \A j \in 1..N :
           a[j] = IF tree[j].type = "template" /\ Children(j) # <<>>
                  THEN a[Children(j)[Len(Children(j))]]
                  ELSE NodeName(tree[j])
    BY ONLY <1>1, <1>10
  <2> QED BY <2>1 DEF Defers, Last
\* From the last node to the first, a name that is taken from a later node is one.
<1> DEFINE S == {k \in 0..N : \A j \in (N + 1 - k)..N : a[j] \in Name}
<1>12. 0 \in S
  BY <1>1
<1>13. ASSUME NEW k \in 0..(N - 1), k \in S PROVE k + 1 \in S
  <2>1. /\ N - k \in 1..N /\ k + 1 \in 0..N /\ N + 1 - (k + 1) = N - k
        /\ (N - k) + 1 = N + 1 - k
    BY <1>1
  <2>2. \A j \in (N + 1 - k)..N : a[j] \in Name
    BY <1>13
  <2>3. a[N - k] \in Name
    <3>1. Defers(N - k) => Last(N - k) \in (N + 1 - k)..N
      BY <1>4, <2>1
    <3> QED BY <1>3, <1>11, <2>1, <2>2, <3>1
  <2>4. ASSUME NEW j \in (N - k)..N PROVE a[j] \in Name
    <3>1. j = N - k \/ j \in (N + 1 - k)..N
      BY <1>1
    <3> QED BY <2>2, <2>3, <3>1
  <2> QED BY <2>1, <2>4
<1>14. \A j \in 1..N : a[j] \in Name
  <2>1. 0..N \subseteq S
    <3> HIDE DEF S
    <3> QED BY <1>1, <1>12, <1>13, Inductive
  <2>2. N \in S /\ N + 1 - N = 1
    BY <1>1, <2>1
  <2> QED BY <2>2
<1>15. ASSUME NEW j \in 1..N, tree[j].type \in {"namespace", "class", "enum"}
       PROVE  a[j] = Or(tree[j].name)
  <2>1. ~ Defers(j)
    BY <1>15 DEF Defers
  <2> QED BY <1>11, <1>15, <2>1 DEF NodeName, Or
<1> QED BY <1>2, <1>14, <1>15 DEF N

\* The scope that a node opens.
Opens(j) == IF IsScope(j) THEN SymbolName(j) ELSE <<>>

LEMMA PathIs ==
    ASSUME tree \in Trees
    PROVE  \A i \in 1..Len(tree) :
              /\ Path(i) \in Name
              /\ Path(i) = IF tree[i].up = 0 THEN <<>>
                           ELSE Path(tree[i].up) \o Opens(tree[i].up)
<1> DEFINE N == Len(tree)
           a == CHOOSE a : a = [j \in 0..N |->
                  IF j = 0 THEN <<>>
                  ELSE a[tree[j].up] \o (IF IsScope(j) THEN SymbolName(j) ELSE <<>>)]
           steps == [j \in 1..N |-> [path \in Name |-> path \o Opens(j)]]
           prev == [j \in 1..N |-> tree[j].up]
<1>1. N \in Nat /\ \A j \in 1..N : tree[j].up \in 0..(j - 1)
  BY Typed
<1>2. \A i : Path(i) = a[tree[i].up]
  BY DEF Path
<1>3. \A j \in 1..N : Opens(j) \in Name
  BY SymbolNameIs DEF Opens, Name
<1> HIDE DEF N
<1>4. \A name \in Name : \A j \in 1..N : name \o Opens(j) \in Name
  BY <1>3 DEF Name
<1>5. \E s : s = [j \in 0..N |->
             IF j = 0 THEN <<>>
             ELSE s[tree[j].up] \o (IF IsScope(j) THEN SymbolName(j) ELSE <<>>)]
  <2>1. Stay(N, Name, steps, prev)
    BY <1>1, <1>4 DEF Stay
  <2>2. <<>> \in Name
    BY DEF Name
  <2>3. PICK s \in [0..N -> Name] : Along(s, N, <<>>, steps, prev)
    <3> HIDE DEF steps, prev
    <3> QED BY <1>1, <2>1, <2>2, RecursionExists
  <2>4. s[0] = <<>> /\ \A j \in 1..N : s[j] = steps[j][s[prev[j]]]
    BY <2>3 DEF Along
  <2>5. ASSUME NEW j \in 0..N
        PROVE  s[j] = IF j = 0 THEN <<>>
                      ELSE s[tree[j].up] \o (IF IsScope(j) THEN SymbolName(j) ELSE <<>>)
    <3>1. CASE j = 0
      BY <2>4, <3>1
    <3>2. CASE j # 0
      <4>1. j \in 1..N /\ tree[j].up \in 0..N
        BY <1>1, <3>2
      <4>2. s[tree[j].up] \in Name
        BY <2>3, <4>1
      <4>3. prev[j] = tree[j].up /\ steps[j][s[tree[j].up]] = s[tree[j].up] \o Opens(j)
        BY <4>1, <4>2
      <4> HIDE DEF steps, prev
      <4>4. s[j] = s[tree[j].up] \o Opens(j)
        BY <2>4, <4>1, <4>3
      <4> QED BY <3>2, <4>4 DEF Opens
    <3> QED BY <3>1, <3>2
  <2> HIDE DEF steps, prev
  <2>6. s = [j \in 0..N |->
             IF j = 0 THEN <<>>
             ELSE s[tree[j].up] \o (IF IsScope(j) THEN SymbolName(j) ELSE <<>>)]
    BY ONLY <2>3, <2>5
  <2> QED BY <2>6
<1>6. a = [j \in 0..N |->
             IF j = 0 THEN <<>>
             ELSE a[tree[j].up] \o (IF IsScope(j) THEN SymbolName(j) ELSE <<>>)]
  BY <1>5 DEF N
<1> HIDE DEF a
<1>7. \A j \in 0..N : a[j] = IF j = 0 THEN <<>> ELSE a[tree[j].up] \o Opens(j)
  <2>1. \A j \in 0..N :
           a[j] = IF j = 0 THEN <<>>
                  ELSE a[tree[j].up] \o (IF IsScope(j) THEN SymbolName(j) ELSE <<>>)
    BY ONLY <1>6
  <2> QED BY <2>1 DEF Opens
<1> DEFINE S == {k \in 0..N : \A j \in 0..k : a[j] \in Name}
<1>8. 0 \in S
  <2>1. 0 \in 0..N /\ a[0] = <<>> /\ <<>> \in Name
    BY <1>1, <1>7 DEF Name
  <2> QED BY <2>1
<1>9. ASSUME NEW k \in 0..(N - 1), k \in S PROVE k + 1 \in S
  <2>1. k + 1 \in 1..N /\ k + 1 \in 0..N /\ k + 1 # 0 /\ tree[k + 1].up \in 0..k
    <3>1. k + 1 \in 1..N /\ k + 1 \in 0..N /\ (k + 1) - 1 = k
      BY <1>1
    <3> QED BY <1>1, <3>1
  <2>2. a[k + 1] = a[tree[k + 1].up] \o Opens(k + 1)
    BY <1>7, <2>1
  <2>3. a[k + 1] \in Name
    BY <1>4, <1>9, <2>1, <2>2
  <2>4. ASSUME NEW j \in 0..(k + 1) PROVE a[j] \in Name
    <3>1. j \in 0..k \/ j = k + 1
      BY <1>1
    <3> QED BY <1>9, <2>3, <3>1
  <2> QED BY <2>1, <2>4
<1>10. \A j \in 0..N : a[j] \in Name
  <2>1. 0..N \subseteq S
    <3> HIDE DEF S
    <3> QED BY <1>1, <1>8, <1>9, Inductive
  <2>2. N \in S
    BY <1>1, <2>1
  <2> QED BY <2>2
<1>11. ASSUME NEW i \in 1..N
       PROVE  /\ Path(i) \in Name
              /\ Path(i) = IF tree[i].up = 0 THEN <<>>
                           ELSE Path(tree[i].up) \o Opens(tree[i].up)
  <2>1. tree[i].up \in 0..N
    BY <1>1
  <2> QED BY <1>2, <1>7, <1>10, <2>1
<1> QED BY <1>11 DEF N

-----------------------------------------------------------------------------
(* What is walked.                                                         *)

\* The nodes that no broken one hides, with the top.
Shown == Within(0)

LEMMA ShownIs ==
    ASSUME tree \in Trees
    PROVE  /\ 0 \in Shown /\ Shown \subseteq 0..Len(tree)
           /\ \A j \in 1..Len(tree) :
                 j \in Shown <=> tree[j].type # "error" /\ tree[j].up \in Shown
<1> DEFINE N == Len(tree)
<1>1. N \in Nat /\ \A j \in 1..N : tree[j].up \in 0..(j - 1)
  BY Typed
<1>2. Above(0) = {0} /\ \A j \in 1..N : Above(j) = {j} \cup Above(tree[j].up)
  BY AboveIs
<1>3. \A j \in 0..N : Above(j) \subseteq 0..j /\ 0 \in Above(j) /\ j \in Above(j)
  BY AboveBounds
<1>4. Shown = {j \in 0..N : /\ 0 \in Above(j)
                            /\ \A k \in Above(j) : k >= 0 /\ k # 0 => tree[k].type # "error"}
  BY DEF Shown, Within
<1> HIDE DEF N
<1>5. 0 \in Shown /\ Shown \subseteq 0..N
  BY <1>1, <1>2, <1>4
<1>6. ASSUME NEW j \in 1..N
      PROVE  j \in Shown <=> tree[j].type # "error" /\ tree[j].up \in Shown
  <2>1. /\ j \in 0..N /\ j # 0 /\ j >= 0 /\ tree[j].up \in 0..N
        /\ Above(j) = {j} \cup Above(tree[j].up)
        /\ 0 \in Above(j) /\ 0 \in Above(tree[j].up)
    BY <1>1, <1>2, <1>3
  <2> QED BY <1>4, <2>1, Zenon
<1> QED BY <1>5, <1>6 DEF N

\* What is pending once the nodes up to v were walked.
Frontier(v) == {j \in 1..Len(tree) : v < j /\ tree[j].up <= v /\ tree[j].up \in Shown}

\* No node is shown on the way to the next one that is pending.
LEMMA FrontierMoves ==
    ASSUME tree \in Trees, NEW v \in 0..Len(tree), NEW w \in v..Len(tree),
           \A j \in Frontier(v) : w < j
    PROVE  /\ \A j \in Shown : j <= v \/ w < j
           /\ Frontier(w) = Frontier(v)
<1> DEFINE N == Len(tree)
<1>1. N \in Nat /\ \A j \in 1..N : tree[j].up \in 0..(j - 1)
  BY Typed
<1>2. /\ Shown \subseteq 0..N
      /\ \A j \in 1..N : j \in Shown <=> tree[j].type # "error" /\ tree[j].up \in Shown
  BY ShownIs
<1>3. \A j \in Shown : j <= v \/ w < j
  <2> DEFINE Missed == {j \in Shown : v < j /\ j <= w}
  <2> SUFFICES ASSUME Missed # {} PROVE FALSE
    <3>1. \A j \in Shown : j \in Nat
      BY <1>1, <1>2
    <3> QED BY <3>1
  <2>1. Missed \in SUBSET Nat
    <3>1. \A j \in 0..N : j \in Nat
      BY <1>1
    <3>2. \A j \in Shown : j \in Nat
      BY <1>2, <3>1
    <3> HIDE DEF N
    <3> QED BY <3>2
  <2>2. PICK m \in Missed : \A j \in Missed : m <= j
    <3> HIDE DEF Missed
    <3> QED BY <2>1, LeastExists
  <2>3. m \in 1..N /\ m \in Shown /\ v < m /\ m <= w
    <3>1. m \in Shown /\ v < m /\ m <= w
      OBVIOUS
    <3>2. m \in 0..N /\ v \in Nat
      BY <1>1, <1>2, <3>1
    <3> HIDE DEF Missed
    <3> QED BY <1>1, <3>1, <3>2
  <2>4. tree[m].up \in Shown /\ tree[m].up \in 0..(m - 1)
    BY <1>1, <1>2, <2>3
  <2>5. tree[m].up <= v
    <3>1. tree[m].up \notin Missed
      <4> HIDE DEF Missed
      <4>1. ~ (m <= tree[m].up)
        BY <1>1, <2>3, <2>4
      <4> QED BY <2>2, <4>1
    <3> QED BY <1>1, <2>3, <2>4, <3>1
  <2>6. m \in Frontier(v)
    BY <2>3, <2>4, <2>5 DEF Frontier
  <2> QED BY <1>1, <2>3, <2>6
<1>4. ASSUME NEW j \in 1..N
      PROVE  (w < j /\ tree[j].up <= w /\ tree[j].up \in Shown)
               <=> (v < j /\ tree[j].up <= v /\ tree[j].up \in Shown)
  <2>1. tree[j].up \in Nat /\ w \in Nat /\ v \in Nat /\ v <= w
    BY <1>1
  <2>2. CASE tree[j].up \in Shown
    <3>1. tree[j].up <= v \/ w < tree[j].up
      BY <1>3, <2>2
    <3>2. v < j /\ tree[j].up <= v => w < j
      BY <2>2 DEF Frontier
    <3> HIDE DEF N
    <3> QED BY <2>1, <2>2, <3>1, <3>2
  <2>3. CASE tree[j].up \notin Shown
    BY <2>3
  <2> QED BY <2>2, <2>3
<1>5. Frontier(w) = Frontier(v)
  BY <1>4 DEF Frontier
<1> QED BY <1>3, <1>5

\* A walked node gives its place to its children, unless it is broken.
LEMMA FrontierSteps ==
    ASSUME tree \in Trees, NEW v \in Nat, v \in Frontier(v - 1)
    PROVE  Frontier(v) = (Frontier(v - 1) \ {v})
                           \cup IF tree[v].type = "error" THEN {}
                                ELSE {j \in 1..Len(tree) : tree[j].up = v}
<1> DEFINE N == Len(tree)
<1>1. N \in Nat /\ \A j \in 1..N : tree[j].up \in 0..(j - 1)
  BY Typed
<1>2. v \in 1..N /\ tree[v].up \in Shown
  BY DEF Frontier
<1>3. v \in Shown <=> tree[v].type # "error"
  BY <1>2, ShownIs
<1>4. ASSUME NEW j \in 1..N
      PROVE  (v < j /\ tree[j].up <= v /\ tree[j].up \in Shown)
               <=> \/ v - 1 < j /\ tree[j].up <= v - 1 /\ tree[j].up \in Shown /\ j # v
                   \/ tree[v].type # "error" /\ tree[j].up = v
  <2>1. tree[j].up \in Nat /\ tree[j].up < j /\ v \in Nat /\ j \in Nat
    BY <1>1, <1>2
  <2>2. CASE tree[j].up = v
    BY <1>3, <2>1, <2>2
  <2>3. CASE tree[j].up # v
    <3> HIDE DEF N
    <3>1. tree[j].up <= v <=> tree[j].up <= v - 1
      BY <2>1, <2>3
    <3>2. v < j <=> v - 1 < j /\ j # v
      BY <2>1
    <3> QED BY <2>3, <3>1, <3>2
  <2> QED BY <2>2, <2>3
<1> QED BY <1>4 DEF Frontier

\* The children of a node come before everything else that is pending.
LEMMA ChildrenFirst ==
    ASSUME tree \in Trees, NEW v \in Nat, v \in Frontier(v - 1),
           NEW j \in 1..Len(tree), tree[j].up = v,
           NEW x \in Frontier(v - 1) \ {v}
    PROVE  j < x
<1>1. /\ v \in 1..Len(tree) /\ x \in 1..Len(tree) /\ v - 1 < x /\ x # v /\ tree[x].up <= v - 1
      /\ Len(tree) \in Nat
  BY Typed DEF Frontier
<1>2. tree[x].up \in 0..(x - 1) /\ \A k \in (tree[j].up + 1)..(j - 1) : tree[k].up >= tree[j].up
  BY <1>1, Typed
<1>3. x # j
  BY <1>1, <1>2
<1>4. ~ (x < j)
  <2> SUFFICES ASSUME x < j PROVE FALSE
    OBVIOUS
  <2>1. x \in (tree[j].up + 1)..(j - 1)
    BY <1>1
  <2>2. tree[x].up >= v
    BY <1>2, <2>1
  <2> QED BY <1>1, <1>2, <2>2
<1> QED BY <1>1, <1>3, <1>4

-----------------------------------------------------------------------------
(* The invariant of the walk.                                              *)

Frame == [node : Nat, scopes : Name, class_depth : Nat]

Kinds == {"namespace", "class", "enum", "template", "function", "method"}
Symbol == [kind : Kinds, name : Name, line : Nat,
           calls : SUBSET Name, bases : SUBSET Name, includes : SUBSET Name]

NodesOf(p) == [k \in DOMAIN p |-> p[k].node]
LinesOf(ss) == [s \in DOMAIN ss |-> ss[s].line]

\* The nodes up to this one were walked.
WalkedOf(p) == IF p = <<>> THEN Len(tree) ELSE Head(p).node - 1

InClass(j) == tree[j].up # 0 /\ tree[tree[j].up].type = "class"

\* A node is visited with the scopes around it.
FramesOk(p) ==
    /\ p \in Seq(Frame)
    /\ \A k \in DOMAIN p :
          /\ p[k].scopes = Path(p[k].node)
          /\ InClass(p[k].node) => p[k].class_depth > 0

DeclaredTo(v) == {j \in 1..v : j \in Shown /\ Declares(j)}

\* How the symbol s is named and what it is.
ReadRight(ss, s) ==
    LET i == ss[s].line IN
    /\ tree[i].type = "class" =>
          /\ ss[s].kind = "class"
          /\ ss[s].name = QualifyName(Path(i), SymbolName(i))
          /\ ss[s].bases = BaseClasses(i, Path(i))
    /\ tree[i].type \in {"function", "pointer"} =>
          ss[s].name = QualifyName(Path(i), FunctionLikeName(tree[i]))
    /\ tree[i].type = "function" =>
          /\ ss[s].name = QualifyName(Path(i), tree[i].name)
          /\ /\ ~ HasAncestor(i, "friend")
             /\ \/ InClass(i)
                \/ /\ Len(tree[i].name) > 1
                   /\ \E r \in DOMAIN ss :
                         /\ r < s /\ ss[r].kind = "class"
                         /\ ss[r].name = QualifyName(Path(i), Qualifier(tree[i].name))
             => ss[s].kind = "method"

ClassNames(ss) == {ss[s].name : s \in {s \in DOMAIN ss : ss[s].kind = "class"}}

SymbolsOk(ss, v) ==
    /\ ss \in Seq(Symbol)
    /\ Lists(LinesOf(ss), DeclaredTo(v))
    /\ \A s \in DOMAIN ss : ReadRight(ss, s)

PendingInv == FramesOk(pending) /\ Lists(NodesOf(pending), Frontier(WalkedOf(pending)))
SymbolsInv == SymbolsOk(symbols, WalkedOf(pending)) /\ known = ClassNames(symbols)

WalkInv == tree \in Trees /\ PendingInv /\ SymbolsInv

LEMMA SameTree ==
    ASSUME tree' = tree
    PROVE  /\ \A i : Path(i)' = Path(i) /\ SymbolName(i)' = SymbolName(i)
           /\ \A i, type : HasAncestor(i, type)' = HasAncestor(i, type)
           /\ \A i : InClass(i)' = InClass(i) /\ Declares(i)' = Declares(i)
           /\ Shown' = Shown
<1>1. ASSUME NEW i PROVE Path(i)' = Path(i)
  BY SMT DEF Path, IsScope, SymbolName, Children
<1>2. ASSUME NEW i PROVE SymbolName(i)' = SymbolName(i)
  BY SMT DEF SymbolName, Children
<1>3. ASSUME NEW i, NEW type PROVE HasAncestor(i, type)' = HasAncestor(i, type)
  BY SMT DEF HasAncestor, Above
<1>4. ASSUME NEW i PROVE InClass(i)' = InClass(i)
  BY SMT DEF InClass
<1>5. ASSUME NEW i PROVE Declares(i)' = Declares(i)
  BY SMT DEF Declares, IsFunctionLike, Body
<1>6. Shown' = Shown
  BY SMT DEF Shown, Within, Above
<1> QED BY <1>1, <1>2, <1>3, <1>4, <1>5, <1>6

LEMMA SamePending ==
    ASSUME tree' = tree, FramesOk(pending'),
           Lists(NodesOf(pending'), Frontier(WalkedOf(pending')))
    PROVE  PendingInv'
<1>1. (\A k \in DOMAIN pending : pending[k].scopes = Path(pending[k].node))'
  <2>1. \A k \in DOMAIN pending' : pending'[k].scopes = Path(pending'[k].node)
    BY DEF FramesOk
  <2> QED BY <2>1, SameTree
<1>2. (\A k \in DOMAIN pending : InClass(pending[k].node) => pending[k].class_depth > 0)'
  <2>1. \A k \in DOMAIN pending' : InClass(pending'[k].node) => pending'[k].class_depth > 0
    BY DEF FramesOk
  <2> QED BY <2>1, SameTree
<1>3. FramesOk(pending)'
  BY <1>1, <1>2 DEF FramesOk
<1>4. Frontier(WalkedOf(pending))' = Frontier(WalkedOf(pending'))
  BY SameTree DEF Frontier, WalkedOf
<1> QED BY <1>3, <1>4 DEF PendingInv, NodesOf

LEMMA SameSymbols ==
    ASSUME tree' = tree, SymbolsOk(symbols', WalkedOf(pending')), known' = ClassNames(symbols')
    PROVE  SymbolsInv'
<1>1. DeclaredTo(WalkedOf(pending))' = DeclaredTo(WalkedOf(pending'))
  BY SameTree DEF DeclaredTo, WalkedOf
<1>2. ASSUME NEW s, ReadRight(symbols', s)
      PROVE  ReadRight(symbols, s)'
  BY <1>2, SameTree DEF ReadRight, BaseClasses
<1> QED BY <1>1, <1>2 DEF SymbolsInv, SymbolsOk, LinesOf, ClassNames

-----------------------------------------------------------------------------
(* A step of the walk.                                                     *)

LEMMA ListsJoin ==
    ASSUME NEW S \in SUBSET Nat, NEW T \in SUBSET Nat, NEW c, NEW d, Lists(c, S), Lists(d, T),
           \A x \in S, y \in T : x < y
    PROVE  Lists(c \o d, S \cup T)
<1>1. /\ c \in Seq(S) /\ \A a, b \in DOMAIN c : a < b => c[a] < c[b]
      /\ \A j \in S : \E a \in DOMAIN c : c[a] = j
  BY DEF Lists
<1>2. /\ d \in Seq(T) /\ \A a, b \in DOMAIN d : a < b => d[a] < d[b]
      /\ \A j \in T : \E a \in DOMAIN d : d[a] = j
  BY DEF Lists
<1>3. c \in Seq(S \cup T) /\ d \in Seq(S \cup T)
  <2>1. S \subseteq S \cup T /\ T \subseteq S \cup T
    OBVIOUS
  <2>2. \A X, Y : X \subseteq Y => Seq(X) \subseteq Seq(Y)
    BY SeqMonotonic
  <2> QED BY <1>1, <1>2, <2>1, <2>2
<1> DEFINE e == c \o d
<1>4. /\ Len(c) \in Nat /\ Len(d) \in Nat /\ DOMAIN c = 1..Len(c) /\ DOMAIN d = 1..Len(d)
      /\ \A a \in 1..Len(c) : c[a] \in S
      /\ \A a \in 1..Len(d) : d[a] \in T
  BY <1>1, <1>2
<1>5. /\ e \in Seq(S \cup T) /\ DOMAIN e = 1..(Len(c) + Len(d))
      /\ \A a \in 1..(Len(c) + Len(d)) : e[a] = IF a <= Len(c) THEN c[a] ELSE d[a - Len(c)]
  BY <1>3
<1> HIDE DEF e
<1>6. /\ \A a \in 1..Len(c) : a \in DOMAIN e /\ e[a] = c[a]
      /\ \A a \in 1..Len(d) : a + Len(c) \in DOMAIN e /\ e[a + Len(c)] = d[a]
  <2>1. ASSUME NEW a \in 1..Len(d)
        PROVE  a + Len(c) \in 1..(Len(c) + Len(d)) /\ ~ (a + Len(c) <= Len(c)) /\ (a + Len(c)) - Len(c) = a
    BY <1>4
  <2>2. ASSUME NEW a \in 1..Len(c) PROVE a \in 1..(Len(c) + Len(d)) /\ a <= Len(c)
    BY <1>4
  <2> QED BY <1>5, <2>1, <2>2
<1>7. ASSUME NEW a \in DOMAIN e, NEW b \in DOMAIN e, a < b PROVE e[a] < e[b]
  <2>1. a \in 1..(Len(c) + Len(d)) /\ b \in 1..(Len(c) + Len(d))
    BY <1>5
  <2>2. CASE b <= Len(c)
    <3>1. a \in 1..Len(c) /\ b \in 1..Len(c)
      BY <1>4, <1>7, <2>1, <2>2
    <3> QED BY <1>1, <1>4, <1>6, <1>7, <3>1
  <2>3. CASE a <= Len(c) /\ ~ (b <= Len(c))
    <3>1. a \in 1..Len(c) /\ b - Len(c) \in 1..Len(d)
      BY <1>4, <2>1, <2>3
    <3>2. e[a] = c[a] /\ e[b] = d[b - Len(c)]
      BY <1>5, <2>1, <2>3
    <3>3. c[a] \in S /\ d[b - Len(c)] \in T
      BY <1>4, <3>1
    <3> QED BY <3>2, <3>3
  <2>4. CASE ~ (a <= Len(c))
    <3>1. a - Len(c) \in 1..Len(d) /\ b - Len(c) \in 1..Len(d) /\ a - Len(c) < b - Len(c) /\ ~ (b <= Len(c))
      BY <1>4, <1>7, <2>1, <2>4
    <3>2. e[a] = d[a - Len(c)] /\ e[b] = d[b - Len(c)]
      BY <1>5, <2>1, <2>4, <3>1
    <3>3. d[a - Len(c)] < d[b - Len(c)]
      BY <1>2, <1>4, <3>1
    <3> QED BY <3>2, <3>3
  <2> QED BY <1>4, <2>1, <2>2, <2>3, <2>4
<1>8. ASSUME NEW j \in S \cup T PROVE \E a \in DOMAIN e : e[a] = j
  <2>1. CASE j \in S
    <3>1. PICK a \in 1..Len(c) : c[a] = j
      BY <1>1, <1>4, <2>1
    <3> QED BY <1>6, <3>1
  <2>2. CASE j \in T
    <3>1. PICK a \in 1..Len(d) : d[a] = j
      BY <1>2, <1>4, <2>2
    <3> QED BY <1>6, <3>1
  <2> QED BY <2>1, <2>2
<1> QED BY <1>5, <1>7, <1>8 DEF Lists, e

LEMMA ListsRest ==
    ASSUME NEW S \in SUBSET Nat, NEW c, Lists(c, S), c # <<>>
    PROVE  /\ c[1] \in S /\ \A j \in S : c[1] <= j
           /\ Lists(Tail(c), S \ {c[1]})
<1>1. /\ c \in Seq(S) /\ \A a, b \in DOMAIN c : a < b => c[a] < c[b]
      /\ \A j \in S : \E a \in DOMAIN c : c[a] = j
  BY DEF Lists
<1>2. Len(c) \in Nat /\ Len(c) # 0 /\ DOMAIN c = 1..Len(c) /\ \A a \in 1..Len(c) : c[a] \in S
  BY <1>1
<1>3. c[1] \in S /\ \A a \in 2..Len(c) : c[1] < c[a]
  <2>1. 1 \in 1..Len(c) /\ \A a \in 2..Len(c) : a \in 1..Len(c) /\ 1 < a
    BY <1>2
  <2> QED BY <1>1, <1>2, <2>1
<1>4. ASSUME NEW j \in S PROVE c[1] <= j
  <2>1. PICK a \in 1..Len(c) : c[a] = j
    BY <1>1, <1>2
  <2>2. a = 1 \/ a \in 2..Len(c)
    OBVIOUS
  <2>3. c[1] \in Nat
    BY <1>3
  <2> QED BY <1>3, <2>1, <2>2, <2>3
<1> DEFINE e == Tail(c)
           n == Len(c) - 1
<1>5. n \in Nat /\ e \in Seq(S) /\ DOMAIN e = 1..n /\ \A a \in 1..n : e[a] = c[a + 1]
  BY <1>1, <1>2
<1> HIDE DEF e
<1>6. \A a \in 1..n : e[a] = c[a + 1] /\ a + 1 \in 2..Len(c) /\ a + 1 \in 1..Len(c)
  BY <1>2, <1>5
<1>7. ASSUME NEW a \in 1..n PROVE e[a] \in S \ {c[1]}
  <2>1. e[a] \in S /\ c[1] < e[a] /\ c[1] \in Nat /\ e[a] \in Nat
    BY <1>2, <1>3, <1>6
  <2> QED BY <2>1
<1>8. e \in Seq(S \ {c[1]}) /\ DOMAIN e = 1..n
  <2>1. DOMAIN e = 1..n /\ e = [a \in 1..n |-> e[a]]
    BY <1>5, <1>2
  <2> HIDE DEF n
  <2> QED BY <1>5, <1>7, <2>1
<1>9. ASSUME NEW a \in DOMAIN e, NEW b \in DOMAIN e, a < b PROVE e[a] < e[b]
  <2>1. a + 1 < b + 1
    BY <1>5, <1>8, <1>9
  <2> QED BY <1>1, <1>2, <1>6, <1>8, <2>1
<1>10. ASSUME NEW j \in S \ {c[1]} PROVE \E a \in DOMAIN e : e[a] = j
  <2>1. PICK a \in 1..Len(c) : c[a] = j
    BY <1>1, <1>2
  <2>2. a - 1 \in 1..n /\ (a - 1) + 1 = a
    BY <1>2, <1>10, <2>1
  <2> QED BY <1>6, <1>8, <2>1, <2>2
<1> QED BY <1>3, <1>4, <1>8, <1>9, <1>10 DEF Lists, e

\* The walk is as far as the node before the next one to visit.
LEMMA Settles ==
    ASSUME tree \in Trees, NEW v \in 0..Len(tree), NEW q \in Seq(Frame),
           Lists(NodesOf(q), Frontier(v))
    PROVE  /\ Lists(NodesOf(q), Frontier(WalkedOf(q)))
           /\ DeclaredTo(WalkedOf(q)) = DeclaredTo(v)
<1> DEFINE N == Len(tree)
           w == WalkedOf(q)
<1>1. N \in Nat
  BY Typed
<1>2. Frontier(v) \in SUBSET Nat /\ \A j \in Frontier(v) : v < j /\ j <= N /\ j \in Nat
  BY <1>1 DEF Frontier
<1>3. w \in v..N /\ \A j \in Frontier(v) : w < j
  <2>1. CASE q = <<>>
    <3>1. w = N
      BY <2>1 DEF WalkedOf
    <3>2. Frontier(v) = {}
      BY <2>1 DEF Lists, NodesOf
    <3> QED BY <1>1, <3>1, <3>2
  <2>2. CASE q # <<>>
    <3>1. NodesOf(q) # <<>> /\ NodesOf(q)[1] = q[1].node
      BY <2>2 DEF NodesOf
    <3>2. NodesOf(q)[1] \in Frontier(v) /\ \A j \in Frontier(v) : NodesOf(q)[1] <= j
      BY <1>2, <3>1, ListsRest
    <3>3. w = q[1].node - 1
      BY <2>2 DEF WalkedOf
    <3>4. q[1].node \in Frontier(v) /\ \A j \in Frontier(v) : q[1].node <= j
      BY <3>1, <3>2
    <3> HIDE DEF w, N
    <3>5. q[1].node \in Nat /\ v < q[1].node /\ q[1].node <= N
      BY <1>2, <3>4
    <3> QED BY <1>1, <1>2, <3>3, <3>4, <3>5
  <2> QED BY <2>1, <2>2
<1> HIDE DEF w
<1>4. (\A j \in Shown : j <= v \/ w < j) /\ Frontier(w) = Frontier(v)
  BY <1>3, FrontierMoves
<1>5. DeclaredTo(w) = DeclaredTo(v)
  <2>1. ASSUME NEW j PROVE j \in 1..w /\ j \in Shown <=> j \in 1..v /\ j \in Shown
    BY <1>1, <1>3, <1>4
  <2> QED BY <2>1 DEF DeclaredTo
<1> QED BY <1>4, <1>5 DEF w

\* The node that is visited is the first on the frontier.
LEMMA TopIs ==
    ASSUME WalkInv, pending # <<>>
    PROVE  /\ Visited \in 1..Len(tree) /\ Visited \in Frontier(Visited - 1)
           /\ WalkedOf(pending) = Visited - 1
           /\ Top \in Frame /\ Top.scopes = Path(Visited)
           /\ InClass(Visited) => Top.class_depth > 0
           /\ FramesOk(Tail(pending))
           /\ Lists(NodesOf(Tail(pending)), Frontier(Visited - 1) \ {Visited})
<1>1. /\ tree \in Trees /\ pending \in Seq(Frame)
      /\ \A k \in DOMAIN pending :
            /\ pending[k].scopes = Path(pending[k].node)
            /\ InClass(pending[k].node) => pending[k].class_depth > 0
      /\ Lists(NodesOf(pending), Frontier(WalkedOf(pending)))
  BY DEF WalkInv, PendingInv, FramesOk
<1>2. /\ Len(pending) \in Nat /\ Len(pending) # 0 /\ DOMAIN pending = 1..Len(pending)
      /\ Top = pending[1] /\ 1 \in DOMAIN pending /\ Top \in Frame
  BY <1>1 DEF Top
<1>3. WalkedOf(pending) = Visited - 1
  BY DEF WalkedOf, Visited, Top
<1>4. NodesOf(pending) # <<>> /\ NodesOf(pending)[1] = Visited
  BY <1>1, <1>2 DEF NodesOf, Visited
<1>5. Frontier(Visited - 1) \in SUBSET Nat
  BY Typed, <1>1 DEF Frontier
<1>6. /\ Visited \in Frontier(Visited - 1)
      /\ Lists(Tail(NodesOf(pending)), Frontier(Visited - 1) \ {Visited})
  BY <1>1, <1>3, <1>4, <1>5, ListsRest
<1>7. /\ Tail(pending) \in Seq(Frame)
      /\ \A k \in DOMAIN Tail(pending) : k + 1 \in DOMAIN pending /\ Tail(pending)[k] = pending[k + 1]
      /\ Tail(NodesOf(pending)) = NodesOf(Tail(pending))
  <2> HIDE DEF Frame
  <2>1. /\ Tail(pending) \in Seq(Frame)
        /\ DOMAIN Tail(pending) = 1..(Len(pending) - 1)
        /\ \A k \in 1..(Len(pending) - 1) : Tail(pending)[k] = pending[k + 1]
    BY <1>1, <1>2
  <2>2. \A k \in 1..(Len(pending) - 1) : k + 1 \in 1..Len(pending)
    BY <1>2
  <2>3. Tail(NodesOf(pending)) = NodesOf(Tail(pending))
    <3>1. /\ NodesOf(pending) = [k \in 1..Len(pending) |-> pending[k].node]
          /\ Len(NodesOf(pending)) = Len(pending)
      BY <1>2 DEF NodesOf
    <3>2. Tail(NodesOf(pending)) = [k \in 1..(Len(pending) - 1) |-> pending[k + 1].node]
      BY <1>2, <2>2, <3>1
    <3>3. NodesOf(Tail(pending)) = [k \in 1..(Len(pending) - 1) |-> pending[k + 1].node]
      BY <2>1 DEF NodesOf
    <3> QED BY <3>2, <3>3
  <2> QED BY <1>2, <2>1, <2>2, <2>3
<1>8. FramesOk(Tail(pending))
  <2>1. ASSUME NEW k \in DOMAIN Tail(pending)
        PROVE  /\ Tail(pending)[k].scopes = Path(Tail(pending)[k].node)
               /\ InClass(Tail(pending)[k].node) => Tail(pending)[k].class_depth > 0
    BY <1>1, <1>7
  <2> QED BY <1>7, <2>1 DEF FramesOk
<1>9. Visited \in 1..Len(tree)
  BY <1>6 DEF Frontier
<1> QED BY <1>1, <1>2, <1>3, <1>6, <1>7, <1>8, <1>9 DEF Visited

LEMMA ShownTop ==
    ASSUME WalkInv, pending # <<>>, tree[Visited].type # "error"
    PROVE  Visited \in Shown
<1>1. Visited \in 1..Len(tree) /\ tree[Visited].up \in Shown
  BY TopIs DEF Frontier
<1> QED BY <1>1, ShownIs DEF WalkInv

\* The symbols are in order once the one of the visited node is added.
LEMMA DeclaredMore ==
    ASSUME WalkInv, pending # <<>>
    PROVE  DeclaredTo(Visited) = DeclaredTo(Visited - 1)
              \cup IF Visited \in Shown /\ Declares(Visited) THEN {Visited} ELSE {}
<1>1. Visited \in 1..Len(tree) /\ Len(tree) \in Nat
  BY TopIs, Typed DEF WalkInv
<1>2. \A j : j \in 1..Visited <=> j \in 1..(Visited - 1) \/ j = Visited
  BY <1>1
<1> QED BY <1>2 DEF DeclaredTo

LEMMA NodesTyped ==
    ASSUME NEW c \in Seq(Frame)
    PROVE  /\ NodesOf(c) \in Seq(Nat) /\ Len(NodesOf(c)) = Len(c)
           /\ \A k \in 1..Len(c) : NodesOf(c)[k] = c[k].node
<1>1. Len(c) \in Nat /\ DOMAIN c = 1..Len(c) /\ \A k \in 1..Len(c) : c[k] \in Frame
  <2> HIDE DEF Frame
  <2> QED OBVIOUS
<1>2. \A k \in 1..Len(c) : c[k].node \in Nat
  BY <1>1 DEF Frame
<1>3. NodesOf(c) = [k \in 1..Len(c) |-> c[k].node]
  BY <1>1 DEF NodesOf
<1> QED BY <1>1, <1>2, <1>3

LEMMA NodesJoin ==
    ASSUME NEW c \in Seq(Frame), NEW d \in Seq(Frame)
    PROVE  NodesOf(c \o d) = NodesOf(c) \o NodesOf(d)
<1> HIDE DEF Frame
<1>1. /\ Len(c) \in Nat /\ Len(d) \in Nat /\ c \o d \in Seq(Frame)
      /\ Len(c \o d) = Len(c) + Len(d)
      /\ \A k \in 1..(Len(c) + Len(d)) :
            (c \o d)[k] = IF k <= Len(c) THEN c[k] ELSE d[k - Len(c)]
  OBVIOUS
<1>2. /\ NodesOf(c) \in Seq(Nat) /\ Len(NodesOf(c)) = Len(c)
      /\ \A k \in 1..Len(c) : NodesOf(c)[k] = c[k].node
  BY NodesTyped
<1>3. /\ NodesOf(d) \in Seq(Nat) /\ Len(NodesOf(d)) = Len(d)
      /\ \A k \in 1..Len(d) : NodesOf(d)[k] = d[k].node
  BY NodesTyped
<1>4. /\ NodesOf(c \o d) \in Seq(Nat) /\ Len(NodesOf(c \o d)) = Len(c) + Len(d)
      /\ \A k \in 1..(Len(c) + Len(d)) : NodesOf(c \o d)[k] = (c \o d)[k].node
  BY <1>1, NodesTyped
<1>5. /\ NodesOf(c) \o NodesOf(d) \in Seq(Nat)
      /\ Len(NodesOf(c) \o NodesOf(d)) = Len(c) + Len(d)
      /\ \A k \in 1..(Len(c) + Len(d)) :
            (NodesOf(c) \o NodesOf(d))[k]
               = IF k <= Len(c) THEN NodesOf(c)[k] ELSE NodesOf(d)[k - Len(c)]
  <2>1. /\ NodesOf(c) \o NodesOf(d) \in Seq(Nat)
        /\ Len(NodesOf(c) \o NodesOf(d)) = Len(NodesOf(c)) + Len(NodesOf(d))
        /\ \A k \in 1..(Len(NodesOf(c)) + Len(NodesOf(d))) :
              (NodesOf(c) \o NodesOf(d))[k]
                 = IF k <= Len(NodesOf(c)) THEN NodesOf(c)[k] ELSE NodesOf(d)[k - Len(NodesOf(c))]
    <3>1. NodesOf(c) \in Seq(Nat) /\ NodesOf(d) \in Seq(Nat)
      BY <1>2, <1>3
    <3> QED BY ONLY <3>1, ConcatProperties, Zenon
  <2> QED BY <1>2, <1>3, <2>1
<1>6. ASSUME NEW k \in 1..(Len(c) + Len(d))
      PROVE  NodesOf(c \o d)[k] = (NodesOf(c) \o NodesOf(d))[k]
  <2>1. CASE k <= Len(c)
    <3>1. k \in 1..Len(c)
      BY <1>1, <2>1
    <3> QED BY <1>1, <1>2, <1>4, <1>5, <2>1, <3>1
  <2>2. CASE ~ (k <= Len(c))
    <3>1. k - Len(c) \in 1..Len(d)
      BY <1>1, <2>2
    <3> QED BY <1>1, <1>3, <1>4, <1>5, <2>2, <3>1
  <2> QED BY <2>1, <2>2
<1> QED BY <1>4, <1>5, <1>6, SeqEqual

LEMMA Descends ==
    ASSUME WalkInv, pending # <<>>, tree[Visited].type # "error",
           NEW scopes, NEW depth \in Nat, scopes = Path(Visited) \o Opens(Visited),
           tree[Visited].type = "class" => depth > 0,
           Descending(scopes, depth), tree' = tree
    PROVE  PendingInv' /\ DeclaredTo(WalkedOf(pending')) = DeclaredTo(Visited)
<1> DEFINE v == Visited
           N == Len(tree)
           C == {j \in 1..N : tree[j].up = v}
           first == Visits(Children(v), scopes, depth)
           rest == Tail(pending)
           q == first \o rest
<1>1. tree \in Trees /\ N \in Nat /\ v \in 1..N /\ v \in Frontier(v - 1) /\ v \in Nat
  BY TopIs, Typed DEF WalkInv
<1>2. pending' = q
  BY DEF Descending
<1>3. FramesOk(rest) /\ Lists(NodesOf(rest), Frontier(v - 1) \ {v})
  BY TopIs
<1>4. Lists(Children(v), C)
  BY <1>1, ChildrenAre DEF Children
<1>5. Children(v) \in Seq(C) /\ \A k \in DOMAIN Children(v) : Children(v)[k] \in C
  <2>1. Children(v) \in Seq(C)
    BY <1>4 DEF Lists
  <2> HIDE DEF C
  <2> QED BY <2>1
<1>6. scopes \in Name
  <2>1. Path(v) \in Name
    BY <1>1, PathIs
  <2>2. Opens(v) \in Name
    BY <1>1, SymbolNameIs DEF Opens, Name
  <2> QED BY <2>1, <2>2 DEF Name
<1> HIDE DEF v, q, rest
<1>7. ASSUME NEW k \in DOMAIN first
      PROVE  /\ first[k] \in Frame /\ first[k].scopes = Path(first[k].node)
             /\ InClass(first[k].node) => first[k].class_depth > 0
  <2>1. /\ first[k] = [node |-> Children(v)[k], scopes |-> scopes, class_depth |-> depth]
        /\ Children(v)[k] \in C
    BY <1>5 DEF Visits
  <2>2. Children(v)[k] \in 1..N /\ tree[Children(v)[k]].up = v
    BY <2>1
  <2>3. v # 0 /\ Path(Children(v)[k]) = scopes
    <3> DEFINE j == Children(v)[k]
    <3>1. j \in 1..N /\ tree[j].up = Visited /\ Visited # 0
      BY <1>1, <2>2 DEF v
    <3> HIDE DEF j
    <3>2. Path(j) = IF tree[j].up = 0 THEN <<>> ELSE Path(tree[j].up) \o Opens(tree[j].up)
      BY <1>1, <3>1, PathIs
    <3>3. Path(j) = scopes
      BY <3>1, <3>2
    <3> QED BY <3>1, <3>3 DEF v, j
  <2>4. InClass(Children(v)[k]) => depth > 0
    BY <2>2 DEF InClass, v
  <2>5. Children(v)[k] \in Nat
    BY <1>1, <2>2
  <2> HIDE DEF first
  <2> QED BY <1>6, <2>1, <2>3, <2>4, <2>5 DEF Frame
<1>8. first \in Seq(Frame) /\ NodesOf(first) = Children(v)
  <2>1. Len(Children(v)) \in Nat /\ DOMAIN Children(v) = 1..Len(Children(v))
    BY <1>5
  <2>2. DOMAIN first = 1..Len(Children(v)) /\ first = [k \in 1..Len(Children(v)) |-> first[k]]
    BY <2>1 DEF Visits
  <2>3. NodesOf(first) = Children(v)
    <3>1. \A k \in DOMAIN Children(v) : first[k].node = Children(v)[k]
      BY DEF Visits
    <3>2. Children(v) = [k \in DOMAIN Children(v) |-> Children(v)[k]]
      BY <1>5
    <3>3. DOMAIN first = DOMAIN Children(v)
      BY DEF Visits
    <3> HIDE DEF first
    <3> QED BY <3>1, <3>2, <3>3 DEF NodesOf
  <2> HIDE DEF first
  <2> QED BY <1>7, <2>1, <2>2, <2>3
<1> HIDE DEF first
<1> DEFINE Fine(f) == f.scopes = Path(f.node) /\ (InClass(f.node) => f.class_depth > 0)
<1>9. rest \in Seq(Frame) /\ \A k \in DOMAIN rest : Fine(rest[k])
  <2>1. rest \in Seq(Frame)
    BY <1>3 DEF FramesOk
  <2>2. \A k \in DOMAIN rest : Fine(rest[k])
    BY <1>3, Zenon DEF FramesOk
  <2> QED BY <2>1, <2>2
<1> HIDE DEF Fine
<1>10. /\ q \in Seq(Frame) /\ DOMAIN q = 1..(Len(first) + Len(rest))
       /\ Len(first) \in Nat /\ Len(rest) \in Nat
       /\ \A k \in 1..(Len(first) + Len(rest)) :
             q[k] = IF k <= Len(first) THEN first[k] ELSE rest[k - Len(first)]
  <2> HIDE DEF Frame
  <2> QED BY <1>8, <1>9 DEF q
<1>11. FramesOk(q)
  <2>1. ASSUME NEW k \in DOMAIN q
        PROVE  q[k].scopes = Path(q[k].node) /\ (InClass(q[k].node) => q[k].class_depth > 0)
    <3>1. CASE k <= Len(first)
      <4>1. k \in DOMAIN first /\ q[k] = first[k]
        BY <1>8, <1>10, <2>1, <3>1
      <4> QED BY <1>7, <4>1
    <3>2. CASE ~ (k <= Len(first))
      <4>1. k - Len(first) \in DOMAIN rest /\ q[k] = rest[k - Len(first)]
        BY <1>9, <1>10, <2>1, <3>2
      <4> DEFINE r == rest[k - Len(first)]
      <4>2. Fine(r)
        BY <1>9, <4>1
      <4>3. r.scopes = Path(r.node) /\ (InClass(r.node) => r.class_depth > 0)
        BY <4>2 DEF Fine
      <4> QED BY ONLY <4>1, <4>3
    <3> QED BY <3>1, <3>2
  <2> QED BY <1>10, <2>1 DEF FramesOk
<1>12. NodesOf(q) = Children(v) \o NodesOf(rest)
  BY <1>8, <1>9, NodesJoin DEF q
<1>13. Lists(NodesOf(q), Frontier(v))
  <2>1. C \in SUBSET Nat /\ Frontier(v - 1) \ {v} \in SUBSET Nat
    BY <1>1 DEF Frontier
  <2>2. \A x \in C, y \in Frontier(v - 1) \ {v} : x < y
    BY <1>1, ChildrenFirst
  <2>3. Lists(Children(v) \o NodesOf(rest), C \cup (Frontier(v - 1) \ {v}))
    <3> HIDE DEF C
    <3> QED BY <1>3, <1>4, <2>1, <2>2, ListsJoin DEF v, rest
  <2>4. Frontier(v) = C \cup (Frontier(v - 1) \ {v})
    BY <1>1, FrontierSteps DEF v
  <2> QED BY <1>12, <2>3, <2>4
<1>14. Lists(NodesOf(q), Frontier(WalkedOf(q))) /\ DeclaredTo(WalkedOf(q)) = DeclaredTo(v)
  <2>1. v \in 0..N
    BY <1>1
  <2> QED BY <1>1, <1>10, <1>13, <2>1, Settles
<1>15. FramesOk(pending') /\ Lists(NodesOf(pending'), Frontier(WalkedOf(pending')))
  BY <1>2, <1>11, <1>14
<1>16. PendingInv'
  BY <1>15, SamePending
<1> QED BY <1>2, <1>14, <1>16 DEF v

LEMMA Drops ==
    ASSUME WalkInv, pending # <<>>, tree[Visited].type = "error",
           pending' = Tail(pending), tree' = tree
    PROVE  PendingInv' /\ DeclaredTo(WalkedOf(pending')) = DeclaredTo(Visited)
<1> DEFINE v == Visited
           q == Tail(pending)
<1>1. /\ tree \in Trees /\ Len(tree) \in Nat /\ v \in 1..Len(tree) /\ v \in Frontier(v - 1)
      /\ v \in Nat /\ v \in 0..Len(tree) /\ FramesOk(q) /\ Lists(NodesOf(q), Frontier(v - 1) \ {v})
  BY TopIs, Typed DEF WalkInv
<1>2. Frontier(v) = Frontier(v - 1) \ {v}
  BY <1>1, FrontierSteps
<1>3. q \in Seq(Frame)
  BY <1>1 DEF FramesOk
<1> HIDE DEF v, q
<1>4. Lists(NodesOf(q), Frontier(WalkedOf(q))) /\ DeclaredTo(WalkedOf(q)) = DeclaredTo(v)
  BY <1>1, <1>2, <1>3, Settles
<1>5. PendingInv'
  BY <1>1, <1>4, SamePending DEF q
<1> QED BY <1>4, <1>5 DEF v, q

-----------------------------------------------------------------------------
(* What is emitted.                                                        *)

LEMMA QualifyTyped ==
    ASSUME NEW scopes \in Name, NEW leaf \in Name
    PROVE  QualifyName(scopes, leaf) \in Name
<1>1. scopes \o leaf \in Seq(Words) /\ <<Anonymous>> \in Seq(Words)
  BY WordsAreNamed DEF Name
<1> QED BY <1>1 DEF QualifyName, Name

LEMMA IncludesTyped ==
    ASSUME tree \in Trees
    PROVE  Includes \subseteq Name
<1>1. ASSUME NEW j \in Within(0) \ {0} PROVE tree[j].name \in Name
  <2>1. j \in 1..Len(tree)
    BY Typed DEF Within
  <2> QED BY <2>1, Typed
<1> QED BY <1>1 DEF Includes

LEMMA CallTargetsTyped ==
    ASSUME tree \in Trees, NEW i
    PROVE  CallTargets(i) \subseteq Name
<1>1. ASSUME NEW b \in Body(i), NEW j \in Within(b) PROVE tree[j].name \in Name
  <2>1. b \in 1..Len(tree)
    BY Typed DEF Body
  <2>2. j \in 1..Len(tree)
    BY <2>1, Typed DEF Within
  <2> QED BY <2>2, Typed
<1> QED BY <1>1 DEF CallTargets

LEMMA BaseClassesTyped ==
    ASSUME tree \in Trees, NEW i \in 1..Len(tree), NEW scopes \in Name
    PROVE  BaseClasses(i, scopes) \subseteq Name
<1>1. ASSUME NEW b \in DOMAIN tree[i].bases
      PROVE  QualifyDependency(scopes, BaseText(tree[i].bases[b])) \in Name
  <2> DEFINE text == BaseText(tree[i].bases[b])
  <2>1. tree[i].bases \in Seq(Base)
    BY Typed
  <2>2. tree[i].bases[b] \in Base
    <3> HIDE DEF Base
    <3> QED BY <2>1
  <2>3. text \in Name
    BY <2>2, FollowedTyped DEF BaseText, Base
  <2> HIDE DEF text
  <2>4. scopes \o text \in Name
    BY <2>3 DEF Name
  <2>5. QualifyDependency(scopes, text) \in Name
    BY <2>3, <2>4 DEF QualifyDependency
  <2> QED BY <2>5 DEF text
<1> QED BY <1>1 DEF BaseClasses

\* What was said of a symbol stays so when another one is added.
LEMMA ReadStill ==
    ASSUME NEW ss \in Seq(Symbol), NEW sym \in Symbol, NEW s \in 1..Len(ss), ReadRight(ss, s)
    PROVE  ReadRight(Append(ss, sym), s)
<1> DEFINE tt == Append(ss, sym)
<1> HIDE DEF Symbol
<1>1. /\ Len(ss) \in Nat /\ DOMAIN ss = 1..Len(ss) /\ DOMAIN tt = 1..(Len(ss) + 1)
      /\ \A r \in 1..Len(ss) : tt[r] = ss[r]
  OBVIOUS
<1> HIDE DEF tt
<1>2. tt[s] = ss[s]
  BY <1>1
<1>3. ASSUME NEW name
      PROVE  (\E r \in DOMAIN tt : r < s /\ tt[r].kind = "class" /\ tt[r].name = name)
                <=> (\E r \in DOMAIN ss : r < s /\ ss[r].kind = "class" /\ ss[r].name = name)
  <2>1. \A r \in DOMAIN tt : r < s => r \in DOMAIN ss /\ tt[r] = ss[r]
    BY <1>1
  <2>2. \A r \in DOMAIN ss : r \in DOMAIN tt /\ tt[r] = ss[r]
    BY <1>1
  <2> QED BY <2>1, <2>2
<1>4. ReadRight(tt, s)
  BY <1>2, <1>3 DEF ReadRight
<1> QED BY <1>4 DEF tt

LEMMA ClassNamesAre ==
    ASSUME NEW ss, NEW name
    PROVE  name \in ClassNames(ss)
              <=> \E s \in DOMAIN ss : ss[s].kind = "class" /\ ss[s].name = name
BY DEF ClassNames

LEMMA Adds ==
    ASSUME WalkInv, pending # <<>>, tree[Visited].type # "error", Declares(Visited),
           NEW sym \in Symbol, sym.line = Visited,
           ReadRight(Append(symbols, sym), Len(symbols) + 1),
           symbols' = Append(symbols, sym),
           known' = IF sym.kind = "class" THEN known \cup {sym.name} ELSE known,
           tree' = tree, DeclaredTo(WalkedOf(pending')) = DeclaredTo(Visited)
    PROVE  SymbolsInv'
<1> DEFINE tt == Append(symbols, sym)
           v == Visited
           n == Len(symbols)
<1>1. /\ symbols \in Seq(Symbol) /\ Lists(LinesOf(symbols), DeclaredTo(v - 1))
      /\ \A s \in DOMAIN symbols : ReadRight(symbols, s)
      /\ known = ClassNames(symbols)
  BY TopIs DEF WalkInv, SymbolsInv, SymbolsOk
<1>2. v \in Nat /\ v - 1 \in Nat /\ (v - 1) + 1 = v
  BY TopIs, Typed DEF WalkInv
<1>3. DeclaredTo(v) = DeclaredTo(v - 1) \cup {(v - 1) + 1}
  BY <1>2, ShownTop, DeclaredMore
<1> HIDE DEF v
<1> HIDE DEF Symbol
<1>4. /\ n \in Nat /\ DOMAIN symbols = 1..n /\ tt \in Seq(Symbol) /\ DOMAIN tt = 1..(n + 1)
      /\ \A r \in 1..n : tt[r] = symbols[r]
      /\ tt[n + 1] = sym
  BY <1>1
<1> HIDE DEF tt
<1>5. LinesOf(tt) = Append(LinesOf(symbols), v)
  <2>1. LinesOf(symbols) = [s \in 1..n |-> symbols[s].line] /\ LinesOf(tt) = [s \in 1..(n + 1) |-> tt[s].line]
    BY <1>4 DEF LinesOf
  <2>2. Append(LinesOf(symbols), v) = [s \in 1..(n + 1) |-> IF s = n + 1 THEN v ELSE symbols[s].line]
    <3>1. Len(LinesOf(symbols)) = n
      BY <1>4, <2>1
    <3>2. Append(LinesOf(symbols), v)
            = [s \in 1..(n + 1) |-> IF s = n + 1 THEN v ELSE LinesOf(symbols)[s]]
      BY <1>4, <2>1, <3>1
    <3>3. \A s \in 1..(n + 1) : s # n + 1 => LinesOf(symbols)[s] = symbols[s].line
      BY <1>4, <2>1
    <3> QED BY <3>2, <3>3
  <2>3. \A s \in 1..(n + 1) : tt[s].line = IF s = n + 1 THEN v ELSE symbols[s].line
    BY <1>4 DEF v
  <2> QED BY <2>1, <2>2, <2>3
<1>6. Lists(LinesOf(tt), DeclaredTo(v))
  <2>1. DeclaredTo(v - 1) \in SUBSET (1..(v - 1))
    BY DEF DeclaredTo
  <2>2. Lists(Append(LinesOf(symbols), (v - 1) + 1), DeclaredTo(v - 1) \cup {(v - 1) + 1})
    BY <1>1, <1>2, <2>1, ListsMore
  <2> QED BY <1>2, <1>3, <1>5, <2>2
<1>7. ASSUME NEW s \in DOMAIN tt PROVE ReadRight(tt, s)
  <2>1. CASE s = n + 1
    BY <2>1 DEF tt
  <2>2. CASE s # n + 1
    <3>1. s \in 1..n /\ ReadRight(symbols, s)
      BY <1>1, <1>4, <1>7, <2>2
    <3> QED BY <1>1, <3>1, ReadStill DEF tt
  <2> QED BY <2>1, <2>2
<1>8. ClassNames(tt) = IF sym.kind = "class" THEN known \cup {sym.name} ELSE known
  <2>1. ASSUME NEW name
        PROVE  (\E s \in DOMAIN tt : tt[s].kind = "class" /\ tt[s].name = name)
                  <=> \/ \E s \in DOMAIN symbols : symbols[s].kind = "class" /\ symbols[s].name = name
                      \/ sym.kind = "class" /\ sym.name = name
    <3>1. \A s \in DOMAIN tt : (s \in DOMAIN symbols /\ tt[s] = symbols[s]) \/ tt[s] = sym
      BY <1>4
    <3>2. \A s \in DOMAIN symbols : s \in DOMAIN tt /\ tt[s] = symbols[s]
      BY <1>4
    <3>3. n + 1 \in DOMAIN tt /\ tt[n + 1] = sym
      BY <1>4
    <3> QED BY <3>1, <3>2, <3>3
  <2>2. ASSUME NEW name
        PROVE  name \in ClassNames(tt)
                  <=> name \in IF sym.kind = "class" THEN known \cup {sym.name} ELSE known
    <3>1. name \in known <=> name \in ClassNames(symbols)
      BY <1>1
    <3>2. name \in ClassNames(tt) <=> name \in known \/ (sym.kind = "class" /\ sym.name = name)
      BY <2>1, <3>1, ClassNamesAre
    <3> QED BY <3>2
  <2> QED BY <2>2
<1>9. SymbolsOk(tt, v)
  BY <1>4, <1>6, <1>7 DEF SymbolsOk
<1>10. SymbolsOk(tt, WalkedOf(pending'))
  BY <1>9 DEF SymbolsOk, v
<1> QED BY <1>8, <1>10, SameSymbols DEF tt

LEMMA AddsNothing ==
    ASSUME WalkInv, pending # <<>>, tree[Visited].type = "error" \/ ~ Declares(Visited),
           symbols' = symbols, known' = known, tree' = tree,
           DeclaredTo(WalkedOf(pending')) = DeclaredTo(Visited)
    PROVE  SymbolsInv'
<1>1. DeclaredTo(Visited) = DeclaredTo(Visited - 1)
  <2>1. Visited \notin Shown \/ ~ Declares(Visited)
    <3>1. Visited \in 1..Len(tree)
      BY TopIs
    <3> QED BY <3>1, ShownIs DEF WalkInv
  <2> QED BY <2>1, DeclaredMore
<1>2. SymbolsOk(symbols, Visited - 1) /\ known = ClassNames(symbols)
  BY TopIs DEF WalkInv, SymbolsInv
<1>3. SymbolsOk(symbols', WalkedOf(pending'))
  BY <1>1, <1>2 DEF SymbolsOk
<1> QED BY <1>2, <1>3, SameSymbols

LEMMA Emits ==
    ASSUME WalkInv, pending # <<>>, tree[Visited].type # "error", Declares(Visited),
           NEW kind \in Kinds, NEW leaf \in Name, NEW targets \in SUBSET Name,
           NEW bases \in SUBSET Name, NEW depth \in Nat,
           Emit(kind, leaf, targets, bases),
           Descending(Path(Visited) \o Opens(Visited), depth),
           tree[Visited].type = "class" =>
              /\ kind = "class" /\ leaf = SymbolName(Visited) /\ depth > 0
              /\ bases = BaseClasses(Visited, Path(Visited)),
           tree[Visited].type \in {"function", "pointer"} =>
              leaf = FunctionLikeName(tree[Visited]),
           tree[Visited].type = "function" =>
              leaf = tree[Visited].name /\ (MethodLike(Visited) => kind = "method")
    PROVE  WalkInv'
<1> DEFINE v == Visited
           name == QualifyName(Path(v), leaf)
           sym == [kind |-> kind, name |-> name, line |-> v, calls |-> targets,
                   bases |-> bases, includes |-> Includes]
           tt == Append(symbols, sym)
           n == Len(symbols)
<1>1. /\ tree \in Trees /\ v \in 1..Len(tree) /\ v \in Nat /\ Path(v) \in Name
      /\ Top.scopes = Path(v) /\ (InClass(v) => Top.class_depth > 0)
  BY TopIs, PathIs, Typed DEF WalkInv
<1>2. /\ symbols' = tt /\ tree' = tree
      /\ known' = IF sym.kind = "class" THEN known \cup {sym.name} ELSE known
  BY <1>1 DEF Emit
<1>3. sym \in Symbol /\ sym.line = v
  <2>1. name \in Name
    BY <1>1, QualifyTyped
  <2>2. Includes \subseteq Name
    BY <1>1, IncludesTyped
  <2> HIDE DEF name, v
  <2> QED BY <1>1, <2>1, <2>2 DEF Symbol
<1>4. symbols \in Seq(Symbol) /\ known = ClassNames(symbols)
  BY DEF WalkInv, SymbolsInv, SymbolsOk
<1>5. ReadRight(tt, n + 1)
  <2> HIDE DEF sym
  <2>1. /\ n \in Nat /\ DOMAIN symbols = 1..n /\ DOMAIN tt = 1..(n + 1)
        /\ \A r \in 1..n : tt[r] = symbols[r]
        /\ tt[n + 1] = sym
    <3> HIDE DEF Symbol
    <3> QED BY <1>3, <1>4
  <2> HIDE DEF tt
  <2>2. /\ tt[n + 1].line = v /\ tt[n + 1].name = name
        /\ tt[n + 1].kind = kind /\ tt[n + 1].bases = bases
    BY <2>1 DEF sym
  <2> HIDE DEF n
  <2>3. ASSUME tree[v].type = "function", ~ HasAncestor(v, "friend"),
               \/ InClass(v)
               \/ /\ Len(tree[v].name) > 1
                  /\ \E r \in DOMAIN tt :
                        /\ r < n + 1 /\ tt[r].kind = "class"
                        /\ tt[r].name = QualifyName(Path(v), Qualifier(tree[v].name))
        PROVE  kind = "method"
    <3>1. FunctionLikeName(tree[v]) = tree[v].name
      BY <2>3 DEF FunctionLikeName
    <3>2. CASE InClass(v)
      BY <1>1, <2>3, <3>2 DEF MethodLike
    <3>3. CASE ~ InClass(v)
      <4>1. PICK r \in DOMAIN tt : /\ r < n + 1 /\ tt[r].kind = "class"
                                   /\ tt[r].name = QualifyName(Path(v), Qualifier(tree[v].name))
        BY <2>3, <3>3
      <4>2. r \in DOMAIN symbols /\ tt[r] = symbols[r]
        BY <2>1, <4>1
      <4>3. QualifyName(Path(v), Qualifier(tree[v].name)) \in known
        BY <1>4, <4>1, <4>2, ClassNamesAre
      <4> QED BY <1>1, <2>3, <3>1, <3>3, <4>3 DEF MethodLike
    <3> QED BY <3>2, <3>3
  <2>4. tree[v].type = "class" =>
           kind = "class" /\ name = QualifyName(Path(v), SymbolName(v)) /\ bases = BaseClasses(v, Path(v))
    OBVIOUS
  <2>5. tree[v].type = "function" => name = QualifyName(Path(v), tree[v].name)
    OBVIOUS
  <2>6. tree[v].type \in {"function", "pointer"} => name = QualifyName(Path(v), FunctionLikeName(tree[v]))
    OBVIOUS
  <2> HIDE DEF v, name
  <2> QED BY <2>2, <2>3, <2>4, <2>5, <2>6 DEF ReadRight
<1> HIDE DEF sym
<1>6. PendingInv' /\ DeclaredTo(WalkedOf(pending')) = DeclaredTo(Visited)
  <2>1. tree[Visited].type = "class" => depth > 0
    OBVIOUS
  <2> QED BY <1>2, <2>1, Descends
<1>7. SymbolsInv'
  BY <1>2, <1>3, <1>5, <1>6, Adds
<1> QED BY <1>1, <1>2, <1>6, <1>7 DEF WalkInv

\* The scopes to descend with when the visited node opens none.
LEMMA OpensNone ==
    ASSUME WalkInv, pending # <<>>, tree[Visited].type \notin {"namespace", "class"}
    PROVE  Path(Visited) \o Opens(Visited) = Path(Visited)
<1>1. Path(Visited) \in Seq(Words)
  BY TopIs, PathIs DEF WalkInv, Name
<1> QED BY <1>1 DEF Opens, IsScope

LEMMA TopTyped ==
    ASSUME WalkInv, pending # <<>>
    PROVE  /\ tree \in Trees /\ Visited \in 1..Len(tree)
           /\ Top.scopes = Path(Visited) /\ Path(Visited) \in Name /\ Top.class_depth \in Nat
           /\ SymbolName(Visited) \in Name /\ tree[Visited].name \in Name
           /\ tree[Visited].parameters \in Name
           /\ tree[Visited].type \in NodeTypes
<1>1. tree \in Trees /\ Visited \in 1..Len(tree) /\ Top \in Frame /\ Top.scopes = Path(Visited)
  BY TopIs DEF WalkInv
<1>2. Path(Visited) \in Name /\ SymbolName(Visited) \in Name
  BY <1>1, PathIs, SymbolNameIs
<1>3. Top.class_depth \in Nat
  BY <1>1 DEF Frame
<1> QED BY <1>1, <1>2, <1>3, Typed

LEMMA WalkEmitNamespace ==
    ASSUME WalkInv, EmitNamespace
    PROVE  WalkInv'
<1>1. pending # <<>> /\ tree[Visited].type = "namespace"
  BY DEF EmitNamespace, Visiting
<1>2. /\ Declares(Visited) /\ {} \in SUBSET Name /\ "namespace" \in Kinds
      /\ Opens(Visited) = SymbolName(Visited)
  BY <1>1 DEF Declares, Kinds, Opens, IsScope
<1>3. /\ Emit("namespace", SymbolName(Visited), {}, {})
      /\ Descending(Path(Visited) \o Opens(Visited), Top.class_depth)
  BY <1>1, <1>2, TopTyped DEF EmitNamespace
<1> QED BY <1>1, <1>2, <1>3, TopTyped, Emits

LEMMA WalkEmitClass ==
    ASSUME WalkInv, EmitClass
    PROVE  WalkInv'
<1>1. pending # <<>> /\ tree[Visited].type = "class"
  BY DEF EmitClass, Visiting
<1>2. /\ Declares(Visited) /\ {} \in SUBSET Name /\ "class" \in Kinds
      /\ Opens(Visited) = SymbolName(Visited)
  BY <1>1 DEF Declares, Kinds, Opens, IsScope
<1>3. BaseClasses(Visited, Path(Visited)) \in SUBSET Name
  BY <1>1, TopTyped, BaseClassesTyped
<1>4. Top.class_depth + 1 \in Nat /\ Top.class_depth + 1 > 0
  BY <1>1, TopTyped
<1>5. /\ Emit("class", SymbolName(Visited), {}, BaseClasses(Visited, Path(Visited)))
      /\ Descending(Path(Visited) \o Opens(Visited), Top.class_depth + 1)
  BY <1>1, <1>2, TopTyped DEF EmitClass
<1> QED BY <1>1, <1>2, <1>3, <1>4, <1>5, TopTyped, Emits

LEMMA WalkEmitEnum ==
    ASSUME WalkInv, EmitEnum
    PROVE  WalkInv'
<1>1. pending # <<>> /\ tree[Visited].type = "enum"
  BY DEF EmitEnum, Visiting
<1>2. Declares(Visited) /\ {} \in SUBSET Name /\ "enum" \in Kinds
  BY <1>1 DEF Declares, Kinds
<1>3. /\ Emit("enum", SymbolName(Visited), {}, {})
      /\ Descending(Path(Visited) \o Opens(Visited), Top.class_depth)
  BY <1>1, OpensNone, TopTyped DEF EmitEnum
<1> QED BY <1>1, <1>2, <1>3, TopTyped, Emits

LEMMA WalkEmitTemplate ==
    ASSUME WalkInv, EmitTemplate
    PROVE  WalkInv'
<1>1. pending # <<>> /\ tree[Visited].type = "template"
  BY DEF EmitTemplate, Visiting
<1>2. Declares(Visited) /\ {} \in SUBSET Name /\ "template" \in Kinds
  BY <1>1 DEF Declares, Kinds
<1>3. /\ Emit("template", SymbolName(Visited), {}, {})
      /\ Descending(Path(Visited) \o Opens(Visited), Top.class_depth)
  BY <1>1, OpensNone, TopTyped DEF EmitTemplate
<1> QED BY <1>1, <1>2, <1>3, TopTyped, Emits

LEMMA WalkEmitFunction ==
    ASSUME WalkInv, EmitFunction
    PROVE  WalkInv'
<1> DEFINE kind == IF MethodLike(Visited) THEN "method" ELSE "function"
           leaf == FunctionLikeName(tree[Visited])
<1>1. /\ pending # <<>> /\ tree[Visited].type \in {"function", "pointer"}
      /\ IsFunctionLike(Visited)
  BY DEF EmitFunction, IsFunctionLike
<1>2. Declares(Visited) /\ {} \in SUBSET Name /\ kind \in Kinds
  BY <1>1 DEF Declares, Kinds
<1>3. leaf \in Name /\ CallTargets(Visited) \in SUBSET Name
  BY <1>1, TopTyped, FunctionLikeNameTyped, CallTargetsTyped
<1>4. tree[Visited].type = "function" => leaf = tree[Visited].name /\ (MethodLike(Visited) => kind = "method")
  BY DEF FunctionLikeName
<1>5. tree[Visited].type \in {"function", "pointer"} => leaf = FunctionLikeName(tree[Visited])
  OBVIOUS
<1>6. /\ Emit(kind, leaf, CallTargets(Visited), {})
      /\ Descending(Path(Visited) \o Opens(Visited), Top.class_depth)
  BY <1>1, OpensNone, TopTyped DEF EmitFunction
<1> HIDE DEF kind, leaf
<1> QED BY <1>1, <1>2, <1>3, <1>4, <1>5, <1>6, TopTyped, Emits

LEMMA WalkDescend ==
    ASSUME WalkInv, Descend
    PROVE  WalkInv'
<1>1. /\ pending # <<>> /\ tree[Visited].type \notin {"namespace", "class", "error"}
      /\ ~ Declares(Visited)
      /\ tree' = tree /\ symbols' = symbols /\ known' = known
  BY DEF Descend, Declares, IsFunctionLike
<1>2. Descending(Path(Visited) \o Opens(Visited), Top.class_depth) /\ Top.class_depth \in Nat
  BY <1>1, OpensNone, TopTyped DEF Descend
<1>3. PendingInv' /\ DeclaredTo(WalkedOf(pending')) = DeclaredTo(Visited)
  BY <1>1, <1>2, Descends
<1>4. SymbolsInv'
  BY <1>1, <1>3, AddsNothing
<1> QED BY <1>1, <1>3, <1>4 DEF WalkInv

LEMMA WalkDropBroken ==
    ASSUME WalkInv, DropBroken
    PROVE  WalkInv'
<1>1. /\ pending # <<>> /\ tree[Visited].type = "error" /\ pending' = Tail(pending)
      /\ tree' = tree /\ symbols' = symbols /\ known' = known
  BY DEF DropBroken, Visiting
<1>2. PendingInv' /\ DeclaredTo(WalkedOf(pending')) = DeclaredTo(Visited)
  BY <1>1, Drops
<1>3. SymbolsInv'
  BY <1>1, <1>2, AddsNothing
<1> QED BY <1>1, <1>2, <1>3 DEF WalkInv

LEMMA WalkKeeps ==
    ASSUME WalkInv, Walk
    PROVE  WalkInv'
BY WalkEmitNamespace, WalkEmitClass, WalkEmitEnum, WalkEmitTemplate, WalkEmitFunction,
   WalkDescend, WalkDropBroken DEF Walk

\* The walk of a file before its first step.
AtStart == tree \in Trees /\ pending = Started(tree) /\ symbols = <<>> /\ known = {}

LEMMA StartKeeps == AtStart => WalkInv
<1> SUFFICES ASSUME AtStart PROVE WalkInv
  OBVIOUS
<1> DEFINE N == Len(tree)
           C == {j \in 1..N : tree[j].up = 0}
           c == ChildrenIn(tree, 0)
<1>1. tree \in Trees /\ pending = Visits(c, <<>>, 0) /\ symbols = <<>> /\ known = {}
  BY DEF AtStart, Started
<1>2. N \in Nat
  BY <1>1, Typed
<1>3. Lists(c, C)
  BY <1>1, ChildrenAre
<1>4. c \in Seq(C) /\ Len(c) \in Nat /\ DOMAIN c = 1..Len(c) /\ \A k \in DOMAIN c : c[k] \in C
  <2>1. c \in Seq(C)
    BY <1>3 DEF Lists
  <2> HIDE DEF C, c
  <2> QED BY <2>1
<1> HIDE DEF c
<1>5. ASSUME NEW k \in DOMAIN pending
      PROVE  /\ pending[k] = [node |-> c[k], scopes |-> <<>>, class_depth |-> 0]
             /\ k \in DOMAIN c /\ c[k] \in 1..N /\ tree[c[k]].up = 0
  BY <1>1, <1>4 DEF Visits
<1>6. pending \in Seq(Frame)
  <2>1. \A k \in DOMAIN pending : pending[k] \in Frame
    <3>1. <<>> \in Name
      BY DEF Name
    <3> QED BY <1>2, <1>5, <3>1 DEF Frame
  <2>2. DOMAIN pending = 1..Len(c) /\ pending = [k \in 1..Len(c) |-> pending[k]]
    BY <1>1, <1>4 DEF Visits
  <2> HIDE DEF Frame
  <2> QED BY <1>4, <2>1, <2>2
<1>7. FramesOk(pending)
  <2>1. ASSUME NEW k \in DOMAIN pending
        PROVE  pending[k].scopes = Path(pending[k].node) /\ ~ InClass(pending[k].node)
    <3> DEFINE j == c[k]
    <3>1. j \in 1..N /\ tree[j].up = 0 /\ pending[k].node = j /\ pending[k].scopes = <<>>
      BY <1>5
    <3> HIDE DEF j
    <3>2. Path(j) = IF tree[j].up = 0 THEN <<>> ELSE Path(tree[j].up) \o Opens(tree[j].up)
      BY <1>1, <3>1, PathIs
    <3>3. Path(j) = <<>> /\ ~ InClass(j)
      BY <3>1, <3>2 DEF InClass
    <3> QED BY <3>1, <3>3
  <2> QED BY <1>6, <2>1 DEF FramesOk
<1>8. NodesOf(pending) = c
  <2>1. \A k \in DOMAIN c : pending[k].node = c[k]
    BY <1>1 DEF Visits
  <2>2. DOMAIN pending = DOMAIN c /\ c = [k \in DOMAIN c |-> c[k]]
    BY <1>1, <1>4 DEF Visits
  <2> QED BY <2>1, <2>2 DEF NodesOf
<1>9. Frontier(0) = C
  <2>1. 0 \in Shown /\ \A j \in 1..N : 0 < j /\ (tree[j].up <= 0 <=> tree[j].up = 0)
    BY <1>1, <1>2, ShownIs, Typed
  <2> QED BY <2>1 DEF Frontier
<1>10. DeclaredTo(0) = {}
  BY DEF DeclaredTo
<1>11. /\ Lists(NodesOf(pending), Frontier(WalkedOf(pending)))
       /\ DeclaredTo(WalkedOf(pending)) = {}
  <2>1. Lists(NodesOf(pending), Frontier(0))
    <3> HIDE DEF C
    <3> QED BY <1>3, <1>8, <1>9
  <2>2. 0 \in 0..N
    BY <1>2
  <2> QED BY <1>1, <1>6, <1>10, <2>1, <2>2, Settles
<1>12. SymbolsInv
  <2>1. Lists(LinesOf(symbols), {}) /\ ClassNames(symbols) = {}
    BY <1>1 DEF Lists, LinesOf, ClassNames
  <2>2. symbols \in Seq(Symbol) /\ \A s \in DOMAIN symbols : ReadRight(symbols, s)
    BY <1>1
  <2> QED BY <1>1, <1>11, <2>1, <2>2 DEF SymbolsInv, SymbolsOk
<1> QED BY <1>1, <1>7, <1>11, <1>12 DEF WalkInv, PendingInv

\* The same of the file that is begun in a step.
LEMMA StartsNext == AtStart' => WalkInv'
BY StartKeeps, PTL

-----------------------------------------------------------------------------
(* The pass.                                                               *)

CallEdges == Edges([i \in DOMAIN rows |-> rows[i].calls])
BaseEdges == Edges([i \in DOMAIN rows |-> rows[i].bases])

\* The last symbols of the pass are those of the last file.
Ends(whole, part) ==
    /\ Len(part) <= Len(whole)
    /\ \A s \in DOMAIN part : whole[Len(whole) - Len(part) + s] = part[s]

PassInv ==
    /\ sources \in Sources /\ at \in 1..(Len(sources) + 1)
    /\ tree = sources[IF at > Len(sources) THEN Len(sources) ELSE at]
    /\ rows \in Seq(Symbol)
    /\ at > Len(sources) => pending = <<>> /\ Ends(rows, symbols)

EdgesInv ==
    IF linked THEN at > Len(sources) /\ calls = CallEdges /\ inheritance = BaseEdges
    ELSE calls = {} /\ inheritance = {}

LinkingInv == WalkInv /\ PassInv /\ EdgesInv

LEMMA SameEdges ==
    ASSUME rows' = rows
    PROVE  CallEdges' = CallEdges /\ BaseEdges' = BaseEdges
BY SMT DEF CallEdges, BaseEdges, Edges, Resolved, Named, ShortNamed, FirstShortNamed

LEMMA SameWalk ==
    ASSUME WalkInv, tree' = tree, pending' = pending, symbols' = symbols, known' = known
    PROVE  WalkInv'
<1>1. FramesOk(pending') /\ Lists(NodesOf(pending'), Frontier(WalkedOf(pending')))
  BY DEF WalkInv, PendingInv
<1>2. SymbolsOk(symbols', WalkedOf(pending')) /\ known' = ClassNames(symbols')
  BY DEF WalkInv, SymbolsInv
<1>3. tree' \in Trees
  BY DEF WalkInv
<1> QED BY <1>1, <1>2, <1>3, SamePending, SameSymbols DEF WalkInv

LEMMA SourcesTyped ==
    ASSUME NEW files \in Sources
    PROVE  Len(files) \in Nat \ {0} /\ \A k \in 1..Len(files) : files[k] \in Trees
<1>1. files \in Seq(Trees) /\ files # <<>>
  BY SourcesAreTrees
<1> QED BY <1>1

LEMMA EndsJoined ==
    ASSUME NEW c \in Seq(Symbol), NEW d \in Seq(Symbol)
    PROVE  c \o d \in Seq(Symbol) /\ Ends(c \o d, d)
<1> HIDE DEF Symbol
<1>1. /\ Len(c) \in Nat /\ Len(d) \in Nat /\ DOMAIN d = 1..Len(d) /\ c \o d \in Seq(Symbol)
      /\ Len(c \o d) = Len(c) + Len(d)
      /\ \A k \in 1..(Len(c) + Len(d)) :
            (c \o d)[k] = IF k <= Len(c) THEN c[k] ELSE d[k - Len(c)]
  OBVIOUS
<1> DEFINE e == c \o d
<1> HIDE DEF e
<1>2. ASSUME NEW s \in DOMAIN d PROVE e[Len(e) - Len(d) + s] = d[s]
  <2>1. Len(e) - Len(d) + s \in 1..(Len(c) + Len(d)) /\ ~ (Len(e) - Len(d) + s <= Len(c))
    BY <1>1 DEF e
  <2>2. (Len(e) - Len(d) + s) - Len(c) = s
    BY <1>1 DEF e
  <2>3. e[Len(e) - Len(d) + s] = d[(Len(e) - Len(d) + s) - Len(c)]
    BY <1>1, <2>1 DEF e
  <2> QED BY <2>2, <2>3
<1> QED BY <1>1, <1>2 DEF Ends, e

LEMMA InitKeeps ==
    ASSUME Init
    PROVE  LinkingInv
<1>1. sources \in Sources /\ Len(sources) \in Nat \ {0} /\ sources[1] \in Trees
  BY SourcesTyped DEF Init
<1>2. WalkInv
  BY <1>1, StartKeeps DEF Init, ParserInit, AtStart
<1>3. PassInv
  BY <1>1 DEF Init, PassInv
<1>4. EdgesInv
  BY DEF Init, EdgesInv
<1> QED BY <1>2, <1>3, <1>4 DEF LinkingInv

LEMMA ParseKeeps ==
    ASSUME LinkingInv, Parse
    PROVE  LinkingInv'
<1>1. at <= Len(sources) /\ Walk /\ sources' = sources /\ at' = at /\ rows' = rows
      /\ calls' = calls /\ inheritance' = inheritance /\ linked' = linked
  BY DEF Parse, linkVars
<1>2. tree' = tree
  BY <1>1 DEF Walk, EmitNamespace, EmitClass, EmitEnum, EmitTemplate, EmitFunction, Emit,
              Descend, DropBroken
<1>3. WalkInv'
  BY <1>1, WalkKeeps DEF LinkingInv
<1>4. Len(sources) \in Nat /\ at \in Nat
  BY SourcesTyped DEF LinkingInv, PassInv
<1>5. PassInv'
  BY <1>1, <1>2, <1>4 DEF LinkingInv, PassInv
<1>6. EdgesInv'
  BY <1>1, <1>4 DEF LinkingInv, EdgesInv
<1> QED BY <1>3, <1>5, <1>6 DEF LinkingInv

LEMMA FinishFileKeeps ==
    ASSUME LinkingInv, FinishFile
    PROVE  LinkingInv'
<1>1. /\ at <= Len(sources) /\ pending = <<>> /\ rows' = rows \o symbols /\ at' = at + 1
      /\ sources' = sources /\ calls' = calls /\ inheritance' = inheritance /\ linked' = linked
  BY DEF FinishFile
<1>2. /\ sources \in Sources /\ Len(sources) \in Nat \ {0} /\ at \in 1..Len(sources) /\ at \in Nat
      /\ \A k \in 1..Len(sources) : sources[k] \in Trees
      /\ tree = sources[at]
      /\ rows \in Seq(Symbol) /\ symbols \in Seq(Symbol)
  BY <1>1, SourcesTyped DEF LinkingInv, PassInv, WalkInv, SymbolsInv, SymbolsOk
<1>3. ~ linked
  BY <1>1, <1>2 DEF LinkingInv, EdgesInv
<1>4. EdgesInv'
  BY <1>1, <1>3 DEF LinkingInv, EdgesInv
<1>5. rows' \in Seq(Symbol) /\ Ends(rows', symbols)
  BY <1>1, <1>2, EndsJoined
<1>6. CASE at < Len(sources)
  <2>1. /\ tree' = sources[at + 1] /\ pending' = Started(sources[at + 1])
        /\ symbols' = <<>> /\ known' = {}
    BY <1>6 DEF FinishFile
  <2>2. at + 1 \in 1..Len(sources) /\ sources[at + 1] \in Trees /\ ~ (at' > Len(sources))
    BY <1>1, <1>2, <1>6
  <2>3. AtStart'
    BY <2>1, <2>2 DEF AtStart
  <2>4. PassInv'
    BY <1>1, <1>2, <1>5, <2>1, <2>2 DEF PassInv
  <2> QED BY <1>4, <2>3, <2>4, StartsNext DEF LinkingInv
<1>7. CASE ~ (at < Len(sources))
  <2>1. tree' = tree /\ pending' = pending /\ symbols' = symbols /\ known' = known
    BY <1>7 DEF FinishFile, parserVars
  <2>2. at = Len(sources) /\ at' > Len(sources) /\ at' \in 1..(Len(sources) + 1)
    BY <1>1, <1>2, <1>7
  <2>3. PassInv'
    BY <1>1, <1>2, <1>5, <2>1, <2>2 DEF PassInv
  <2>4. WalkInv'
    BY <2>1, SameWalk DEF LinkingInv
  <2> QED BY <1>4, <2>3, <2>4 DEF LinkingInv
<1> QED BY <1>6, <1>7

LEMMA LinkKeeps ==
    ASSUME LinkingInv, Link
    PROVE  LinkingInv'
<1>1. /\ at > Len(sources) /\ calls' = CallEdges /\ inheritance' = BaseEdges /\ linked' = TRUE
      /\ tree' = tree /\ pending' = pending /\ symbols' = symbols /\ known' = known
      /\ sources' = sources /\ at' = at /\ rows' = rows
  BY DEF Link, parserVars, CallEdges, BaseEdges
<1>2. WalkInv'
  BY <1>1, SameWalk DEF LinkingInv
<1>3. PassInv'
  BY <1>1 DEF LinkingInv, PassInv
<1>4. EdgesInv'
  BY <1>1, SameEdges DEF EdgesInv
<1> QED BY <1>2, <1>3, <1>4 DEF LinkingInv

LEMMA StutterKeeps ==
    ASSUME LinkingInv, UNCHANGED vars
    PROVE  LinkingInv'
<1>1. /\ tree' = tree /\ pending' = pending /\ symbols' = symbols /\ known' = known
      /\ sources' = sources /\ at' = at /\ rows' = rows
      /\ calls' = calls /\ inheritance' = inheritance /\ linked' = linked
  BY DEF vars, parserVars, linkVars
<1>2. WalkInv'
  BY <1>1, SameWalk DEF LinkingInv
<1>3. PassInv'
  BY <1>1 DEF LinkingInv, PassInv
<1>4. EdgesInv'
  BY <1>1, SameEdges DEF LinkingInv, EdgesInv
<1> QED BY <1>2, <1>3, <1>4 DEF LinkingInv

\* The invariant of the pass: the walk of the file that is parsed has read
\* right what it has walked, the symbols of the files before it are kept, and
\* the edges are those of all of them (parser.cpp:614-678, indexer.cpp:530-600).
THEOREM LinkingInvariant == Spec => []LinkingInv
<1>1. LinkingInv /\ [Next]_vars => LinkingInv'
  BY ParseKeeps, FinishFileKeeps, LinkKeeps, StutterKeeps DEF Next
<1> QED BY <1>1, InitKeeps, PTL DEF Spec

-----------------------------------------------------------------------------
(* The order of the symbols, and what the edges come to.                   *)

\* However a pass goes, the symbols of a file are one for each declaration
\* that was walked and is not hidden, in the order of the source
\* (parser.cpp:614-678).
THEOREM SymbolsAreInOrder == Spec => []SymbolsInOrder
<1>1. LinkingInv => SymbolsInOrder
  <2> SUFFICES ASSUME LinkingInv PROVE SymbolsInOrder
    OBVIOUS
  <2> DEFINE walked == WalkedOf(pending)
  <2>1. Lists(LinesOf(symbols), DeclaredTo(walked)) /\ symbols \in Seq(Symbol)
    BY DEF LinkingInv, WalkInv, SymbolsInv, SymbolsOk
  <2>2. walked = IF pending = <<>> THEN Len(tree) ELSE Top.node - 1
    BY DEF WalkedOf, Top
  <2> HIDE DEF walked
  <2>3. DeclaredTo(walked) = {j \in 1..walked : j \in Within(0) /\ Declares(j)}
    BY DEF DeclaredTo, Shown
  <2>4. \A r, s \in DOMAIN symbols : r < s => symbols[r].line < symbols[s].line
    BY <2>1 DEF Lists, LinesOf
  <2>5. {symbols[s].line : s \in DOMAIN symbols} = DeclaredTo(walked)
    <3>1. \A s \in DOMAIN symbols : symbols[s].line \in DeclaredTo(walked)
      <4>1. LinesOf(symbols) \in Seq(DeclaredTo(walked)) /\ DOMAIN LinesOf(symbols) = DOMAIN symbols
        BY <2>1 DEF Lists, LinesOf
      <4>2. \A s \in DOMAIN LinesOf(symbols) : LinesOf(symbols)[s] \in DeclaredTo(walked)
        BY <4>1
      <4> QED BY <4>1, <4>2 DEF LinesOf
    <3>2. \A j \in DeclaredTo(walked) : \E s \in DOMAIN symbols : symbols[s].line = j
      BY <2>1 DEF Lists, LinesOf
    <3> QED BY <3>1, <3>2
  <2> QED BY <2>2, <2>3, <2>4, <2>5 DEF SymbolsInOrder
<1> QED BY <1>1, LinkingInvariant, PTL

LEMMA LowestIs ==
    ASSUME NEW S \in SUBSET Nat, S # {}
    PROVE  Lowest(S) \in S /\ \A j \in S : Lowest(S) <= j
BY LeastExists DEF Lowest

\* Every edge ends at the first of the symbols of a name.
LEMMA ResolvedIs ==
    ASSUME rows \in Seq(Symbol), NEW target, NEW current, NEW e \in Resolved(target, current)
    PROVE  e \in DOMAIN rows /\ \A j \in DOMAIN rows : rows[j].name = rows[e].name => e <= j
<1> DEFINE names == CandidateNames(target, current)
           exact == {k \in DOMAIN names : Named(names[k]) # {}}
<1>1. DOMAIN rows \in SUBSET Nat
  OBVIOUS
<1>2. ASSUME NEW name, Named(name) # {}, e = Lowest(Named(name))
      PROVE  e \in DOMAIN rows /\ \A j \in DOMAIN rows : rows[j].name = rows[e].name => e <= j
  <2>1. Named(name) \in SUBSET Nat
    BY <1>1 DEF Named
  <2>2. e \in Named(name) /\ \A j \in Named(name) : e <= j
    BY <1>2, <2>1, LowestIs
  <2> QED BY <2>2 DEF Named
<1>3. ASSUME ShortNamed(target) # {}, e = Lowest(ShortNamed(target))
      PROVE  e \in DOMAIN rows /\ \A j \in DOMAIN rows : rows[j].name = rows[e].name => e <= j
  <2>1. ShortNamed(target) \in SUBSET Nat
    BY <1>1 DEF ShortNamed
  <2>2. e \in ShortNamed(target) /\ \A j \in ShortNamed(target) : e <= j
    BY <1>3, <2>1, LowestIs
  <2> QED BY <2>2 DEF ShortNamed
<1>4. CASE exact # {}
  <2>1. e = Lowest(Named(names[Lowest(exact)]))
    BY <1>4 DEF Resolved, Kept
  <2>2. exact \in SUBSET Nat
    <3>1. DOMAIN names \in SUBSET Nat
      BY DEF CandidateNames
    <3> HIDE DEF names
    <3> QED BY <3>1
  <2>3. Lowest(exact) \in exact
    <3> HIDE DEF exact
    <3> QED BY <1>4, <2>2, LowestIs
  <2>4. Named(names[Lowest(exact)]) # {}
    BY <2>3
  <2> HIDE DEF names, exact
  <2> QED BY <1>2, <2>1, <2>4
<1>5. CASE exact = {}
  <2>1. e \in FirstShortNamed(target)
    BY <1>5 DEF Resolved
  <2> QED BY <1>3, <2>1 DEF FirstShortNamed
<1> QED BY <1>4, <1>5

LEMMA EdgesEnd ==
    ASSUME NEW targets, NEW e \in Edges(targets)
    PROVE  \E target, current : e[2] \in Resolved(target, current)
BY DEF Edges

\* For any trees the callers of a name are all kept at its first symbol, so
\* that one lookup finds them (indexer.cpp:66-96).
THEOREM CallersStayTogether == Spec => []CallersTogether
<1>1. LinkingInv => CallersTogether
  <2> SUFFICES ASSUME LinkingInv, NEW e \in calls, NEW j \in DOMAIN rows, rows[j].name = rows[e[2]].name
               PROVE  e[2] <= j
    BY DEF CallersTogether
  <2>1. rows \in Seq(Symbol)
    BY DEF LinkingInv, PassInv
  <2>2. e \in CallEdges
    BY DEF LinkingInv, EdgesInv
  <2>3. \E target, current : e[2] \in Resolved(target, current)
    BY <2>2, EdgesEnd DEF CallEdges
  <2> QED BY <2>1, <2>3, ResolvedIs
<1> QED BY <1>1, LinkingInvariant, PTL

LEMMA EdgeOf ==
    ASSUME NEW targets, NEW i \in DOMAIN rows, NEW target \in targets[i],
           NEW e \in Resolved(target, rows[i].name)
    PROVE  <<i, e>> \in Edges(targets)
BY DEF Edges

\* Of these names the k-th is the first that is the name of a symbol.
FirstFound(names, k) ==
    /\ DOMAIN names \in SUBSET Nat /\ k \in DOMAIN names /\ Named(names[k]) # {}
    /\ \A m \in DOMAIN names : Named(names[m]) # {} => k <= m

\* The first of the candidates that is the name of a symbol is taken.
LEMMA ResolvedFirst ==
    ASSUME rows \in Seq(Symbol), NEW target, NEW current, NEW k,
           FirstFound(CandidateNames(target, current), k)
    PROVE  \E e \in Resolved(target, current) :
              e \in DOMAIN rows /\ rows[e].name = CandidateNames(target, current)[k]
<1> DEFINE names == CandidateNames(target, current)
           exact == {m \in DOMAIN names : Named(names[m]) # {}}
           name == names[k]
           e == Lowest(Named(name))
<1>1. /\ k \in exact /\ exact \in SUBSET Nat /\ \A m \in exact : k <= m
      /\ Named(name) # {}
  BY DEF FirstFound
<1> HIDE DEF names
<1>2. Resolved(target, current) = IF exact # {} THEN {Lowest(Named(names[Lowest(exact)]))}
                                  ELSE FirstShortNamed(target)
  BY DEF Resolved, Kept, names
<1> HIDE DEF exact
<1>3. Lowest(exact) = k
  <2>1. Lowest(exact) \in exact /\ Lowest(exact) <= k
    BY <1>1, LowestIs
  <2>2. Lowest(exact) \in Nat /\ k \in Nat /\ k <= Lowest(exact)
    BY <1>1, <2>1
  <2> QED BY <2>1, <2>2
<1>4. e \in Resolved(target, current)
  BY <1>1, <1>2, <1>3
<1>5. e \in Named(name)
  <2>1. Named(name) \in SUBSET Nat
    BY DEF Named
  <2> HIDE DEF name
  <2> QED BY <1>1, <2>1, LowestIs
<1> QED BY <1>4, <1>5 DEF Named, names

\* Where a symbol of the last file is in the pass, and what it says.
LEMMA RowIs ==
    ASSUME LinkingInv, linked, NEW s \in DOMAIN symbols
    PROVE  /\ tree \in Trees /\ rows \in Seq(Symbol)
           /\ calls = CallEdges /\ inheritance = BaseEdges
           /\ Row(s) \in DOMAIN rows /\ rows[Row(s)] = symbols[s]
           /\ symbols[s].line \in 1..Len(tree) /\ ReadRight(symbols, s)
<1>1. /\ tree \in Trees /\ symbols \in Seq(Symbol) /\ rows \in Seq(Symbol)
      /\ Ends(rows, symbols) /\ ReadRight(symbols, s)
      /\ calls = CallEdges /\ inheritance = BaseEdges
  BY DEF LinkingInv, WalkInv, SymbolsInv, SymbolsOk, PassInv, EdgesInv
<1>2. Row(s) \in DOMAIN rows /\ rows[Row(s)] = symbols[s]
  <2>1. /\ Len(rows) \in Nat /\ Len(symbols) \in Nat /\ s \in 1..Len(symbols)
        /\ DOMAIN rows = 1..Len(rows)
    BY <1>1
  <2> QED BY <1>1, <2>1 DEF Ends, Row
<1>3. symbols[s].line \in 1..Len(tree)
  <2>1. /\ Lists(LinesOf(symbols), DeclaredTo(WalkedOf(pending)))
        /\ WalkedOf(pending) = Len(tree)
    BY DEF LinkingInv, WalkInv, SymbolsInv, SymbolsOk, PassInv, EdgesInv, WalkedOf
  <2>2. LinesOf(symbols) \in Seq(DeclaredTo(Len(tree))) /\ DOMAIN LinesOf(symbols) = DOMAIN symbols
    BY <2>1 DEF Lists, LinesOf
  <2>3. LinesOf(symbols)[s] \in DeclaredTo(Len(tree))
    BY <2>2
  <2> QED BY <2>3 DEF LinesOf, DeclaredTo
<1> QED BY <1>1, <1>2, <1>3

\* A declarator behind a pointer without a "::" is one word.
LEMMA OneWord ==
    ASSUME NEW node, node.name \in Name, node.parameters \in Name, node.type = "pointer",
           Len(node.name) = 1, Len(node.parameters) <= 1
    PROVE  /\ Qualifier(node.name) = <<>>
           /\ \E word \in Words : FunctionLikeName(node) = <<word>>
<1>1. ASSUME NEW v \in Words, NEW text \in Seq(Words), Len(text) <= 1
      PROVE  \E word \in Words : Followed(<<v>>, text) = <<word>>
  <2>1. CASE text = <<>>
    BY <2>1 DEF Followed
  <2>2. CASE text # <<>>
    <3> DEFINE word == Glued[<<v, Head(text)>>]
    <3>1. Head(text) \in Words /\ Tail(text) = <<>>
      BY <1>1, <2>2
    <3>2. word \in Words
      BY <3>1, WordsAreNamed
    <3>3. Followed(<<v>>, text) = <<>> \o <<word>> \o Tail(text)
      BY <2>2 DEF Followed, Qualifier
    <3> HIDE DEF word
    <3>4. <<>> \o <<word>> \o <<>> = <<word>>
      BY <3>2
    <3>5. Followed(<<v>>, text) = <<word>>
      BY <3>1, <3>3, <3>4
    <3> QED BY <3>2, <3>5
  <2> QED BY <2>1, <2>2
<1>2. PICK v \in Words : node.name = <<v>>
  <2>1. node.name \in Seq(Words) /\ node.name[1] \in Words /\ node.name = <<node.name[1]>>
    BY DEF Name
  <2> QED BY <2>1
<1>3. PICK w \in Words : Followed(<<v>>, node.parameters) = <<w>>
  BY <1>1 DEF Name
<1>4. \E word \in Words : Followed(<<Star>>, <<w>>) = <<word>>
  <2>1. <<w>> \in Seq(Words) /\ Len(<<w>>) <= 1 /\ Star \in Words
    BY WordsAreNamed
  <2> QED BY <1>1, <2>1
<1>5. FunctionLikeName(node) = Followed(<<Star>>, <<w>>)
  <2>1. node.name # <<>>
    BY <1>2
  <2> QED BY <1>2, <1>3, <2>1 DEF FunctionLikeName
<1>6. Qualifier(node.name) = <<>>
  BY <1>2 DEF Qualifier
<1> QED BY <1>4, <1>5, <1>6

\* Such a caller's name is that of its scopes and one word more.
LEMMA NameTellsScopes ==
    ASSUME LinkingInv, linked, NEW s \in DOMAIN symbols, TellsScopes(symbols[s].line)
    PROVE  \E word \in Words :
              /\ rows[Row(s)].name = ScopesOf(symbols[s].line) \o <<word>>
              /\ ScopesOf(symbols[s].line) \in Seq(Words)
<1> DEFINE c == symbols[s].line
           leaf == FunctionLikeName(tree[c])
<1>1. /\ tree \in Trees /\ c \in 1..Len(tree)
      /\ rows[Row(s)] = symbols[s] /\ ReadRight(symbols, s)
  BY RowIs
<1>2. tree[c].name \in Name /\ tree[c].parameters \in Name
  BY <1>1, Typed
<1>3. Path(c) \in Seq(Words) /\ leaf \in Seq(Words)
  BY <1>1, <1>2, PathIs, FunctionLikeNameTyped DEF Name
<1>4. tree[c].type \in {"function", "pointer"} /\ tree[c].name # <<>>
  BY DEF TellsScopes, IsFunctionLike
<1>5. rows[Row(s)].name = QualifyName(Path(c), leaf)
  BY <1>1, <1>4 DEF ReadRight
<1>6. PICK word \in Words : leaf = Qualifier(tree[c].name) \o <<word>>
  <2>1. CASE tree[c].type = "pointer"
    <3>1. Len(tree[c].name) = 1 /\ Len(tree[c].parameters) <= 1
      BY <2>1 DEF TellsScopes
    <3>2. PICK word \in Words : leaf = <<word>>
      BY <1>2, <2>1, <3>1, OneWord
    <3>3. Qualifier(tree[c].name) = <<>>
      BY <1>2, <2>1, <3>1, OneWord
    <3> HIDE DEF leaf
    <3> QED BY <3>2, <3>3
  <2>2. CASE tree[c].type = "function"
    <3> DEFINE name == tree[c].name
               word == name[Len(name)]
    <3>1. leaf = name
      BY <2>2 DEF FunctionLikeName
    <3>2. word \in Words /\ name = SubSeq(name, 1, Len(name) - 1) \o <<word>>
      <4>1. name \in Seq(Words) /\ name # <<>>
        BY <1>2, <1>4 DEF Name
      <4> HIDE DEF name
      <4> QED BY <4>1
    <3> HIDE DEF leaf, name, word
    <3> QED BY <3>1, <3>2 DEF Qualifier, name
  <2> QED BY <1>4, <2>1, <2>2
<1>7. Path(c) = <<>> \/ ~ StartsWith(leaf, Path(c))
  BY DEF TellsScopes
<1>8. Qualifier(tree[c].name) \in Seq(Words)
  BY <1>2, <1>4 DEF Qualifier, Name
<1>9. leaf # <<>>
  <2> HIDE DEF leaf
  <2> QED BY <1>6, <1>8
<1> HIDE DEF c, leaf
<1>10. QualifyName(Path(c), leaf) = Path(c) \o leaf
  BY <1>3, <1>7, <1>9 DEF QualifyName
<1>11. Path(c) \o (Qualifier(tree[c].name) \o <<word>>) = ScopesOf(c) \o <<word>>
  <2>1. <<word>> \in Seq(Words)
    BY <1>6
  <2> QED BY <1>3, <1>8, <2>1, ConcatAssociative DEF ScopesOf
<1>12. ScopesOf(c) \in Seq(Words)
  BY <1>3, <1>8 DEF ScopesOf
<1> QED BY <1>5, <1>6, <1>10, <1>11, <1>12 DEF c

\* For any trees a call by a bare name reaches the innermost of the scopes
\* around the caller that declares it, where the caller's name tells those
\* scopes (parser.cpp:179-196, 332-370, indexer.cpp:66-96, 176-195).
THEOREM CallsFindInnermost == Spec => []CallsReachInnermost
<1>1. LinkingInv => CallsReachInnermost
  <2> DEFINE Around(s, target) ==
                {n \in 0..Len(ScopesOf(symbols[s].line)) :
                    Named(SubSeq(ScopesOf(symbols[s].line), 1, n) \o target) # {}}
  <2> SUFFICES ASSUME LinkingInv, linked, NEW s \in DOMAIN symbols, TellsScopes(symbols[s].line),
                      NEW target \in symbols[s].calls, Len(target) = 1, Around(s, target) # {}
               PROVE  \E e \in calls :
                        /\ e[1] = Row(s)
                        /\ \E n \in Around(s, target) :
                              /\ \A m \in Around(s, target) : m <= n
                              /\ rows[e[2]].name = SubSeq(ScopesOf(symbols[s].line), 1, n) \o target
    BY DEF CallsReachInnermost
  <2> DEFINE i == Row(s)
             current == rows[i].name
             scopes == ScopesOf(symbols[s].line)
             L == Len(scopes) + 1
             names == CandidateNames(target, current)
             around == Around(s, target)
  <2>1. /\ rows \in Seq(Symbol) /\ calls = CallEdges
        /\ i \in DOMAIN rows /\ rows[i] = symbols[s]
    BY RowIs
  <2>2. PICK word \in Words : current = scopes \o <<word>> /\ scopes \in Seq(Words)
    BY NameTellsScopes
  <2> HIDE DEF i, scopes
  <2>3. /\ L \in Nat /\ Len(current) = L
        /\ \A n \in 0..(L - 1) : SubSeq(current, 1, n) = SubSeq(scopes, 1, n)
    <3>1. /\ Len(scopes) \in Nat /\ current \in Seq(Words) /\ Len(current) = Len(scopes) + 1
          /\ \A k \in 1..Len(scopes) : current[k] = scopes[k]
      <4> HIDE DEF current
      <4> QED BY <2>2
    <3> HIDE DEF current
    <3>2. ASSUME NEW n \in 0..Len(scopes) PROVE SubSeq(current, 1, n) = SubSeq(scopes, 1, n)
      <4>1. /\ SubSeq(current, 1, n) = [k \in 1..n |-> current[k]]
            /\ SubSeq(scopes, 1, n) = [k \in 1..n |-> scopes[k]]
        BY <2>2, <3>1, <3>2
      <4> QED BY <3>1, <4>1
    <3> QED BY <3>1, <3>2
  <2> HIDE DEF current
  <2>4. names = [k \in 1..L |-> SubSeq(current, 1, L - k) \o target]
    BY <2>3 DEF CandidateNames
  <2>5. around = {n \in 0..(L - 1) : Named(SubSeq(scopes, 1, n) \o target) # {}}
    BY <2>2 DEF scopes
  <2> HIDE DEF L
  <2>6. PICK n \in around : \A m \in around : m <= n
    <3>1. around \in SUBSET (0..L)
      BY <2>3, <2>5
    <3>2. around # {}
      OBVIOUS
    <3> HIDE DEF around
    <3> QED BY <2>3, <3>1, <3>2, GreatestExists
  <2> HIDE DEF names, around
  <2>7. n \in 0..(L - 1) /\ Named(SubSeq(current, 1, n) \o target) # {}
    BY <2>3, <2>5
  <2>8. /\ L - n \in 1..L /\ L - (L - n) = n /\ DOMAIN names = 1..L
        /\ names[L - n] = SubSeq(current, 1, n) \o target
    BY <2>3, <2>4, <2>7
  <2>9. ASSUME NEW m \in DOMAIN names, Named(names[m]) # {} PROVE L - n <= m
    <3>1. m \in 1..L
      BY <2>8, <2>9
    <3>2. L - m \in 0..(L - 1)
      BY <2>3, <3>1
    <3>3. names[m] = SubSeq(current, 1, L - m) \o target
      BY <2>4, <3>1
    <3>4. SubSeq(current, 1, L - m) = SubSeq(scopes, 1, L - m)
      BY <2>3, <3>2
    <3>5. L - m \in around
      BY <2>5, <2>9, <3>2, <3>3, <3>4
    <3>6. L - m <= n
      BY <2>6, <3>5
    <3> QED BY <2>3, <2>7, <3>1, <3>6
  <2>10. PICK e \in Resolved(target, current) : e \in DOMAIN rows /\ rows[e].name = names[L - n]
    <3>1. FirstFound(names, L - n)
      BY <2>7, <2>8, <2>9 DEF FirstFound
    <3> QED BY <2>1, <3>1, ResolvedFirst DEF names
  <2>11. <<i, e>> \in calls
    <3> DEFINE targets == [j \in DOMAIN rows |-> rows[j].calls]
    <3>1. target \in targets[i]
      BY <2>1
    <3> HIDE DEF targets
    <3>2. <<i, e>> \in Edges(targets)
      BY <2>1, <2>10, <3>1, EdgeOf DEF current
    <3> QED BY <2>1, <3>2 DEF CallEdges, targets
  <2>12. rows[e].name = SubSeq(scopes, 1, n) \o target
    BY <2>3, <2>7, <2>8, <2>10
  <2> HIDE DEF Around
  <2> WITNESS <<i, e>> \in calls
  <2> QED BY <2>6, <2>12 DEF i, scopes, around
<1> QED BY <1>1, LinkingInvariant, PTL

\* For any trees a base without template arguments that is declared in the
\* scope around its class has its edge (parser.cpp:198-218, 477-504,
\* indexer.cpp:565-571).
THEOREM BasesNextToClassAreFound == Spec => []BasesNextToClassFound
<1>1. LinkingInv => BasesNextToClassFound
  <2> SUFFICES ASSUME LinkingInv, linked, NEW s \in DOMAIN symbols,
                      tree[symbols[s].line].type = "class",
                      Len(SymbolName(symbols[s].line)) = 1,
                      NEW b \in DOMAIN tree[symbols[s].line].bases,
                      Len(tree[symbols[s].line].bases[b].name) = 1,
                      tree[symbols[s].line].bases[b].arguments = <<>>,
                      Named(Path(symbols[s].line) \o tree[symbols[s].line].bases[b].name) # {}
               PROVE  \E e \in inheritance :
                         /\ e[1] = Row(s)
                         /\ rows[e[2]].name = Path(symbols[s].line) \o tree[symbols[s].line].bases[b].name
    BY DEF BasesNextToClassFound
  <2> DEFINE c == symbols[s].line
             i == Row(s)
             bare == tree[c].bases[b].name
             base == Path(c) \o bare
             current == rows[i].name
             names == CandidateNames(base, current)
  <2>1. /\ tree \in Trees /\ rows \in Seq(Symbol) /\ inheritance = BaseEdges
        /\ ReadRight(symbols, s)
    BY RowIs
  <2>2. i \in DOMAIN rows /\ rows[i] = symbols[s]
    BY RowIs
  <2>3. /\ rows[i].name = QualifyName(Path(c), SymbolName(c))
        /\ rows[i].bases = BaseClasses(c, Path(c))
    BY <2>1, <2>2 DEF ReadRight
  <2>4. c \in 1..Len(tree)
    BY RowIs
  <2>5. /\ Path(c) \in Seq(Words) /\ SymbolName(c) \in Seq(Words) /\ bare \in Seq(Words)
        /\ Len(bare) = 1 /\ Len(SymbolName(c)) = 1
        /\ BaseText(tree[c].bases[b]) = bare
    <3>1. tree[c].bases \in Seq(Base)
      BY <2>1, <2>4, Typed
    <3>2. tree[c].bases[b] \in Base
      <4> HIDE DEF Base
      <4> QED BY <3>1
    <3>3. bare \in Seq(Words)
      BY <3>2 DEF Base, Name
    <3>4. BaseText(tree[c].bases[b]) = bare \o <<>>
      BY DEF BaseText, Followed
    <3>5. bare \o <<>> = bare
      <4> HIDE DEF bare
      <4> QED BY <3>3
    <3> QED BY <2>1, <2>4, <3>3, <3>4, <3>5, PathIs, SymbolNameIs DEF Name
  <2> HIDE DEF c, i, bare
  <2>6. base \in rows[i].bases
    <3>1. QualifyDependency(Path(c), bare) = base
      BY <2>5 DEF QualifyDependency
    <3>2. base # <<>>
      <4>1. Path(c) \o bare # <<>>
        <5>1. bare # <<>>
          <6>1. Len(bare) = 1
            BY <2>5
          <6>2. Len(<<>>) = 0
            OBVIOUS
          <6> QED BY ONLY <6>1, <6>2
        <5> QED BY <2>5, <5>1, ConcatEqualIffEmpty
      <4> QED BY <4>1
    <3>3. QualifyDependency(Path(c), bare)
            \in {QualifyDependency(Path(c), BaseText(tree[c].bases[k])) : k \in DOMAIN tree[c].bases}
      BY <2>5 DEF c
    <3> QED BY <2>3, <3>1, <3>2, <3>3 DEF BaseClasses
  <2>7. DOMAIN names = {1} /\ names[1] = base
    <3>1. CASE Path(c) = <<>>
      <4>1. base = bare /\ Len(base) = 1
        BY <2>5, <3>1
      <4>2. current = SymbolName(c) /\ Len(current) = 1
        BY <2>3, <2>5, <3>1 DEF QualifyName, StartsWith
      <4>3. names = [k \in 1..1 |-> SubSeq(current, 1, 1 - k) \o base]
        <5>1. ~ (Len(base) > 1)
          BY <4>1
        <5> HIDE DEF base, current
        <5> QED BY <4>2, <5>1 DEF CandidateNames
      <4>4. SubSeq(current, 1, 0) \o base = base
        BY <2>5, <4>1, <4>2
      <4> HIDE DEF names, base, current
      <4> QED BY <4>3, <4>4
    <3>2. CASE Path(c) # <<>>
      <4>1. Len(base) > 1
        BY <2>5, <3>2
      <4>2. names = <<base>>
        BY <4>1 DEF CandidateNames
      <4> HIDE DEF names, base
      <4> QED BY <4>2
    <3> QED BY <3>1, <3>2
  <2>8. Named(base) # {}
    BY DEF c, bare
  <2> HIDE DEF base
  <2>9. PICK e \in Resolved(base, current) : e \in DOMAIN rows /\ rows[e].name = names[1]
    <3> HIDE DEF names
    <3>1. FirstFound(names, 1)
      BY <2>7, <2>8 DEF FirstFound
    <3> QED BY <2>1, <3>1, ResolvedFirst DEF names
  <2>10. <<i, e>> \in inheritance
    <3> DEFINE targets == [j \in DOMAIN rows |-> rows[j].bases]
    <3>1. base \in targets[i]
      BY <2>2, <2>6
    <3> HIDE DEF targets
    <3>2. <<i, e>> \in Edges(targets)
      BY <2>2, <2>9, <3>1, EdgeOf
    <3> QED BY <2>1, <3>2 DEF BaseEdges, targets
  <2>11. rows[e].name = base
    BY <2>7, <2>9
  <2> QED BY <2>10, <2>11 DEF base, bare, c, i
<1> QED BY <1>1, LinkingInvariant, PTL

-----------------------------------------------------------------------------
(* Members.                                                                *)

LEMMA NotEmpty ==
    ASSUME NEW name, Len(name) = 1
    PROVE  name # <<>>
<1>1. Len(<<>>) = 0
  OBVIOUS
<1> QED BY <1>1

LEMMA SplitName ==
    ASSUME NEW name \in Seq(Words), Len(name) > 1
    PROVE  /\ Qualifier(name) \in Seq(Words) /\ Qualifier(name) # <<>>
           /\ Leaf(name) \in Seq(Words)
           /\ name = Qualifier(name) \o Leaf(name)
<1> DEFINE n == Len(name)
           q == Qualifier(name)
           l == Leaf(name)
<1>1. n \in Nat /\ n - 1 \in Nat /\ n - 1 >= 1
  OBVIOUS
<1>2. q \in Seq(Words) /\ Len(q) = n - 1 /\ \A i \in 1..(n - 1) : q[i] = name[i]
  BY DEF Qualifier
<1>3. l \in Seq(Words) /\ Len(l) = 1 /\ l[1] = name[n]
  BY DEF Leaf
<1> HIDE DEF q, l
<1>4. /\ q \o l \in Seq(Words) /\ Len(q \o l) = Len(q) + Len(l)
      /\ \A i \in 1..(Len(q) + Len(l)) : (q \o l)[i] = IF i <= Len(q) THEN q[i] ELSE l[i - Len(q)]
  <2>1. q \in Seq(Words) /\ l \in Seq(Words)
    BY <1>2, <1>3
  <2> QED BY ONLY <2>1, ConcatProperties, Zenon
<1>5. ASSUME NEW i \in 1..n PROVE name[i] = (q \o l)[i]
  <2>1. CASE i = n
    <3>1. i \in 1..(Len(q) + Len(l)) /\ ~ (i <= Len(q)) /\ i - Len(q) = 1
      BY <1>1, <1>2, <1>3, <2>1
    <3> QED BY <1>3, <1>4, <2>1, <3>1
  <2>2. CASE i # n
    <3>1. i \in 1..(Len(q) + Len(l)) /\ i <= Len(q) /\ i \in 1..(n - 1)
      BY <1>1, <1>2, <1>3, <2>2
    <3> QED BY <1>2, <1>4, <3>1
  <2> QED BY <2>1, <2>2
<1>6. Len(q \o l) = n
  BY <1>1, <1>2, <1>3, <1>4
<1>7. name = q \o l
  BY <1>4, <1>5, <1>6, SeqEqual
<1>8. q # <<>>
  <2>1. Len(<<>>) = 0
    OBVIOUS
  <2> QED BY <1>1, <1>2, <2>1
<1> QED BY <1>2, <1>3, <1>7, <1>8 DEF q, l

LEMMA StartsMore ==
    ASSUME NEW a \in Seq(Words), NEW b \in Seq(Words), NEW p \in Seq(Words), StartsWith(a, p)
    PROVE  StartsWith(a \o b, p) /\ SubSeq(a \o b, 1, Len(p)) = p
<1> DEFINE ab == a \o b
<1>1. /\ Len(p) \in Nat /\ Len(a) \in Nat /\ Len(b) \in Nat /\ Len(p) <= Len(a)
      /\ SubSeq(a, 1, Len(p)) = p
  BY DEF StartsWith
<1>2. /\ ab \in Seq(Words) /\ Len(ab) = Len(a) + Len(b)
      /\ \A i \in 1..Len(a) : ab[i] = a[i]
  OBVIOUS
<1> HIDE DEF ab
<1>3. \A i \in 1..Len(p) : i \in 1..Len(a) /\ ab[i] = a[i]
  BY <1>1, <1>2
<1>4. SubSeq(a, 1, Len(p)) = [i \in 1..Len(p) |-> a[i]]
  BY <1>1
<1>5. SubSeq(ab, 1, Len(p)) = [i \in 1..Len(p) |-> ab[i]]
  BY <1>1, <1>2
<1>6. SubSeq(ab, 1, Len(p)) = p
  BY <1>1, <1>3, <1>4, <1>5
<1> QED BY <1>1, <1>2, <1>6 DEF StartsWith, ab

\* In a name without an echo the scopes are always put before what is in them.
LEMMA QualifiesTo ==
    ASSUME NEW p \in Seq(Words), NEW leaf \in Seq(Words), leaf # <<>>,
           NEW more \in Seq(Words), NoEcho((p \o leaf) \o more)
    PROVE  QualifyName(p, leaf) = p \o leaf
<1> DEFINE whole == (p \o leaf) \o more
           k == Len(p)
<1>1. CASE p = <<>>
  BY <1>1 DEF QualifyName
<1>2. CASE ~ StartsWith(leaf, p)
  BY <1>2 DEF QualifyName
<1>3. CASE p # <<>> /\ StartsWith(leaf, p)
  <2>1. /\ k \in Nat /\ k >= 1 /\ Len(leaf) \in Nat /\ Len(more) \in Nat /\ k <= Len(leaf)
        /\ SubSeq(leaf, 1, k) = p
    BY <1>3 DEF StartsWith
  <2>2. /\ p \o leaf \in Seq(Words) /\ whole \in Seq(Words)
        /\ Len(p \o leaf) = k + Len(leaf) /\ Len(whole) = k + Len(leaf) + Len(more)
    OBVIOUS
  <2> HIDE DEF k
  <2>3. /\ \A i \in 1..k : (p \o leaf)[i] = p[i]
        /\ \A i \in 1..Len(leaf) : (p \o leaf)[k + i] = leaf[i]
    BY <2>1 DEF k
  <2>4. \A i \in 1..(k + Len(leaf)) : whole[i] = (p \o leaf)[i]
    <3> DEFINE pl == p \o leaf
    <3>1. pl \in Seq(Words) /\ Len(pl) = k + Len(leaf)
      BY <2>2
    <3> HIDE DEF pl
    <3>2. \A i \in 1..Len(pl) : (pl \o more)[i] = pl[i]
      BY <3>1
    <3> QED BY <3>1, <3>2 DEF pl
  <2> HIDE DEF whole
  <2>5. /\ \A i \in 1..k : whole[i] = p[i]
        /\ \A i \in 1..k : whole[k + i] = leaf[i]
    <3>1. \A i \in 1..k : /\ i \in 1..(k + Len(leaf)) /\ k + i \in 1..(k + Len(leaf))
                          /\ i \in 1..Len(leaf)
      BY <2>1
    <3> QED BY <2>3, <2>4, <3>1
  <2>6. SubSeq(whole, 1, k) = [i \in 1..k |-> whole[i]]
    BY <2>1, <2>2
  <2>7. SubSeq(whole, k + 1, 2 * k) = [i \in 1..k |-> whole[k + i]]
    <3>1. /\ k + 1 \in Nat /\ 2 * k \in Nat /\ (2 * k) - (k + 1) + 1 = k
          /\ \A i \in 1..k : (k + 1) + i - 1 = k + i
      BY <2>1
    <3>2. SubSeq(whole, k + 1, 2 * k)
             = [i \in 1..((2 * k) - (k + 1) + 1) |-> whole[(k + 1) + i - 1]]
      BY <2>1, <2>2
    <3> QED BY <3>1, <3>2
  <2>8. SubSeq(leaf, 1, k) = [i \in 1..k |-> leaf[i]]
    BY <2>1
  <2>9. p = [i \in 1..k |-> p[i]]
    BY DEF k
  <2>10. SubSeq(whole, 1, k) = SubSeq(whole, k + 1, 2 * k)
    BY <2>1, <2>5, <2>6, <2>7, <2>8, <2>9
  <2>11. k \in 1..Len(whole) /\ 2 * k <= Len(whole)
    BY <2>1, <2>2
  <2> QED BY <2>10, <2>11 DEF NoEcho, whole
<1> QED BY <1>1, <1>2, <1>3

\* The class is read before its members, and its name is known then.
LEMMA ClassKnown ==
    ASSUME LinkingInv, NEW c \in DOMAIN tree, tree[c].type = "class",
           NEW r \in DOMAIN symbols, tree[symbols[r].line].up = c,
           NEW s \in DOMAIN symbols, c < symbols[s].line
    PROVE  \E k \in DOMAIN symbols :
              /\ k < s /\ symbols[k].kind = "class"
              /\ symbols[k].name = QualifyName(Path(c), SymbolName(c))
<1> DEFINE walked == WalkedOf(pending)
<1>1. /\ tree \in Trees /\ symbols \in Seq(Symbol)
      /\ Lists(LinesOf(symbols), DeclaredTo(walked))
      /\ \A k \in DOMAIN symbols : ReadRight(symbols, k)
  BY DEF LinkingInv, WalkInv, SymbolsInv, SymbolsOk
<1> HIDE DEF walked
<1>2. DOMAIN symbols \in SUBSET Nat /\ DOMAIN LinesOf(symbols) = DOMAIN symbols
  BY <1>1 DEF LinesOf
<1>3. \A k \in DOMAIN symbols : symbols[k].line \in DeclaredTo(walked)
  <2>1. \A k \in DOMAIN LinesOf(symbols) : LinesOf(symbols)[k] \in DeclaredTo(walked)
    BY <1>1 DEF Lists
  <2> QED BY <1>2, <2>1 DEF LinesOf
<1>4. c \in 1..Len(tree) /\ c \in Nat /\ Len(tree) \in Nat
  BY <1>1, Typed
<1>5. c \in DeclaredTo(walked)
  <2>1. symbols[r].line \in Shown /\ symbols[r].line \in 1..walked /\ symbols[s].line \in 1..walked
    BY <1>3 DEF DeclaredTo
  <2>2. symbols[r].line \in 1..Len(tree)
    <3>1. Shown \subseteq 0..Len(tree)
      BY <1>1, ShownIs
    <3> QED BY <1>4, <2>1, <3>1
  <2>3. c \in Shown
    BY <1>1, <2>1, <2>2, ShownIs
  <2>4. c \in 1..walked
    <3>1. walked \in Int
      <4>1. CASE pending = <<>>
        BY <1>4, <4>1 DEF walked, WalkedOf
      <4>2. CASE pending # <<>>
        BY <1>4, <4>2, TopIs DEF walked, LinkingInv
      <4> QED BY <4>1, <4>2
    <3> QED BY <1>4, <2>1, <3>1
  <2> QED BY <2>3, <2>4 DEF DeclaredTo, Declares
<1>6. PICK k \in DOMAIN symbols : symbols[k].line = c
  <2>1. \E k \in DOMAIN LinesOf(symbols) : LinesOf(symbols)[k] = c
    BY <1>1, <1>5 DEF Lists
  <2> QED BY <1>2, <2>1 DEF LinesOf
<1>7. k < s
  <2>1. \A a, b \in DOMAIN symbols : a < b => symbols[a].line < symbols[b].line
    BY <1>1, <1>2 DEF Lists, LinesOf
  <2>2. symbols[s].line \in Nat
    BY <1>3 DEF DeclaredTo
  <2>3. ~ (s < k) /\ s # k
    BY <1>4, <1>6, <2>1, <2>2
  <2> QED BY <1>2, <2>3
<1>8. symbols[k].kind = "class" /\ symbols[k].name = QualifyName(Path(c), SymbolName(c))
  BY <1>1, <1>6 DEF ReadRight
<1> QED BY <1>7, <1>8

\* For any trees a member that is declared in its class and defined outside it
\* is one method with one name, whichever way the definition is written
\* (parser.cpp:179-196, 401-424).
THEOREM MembersHaveOneName == Spec => []MembersAgree
<1>1. LinkingInv => MembersAgree
  <2> DEFINE Paired(c, d, n) ==
                /\ tree[c].type = "class" /\ tree[d].up = c
                /\ tree[d].type = "function" /\ Len(tree[d].name) = 1
                /\ tree[n].type = "function" /\ c < n /\ Len(tree[n].name) > 1
                /\ ~ HasAncestor(d, "friend") /\ ~ HasAncestor(n, "friend")
                /\ Leaf(tree[n].name) = tree[d].name
                /\ \/ Path(n) \o Qualifier(tree[n].name) = Path(c) \o SymbolName(c)
                   \/ /\ Qualifier(tree[n].name) = Path(c) \o SymbolName(c)
                      /\ StartsWith(Path(c) \o SymbolName(c), Path(n))
                /\ NoEcho((Path(c) \o SymbolName(c)) \o tree[d].name)
             Agree(x, y) == x.name = y.name /\ x.kind = "method" /\ y.kind = "method"
  <2> SUFFICES ASSUME LinkingInv, NEW c \in DOMAIN tree, NEW d \in DOMAIN tree, NEW n \in DOMAIN tree,
                        Paired(c, d, n), NEW x \in Emitted(d), NEW y \in Emitted(n)
                 PROVE  Agree(x, y)
    BY Zenon DEF MembersAgree
  <2> DEFINE path == Path(c)
             last == SymbolName(c)
             class == path \o last
             member == tree[d].name
             whole == class \o member
             around == Path(n)
             written == Qualifier(tree[n].name)
  <2>1. /\ tree \in Trees /\ symbols \in Seq(Symbol) /\ DOMAIN tree = 1..Len(tree)
        /\ \A k \in DOMAIN symbols : ReadRight(symbols, k)
    BY Typed DEF LinkingInv, WalkInv, SymbolsInv, SymbolsOk
  <2>2. /\ path \in Seq(Words) /\ last \in Seq(Words) /\ around \in Seq(Words)
        /\ member \in Seq(Words) /\ tree[n].name \in Seq(Words)
    BY <2>1, Typed, PathIs, SymbolNameIs DEF Name
  <2>3. last # <<>>
    <3>1. last = Or(tree[c].name)
      BY <2>1, SymbolNameIs
    <3> QED BY <3>1 DEF Or
  <2>4. member # <<>>
    BY NotEmpty
  <2>5. /\ written \in Seq(Words) /\ written # <<>>
        /\ tree[n].name = written \o member
    BY <2>2, SplitName
  <2>6. class \in Seq(Words) /\ class # <<>> /\ tree[n].name # <<>> /\ NoEcho(whole)
    <3>1. class # <<>>
      BY <2>2, <2>3, ConcatEqualIffEmpty
    <3>2. written \o member # <<>>
      BY <2>2, <2>4, <2>5, ConcatEqualIffEmpty
    <3> QED BY <2>2, <2>5, <3>1, <3>2
  <2>7. \/ around \o written = class
        \/ written = class /\ StartsWith(class, around)
    OBVIOUS
  <2>8. PICK r \in DOMAIN symbols : symbols[r].line = d /\ x = symbols[r]
    BY DEF Emitted
  <2>9. PICK s \in DOMAIN symbols : symbols[s].line = n /\ y = symbols[s]
    BY DEF Emitted
  <2>10. Path(d) = class /\ InClass(d)
    <3>1. Path(d) = IF tree[d].up = 0 THEN <<>> ELSE Path(tree[d].up) \o Opens(tree[d].up)
      <4>1. d \in 1..Len(tree)
        BY <2>1
      <4> QED BY <2>1, <4>1, PathIs
    <3>2. c # 0
      <4>1. c \in 1..Len(tree)
        BY <2>1
      <4> QED BY <4>1
    <3> QED BY <3>1, <3>2 DEF Opens, IsScope, InClass
  <2>11. x.kind = "method" /\ x.name = QualifyName(class, member)
    BY <2>1, <2>8, <2>10 DEF ReadRight
  <2>12. y.name = QualifyName(around, tree[n].name)
    BY <2>1, <2>9 DEF ReadRight
  <2>13. PICK k \in DOMAIN symbols : /\ k < s /\ symbols[k].kind = "class"
                                    /\ symbols[k].name = QualifyName(path, last)
    BY <2>8, <2>9, ClassKnown
  <2>14. QualifyName(around, written) = QualifyName(path, last) => y.kind = "method"
    BY <2>1, <2>9, <2>13 DEF ReadRight
  <2> HIDE DEF path, last, around, written, member
  <2>15. QualifyName(path, last) = class
    BY <2>2, <2>3, <2>6, QualifiesTo
  <2>16. QualifyName(class, member) = whole
    <3>1. whole = (class \o member) \o <<>> /\ <<>> \in Seq(Words)
      BY <2>2, <2>6
    <3> HIDE DEF class
    <3> QED BY <2>2, <2>4, <2>6, <3>1, QualifiesTo
  <2> HIDE DEF class
  <2>17. CASE around \o written = class
    <3>1. QualifyName(around, written) = class
      BY <2>2, <2>5, <2>6, <2>17, QualifiesTo
    <3>2. QualifyName(around, tree[n].name) = whole
      <4>1. around \o (written \o member) = (around \o written) \o member
        <5>1. around \in Seq(Words) /\ written \in Seq(Words) /\ member \in Seq(Words)
          BY <2>2, <2>5
        <5>2. (around \o written) \o member = around \o (written \o member)
          BY ONLY <5>1, ConcatAssociative, SMT
        <5> QED BY <5>2
      <4>2. around \o tree[n].name = whole
        BY <2>5, <2>17, <4>1
      <4>3. whole = (around \o tree[n].name) \o <<>> /\ <<>> \in Seq(Words)
        BY <2>2, <2>6, <4>2
      <4> QED BY <2>2, <2>6, <4>2, <4>3, QualifiesTo
    <3> QED BY <2>11, <2>12, <2>14, <2>15, <2>16, <3>1, <3>2
  <2>18. CASE written = class /\ StartsWith(class, around)
    <3>1. QualifyName(around, written) = class
      BY <2>6, <2>18 DEF QualifyName
    <3>2. StartsWith(tree[n].name, around)
      BY <2>2, <2>5, <2>6, <2>18, StartsMore
    <3>3. QualifyName(around, tree[n].name) = whole
      BY <2>5, <2>6, <2>18, <3>2 DEF QualifyName
    <3> QED BY <2>11, <2>12, <2>14, <2>15, <2>16, <3>1, <3>3
  <2> QED BY <2>7, <2>17, <2>18
<1> QED BY <1>1, LinkingInvariant, PTL
=============================================================================
