--------------------------- MODULE RetrievalProofs ---------------------------
(***************************************************************************)
(* The properties of Retrieval and of the Embedder under it, and that it   *)
(* implements Retriever, for any corpora, queries, limits and replies of   *)
(* the embedding backend.                                                  *)
(***************************************************************************)
EXTENDS Retrieval, FiniteSetTheorems, SequenceTheorems, WellFoundedInduction, TLAPS

(* Numbers.                                                                *)

LEMMA LeastExists ==
    ASSUME NEW S \in SUBSET Nat, S # {}
    PROVE  \E m \in S : \A n \in S : m <= n
<1> DEFINE less == OpToRel(<, Nat)
<1>1. IsWellFoundedOn(less, Nat)
  BY NatLessThanWellFounded
<1>2. \A x, y \in Nat : y < x => <<y, x>> \in less
  BY DEF OpToRel
<1> HIDE DEF less
<1>3. PICK m \in S : \A n \in S : ~ (<<n, m>> \in less)
  BY <1>1, WFMin
<1>4. ASSUME NEW n \in S PROVE m <= n
  <2>1. m \in Nat /\ n \in Nat
    OBVIOUS
  <2>2. ~ (n < m)
    BY <1>2, <1>3, <2>1
  <2> QED BY <2>1, <2>2
<1> QED BY <1>4

\* Induction over the numbers up to n.
LEMMA Inductive ==
    ASSUME NEW n \in Nat, NEW S, 0 \in S, \A k \in 0..(n - 1) : k \in S => k + 1 \in S
    PROVE  0..n \subseteq S
<1> DEFINE missing == (0..n) \ S
<1> SUFFICES ASSUME missing # {} PROVE FALSE
  OBVIOUS
<1>1. missing \in SUBSET Nat
  OBVIOUS
<1>2. PICK m \in missing : \A k \in missing : m <= k
  <2> HIDE DEF missing
  <2> QED BY <1>1, LeastExists
<1>3. m \in 1..n /\ m \notin S
  OBVIOUS
<1>4. m - 1 \in S
  BY <1>1, <1>2, <1>3
<1> QED BY <1>3, <1>4

-----------------------------------------------------------------------------
(* Sorting.                                                                *)

\* A choice of the first elements is one of them each, and leaves out none
\* that goes before them; it leaves out none at all when there is room.
LEMMA FirstOnes ==
    ASSUME NEW S, IsFiniteSet(S), NEW key, DOMAIN key = S, NEW limit \in Nat,
           NEW p \in Firsts(key, limit)
    PROVE  /\ Cardinality(S) \in Nat
           /\ p \in [1..Least(limit, Cardinality(S)) -> S]
           /\ \A i, j \in DOMAIN p : i # j => p[i] # p[j]
           /\ \A x \in S \ {p[i] : i \in DOMAIN p}, i \in DOMAIN p : ~ Lexicographic(key[x], key[p[i]])
           /\ Cardinality(S) <= limit => \A x \in S : \E i \in DOMAIN p : p[i] = x
<1>1. Cardinality(S) \in Nat
  BY FS_CardinalityType
<1>2. p \in [1..Least(limit, Cardinality(S)) -> S]
  BY DEF Firsts
<1>3. Least(limit, Cardinality(S)) \in Nat
  BY <1>1 DEF Least
<1>4. \A i, j \in DOMAIN p : i < j => p[i] # p[j]
  BY DEF Firsts
<1>5. \A i, j \in DOMAIN p : i # j => p[i] # p[j]
  BY <1>2, <1>3, <1>4
<1>6. \A x \in S \ {p[i] : i \in DOMAIN p}, i \in DOMAIN p : ~ Lexicographic(key[x], key[p[i]])
  BY DEF Firsts
<1>7. ASSUME Cardinality(S) <= limit
      PROVE  \A x \in S : \E i \in DOMAIN p : p[i] = x
  <2> DEFINE T == 1..Cardinality(S)
  <2>1. p \in [T -> S]
    BY <1>1, <1>2, <1>7 DEF Least
  <2>2. p \in Injection(T, S)
    BY <1>5, <2>1 DEF Injection, IsInjective
  <2>3. Cardinality(T) = Cardinality(S)
    BY <1>1, FS_Interval
  <2>4. p \in Surjection(T, S)
    <3> HIDE DEF T
    <3> QED BY <2>2, <2>3, FS_Injection
  <2> QED BY <2>1, <2>4 DEF Surjection
<1> QED BY <1>1, <1>2, <1>5, <1>6, <1>7

LEMMA SomeOfThem ==
    ASSUME NEW S, IsFiniteSet(S), S # {}, NEW key, DOMAIN key = S, NEW limit \in Nat \ {0},
           NEW p \in Firsts(key, limit)
    PROVE  1 \in DOMAIN p /\ p[1] \in S
<1>1. p \in [1..Least(limit, Cardinality(S)) -> S] /\ Cardinality(S) \in Nat
  BY FirstOnes
<1>2. Cardinality(S) # 0
  BY FS_EmptySet
<1> QED BY <1>1, <1>2 DEF Least

-----------------------------------------------------------------------------
(* The corpus and its modules.                                             *)

IsCorpus(c) ==
    /\ c \in Seq(Symbols)
    /\ Cardinality(ModulesOf(c)) <= MaxTexts

LEMMA CorporaAreCorpora ==
    ASSUME NEW c \in Corpora
    PROVE  IsCorpus(c)
  BY CorporaAreOfSymbols DEF IsCorpus, ModulesOf

LEMMA ImageOfFinite ==
    ASSUME NEW S, IsFiniteSet(S), NEW T, NEW f \in [S -> T], \A t \in T : \E s \in S : f[s] = t
    PROVE  IsFiniteSet(T)
<1>1. f \in Surjection(S, T)
  BY DEF Surjection
<1> QED BY <1>1, FS_Surjection

LEMMA ModulesAreFinite ==
    ASSUME NEW c \in Seq(Symbols)
    PROVE  /\ IsFiniteSet(ModulesOf(c))
           /\ \A m \in ModulesOf(c) :
                 /\ IsFiniteSet(MembersOf(c, m))
                 /\ MembersOf(c, m) # {}
                 /\ MembersOf(c, m) \subseteq Symbols
           /\ c # <<>> => ModulesOf(c) # {}
<1>1. DOMAIN c = 1..Len(c) /\ Len(c) \in Nat /\ \A i \in DOMAIN c : c[i] \in Symbols
  OBVIOUS
<1>2. IsFiniteSet(DOMAIN c)
  BY <1>1, FS_Interval
<1>3. IsFiniteSet(ModulesOf(c))
  <2> DEFINE f == [i \in DOMAIN c |-> c[i].module]
  <2>1. f \in [DOMAIN c -> ModulesOf(c)] /\ \A t \in ModulesOf(c) : \E i \in DOMAIN c : f[i] = t
    BY DEF ModulesOf
  <2> HIDE DEF f
  <2> QED BY <1>2, <2>1, ImageOfFinite
<1>4. ASSUME NEW m \in ModulesOf(c)
      PROVE  /\ IsFiniteSet(MembersOf(c, m))
             /\ MembersOf(c, m) # {}
             /\ MembersOf(c, m) \subseteq Symbols
  <2> DEFINE places == {i \in DOMAIN c : c[i].module = m}
             f == [i \in places |-> c[i]]
  <2>1. IsFiniteSet(places)
    BY <1>2, FS_Subset
  <2>2. f \in [places -> MembersOf(c, m)] /\ \A t \in MembersOf(c, m) : \E i \in places : f[i] = t
    BY DEF MembersOf
  <2>3. MembersOf(c, m) # {} /\ MembersOf(c, m) \subseteq Symbols
    BY <1>1 DEF MembersOf, ModulesOf
  <2> HIDE DEF f, places
  <2> QED BY <2>1, <2>2, <2>3, ImageOfFinite
<1>5. ASSUME c # <<>> PROVE ModulesOf(c) # {}
  <2>1. 1 \in DOMAIN c
    BY <1>1, <1>5
  <2> QED BY <2>1 DEF ModulesOf
<1> QED BY <1>3, <1>4, <1>5

\* A symbol of another file is chosen for a summary only next to all symbols
\* of headers.
LEMMA HeadersAreChosen ==
    ASSUME NEW members \in SUBSET Symbols, IsFiniteSet(members), NEW profile \in Selected(members),
           NEW k \in DOMAIN profile, ~ IsHeader(profile[k]), NEW s \in members, IsHeader(s)
    PROVE  \E i \in DOMAIN profile : profile[i] = s
<1> DEFINE public == Public(members)
           rest == members \ public
           room == Room(members)
<1>1. /\ public_symbol_limit \in Nat
      /\ IsFiniteSet(public) /\ IsFiniteSet(rest)
      /\ DOMAIN CandidateKeys(public) = public /\ DOMAIN CandidateKeys(rest) = rest
  BY OptionsArePositive, FS_Subset DEF CandidateKeys, Public
<1>2. PICK p \in Firsts(CandidateKeys(public), public_symbol_limit),
           f \in Firsts(CandidateKeys(rest), room) : profile = p \o f
  <2>1. PICK p \in Firsts(CandidateKeys(public), public_symbol_limit) :
            profile \in {p \o f : f \in Firsts(CandidateKeys(rest), room)}
    BY Zenon DEF Selected
  <2> QED BY <2>1
<1>3. Cardinality(public) \in Nat /\ room \in Nat
  BY <1>1, FS_CardinalityType DEF Least, Room
<1> HIDE DEF public, rest, room
<1>4. /\ p \in [1..Least(public_symbol_limit, Cardinality(public)) -> public]
      /\ Cardinality(public) <= public_symbol_limit => \A x \in public : \E i \in DOMAIN p : p[i] = x
  BY <1>1, FirstOnes
<1>5. f \in [1..Least(room, Cardinality(rest)) -> rest] /\ Cardinality(rest) \in Nat
  BY <1>1, <1>3, FirstOnes
<1>6. p \in Seq(Symbols) /\ f \in Seq(Symbols)
  <2>1. public \subseteq Symbols /\ rest \subseteq Symbols
    BY DEF Public, public, rest
  <2>2. Least(public_symbol_limit, Cardinality(public)) \in Nat /\ Least(room, Cardinality(rest)) \in Nat
    BY <1>1, <1>3, <1>5 DEF Least
  <2> QED BY <1>4, <1>5, <2>1, <2>2
<1>7. /\ Len(profile) = Len(p) + Len(f)
      /\ \A i \in 1..Len(p) + Len(f) : profile[i] = IF i <= Len(p) THEN p[i] ELSE f[i - Len(p)]
      /\ DOMAIN profile = 1..Len(p) + Len(f)
      /\ Len(p) \in Nat /\ Len(f) \in Nat
      /\ DOMAIN p = 1..Len(p) /\ DOMAIN f = 1..Len(f)
  BY <1>2, <1>6, ConcatProperties, LenProperties
<1>8. k > Len(p)
  <2> SUFFICES ASSUME k <= Len(p) PROVE FALSE
    BY <1>7
  <2>1. profile[k] = p[k] /\ k \in DOMAIN p
    BY <1>7
  <2>2. p[k] \in public
    BY <1>4, <2>1
  <2> QED BY <2>1, <2>2 DEF Public, public
<1>9. Cardinality(public) <= public_symbol_limit
  <2>1. Len(f) > 0
    BY <1>7, <1>8
  <2>2. room > 0
    BY <1>3, <1>5, <1>7, <2>1 DEF Least
  <2> QED BY <1>1, <1>3, <2>2 DEF room, Room, public, Least
<1>10. s \in public
  BY DEF Public, public
<1>11. PICK i \in DOMAIN p : p[i] = s
  BY <1>4, <1>9, <1>10
<1> QED BY <1>7, <1>11

\* What build() makes of a corpus.
LEMMA BucketsOfCorpus ==
    ASSUME NEW c, IsCorpus(c), NEW bs \in Buckets(c)
    PROVE  /\ DOMAIN bs = 1..Len(bs) /\ Len(bs) \in 0..MaxTexts
           /\ c # <<>> => Len(bs) > 0
           /\ \A i \in DOMAIN bs :
                 /\ bs[i].members \subseteq Symbols
                 /\ IsFiniteSet(bs[i].members) /\ bs[i].members # {}
                 /\ bs[i].profile \in Selected(bs[i].members)
<1> DEFINE bucket(m) == {[module |-> m, members |-> MembersOf(c, m), profile |-> p] :
                           p \in Selected(MembersOf(c, m))}
           all == UNION {bucket(m) : m \in ModulesOf(c)}
           key == [m \in ModulesOf(c) |-> <<m>>]
<1>1. PICK names \in Firsts(key, MaxTexts) :
          bs \in [DOMAIN names -> all] /\ \A i \in DOMAIN names : bs[i] \in bucket(names[i])
  BY DEF Buckets
<1>2. c \in Seq(Symbols) /\ Cardinality(ModulesOf(c)) <= MaxTexts /\ MaxTexts \in Nat
  BY BoundsAreNumbers DEF IsCorpus
<1>3. IsFiniteSet(ModulesOf(c)) /\ DOMAIN key = ModulesOf(c)
  BY <1>2, ModulesAreFinite
<1> HIDE DEF key
<1>4. /\ Cardinality(ModulesOf(c)) \in Nat
      /\ names \in [1..Least(MaxTexts, Cardinality(ModulesOf(c))) -> ModulesOf(c)]
  BY <1>1, <1>2, <1>3, FirstOnes
<1>5. names \in [1..Cardinality(ModulesOf(c)) -> ModulesOf(c)]
  BY <1>2, <1>4 DEF Least
<1>6. bs \in [1..Cardinality(ModulesOf(c)) -> all]
  BY <1>1, <1>5
<1>7. ASSUME NEW i \in DOMAIN bs
      PROVE  /\ bs[i].members \subseteq Symbols
             /\ IsFiniteSet(bs[i].members) /\ bs[i].members # {}
             /\ bs[i].profile \in Selected(bs[i].members)
  <2>1. bs[i] \in bucket(names[i]) /\ names[i] \in ModulesOf(c)
    BY <1>1, <1>5, <1>6
  <2>2. PICK p \in Selected(MembersOf(c, names[i])) :
            bs[i] = [module |-> names[i], members |-> MembersOf(c, names[i]), profile |-> p]
    BY <2>1
  <2>3. /\ MembersOf(c, names[i]) \subseteq Symbols
        /\ IsFiniteSet(MembersOf(c, names[i])) /\ MembersOf(c, names[i]) # {}
    BY <1>2, <2>1, ModulesAreFinite
  <2> QED BY <2>1, <2>2, <2>3
<1>8. c # <<>> => Cardinality(ModulesOf(c)) # 0
  BY <1>2, <1>3, ModulesAreFinite, FS_EmptySet
<1> HIDE DEF all, bucket
<1>9. DOMAIN bs = 1..Len(bs) /\ Len(bs) = Cardinality(ModulesOf(c))
  BY <1>4, <1>6
<1> QED BY <1>2, <1>4, <1>7, <1>8, <1>9

-----------------------------------------------------------------------------
(* The embedder.                                                           *)

LEMMA Increasing ==
    ASSUME NEW n \in Nat, NEW e \in [1..n -> 1..n], \A i \in 1..(n - 1) : e[i] < e[i + 1]
    PROVE  \A i \in 1..n : e[i] = i
<1> DEFINE low == {i \in 0..n : i = 0 \/ e[i] >= i}
           high == {i \in 0..n : i = n \/ e[n - i] <= n - i}
<1>1. 0..n \subseteq low
  <2>1. ASSUME NEW k \in 0..(n - 1), k \in low PROVE k + 1 \in low
    <3>1. k + 1 \in 1..n /\ e[k + 1] \in 1..n
      OBVIOUS
    <3>2. CASE k = 0
      BY <3>1, <3>2
    <3>3. CASE k # 0
      <4>1. k \in 1..(n - 1) /\ e[k] >= k /\ e[k] \in 1..n
        BY <2>1, <3>3
      <4> QED BY <3>1, <4>1
    <3> QED BY <3>2, <3>3
  <2>2. 0 \in low
    OBVIOUS
  <2> HIDE DEF low
  <2> QED BY <2>1, <2>2, Inductive
<1>2. 0..n \subseteq high
  <2>1. ASSUME NEW k \in 0..(n - 1), k \in high PROVE k + 1 \in high
    <3>1. CASE k + 1 = n
      BY <3>1
    <3>2. CASE k + 1 # n
      <4>1. n - (k + 1) \in 1..(n - 1) /\ (n - (k + 1)) + 1 = n - k /\ n - k \in 1..n
        BY <3>2
      <4>2. e[n - k] <= n - k
        BY <2>1
      <4>3. e[n - (k + 1)] < e[n - k]
        BY <4>1
      <4>4. e[n - (k + 1)] \in Int /\ e[n - k] \in Int
        BY <4>1
      <4>5. e[n - (k + 1)] <= n - (k + 1)
        BY <4>2, <4>3, <4>4
      <4> QED BY <4>5
    <3> QED BY <3>1, <3>2
  <2>2. 0 \in high
    <3>1. CASE n = 0
      BY <3>1
    <3>2. CASE n # 0
      <4>1. e[n] \in 1..n
        BY <3>2
      <4> QED BY <4>1
    <3> QED BY <3>1, <3>2
  <2> HIDE DEF high
  <2> QED BY <2>1, <2>2, Inductive
<1>3. ASSUME NEW i \in 1..n PROVE e[i] = i
  <2>1. i \in 0..n /\ n - i \in 0..n /\ n - (n - i) = i /\ n - i # n /\ i # 0
    OBVIOUS
  <2>2. i \in low /\ n - i \in high
    BY <1>1, <1>2, <2>1
  <2>3. e[i] >= i
    BY <2>1, <2>2
  <2>4. e[n - (n - i)] <= n - (n - i)
    BY <2>1, <2>2
  <2>5. e[i] <= i
    BY <2>1, <2>4
  <2>6. e[i] \in 1..n
    OBVIOUS
  <2> QED BY <2>3, <2>5, <2>6
<1> QED BY <1>3

\* What the rows of a reply become has as many vectors.
LEMMA AsManySorted ==
    ASSUME NEW n \in Nat, NEW rows \in Replies(n), NEW e \in Sorted(rows)
    PROVE  /\ Len(rows) \in Nat
           /\ e \in [1..Len(rows) -> 1..n \cup {Stray}]
<1>1. PICK m \in 0..(n + 1) : rows \in [1..m -> Rows(n)]
  BY DEF Replies
<1>2. Len(rows) = m
  BY <1>1
<1>3. PICK p \in [1..Len(rows) -> 1..Len(rows)] :
          e = [i \in 1..Len(rows) |-> rows[p[i]].embedding]
  BY DEF Sorted
<1>4. \A i \in 1..m : rows[i].embedding \in 1..n \cup {Stray}
  BY <1>1 DEF Rows
<1> QED BY <1>2, <1>3, <1>4

\* Rows that are right come back in the order of their texts.
LEMMA SortedInPlace ==
    ASSUME NEW n \in Nat, NEW rows \in Replies(n), ExactReply(rows, n), NEW e \in Sorted(rows)
    PROVE  \A i \in 1..n : e[i] = i
<1>1. Len(rows) = n
  BY DEF ExactReply
<1>2. PICK p \in [1..n -> 1..n] :
          /\ e = [i \in 1..n |-> rows[p[i]].embedding]
          /\ \A i, j \in 1..n : i # j => p[i] # p[j]
          /\ \A i \in 1..(n - 1) : RowIndex(rows, p[i]) <= RowIndex(rows, p[i + 1])
  BY <1>1 DEF Sorted
<1> DEFINE number == [i \in 1..n |-> rows[i].embedding]
<1>3. \A i \in 1..n : number[i] \in 1..n
  BY DEF ExactReply
<1>4. \A i \in 1..n : RowIndex(rows, i) = number[i] - 1
  <2> TAKE i \in 1..n
  <2>1. RightRow(rows, i)
    BY DEF ExactReply
  <2>2. rows[i].index \in Int \cup {Stray}
    <3>1. PICK m \in 0..(n + 1) : rows \in [1..m -> Rows(n)]
      BY DEF Replies
    <3>2. m = n
      BY <1>1, <3>1
    <3> QED BY <3>1, <3>2 DEF Rows
  <2> QED BY <2>1, <2>2, <1>3 DEF RightRow, RowIndex
<1>5. \A i, j \in 1..n : i # j => number[i] # number[j]
  <2>1. number \in [1..n -> 1..n] /\ \A k \in 1..n : \E i \in 1..n : number[i] = k
    BY <1>3 DEF ExactReply
  <2>2. number \in Surjection(1..n, 1..n)
    BY <2>1 DEF Surjection
  <2>3. IsFiniteSet(1..n)
    BY FS_Interval
  <2>4. number \in Injection(1..n, 1..n)
    <3> HIDE DEF number
    <3> QED BY <2>2, <2>3, FS_SurjSameCardinalityImpliesInj
  <2> QED BY <2>4 DEF Injection, IsInjective
<1> HIDE DEF number
<1>6. \A i \in 1..n : e[i] = number[p[i]]
  BY <1>2 DEF number
<1>7. \A i \in 1..(n - 1) : e[i] < e[i + 1]
  <2> TAKE i \in 1..(n - 1)
  <2>1. i \in 1..n /\ i + 1 \in 1..n /\ i # i + 1
    OBVIOUS
  <2>2. p[i] # p[i + 1] /\ p[i] \in 1..n /\ p[i + 1] \in 1..n
    BY <1>2, <2>1
  <2>3. number[p[i]] # number[p[i + 1]] /\ number[p[i]] \in 1..n /\ number[p[i + 1]] \in 1..n
    BY <1>3, <1>5, <2>2
  <2>4. RowIndex(rows, p[i]) <= RowIndex(rows, p[i + 1])
    BY <1>2
  <2>5. number[p[i]] - 1 <= number[p[i + 1]] - 1
    BY <1>4, <2>2, <2>4
  <2>6. number[p[i]] < number[p[i + 1]]
    <3> DEFINE a == number[p[i]]
               b == number[p[i + 1]]
    <3>1. a # b /\ a \in 1..n /\ b \in 1..n /\ a - 1 <= b - 1
      BY <2>3, <2>5
    <3> HIDE DEF a, b
    <3>2. a < b
      BY <3>1
    <3> QED BY <3>2 DEF a, b
  <2>7. e[i] = number[p[i]] /\ e[i + 1] = number[p[i + 1]]
    BY <1>6, <2>1
  <2> QED BY <2>6, <2>7
<1>8. e \in [1..n -> 1..n]
  <2>1. \A i \in 1..n : p[i] \in 1..n
    BY <1>2
  <2>2. \A i \in 1..n : e[i] \in 1..n
    BY <1>3, <1>6, <2>1
  <2> QED BY <1>2, <2>2
<1> QED BY <1>7, <1>8, Increasing

-----------------------------------------------------------------------------

EmbedderTypeOK ==
    /\ texts \in 0..MaxTexts /\ batch_size \in 1..MaxBatch /\ offset \in Nat
    /\ result \in Seq(Int \cup {Stray})
    /\ phase \in {"embedding", "returned", "raised"} /\ exact \in BOOLEAN

EmbedderInv == EmbedderTypeOK /\ VectorsInPlace

LEMMA EmbedBatchKeeps ==
    ASSUME EmbedderInv, NEW count \in 0..MaxTexts, EmbedBatch(count)
    PROVE  EmbedderInv'
<1> USE BoundsAreNumbers
<1>1. EmbedderTypeOK'
  BY DEF EmbedderInv, EmbedderTypeOK, EmbedBatch
<1>2. VectorsInPlace'
  BY DEF EmbedBatch, VectorsInPlace, Least
<1> QED BY <1>1, <1>2 DEF EmbedderInv

LEMMA EmbedKeeps ==
    ASSUME EmbedderInv, Embed
    PROVE  EmbedderInv'
<1> USE BoundsAreNumbers
<1>1. CASE RequestBatch
  <2>1. offset < texts /\ phase = "embedding" /\ Len(result) = offset /\ offset \in Nat
    BY <1>1 DEF RequestBatch, EmbedderInv, EmbedderTypeOK, VectorsInPlace, Least
  <2>2. Count \in Nat /\ Least(offset + batch_size, texts) = offset + Count
    BY <2>1 DEF Count, Least, EmbedderInv, EmbedderTypeOK
  <2>3. PICK rows \in Replies(Count) :
          /\ exact' = (exact /\ ExactReply(rows, Count))
          /\ IF RightCount(rows, Count)
             THEN /\ \E embeddings \in Sorted(rows) : result' = result \o Placed(embeddings)
                  /\ offset' = offset + batch_size
                  /\ UNCHANGED phase
             ELSE /\ phase' = "raised"
                  /\ UNCHANGED <<result, offset>>
    BY <1>1 DEF RequestBatch
  <2>4. UNCHANGED <<texts, batch_size>>
    BY <1>1 DEF RequestBatch
  <2>5. exact' \in BOOLEAN /\ (exact' => exact /\ ExactReply(rows, Count))
    BY <2>3
  <2>6. CASE RightCount(rows, Count)
    <3>1. PICK embeddings \in Sorted(rows) : result' = result \o Placed(embeddings)
      BY <2>3, <2>6
    <3>2. offset' = offset + batch_size /\ phase' = phase
      BY <2>3, <2>6
    <3>3. embeddings \in [1..Count -> 1..Count \cup {Stray}]
      BY <2>2, <2>6, AsManySorted DEF RightCount
    <3>4. /\ Placed(embeddings) \in Seq(Int \cup {Stray})
          /\ Len(Placed(embeddings)) = Count
          /\ \A i \in 1..Count : Placed(embeddings)[i] =
                IF embeddings[i] = Stray THEN Stray ELSE offset + embeddings[i]
      BY <2>1, <2>2, <3>3 DEF Placed
    <3>5. result \in Seq(Int \cup {Stray})
      BY DEF EmbedderInv, EmbedderTypeOK
    <3>6. /\ result' \in Seq(Int \cup {Stray})
          /\ Len(result') = offset + Count
          /\ DOMAIN result' = 1..(offset + Count)
          /\ \A i \in 1..(offset + Count) :
                result'[i] = IF i <= offset THEN result[i] ELSE Placed(embeddings)[i - offset]
      <4> DEFINE more == Placed(embeddings)
      <4>1. more \in Seq(Int \cup {Stray}) /\ Len(more) = Count /\ Len(result) = offset
        BY <2>1, <3>4
      <4> HIDE DEF more
      <4>2. /\ result \o more \in Seq(Int \cup {Stray})
            /\ Len(result \o more) = offset + Count
            /\ \A i \in 1..(offset + Count) :
                  (result \o more)[i] = IF i <= offset THEN result[i] ELSE more[i - offset]
        BY <3>5, <4>1, ConcatProperties
      <4>3. DOMAIN (result \o more) = 1..(offset + Count)
        BY <4>2, LenProperties
      <4> QED BY <3>1, <4>2, <4>3 DEF more
    <3>7. EmbedderTypeOK'
      BY <2>4, <2>5, <3>2, <3>6 DEF EmbedderInv, EmbedderTypeOK
    <3>8. Len(result') = Least(offset', texts')
      BY <2>2, <2>4, <3>2, <3>6
    <3>9. ASSUME exact', NEW i \in DOMAIN result' PROVE result'[i] = i
      <4>1. i \in 1..(offset + Count) /\ DOMAIN result = 1..offset
        BY <2>1, <3>5, <3>6, <3>9
      <4>2. CASE i <= offset
        <5>1. result[i] = i
          BY <2>5, <3>9, <4>1, <4>2 DEF EmbedderInv, VectorsInPlace
        <5> QED BY <3>6, <4>1, <4>2, <5>1
      <4>3. CASE i > offset
        <5>1. i - offset \in 1..Count
          BY <2>1, <2>2, <4>1, <4>3
        <5>2. embeddings[i - offset] = i - offset
          BY <2>2, <2>5, <3>9, <5>1, SortedInPlace
        <5>3. i - offset # Stray
          BY <5>1, StrayIsNoNumber
        <5>4. result'[i] = Placed(embeddings)[i - offset]
          BY <2>1, <3>6, <4>1, <4>3
        <5>5. Placed(embeddings)[i - offset] = offset + (i - offset)
          BY <3>4, <5>1, <5>2, <5>3
        <5> QED BY <2>1, <4>1, <5>4, <5>5
      <4> QED BY <2>1, <4>1, <4>2, <4>3
    <3>10. VectorsInPlace'
      BY <2>1, <3>2, <3>8, <3>9 DEF VectorsInPlace
    <3> QED BY <3>7, <3>10 DEF EmbedderInv
  <2>7. CASE ~ RightCount(rows, Count)
    <3>1. phase' = "raised" /\ UNCHANGED <<result, offset>>
      BY <2>3, <2>7
    <3>2. EmbedderTypeOK'
      BY <2>4, <2>5, <3>1 DEF EmbedderInv, EmbedderTypeOK
    <3>3. VectorsInPlace'
      BY <2>5, <3>1 DEF EmbedderInv, VectorsInPlace
    <3> QED BY <3>2, <3>3 DEF EmbedderInv
  <2> QED BY <2>6, <2>7
<1>2. CASE RequestRaises
  BY <1>2 DEF RequestRaises, EmbedderInv, EmbedderTypeOK, VectorsInPlace
<1>3. CASE Return
  <2>1. Len(result) = texts
    BY <1>3 DEF Return, EmbedderInv, EmbedderTypeOK, VectorsInPlace, Least
  <2> QED BY <1>3, <2>1 DEF Return, EmbedderInv, EmbedderTypeOK, VectorsInPlace
<1> QED BY <1>1, <1>2, <1>3 DEF Embed

-----------------------------------------------------------------------------
(* Sums of tokens and the cut of a context.                                *)

SumsUp(lines, s, n) ==
    /\ s \in [0..n -> Nat]
    /\ s = [i \in 0..n |-> IF i = 0 THEN 0 ELSE s[i - 1] + lines[i]]

LEMMA SumsExist ==
    ASSUME NEW lines \in Seq(Nat), NEW n \in 0..Len(lines)
    PROVE  \E s : SumsUp(lines, s, n)
<1> DEFINE S == {k \in 0..n : \E s : SumsUp(lines, s, k)}
<1>1. n \in Nat /\ Len(lines) \in Nat /\ \A i \in 1..n : lines[i] \in Nat
  OBVIOUS
<1>2. 0 \in S
  <2>1. SumsUp(lines, [i \in 0..0 |-> 0], 0)
    BY DEF SumsUp
  <2> QED BY <1>1, <2>1
<1>3. ASSUME NEW k \in 0..(n - 1), k \in S PROVE k + 1 \in S
  <2>1. PICK s : SumsUp(lines, s, k)
    BY <1>3
  <2> DEFINE t == [i \in 0..(k + 1) |-> IF i = k + 1 THEN s[k] + lines[k + 1] ELSE s[i]]
  <2>2. s \in [0..k -> Nat] /\ k \in Nat /\ lines[k + 1] \in Nat
    BY <1>1, <2>1 DEF SumsUp
  <2>3. \A i \in 0..k : s[i] = IF i = 0 THEN 0 ELSE s[i - 1] + lines[i]
    BY <2>1 DEF SumsUp
  <2>4. t \in [0..(k + 1) -> Nat]
    BY <2>2
  <2>5. \A i \in 0..(k + 1) : t[i] = IF i = 0 THEN 0 ELSE t[i - 1] + lines[i]
    <3> TAKE i \in 0..(k + 1)
    <3>1. CASE i = k + 1
      BY <2>2, <3>1
    <3>2. CASE i # k + 1
      BY <2>2, <2>3, <3>2
    <3> QED BY <3>1, <3>2
  <2> HIDE DEF t
  <2>6. SumsUp(lines, t, k + 1)
    BY <2>4, <2>5 DEF SumsUp
  <2> QED BY <1>1, <2>6
<1> HIDE DEF S
<1>4. 0..n \subseteq S
  BY <1>1, <1>2, <1>3, Inductive
<1>5. n \in S
  BY <1>1, <1>4
<1> QED BY <1>5 DEF S

LEMMA SumsAgree ==
    ASSUME NEW lines \in Seq(Nat), NEW n \in Nat, NEW m \in Nat, NEW s, NEW t,
           SumsUp(lines, s, n), SumsUp(lines, t, m), NEW k \in Nat, k <= n, k <= m
    PROVE  s[k] = t[k]
<1> DEFINE S == {i \in 0..k : s[i] = t[i]}
<1>1. \A i \in 0..k : s[i] = IF i = 0 THEN 0 ELSE s[i - 1] + lines[i]
  BY DEF SumsUp
<1>2. \A i \in 0..k : t[i] = IF i = 0 THEN 0 ELSE t[i - 1] + lines[i]
  BY DEF SumsUp
<1>3. 0 \in S
  BY <1>1, <1>2
<1>4. ASSUME NEW i \in 0..(k - 1), i \in S PROVE i + 1 \in S
  <2>1. i + 1 \in 0..k /\ i + 1 # 0 /\ (i + 1) - 1 = i
    OBVIOUS
  <2>2. s[i + 1] = s[i] + lines[i + 1] /\ t[i + 1] = t[i] + lines[i + 1]
    BY <1>1, <1>2, <2>1
  <2> QED BY <1>4, <2>1, <2>2
<1> HIDE DEF S
<1>5. 0..k \subseteq S
  BY <1>3, <1>4, Inductive
<1>6. k \in S
  BY <1>5
<1> QED BY <1>6 DEF S

LEMMA SumToIsSum ==
    ASSUME NEW lines \in Seq(Nat), NEW n \in 0..Len(lines)
    PROVE  \E s : SumsUp(lines, s, n) /\ SumTo(lines, n) = s[n]
<1> DEFINE s == CHOOSE s : s = [i \in 0..n |-> IF i = 0 THEN 0 ELSE s[i - 1] + lines[i]]
<1>1. SumTo(lines, n) = s[n]
  BY DEF SumTo
<1>2. \E t : SumsUp(lines, t, n)
  BY SumsExist
<1>3. \E t : t = [i \in 0..n |-> IF i = 0 THEN 0 ELSE t[i - 1] + lines[i]]
  BY <1>2 DEF SumsUp
<1>4. s = [i \in 0..n |-> IF i = 0 THEN 0 ELSE s[i - 1] + lines[i]]
  BY <1>3
<1> HIDE DEF s
<1> DEFINE S == {k \in 0..n : s[k] \in Nat}
<1>5. \A i \in 0..n : s[i] = IF i = 0 THEN 0 ELSE s[i - 1] + lines[i]
  BY <1>4
<1>6. 0 \in S
  BY <1>5
<1>7. ASSUME NEW k \in 0..(n - 1), k \in S PROVE k + 1 \in S
  <2>1. k + 1 \in 0..n /\ k + 1 # 0 /\ (k + 1) - 1 = k /\ lines[k + 1] \in Nat
    OBVIOUS
  <2>2. s[k + 1] = s[k] + lines[k + 1]
    BY <1>5, <2>1
  <2> QED BY <1>7, <2>1, <2>2
<1>8. 0..n \subseteq S
  <2>1. n \in Nat
    OBVIOUS
  <2> HIDE DEF S
  <2> QED BY <1>6, <1>7, <2>1, Inductive
<1>9. s \in [0..n -> Nat]
  <2>1. \A k \in 0..n : s[k] \in Nat
    BY <1>8
  <2>2. DOMAIN s = 0..n
    BY <1>4
  <2>3. s = [k \in 0..n |-> s[k]]
    BY <1>4, <1>5
  <2> QED BY <2>1, <2>3
<1> QED BY <1>1, <1>4, <1>9 DEF SumsUp

\* What the sum of the first lines is, line by line.
LEMMA SumStep ==
    ASSUME NEW lines \in Seq(Nat)
    PROVE  /\ SumTo(lines, 0) = 0
           /\ \A k \in 0..Len(lines) : SumTo(lines, k) \in Nat
           /\ \A k \in 1..Len(lines) : SumTo(lines, k) = SumTo(lines, k - 1) + lines[k]
<1>1. SumTo(lines, 0) = 0
  <2>1. PICK s : SumsUp(lines, s, 0) /\ SumTo(lines, 0) = s[0]
    BY SumToIsSum
  <2> QED BY <2>1 DEF SumsUp
<1>2. ASSUME NEW k \in 0..Len(lines) PROVE SumTo(lines, k) \in Nat
  <2>1. PICK s : SumsUp(lines, s, k) /\ SumTo(lines, k) = s[k]
    BY SumToIsSum
  <2> QED BY <2>1 DEF SumsUp
<1>3. ASSUME NEW k \in 1..Len(lines) PROVE SumTo(lines, k) = SumTo(lines, k - 1) + lines[k]
  <2>1. PICK s : SumsUp(lines, s, k) /\ SumTo(lines, k) = s[k]
    BY SumToIsSum
  <2>2. k - 1 \in 0..Len(lines)
    OBVIOUS
  <2>3. PICK t : SumsUp(lines, t, k - 1) /\ SumTo(lines, k - 1) = t[k - 1]
    BY <2>2, SumToIsSum
  <2>4. s[k] = s[k - 1] + lines[k]
    BY <2>1 DEF SumsUp
  <2>5. s[k - 1] = t[k - 1]
    BY <2>1, <2>2, <2>3, SumsAgree
  <2> QED BY <2>1, <2>3, <2>4, <2>5
<1> QED BY <1>1, <1>2, <1>3

\* build_context stops somewhere: what it keeps is within the limit, and the
\* next line would not be.
LEMMA CutFits ==
    ASSUME NEW lines \in Seq(Nat)
    PROVE  /\ Cut(lines) \in 0..Len(lines)
           /\ SumTo(lines, Cut(lines)) <= context_token_limit
           /\ Cut(lines) = Len(lines) \/ SumTo(lines, Cut(lines) + 1) > context_token_limit
<1> DEFINE stops == {n \in 0..Len(lines) : n < Len(lines) =>
                        lines[n + 1] > 0 /\ SumTo(lines, n + 1) > context_token_limit}
           fits(n) == \A k \in 1..n : lines[k] = 0 \/ SumTo(lines, k) <= context_token_limit
<1>1. context_token_limit \in Nat
  BY OptionsArePositive
<1>2. \A k \in 1..Len(lines) : lines[k] \in Nat /\ SumTo(lines, k) \in Nat
  BY SumStep
<1>3. \E n \in stops : fits(n)
  <2>1. stops \in SUBSET Nat /\ stops # {}
    <3>1. Len(lines) \in stops
      OBVIOUS
    <3> QED BY <3>1
  <2>2. PICK n \in stops : \A m \in stops : n <= m
    <3> HIDE DEF stops
    <3> QED BY <2>1, LeastExists
  <2>3. ASSUME NEW k \in 1..n PROVE lines[k] = 0 \/ SumTo(lines, k) <= context_token_limit
    <3>1. k - 1 \in 0..Len(lines) /\ k - 1 < n /\ n <= Len(lines) /\ k - 1 < Len(lines) /\ (k - 1) + 1 = k
      OBVIOUS
    <3>2. k - 1 \notin stops
      BY <2>2, <3>1
    <3>3. ~ (lines[k] > 0 /\ SumTo(lines, k) > context_token_limit)
      BY <3>1, <3>2
    <3>4. k \in 1..Len(lines)
      BY <3>1
    <3> QED BY <1>1, <1>2, <3>3, <3>4
  <2> QED BY <2>3
<1> DEFINE n == Cut(lines)
<1>4. n \in stops /\ fits(n)
  BY <1>3 DEF Cut
<1> HIDE DEF n
<1>5. n \in 0..Len(lines) /\ (n = Len(lines) \/ SumTo(lines, n + 1) > context_token_limit)
  BY <1>4
<1>6. SumTo(lines, n) <= context_token_limit
  <2> DEFINE S == {k \in 0..n : SumTo(lines, k) <= context_token_limit}
  <2>1. 0 \in S
    BY <1>1, <1>5, SumStep
  <2>2. ASSUME NEW k \in 0..(n - 1), k \in S PROVE k + 1 \in S
    <3>1. k + 1 \in 1..n /\ k + 1 \in 1..Len(lines) /\ (k + 1) - 1 = k /\ k \in 0..Len(lines)
      BY <1>5
    <3>2. lines[k + 1] = 0 \/ SumTo(lines, k + 1) <= context_token_limit
      BY <1>4, <3>1
    <3>3. SumTo(lines, k + 1) = SumTo(lines, k) + lines[k + 1] /\ SumTo(lines, k) \in Nat
      BY <3>1, SumStep
    <3>4. SumTo(lines, k) <= context_token_limit
      BY <2>2
    <3> QED BY <1>1, <3>1, <3>2, <3>3, <3>4
  <2> HIDE DEF S
  <2>3. n \in Nat
    BY <1>5
  <2>4. 0..n \subseteq S
    BY <2>1, <2>2, <2>3, Inductive
  <2>5. n \in S
    BY <2>3, <2>4
  <2> QED BY <2>5 DEF S
<1> QED BY <1>5, <1>6 DEF n

LEMMA RelatedAre ==
    ASSUME NEW relations \in SUBSET Relation, IsFiniteSet(relations), NEW p \in Related(relations)
    PROVE  LET missing == relations \ {p[i] : i \in DOMAIN p}
           IN  /\ p \in Seq(Relation)
               /\ missing # {} => Len(p) = related_symbol_limit
               /\ \A r \in missing, k \in DOMAIN p : p[k].name <= r.name
<1> DEFINE key == [r \in relations |-> <<r.name, r.file>>]
           missing == relations \ {p[i] : i \in DOMAIN p}
<1>1. related_symbol_limit \in Nat
  BY OptionsArePositive
<1>2. p \in Firsts(key, related_symbol_limit) /\ DOMAIN key = relations
  BY DEF Related
<1>3. \A r \in relations : key[r] = <<r.name, r.file>> /\ r.name \in Nat
  BY DEF Relation
<1> HIDE DEF key
<1>4. /\ Cardinality(relations) \in Nat
      /\ p \in [1..Least(related_symbol_limit, Cardinality(relations)) -> relations]
      /\ \A x \in missing, i \in DOMAIN p : ~ Lexicographic(key[x], key[p[i]])
      /\ Cardinality(relations) <= related_symbol_limit => \A x \in relations : \E i \in DOMAIN p : p[i] = x
  BY <1>1, <1>2, FirstOnes
<1>5. Least(related_symbol_limit, Cardinality(relations)) \in Nat
  BY <1>1, <1>4 DEF Least
<1>6. p \in Seq(Relation) /\ Len(p) = Least(related_symbol_limit, Cardinality(relations))
  <2>1. p \in [1..Least(related_symbol_limit, Cardinality(relations)) -> Relation]
    BY <1>4
  <2> QED BY <1>5, <2>1
<1>7. ASSUME missing # {} PROVE Len(p) = related_symbol_limit
  <2>1. ~ (Cardinality(relations) <= related_symbol_limit)
    BY <1>4, <1>7
  <2> QED BY <1>1, <1>4, <1>6, <2>1 DEF Least
<1>8. ASSUME NEW r \in missing, NEW k \in DOMAIN p PROVE p[k].name <= r.name
  <2>1. p[k] \in relations /\ r \in relations
    BY <1>4
  <2>2. key[r] = <<r.name, r.file>> /\ key[p[k]] = <<p[k].name, p[k].file>>
        /\ r.name \in Nat /\ p[k].name \in Nat
    BY <1>3, <2>1
  <2>3. ~ Lexicographic(key[r], key[p[k]])
    BY <1>4
  <2>4. ~ (r.name < p[k].name)
    <3> SUFFICES ASSUME r.name < p[k].name PROVE FALSE
      OBVIOUS
    <3>1. 1 \in DOMAIN key[r] /\ key[r][1] < key[p[k]][1] /\ \A j \in 1..(1 - 1) : key[r][j] = key[p[k]][j]
      BY <2>2
    <3> QED BY <2>3, <3>1 DEF Lexicographic
  <2> QED BY <2>2, <2>4
<1> QED BY <1>6, <1>7, <1>8

LEMMA LinesAreNumbers ==
    ASSUME NEW s \in Symbol, NEW callers \in Seq(Relation), NEW callees \in Seq(Relation)
    PROVE  Lines(s, callers, callees) \in Seq(Nat)
<1> DEFINE listed(relations) ==
              IF relations = <<>> THEN <<>>
              ELSE <<1>> \o [i \in DOMAIN relations |-> relations[i].tokens]
<1>1. ASSUME NEW relations \in Seq(Relation) PROVE listed(relations) \in Seq(Nat)
  <2>1. /\ DOMAIN relations = 1..Len(relations) /\ Len(relations) \in Nat
        /\ \A i \in DOMAIN relations : relations[i] \in Relation
    OBVIOUS
  <2>2. [i \in DOMAIN relations |-> relations[i].tokens] \in Seq(Nat)
    BY <2>1 DEF Relation
  <2>3. <<1>> \in Seq(Nat) /\ <<>> \in Seq(Nat)
    OBVIOUS
  <2> QED BY <2>2, <2>3, ConcatProperties
<1>2. <<2, 2, s.signature, s.source>> \in Seq(Nat)
  BY DEF Symbol
<1>3. listed(callers) \in Seq(Nat) /\ listed(callees) \in Seq(Nat)
  BY <1>1
<1>4. Lines(s, callers, callees) = <<2, 2, s.signature, s.source>> \o listed(callers) \o listed(callees)
  BY DEF Lines
<1> HIDE DEF listed
<1> QED BY <1>2, <1>3, <1>4, ConcatProperties

-----------------------------------------------------------------------------
(* The invariant.                                                          *)

\* The modules are those of the corpus, each with its members and a summary
\* that was selected from them.
ModulesInv ==
    /\ DOMAIN modules = 1..Len(modules) /\ Len(modules) \in 0..MaxTexts
    /\ symbols # <<>> => Len(modules) > 0
    /\ \A i \in DOMAIN modules :
          /\ modules[i].members \subseteq Symbols
          /\ IsFiniteSet(modules[i].members) /\ modules[i].members # {}
          /\ modules[i].profile \in Selected(modules[i].members)

\* While build() waits there are no vectors and nothing was asked; vectors are
\* there for all modules or for none.
VectorsInv ==
    /\ building => symbols # <<>> /\ vectors = <<>> /\ answer = NoAnswer
    /\ vectors # <<>> => /\ ~ building /\ symbols # <<>>
                         /\ DOMAIN vectors = DOMAIN modules
                         /\ exact => \A i \in DOMAIN modules : vectors[i] = i

CorpusInv ==
    /\ symbols \in Seq(Symbols)
    /\ corpus_ready = (symbols # <<>>)
    /\ attached \in BOOLEAN /\ building \in BOOLEAN

RetrievalInv == EmbedderInv /\ CorpusInv /\ ModulesInv /\ VectorsInv

\* What holds of the answer stays as long as the answer and what it was made
\* from stay.
AnswerInv == BestFirst /\ AlwaysFinds /\ ContextsFit

LEMMA Initially ==
    ASSUME Init
    PROVE  RetrievalInv /\ AnswerInv
<1> USE BoundsAreNumbers
<1>1. EmbedderInv
  BY DEF Init, EmbedderInit, EmbedderInv, EmbedderTypeOK, VectorsInPlace, Least
<1>2. CorpusInv /\ VectorsInv
  <2>1. CorpusInv
    <3>1. symbols \in Seq(Symbols) /\ symbols = <<>>
      BY DEF Init
    <3>2. corpus_ready = FALSE /\ attached = FALSE /\ building = FALSE
      BY DEF Init
    <3>3. corpus_ready = (symbols # <<>>)
      BY <3>1, <3>2
    <3> QED BY <3>1, <3>2, <3>3 DEF CorpusInv
  <2>2. VectorsInv
    BY DEF Init, VectorsInv
  <2> QED BY <2>1, <2>2
<1>3. ModulesInv
  <2>1. modules = <<>> /\ symbols = <<>>
    BY DEF Init
  <2>2. DOMAIN <<>> = {} /\ Len(<<>>) = 0 /\ 1..0 = {}
    OBVIOUS
  <2> QED BY <2>1, <2>2 DEF ModulesInv
<1>4. ~ Answers
  BY DEF Init, Answers
<1> QED BY <1>1, <1>2, <1>3, <1>4 DEF RetrievalInv, AnswerInv, BestFirst, AlwaysFinds, ContextsFit

\* Where no answer is given, and where it stays with all it speaks of.
LEMMA AnswerReset ==
    ASSUME answer' = NoAnswer
    PROVE  AnswerInv'
  BY DEF AnswerInv, Answers, BestFirst, AlwaysFinds, ContextsFit

LEMMA AnswerStays ==
    ASSUME AnswerInv, UNCHANGED <<answer, modules, vectors, exact>>
    PROVE  AnswerInv'
<1>1. BestFirst'
  <2>1. BestFirst /\ answer' = answer /\ modules' = modules /\ vectors' = vectors /\ exact' = exact
    BY DEF AnswerInv
  <2> DEFINE taken == {answer.modules[i] : i \in DOMAIN answer.modules}
             shown == {answer.symbols[i].symbol : i \in DOMAIN answer.symbols}
             others == (UNION {modules[j].members : j \in taken}) \ shown
  <2>2. taken' = taken /\ shown' = shown /\ others' = others /\ Answers' = Answers
    BY <2>1 DEF Answers
  <2> SUFFICES ASSUME Answers', exact', vectors' # <<>>
               PROVE  /\ \A i \in taken', j \in DOMAIN modules' \ taken' :
                            answer'.query.modules[i] >= answer'.query.modules[j]
                      /\ answer'.ranked =>
                            \A s \in shown' : \E i \in taken' :
                               /\ s \in modules'[i].members
                               /\ \A t \in others' :
                                     answer'.query.symbols[s.name] >= answer'.query.symbols[t.name]
    BY DEF BestFirst
  <2>3. /\ \A i \in taken, j \in DOMAIN modules \ taken :
              answer.query.modules[i] >= answer.query.modules[j]
        /\ answer.ranked =>
              \A s \in shown : \E i \in taken :
                 /\ s \in modules[i].members
                 /\ \A t \in others : answer.query.symbols[s.name] >= answer.query.symbols[t.name]
    <3>1. BestFirst /\ Answers /\ exact /\ vectors # <<>>
      BY <2>1, <2>2
    <3> QED BY ONLY <3>1, Zenon DEF BestFirst
  <2> HIDE DEF taken, shown, others
  <2> QED BY <2>1, <2>2, <2>3
<1>2. AlwaysFinds'
  BY DEF AnswerInv, AlwaysFinds, Answers
<1>3. ContextsFit'
  BY DEF AnswerInv, ContextsFit, Answers
<1> QED BY <1>1, <1>2, <1>3 DEF AnswerInv

-----------------------------------------------------------------------------
(* Each action keeps it.                                                   *)

LEMMA BuildStartsKeeps ==
    ASSUME RetrievalInv, NEW indexed \in Corpora, BuildStarts(indexed)
    PROVE  RetrievalInv' /\ AnswerInv'
<1>1. IsCorpus(indexed) /\ symbols' = indexed /\ modules' \in Buckets(indexed)
  BY CorporaAreCorpora DEF BuildStarts
<1>2. ModulesInv'
  BY <1>1, BucketsOfCorpus DEF ModulesInv
<1>3. CorpusInv'
  BY <1>1 DEF RetrievalInv, CorpusInv, BuildStarts, BecomesReady, IsCorpus
<1>4. VectorsInv'
  BY DEF BuildStarts, VectorsInv
<1>5. EmbedderInv'
  <2>1. CASE indexed = <<>>
    <3>1. UNCHANGED embedderVars
      BY <2>1 DEF BuildStarts
    <3> QED BY <3>1 DEF RetrievalInv, EmbedderInv, EmbedderTypeOK, VectorsInPlace, embedderVars
  <2>2. CASE indexed # <<>>
    <3>1. EmbedBatch(Len(modules')) /\ Len(modules') \in 0..MaxTexts
      BY <1>2, <2>2 DEF BuildStarts, ModulesInv
    <3>2. EmbedderInv
      BY DEF RetrievalInv
    <3> QED BY <3>1, <3>2, EmbedBatchKeeps
  <2> QED BY <2>1, <2>2
<1>6. AnswerInv'
  BY AnswerReset DEF BuildStarts
<1> QED BY <1>2, <1>3, <1>4, <1>5, <1>6 DEF RetrievalInv

LEMMA EmbedSummariesKeeps ==
    ASSUME RetrievalInv, EmbedSummaries
    PROVE  RetrievalInv' /\ AnswerInv'
<1>1. EmbedderInv'
  BY EmbedKeeps DEF RetrievalInv, EmbedSummaries
<1>2. CorpusInv' /\ ModulesInv' /\ VectorsInv'
  BY DEF RetrievalInv, EmbedSummaries, retrievalVars, CorpusInv, ModulesInv, VectorsInv
<1>3. answer' = NoAnswer
  BY DEF RetrievalInv, VectorsInv, EmbedSummaries, retrievalVars
<1> QED BY <1>1, <1>2, <1>3, AnswerReset DEF RetrievalInv

LEMMA BuildEndsKeeps ==
    ASSUME RetrievalInv, BuildEnds
    PROVE  RetrievalInv' /\ AnswerInv'
<1>1. EmbedderInv'
  BY DEF RetrievalInv, BuildEnds, EmbedderInv, EmbedderTypeOK, VectorsInPlace, embedderVars
<1>2. CorpusInv' /\ ModulesInv'
  BY DEF RetrievalInv, BuildEnds, CorpusInv, ModulesInv
<1>3. answer' = NoAnswer /\ symbols' # <<>>
  BY DEF RetrievalInv, VectorsInv, BuildEnds
<1>4. result \in Seq(Int \cup {Stray}) /\ Len(result) = Len(modules) /\ DOMAIN modules = 1..Len(modules)
  BY DEF RetrievalInv, EmbedderInv, EmbedderTypeOK, BuildEnds, ModulesInv
<1>5. DOMAIN result = DOMAIN modules
  BY <1>4
<1>6. exact => \A i \in DOMAIN modules : result[i] = i
  BY <1>5 DEF RetrievalInv, EmbedderInv, VectorsInPlace
<1>7. VectorsInv'
  BY <1>3, <1>5, <1>6 DEF VectorsInv, BuildEnds, embedderVars
<1> QED BY <1>1, <1>2, <1>3, <1>7, AnswerReset DEF RetrievalInv

LEMMA BuildRaisesKeeps ==
    ASSUME RetrievalInv, BuildRaises
    PROVE  RetrievalInv' /\ AnswerInv'
<1>1. EmbedderInv'
  BY DEF RetrievalInv, BuildRaises, EmbedderInv, EmbedderTypeOK, VectorsInPlace, embedderVars
<1>2. CorpusInv' /\ ModulesInv' /\ VectorsInv'
  BY DEF RetrievalInv, BuildRaises, CorpusInv, ModulesInv, VectorsInv, embedderVars
<1>3. answer' = NoAnswer
  BY DEF RetrievalInv, VectorsInv, BuildRaises
<1> QED BY <1>1, <1>2, <1>3, AnswerReset DEF RetrievalInv

LEMMA AttachKeeps ==
    ASSUME RetrievalInv, AnswerInv, Attach
    PROVE  RetrievalInv' /\ AnswerInv'
<1>1. EmbedderInv'
  BY DEF RetrievalInv, Attach, EmbedderInv, EmbedderTypeOK, VectorsInPlace, embedderVars
<1>2. CorpusInv' /\ ModulesInv' /\ VectorsInv'
  BY DEF RetrievalInv, Attach, CorpusInv, ModulesInv, VectorsInv, embedderVars
<1>3. UNCHANGED <<answer, modules, vectors, exact>>
  BY DEF Attach, embedderVars
<1> QED BY <1>1, <1>2, <1>3, AnswerStays DEF RetrievalInv

\* A search leaves all but the answer as it is.
LEMMA SearchKeeps ==
    ASSUME RetrievalInv, UNCHANGED searchLeavesAlone, ~ building
    PROVE  RetrievalInv'
<1>1. EmbedderInv'
  BY DEF RetrievalInv, searchLeavesAlone, EmbedderInv, EmbedderTypeOK, VectorsInPlace, embedderVars
<1>2. CorpusInv' /\ ModulesInv' /\ VectorsInv'
  BY DEF RetrievalInv, searchLeavesAlone, CorpusInv, ModulesInv, VectorsInv, embedderVars
<1> QED BY <1>1, <1>2 DEF RetrievalInv

-----------------------------------------------------------------------------
(* The search.                                                             *)

LEMMA TopModules ==
    ASSUME RetrievalInv, symbols # <<>>, NEW query \in Queries, NEW top \in RankModules(query)
    PROVE  /\ top \in [DOMAIN top -> DOMAIN modules] /\ DOMAIN top # {}
           /\ IsFiniteSet(DOMAIN top)
           /\ exact /\ vectors # <<>> =>
                \A k \in DOMAIN top, j \in DOMAIN modules \ {top[i] : i \in DOMAIN top} :
                    query.modules[top[k]] >= query.modules[j]
<1> DEFINE key == [i \in DOMAIN modules |-> <<- ModuleScore(query, i), i>>]
           taken == {top[i] : i \in DOMAIN top}
<1>1. /\ DOMAIN modules = 1..Len(modules) /\ Len(modules) \in 0..MaxTexts /\ Len(modules) > 0
      /\ MaxTexts \in Nat /\ module_top_k \in Nat \ {0}
  BY BoundsAreNumbers, OptionsArePositive DEF RetrievalInv, ModulesInv
<1>2. IsFiniteSet(DOMAIN modules) /\ DOMAIN modules # {} /\ 1 \in DOMAIN modules
  <2>1. IsFiniteSet(1..Len(modules))
    BY <1>1, FS_Interval
  <2> QED BY <1>1, <2>1
<1>3. top \in Firsts(key, module_top_k) /\ DOMAIN key = DOMAIN modules
  BY DEF RankModules
<1>4. \A i \in DOMAIN modules : key[i] = <<- ModuleScore(query, i), i>>
  OBVIOUS
<1> HIDE DEF key
<1>5. /\ Cardinality(DOMAIN modules) \in Nat
      /\ top \in [1..Least(module_top_k, Cardinality(DOMAIN modules)) -> DOMAIN modules]
      /\ \A x \in DOMAIN modules \ taken, i \in DOMAIN top : ~ Lexicographic(key[x], key[top[i]])
  BY <1>1, <1>2, <1>3, FirstOnes
<1>6. 1 \in DOMAIN top
  BY <1>1, <1>2, <1>3, SomeOfThem
<1>7. IsFiniteSet(DOMAIN top)
  <2>1. Least(module_top_k, Cardinality(DOMAIN modules)) \in Nat
    BY <1>1, <1>5 DEF Least
  <2> QED BY <1>5, <2>1, FS_Interval
<1>8. ASSUME exact, vectors # <<>>, NEW k \in DOMAIN top, NEW j \in DOMAIN modules \ taken
      PROVE  query.modules[top[k]] >= query.modules[j]
  <2>1. top[k] \in DOMAIN modules /\ j \in DOMAIN modules
    BY <1>5
  <2>2. \A i \in DOMAIN modules : ModuleScore(query, i) = query.modules[i] /\ query.modules[i] \in Int
    <3> TAKE i \in DOMAIN modules
    <3>1. vectors[i] = i
      BY <1>8 DEF RetrievalInv, VectorsInv
    <3>2. i \in 1..MaxTexts
      BY <1>1
    <3>3. query.modules[i] \in Int
      BY <3>2, QueriesScore
    <3> QED BY <1>8, <3>1, <3>3 DEF ModuleScore
  <2> DEFINE a == query.modules[top[k]]
             b == query.modules[j]
  <2>3. key[j] = <<- b, j>> /\ key[top[k]] = <<- a, top[k]>> /\ a \in Int /\ b \in Int
    BY <1>4, <2>1, <2>2
  <2>4. ~ Lexicographic(key[j], key[top[k]])
    BY <1>5
  <2> HIDE DEF a, b
  <2>5. ~ (- b < - a)
    <3> SUFFICES ASSUME - b < - a PROVE FALSE
      OBVIOUS
    <3>1. 1 \in DOMAIN key[j] /\ key[j][1] < key[top[k]][1] /\ \A i \in 1..(1 - 1) : key[j][i] = key[top[k]][i]
      BY <2>3
    <3> QED BY <2>4, <3>1 DEF Lexicographic
  <2>6. a >= b
    BY <2>3, <2>5
  <2> QED BY <2>6 DEF a, b
<1> QED BY <1>5, <1>6, <1>7, <1>8

LEMMA TopSymbols ==
    ASSUME NEW query \in Queries, NEW candidates \in SUBSET Symbols, IsFiniteSet(candidates),
           candidates # {}, NEW ranked \in RankSymbols(query, candidates)
    PROVE  /\ ranked \in [DOMAIN ranked -> candidates] /\ ranked # <<>>
           /\ \A k \in DOMAIN ranked, t \in candidates \ {ranked[i] : i \in DOMAIN ranked} :
                 query.symbols[ranked[k].name] >= query.symbols[t.name]
<1> DEFINE key == [s \in candidates |->
                      <<- query.symbols[s.name], s.module, s.name, s.file, s.line>>]
           shown == {ranked[i] : i \in DOMAIN ranked}
<1>1. symbol_top_k \in Nat \ {0}
  BY OptionsArePositive
<1>2. ranked \in Firsts(key, symbol_top_k) /\ DOMAIN key = candidates
  BY DEF RankSymbols
<1>3. \A s \in candidates :
          /\ key[s] = <<- query.symbols[s.name], s.module, s.name, s.file, s.line>>
          /\ query.symbols[s.name] \in Int
  BY QueriesScore
<1> HIDE DEF key
<1>4. /\ ranked \in [1..Least(symbol_top_k, Cardinality(candidates)) -> candidates]
      /\ \A x \in candidates \ shown, i \in DOMAIN ranked : ~ Lexicographic(key[x], key[ranked[i]])
  BY <1>1, <1>2, FirstOnes
<1>5. 1 \in DOMAIN ranked
  BY <1>1, <1>2, SomeOfThem
<1>6. ASSUME NEW k \in DOMAIN ranked, NEW t \in candidates \ shown
      PROVE  query.symbols[ranked[k].name] >= query.symbols[t.name]
  <2>1. ranked[k] \in candidates
    BY <1>4
  <2> DEFINE s == ranked[k]
             a == query.symbols[s.name]
             b == query.symbols[t.name]
  <2>2. /\ key[t] = <<- b, t.module, t.name, t.file, t.line>>
        /\ key[s] = <<- a, s.module, s.name, s.file, s.line>>
        /\ a \in Int /\ b \in Int
    BY <1>3, <2>1
  <2>3. ~ Lexicographic(key[t], key[s])
    BY <1>4
  <2> HIDE DEF s, a, b
  <2>4. ~ (- b < - a)
    <3> SUFFICES ASSUME - b < - a PROVE FALSE
      OBVIOUS
    <3>1. 1 \in DOMAIN key[t] /\ key[t][1] < key[s][1] /\ \A i \in 1..(1 - 1) : key[t][i] = key[s][i]
      BY <2>2
    <3> QED BY <2>3, <3>1 DEF Lexicographic
  <2>5. a >= b
    BY <2>2, <2>4
  <2> QED BY <2>5 DEF a, b, s
<1>7. ranked \in [DOMAIN ranked -> candidates]
  BY <1>4
<1>8. ranked # <<>>
  <2>1. DOMAIN <<>> = {}
    OBVIOUS
  <2> QED BY <1>5, <2>1
<1> QED BY <1>6, <1>7, <1>8

\* A symbol that is shown has a context that fits.
LEMMA ContextOf ==
    ASSUME NEW s \in Symbols, NEW c \in Contexts(s)
    PROVE  LET lines == Lines(c.symbol, c.callers, c.callees)
               missing == c.symbol.callers \ {c.callers[k] : k \in DOMAIN c.callers}
           IN  /\ SumTo(lines, c.kept) <= context_token_limit
               /\ c.kept = Len(lines) \/ SumTo(lines, c.kept + 1) > context_token_limit
               /\ missing # {} => Len(c.callers) = related_symbol_limit
               /\ \A r \in missing, k \in DOMAIN c.callers : c.callers[k].name <= r.name
<1>1. PICK callers \in Related(s.callers), callees \in Related(s.callees) :
          c = [symbol |-> s, callers |-> callers, callees |-> callees,
               kept |-> Cut(Lines(s, callers, callees))]
  BY DEF Contexts
<1>2. s \in Symbol /\ IsFiniteSet(s.callers) /\ IsFiniteSet(s.callees)
  BY CorporaAreOfSymbols
<1>3. s.callers \in SUBSET Relation /\ s.callees \in SUBSET Relation
  BY <1>2 DEF Symbol
<1>4. callers \in Seq(Relation) /\ callees \in Seq(Relation)
  BY <1>1, <1>2, <1>3, RelatedAre
<1>5. Lines(s, callers, callees) \in Seq(Nat)
  BY <1>2, <1>4, LinesAreNumbers
<1>6. LET missing == s.callers \ {callers[k] : k \in DOMAIN callers}
      IN  /\ missing # {} => Len(callers) = related_symbol_limit
          /\ \A r \in missing, k \in DOMAIN callers : callers[k].name <= r.name
  BY <1>1, <1>2, <1>3, RelatedAre
<1>7. c.symbol = s /\ c.callers = callers /\ c.callees = callees /\ c.kept = Cut(Lines(s, callers, callees))
  BY <1>1
<1> QED BY <1>5, <1>6, <1>7, CutFits

LEMMA RetrieveKeeps ==
    ASSUME RetrievalInv, NEW query \in Queries, NEW store \in {"disabled", "answers"},
           Retrieve(query, store)
    PROVE  RetrievalInv' /\ AnswerInv'
<1>1. corpus_ready /\ ~ building /\ symbols # <<>>
  BY DEF Retrieve, Asked, RetrievalInv, CorpusInv
<1>2. UNCHANGED searchLeavesAlone /\ UNCHANGED <<modules, vectors, exact>>
  BY DEF Retrieve, searchLeavesAlone, embedderVars
<1>3. RetrievalInv'
  BY <1>1, <1>2, SearchKeeps
<1>4. PICK top \in RankModules(query) :
      \E ranked \in RankSymbols(query, UNION {modules[top[i]].members : i \in DOMAIN top}) :
      \E hits \in IF store = "answers" THEN Hits ELSE {<<>>} :
      LET found == Found(hits, ranked) IN
      \E contexts \in [DOMAIN found -> UNION {Contexts(found[i]) : i \in DOMAIN found}] :
         /\ \A i \in DOMAIN found : contexts[i].symbol = found[i]
         /\ answer' = [outcome |-> "ok", query |-> query, store |-> store, modules |-> top,
                       ranked |-> hits = <<>>, symbols |-> contexts]
  BY DEF Retrieve
<1> DEFINE candidates == UNION {modules[top[i]].members : i \in DOMAIN top}
           taken == {top[i] : i \in DOMAIN top}
<1>5. PICK ranked \in RankSymbols(query, candidates),
           hits \in IF store = "answers" THEN Hits ELSE {<<>>} :
      LET found == Found(hits, ranked) IN
      \E contexts \in [DOMAIN found -> UNION {Contexts(found[i]) : i \in DOMAIN found}] :
         /\ \A i \in DOMAIN found : contexts[i].symbol = found[i]
         /\ answer' = [outcome |-> "ok", query |-> query, store |-> store, modules |-> top,
                       ranked |-> hits = <<>>, symbols |-> contexts]
  BY <1>4
<1> DEFINE found == Found(hits, ranked)
<1>6. PICK contexts \in [DOMAIN found -> UNION {Contexts(found[i]) : i \in DOMAIN found}] :
         /\ \A i \in DOMAIN found : contexts[i].symbol = found[i]
         /\ answer' = [outcome |-> "ok", query |-> query, store |-> store, modules |-> top,
                       ranked |-> hits = <<>>, symbols |-> contexts]
  BY <1>5
<1>7. /\ top \in [DOMAIN top -> DOMAIN modules] /\ DOMAIN top # {} /\ IsFiniteSet(DOMAIN top)
      /\ exact /\ vectors # <<>> =>
           \A k \in DOMAIN top, j \in DOMAIN modules \ taken :
               query.modules[top[k]] >= query.modules[j]
  BY <1>1, <1>4, TopModules
<1>8. \A i \in DOMAIN modules :
          /\ modules[i].members \subseteq Symbols
          /\ IsFiniteSet(modules[i].members) /\ modules[i].members # {}
  BY DEF RetrievalInv, ModulesInv
<1>9. candidates \in SUBSET Symbols /\ candidates # {} /\ IsFiniteSet(candidates)
  <2> DEFINE family == {modules[top[i]].members : i \in DOMAIN top}
  <2>1. candidates \in SUBSET Symbols
    BY <1>7, <1>8
  <2>2. candidates # {}
    <3>1. PICK k \in DOMAIN top : TRUE
      BY <1>7
    <3>2. top[k] \in DOMAIN modules
      BY <1>7
    <3>3. PICK s \in modules[top[k]].members : TRUE
      BY <1>8, <3>2
    <3>4. s \in candidates
      BY <3>3
    <3> QED BY <3>4
  <2>3. IsFiniteSet(family)
    <3> DEFINE f == [i \in DOMAIN top |-> modules[top[i]].members]
    <3>1. f \in [DOMAIN top -> family] /\ \A t \in family : \E i \in DOMAIN top : f[i] = t
      OBVIOUS
    <3> HIDE DEF f, family
    <3> QED BY <1>7, <3>1, ImageOfFinite
  <2>4. \A T \in family : IsFiniteSet(T)
    BY <1>7, <1>8
  <2>5. IsFiniteSet(UNION family)
    <3> HIDE DEF family
    <3> QED BY <2>3, <2>4, FS_UNION
  <2> QED BY <2>1, <2>2, <2>5
<1> HIDE DEF candidates
<1>10. /\ ranked \in [DOMAIN ranked -> candidates] /\ ranked # <<>>
       /\ \A k \in DOMAIN ranked, t \in candidates \ {ranked[i] : i \in DOMAIN ranked} :
             query.symbols[ranked[k].name] >= query.symbols[t.name]
  BY <1>5, <1>9, TopSymbols
<1>11. hits # <<>> => \E n \in Nat \ {0} : hits \in [1..n -> Symbols]
  <2> SUFFICES ASSUME hits # <<>> PROVE \E n \in Nat \ {0} : hits \in [1..n -> Symbols]
    OBVIOUS
  <2>1. hits \in Hits
    BY <1>5
  <2>2. PICK n \in 0..symbol_top_k : hits \in [1..n -> Points]
    BY <2>1 DEF Hits
  <2>3. n # 0
    <3> SUFFICES ASSUME n = 0 PROVE hits = <<>>
      OBVIOUS
    <3>1. hits \in [1..0 -> Points] /\ 1..0 = {}
      BY <2>2
    <3> QED BY <3>1
  <2>4. hits \in [1..n -> Symbols]
    BY <2>2, CorporaAreOfSymbols
  <2>5. n \in Nat
    BY <2>2, OptionsArePositive
  <2> QED BY <2>3, <2>4, <2>5
<1>12. DOMAIN found # {} /\ \A i \in DOMAIN found : found[i] \in Symbols
  <2>1. CASE hits # <<>>
    <3>1. found = hits
      BY <2>1 DEF Found
    <3>2. PICK n \in Nat \ {0} : hits \in [1..n -> Symbols]
      BY <1>11, <2>1
    <3>3. 1 \in 1..n
      BY <3>2
    <3> HIDE DEF found
    <3> QED BY <3>1, <3>2, <3>3
  <2>2. CASE hits = <<>>
    <3>1. found = ranked
      BY <2>2 DEF Found
    <3>2. DOMAIN ranked # {}
      <4> SUFFICES ASSUME DOMAIN ranked = {} PROVE ranked = <<>>
        BY <1>10
      <4> QED BY <1>10
    <3> HIDE DEF found
    <3> QED BY <1>9, <1>10, <3>1, <3>2
  <2> QED BY <2>1, <2>2
<1>13. /\ answer'.query = query /\ answer'.modules = top /\ answer'.ranked = (hits = <<>>)
       /\ answer'.symbols = contexts /\ answer'.outcome = "ok"
  BY <1>6
<1>14. hits = <<>> => found = ranked
  BY DEF Found
<1> HIDE DEF found
<1>15. BestFirst'
  <2> SUFFICES ASSUME exact, vectors # <<>>
               PROVE  LET shown == {answer'.symbols[i].symbol : i \in DOMAIN answer'.symbols}
                          among == {answer'.modules[i] : i \in DOMAIN answer'.modules}
                      IN  /\ \A i \in among, j \in DOMAIN modules' \ among :
                               answer'.query.modules[i] >= answer'.query.modules[j]
                          /\ answer'.ranked =>
                               \A s \in shown : \E i \in among :
                                  /\ s \in modules'[i].members
                                  /\ \A t \in (UNION {modules'[j].members : j \in among}) \ shown :
                                        answer'.query.symbols[s.name] >= answer'.query.symbols[t.name]
    BY <1>2 DEF BestFirst
  <2> DEFINE shown == {contexts[i].symbol : i \in DOMAIN contexts}
  <2>1. \A i \in taken, j \in DOMAIN modules \ taken : query.modules[i] >= query.modules[j]
    BY <1>7
  <2>2. candidates = UNION {modules[j].members : j \in taken}
    BY DEF candidates
  <2>3. ASSUME hits = <<>>, NEW s \in shown
        PROVE  \E i \in taken :
                  /\ s \in modules[i].members
                  /\ \A t \in candidates \ shown : query.symbols[s.name] >= query.symbols[t.name]
    <3>1. shown = {ranked[i] : i \in DOMAIN ranked}
      BY <1>6, <1>14, <2>3
    <3>2. PICK k \in DOMAIN ranked : s = ranked[k]
      BY <2>3, <3>1
    <3>3. s \in candidates
      BY <1>10, <3>2
    <3>4. PICK i \in taken : s \in modules[i].members
      BY <2>2, <3>3
    <3>5. \A t \in candidates \ shown : query.symbols[s.name] >= query.symbols[t.name]
      BY <1>10, <3>1, <3>2
    <3> QED BY <3>4, <3>5
  <2>4. modules' = modules /\ answer'.modules = top /\ answer'.symbols = contexts
    BY <1>2, <1>13
  <2> DEFINE Top == {answer'.modules[i] : i \in DOMAIN answer'.modules}
             Shown == {answer'.symbols[i].symbol : i \in DOMAIN answer'.symbols}
  <2>5. Top = taken /\ Shown = shown /\ UNION {modules'[j].members : j \in Top} = candidates
    BY <2>2, <2>4
  <2> HIDE DEF taken, shown, Top, Shown
  <2>6. /\ \A i \in Top, j \in DOMAIN modules' \ Top :
               answer'.query.modules[i] >= answer'.query.modules[j]
        /\ answer'.ranked =>
               \A s \in Shown : \E i \in Top :
                  /\ s \in modules'[i].members
                  /\ \A t \in (UNION {modules'[j].members : j \in Top}) \ Shown :
                        answer'.query.symbols[s.name] >= answer'.query.symbols[t.name]
    <3>1. \A i \in Top, j \in DOMAIN modules' \ Top :
             answer'.query.modules[i] >= answer'.query.modules[j]
      BY <1>13, <2>1, <2>4, <2>5
    <3>2. ASSUME answer'.ranked, NEW s \in Shown
          PROVE  \E i \in Top : s \in modules'[i].members /\
                    \A t \in (UNION {modules'[j].members : j \in Top}) \ Shown :
                        answer'.query.symbols[s.name] >= answer'.query.symbols[t.name]
      <4>1. PICK i \in taken : s \in modules[i].members /\
                \A t \in candidates \ shown : query.symbols[s.name] >= query.symbols[t.name]
        BY <1>13, <2>3, <2>5, <3>2
      <4>2. (UNION {modules'[j].members : j \in Top}) \ Shown = candidates \ shown
        BY <2>5
      <4>3. \A t \in (UNION {modules'[j].members : j \in Top}) \ Shown :
                answer'.query.symbols[s.name] >= answer'.query.symbols[t.name]
        BY ONLY <1>13, <4>1, <4>2, Zenon
      <4>4. i \in Top /\ s \in modules'[i].members
        BY <2>4, <2>5, <4>1
      <4> QED BY <4>3, <4>4
    <3> QED BY <3>1, <3>2
  <2> QED BY ONLY <2>6, Zenon DEF Top, Shown
<1>16. AlwaysFinds'
  <2>1. DOMAIN contexts # {}
    BY <1>6, <1>12
  <2>2. contexts # <<>>
    <3>1. DOMAIN <<>> = {}
      OBVIOUS
    <3> QED BY <2>1, <3>1
  <2> QED BY <1>13, <2>2 DEF AlwaysFinds
<1>17. ContextsFit'
  <2>1. ASSUME NEW i \in DOMAIN contexts
        PROVE  LET c == contexts[i]
                   lines == Lines(c.symbol, c.callers, c.callees)
                   missing == c.symbol.callers \ {c.callers[k] : k \in DOMAIN c.callers}
               IN  /\ SumTo(lines, c.kept) <= context_token_limit
                   /\ c.kept = Len(lines) \/ SumTo(lines, c.kept + 1) > context_token_limit
                   /\ missing # {} => Len(c.callers) = related_symbol_limit
                   /\ \A r \in missing, k \in DOMAIN c.callers : c.callers[k].name <= r.name
    <3>1. PICK j \in DOMAIN found : contexts[i] \in Contexts(found[j])
      BY <1>6
    <3>2. found[j] \in Symbols
      BY <1>12
    <3> QED BY <3>1, <3>2, ContextOf
  <2> SUFFICES ASSUME Answers'
               PROVE  \A i \in DOMAIN answer'.symbols :
                        LET c == answer'.symbols[i]
                            lines == Lines(c.symbol, c.callers, c.callees)
                            missing == c.symbol.callers \ {c.callers[k] : k \in DOMAIN c.callers}
                        IN  /\ SumTo(lines, c.kept) <= context_token_limit
                            /\ c.kept = Len(lines) \/ SumTo(lines, c.kept + 1) > context_token_limit
                            /\ missing # {} => Len(c.callers) = related_symbol_limit
                            /\ \A r \in missing, k \in DOMAIN c.callers : c.callers[k].name <= r.name
    BY Zenon DEF ContextsFit
  <2> QED BY <1>13, <2>1, Zenon
<1> QED BY <1>3, <1>15, <1>16, <1>17 DEF AnswerInv

-----------------------------------------------------------------------------
(* The theorems.                                                           *)

LEMMA NextKeeps ==
    ASSUME RetrievalInv, AnswerInv, [Next]_vars
    PROVE  RetrievalInv' /\ AnswerInv'
<1>1. CASE UNCHANGED vars
  <2>1. EmbedderInv'
    BY <1>1 DEF RetrievalInv, vars, EmbedderInv, EmbedderTypeOK, VectorsInPlace, embedderVars
  <2>2. CorpusInv' /\ ModulesInv' /\ VectorsInv'
    BY <1>1 DEF RetrievalInv, vars, retrievalVars, CorpusInv, ModulesInv, VectorsInv, embedderVars
  <2>3. UNCHANGED <<answer, modules, vectors, exact>>
    BY <1>1 DEF vars, retrievalVars, embedderVars
  <2> QED BY <2>1, <2>2, <2>3, AnswerStays DEF RetrievalInv
<1>2. CASE \E indexed \in Corpora : BuildStarts(indexed)
  BY <1>2, BuildStartsKeeps
<1>3. CASE EmbedSummaries
  BY <1>3, EmbedSummariesKeeps
<1>4. CASE BuildEnds
  BY <1>4, BuildEndsKeeps
<1>5. CASE BuildRaises
  BY <1>5, BuildRaisesKeeps
<1>6. CASE Attach
  BY <1>6, AttachKeeps
<1>7. ASSUME NEW query \in Queries, NEW store \in {"disabled", "answers"}, Retrieve(query, store)
      PROVE  RetrievalInv' /\ AnswerInv'
  BY <1>7, RetrieveKeeps
<1>8. ASSUME NEW query \in Queries, NEW store \in {"not asked", "unreachable"},
             RetrieveRaises(query, store)
      PROVE  RetrievalInv' /\ AnswerInv'
  <2>1. UNCHANGED searchLeavesAlone /\ ~ building
    BY <1>8 DEF RetrieveRaises, Asked
  <2>2. ~ Answers'
    BY <1>8 DEF RetrieveRaises, Answers
  <2>3. AnswerInv'
    BY <2>2 DEF AnswerInv, BestFirst, AlwaysFinds, ContextsFit
  <2> QED BY <2>1, <2>3, SearchKeeps
<1>9. CASE Answered
  <2>1. UNCHANGED searchLeavesAlone /\ ~ building /\ answer' = NoAnswer
    BY <1>9 DEF Answered, RetrievalInv, VectorsInv
  <2> QED BY <2>1, SearchKeeps, AnswerReset
<1> QED BY <1>1, <1>2, <1>3, <1>4, <1>5, <1>6, <1>7, <1>8, <1>9 DEF Next

LEMMA Always == Spec => [](RetrievalInv /\ AnswerInv)
<1>1. Init => RetrievalInv /\ AnswerInv
  BY Initially
<1>2. RetrievalInv /\ AnswerInv /\ [Next]_vars => (RetrievalInv /\ AnswerInv)'
  BY NextKeeps
<1> QED BY <1>1, <1>2, PTL DEF Spec

\* The embedder returns one vector for each text, each in its text's place
\* when the backend's replies are right, for any number of texts, batches and
\* replies (embedder.cpp:91-115, 207-237).
THEOREM VectorsStandInPlace == Spec => []VectorsInPlace
<1>1. RetrievalInv => VectorsInPlace
  BY DEF RetrievalInv, EmbedderInv
<1> QED BY <1>1, Always, PTL

\* The modules an answer searched and the symbols it ranked are the best ones
\* for its query (hierarchy.cpp:109-147, 312-380).
THEOREM AnswersAreBest == Spec => []BestFirst
<1>1. AnswerInv => BestFirst
  BY DEF AnswerInv
<1> QED BY <1>1, Always, PTL

\* No answer is without a symbol (retriever.cpp:110-135).
THEOREM AnswersAreFound == Spec => []AlwaysFinds
<1>1. AnswerInv => AlwaysFinds
  BY DEF AnswerInv
<1> QED BY <1>1, Always, PTL

\* What is shown of a symbol fills the limit of tokens and stays in it, and no
\* relation is dropped while there is room (retriever.cpp:153-267).
THEOREM ContextsAreCut == Spec => []ContextsFit
<1>1. AnswerInv => ContextsFit
  BY DEF AnswerInv
<1> QED BY <1>1, Always, PTL

\* Summaries name all symbols of a module's headers before any other
\* (hierarchy.cpp:233-286).
THEOREM SummariesNameHeadersFirst == Spec => []HeadersFirst
<1>1. ASSUME RetrievalInv PROVE HeadersFirst
  <2> SUFFICES ASSUME NEW i \in DOMAIN modules,
                      NEW k \in DOMAIN modules[i].profile, ~ IsHeader(modules[i].profile[k]),
                      NEW s \in modules[i].members, IsHeader(s)
               PROVE  \E j \in DOMAIN modules[i].profile : modules[i].profile[j] = s
    BY DEF HeadersFirst
  <2>1. /\ modules[i].members \in SUBSET Symbols /\ IsFiniteSet(modules[i].members)
        /\ modules[i].profile \in Selected(modules[i].members)
    BY <1>1 DEF RetrievalInv, ModulesInv
  <2> QED BY <2>1, HeadersAreChosen
<1>2. RetrievalInv => HeadersFirst
  BY <1>1
<1> QED BY <1>2, Always, PTL

-----------------------------------------------------------------------------
(* The refinement.                                                         *)

LEMMA NextImplementsRetriever ==
    ASSUME RetrievalInv, [Next]_vars
    PROVE  [R!RetrieverNext(Files)]_(R!retrieverVars)
<1> DEFINE filesOf(c) == {c[i].file : i \in DOMAIN c}
<1>1. ASSUME NEW c \in Seq(Symbols)
      PROVE  filesOf(c) \in SUBSET Files /\ (c # <<>> <=> filesOf(c) # {})
  <2>1. DOMAIN c = 1..Len(c) /\ Len(c) \in Nat /\ \A i \in DOMAIN c : c[i] \in Symbols
    OBVIOUS
  <2>2. filesOf(c) \in SUBSET Files
    BY <2>1 DEF Files
  <2>3. c # <<>> => 1 \in DOMAIN c
    BY <2>1
  <2>4. c = <<>> => DOMAIN c = {}
    OBVIOUS
  <2> QED BY <2>2, <2>3, <2>4
<1>2. CASE UNCHANGED vars
  BY <1>2 DEF vars, retrievalVars, R!retrieverVars
<1>3. ASSUME NEW indexed \in Corpora, BuildStarts(indexed)
      PROVE  R!RetrieverNext(Files)
  <2>1. indexed \in Seq(Symbols)
    BY CorporaAreCorpora DEF IsCorpus
  <2>2. /\ symbols' = indexed /\ corpus_ready' = (indexed # <<>>) /\ vectors' = <<>>
        /\ attached' = attached
    BY <1>3 DEF BuildStarts, BecomesReady
  <2>3. filesOf(indexed) \in SUBSET Files /\ (indexed # <<>> <=> filesOf(indexed) # {})
    BY <1>1, <2>1
  <2>4. CASE indexed = <<>>
    <3>1. R!Build(filesOf(indexed))
      BY <2>2, <2>3, <2>4 DEF R!Build
    <3> QED BY <2>2, <2>3, <3>1 DEF R!RetrieverNext
  <2>5. CASE indexed # <<>>
    <3>1. R!BuildRaises(filesOf(indexed))
      BY <2>2, <2>3, <2>5 DEF R!BuildRaises
    <3> QED BY <2>2, <2>3, <3>1 DEF R!RetrieverNext
  <2> QED BY <2>4, <2>5
<1>4. CASE BuildEnds
  <2>1. /\ symbols \in Seq(Symbols) /\ symbols # <<>> /\ corpus_ready /\ Len(modules) > 0
        /\ corpus_ready = (symbols # <<>>)
    BY <1>4 DEF BuildEnds, RetrievalInv, VectorsInv, CorpusInv, ModulesInv
  <2>2. /\ symbols' = symbols /\ corpus_ready' = corpus_ready /\ attached' = attached
        /\ vectors' = result /\ Len(result) = Len(modules)
    BY <1>4 DEF BuildEnds
  <2>3. vectors' # <<>>
    <3>1. Len(<<>>) = 0
      OBVIOUS
    <3> QED BY <2>1, <2>2, <3>1
  <2>4. filesOf(symbols) \in SUBSET Files /\ filesOf(symbols) # {}
    BY <1>1, <2>1
  <2> DEFINE indexed == filesOf(symbols)
  <2>5. /\ filesOf(symbols)' = indexed /\ corpus_ready' = (indexed # {})
        /\ (vectors # <<>>)' = (indexed # {}) /\ indexed \in SUBSET Files /\ attached' = attached
    BY <2>1, <2>2, <2>3, <2>4
  <2> HIDE DEF indexed
  <2> QED BY <2>5 DEF R!RetrieverNext, R!Build
<1>5. CASE Attach
  BY <1>5 DEF Attach, R!RetrieverNext, R!AttachStorage
<1>6. ASSUME UNCHANGED <<symbols, corpus_ready, vectors, attached>>
      PROVE  UNCHANGED R!retrieverVars
  BY <1>6 DEF R!retrieverVars
<1>7. CASE EmbedSummaries \/ BuildRaises \/ Answered
  BY <1>6, <1>7 DEF EmbedSummaries, BuildRaises, Answered, retrievalVars, searchLeavesAlone
<1>8. ASSUME NEW query \in Queries, NEW store,
             Retrieve(query, store) \/ RetrieveRaises(query, store)
      PROVE  UNCHANGED R!retrieverVars
  BY <1>6, <1>8 DEF Retrieve, RetrieveRaises, searchLeavesAlone
<1> QED BY <1>2, <1>3, <1>4, <1>5, <1>7, <1>8 DEF Next

\* The index and the embeddings behind it are the Retriever that the server
\* relies on: a build that starts is one that may raise, until it ends.
THEOREM RetrievalImplementsRetriever == Spec => ImplementsRetriever
<1>1. Init => R!RetrieverInit
  BY DEF Init, R!RetrieverInit
<1>2. RetrievalInv /\ [Next]_vars => [R!RetrieverNext(Files)]_(R!retrieverVars)
  BY NextImplementsRetriever
<1> QED BY <1>1, <1>2, Always, PTL DEF Spec, ImplementsRetriever

=============================================================================
