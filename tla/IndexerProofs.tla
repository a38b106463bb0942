---------------------------- MODULE IndexerProofs ----------------------------
(***************************************************************************)
(* The safety properties of Indexer, for any files, names, contents and    *)
(* bound on the ids.                                                       *)
(*                                                                         *)
(* IndexInv is inductive.  What makes it so: no id in use reaches next     *)
(* (Counting), the rows of a file lie one behind the other as the pass     *)
(* numbered them (Readings), and an edge joins files that one pass wrote   *)
(* (Passes).  A pass that syncs its vectors has marked its files stale and *)
(* has their rows at hand (Syncs).                                         *)
(***************************************************************************)
EXTENDS Indexer, FiniteSetTheorems, SequenceTheorems, WellFoundedInduction, TLAPS

Counting ==
    /\ next <= MaxId + 1
    /\ \A s \in symbols : s.id <= MaxId
    /\ phase = "down" => pass = Idle /\ recorded = {}
    /\ phase # "down" => /\ \A s \in symbols : s.id < next
                         /\ \A r \in recorded : r.id < next

IdsDiffer == \A s, t \in symbols : s.id = t.id => s = t

RowsOf(f) == {s \in symbols : s.file = f}

ReadAt(f, base) ==
    {[id |-> base + i, file |-> f, name |-> stored[f][i].name] : i \in DOMAIN stored[f]}

Readings ==
    \A f \in Files :
        /\ \E last \in Nat : DOMAIN stored[f] \subseteq 1..last
        /\ \E base \in Nat : RowsOf(f) = ReadAt(f, base)

Passes ==
    /\ \A f \in Files : together[f] # {} => f \in together[f]
    /\ \A e \in calls, s, t \in symbols :
          s.id = e.from /\ t.id = e.to =>
              together[s.file] = together[t.file] /\ t.file \in together[s.file]

Syncs ==
    /\ pass # Idle => pass.todo \subseteq pass.doomed
    /\ pass.step = "parse" =>
          \A i \in DOMAIN pass.pending : pass.pending[i].file \in pass.doomed
    /\ pass.step = "delete_vectors" =>
          /\ pass.rows = {s \in symbols : s.file \in pass.doomed}
          /\ pass.doomed \subseteq stale
          /\ \A p \in points : p.file \in pass.doomed => p.file \in pass.todo

\* What is said of the graph and its history alone.
GraphInv == IdsDiffer /\ Readings /\ Passes /\ EdgesAreCalls /\ EdgesKept

IndexInv == TypeOK /\ Counting /\ GraphInv /\ Syncs /\ VectorsMatch /\ RecordedDenotes

-----------------------------------------------------------------------------
(* Numbers.                                                                *)

LEMMA LeastExists ==
    ASSUME NEW S \in SUBSET Nat, S # {}
    PROVE  \E m \in S : \A n \in S : m <= n
<1> DEFINE less == OpToRel(<, Nat)
<1>1. IsWellFoundedOn(less, Nat)
  BY NatLessThanWellFounded
<1>2. \A x, y \in Nat : y < x => <<y, x>> \in less
  BY DEF OpToRel
<1> HIDE DEF less
<1>3. PICK m \in S : \A n \in S : ~ (<<n, m>> \in less)
  BY <1>1, WFMin
<1>4. ASSUME NEW n \in S PROVE m <= n
  <2>1. m \in Nat /\ n \in Nat
    OBVIOUS
  <2>2. ~ (n < m)
    BY <1>2, <1>3, <2>1
  <2> QED BY <2>1, <2>2
<1> QED BY <1>4

LEMMA LargestBelow ==
    ASSUME NEW S \in SUBSET Nat, S # {}, NEW bound \in Nat, \A n \in S : n <= bound
    PROVE  \E m \in S : \A n \in S : n <= m
<1> DEFINE uppers == {u \in Nat : \A n \in S : n <= u}
<1>1. bound \in uppers
  OBVIOUS
<1> HIDE DEF uppers
<1>2. PICK u \in uppers : \A v \in uppers : u <= v
  <2>1. uppers \in SUBSET Nat /\ uppers # {}
    BY <1>1 DEF uppers
  <2> QED BY <2>1, LeastExists
<1>3. u \in Nat /\ \A n \in S : n <= u
  BY <1>2 DEF uppers
<1>4. ASSUME u \notin S PROVE FALSE
  <2>1. \A n \in S : n <= u - 1
    BY <1>3, <1>4
  <2>2. u - 1 \in Nat
    <3>1. PICK n \in S : TRUE
      OBVIOUS
    <3> QED BY <1>3, <2>1, <3>1
  <2>3. u - 1 \in uppers
    BY <2>1, <2>2 DEF uppers
  <2> QED BY <1>2, <1>3, <2>3
<1> QED BY <1>3, <1>4

LEMMA FirstIsOne ==
    ASSUME NEW S \in SUBSET Files, S # {}
    PROVE  First(S) \in S
<1>1. S \in SUBSET Nat
  BY FilesAreNumbered
<1>2. \E f \in S : \A g \in S : f <= g
  BY <1>1, LeastExists
<1> QED BY <1>2 DEF First

\* A counter that starts over is above every id in use and within the bound.
LEMMA AfterLargestIsAbove ==
    ASSUME TypeOK, \A s \in symbols : s.id <= MaxId
    PROVE  /\ AfterLargest(Ids(symbols)) \in Nat \ {0}
           /\ AfterLargest(Ids(symbols)) <= MaxId + 1
           /\ \A s \in symbols : s.id < AfterLargest(Ids(symbols))
<1> DEFINE ids == Ids(symbols)
<1>1. ids \in SUBSET (Nat \ {0}) /\ \A i \in ids : i <= MaxId
  BY DEF Ids, TypeOK, Row
<1>2. \A s \in symbols : s.id \in ids
  BY DEF Ids
<1> HIDE DEF ids
<1>3. CASE ids = {}
  <2>1. AfterLargest(ids) = 1 /\ symbols = {}
    BY <1>2, <1>3 DEF AfterLargest
  <2> QED BY <2>1, MaxIdIsNat DEF ids
<1>4. CASE ids # {}
  <2> DEFINE largest == CHOOSE m \in ids : \A i \in ids : i <= m
  <2>1. \E m \in ids : \A i \in ids : i <= m
    BY <1>1, <1>4, LargestBelow, MaxIdIsNat
  <2>2. largest \in ids /\ \A i \in ids : i <= largest
    BY <2>1
  <2>3. AfterLargest(ids) = 1 + largest
    BY <1>4 DEF AfterLargest
  <2> HIDE DEF largest
  <2>4. /\ AfterLargest(ids) \in Nat \ {0} /\ AfterLargest(ids) <= MaxId + 1
        /\ \A i \in ids : i < AfterLargest(ids)
    BY <1>1, <2>2, <2>3, MaxIdIsNat
  <2> QED BY <1>2, <2>4 DEF ids
<1> QED BY <1>3, <1>4 DEF ids

-----------------------------------------------------------------------------
(* Steps that leave the graph alone.                                       *)

LEMMA GraphUnchanged ==
    ASSUME GraphInv, UNCHANGED <<symbols, calls, stored, together>>
    PROVE  GraphInv'
<1>1. IdsDiffer'
  BY DEF GraphInv, IdsDiffer
<1>2. Readings'
  BY DEF GraphInv, Readings, RowsOf, ReadAt
<1>3. Passes'
  BY DEF GraphInv, Passes
<1>4. EdgesAreCalls'
  BY DEF GraphInv, EdgesAreCalls, Reads
<1>5. EdgesKept'
  BY DEF GraphInv, EdgesKept, Settled, Calls
<1> QED BY <1>1, <1>2, <1>3, <1>4, <1>5 DEF GraphInv

LEMMA BegunIsRunning ==
    ASSUME NEW doomed \in SUBSET Files, NEW parsed \in SUBSET doomed
    PROVE  /\ Begun(doomed, parsed) \in Running
           /\ Begun(doomed, parsed).step = "parse" /\ Begun(doomed, parsed).pending = <<>>
           /\ Begun(doomed, parsed).todo \subseteq Begun(doomed, parsed).doomed
<1>1. <<>> \in Seq(Pending)
  OBVIOUS
<1> QED BY <1>1 DEF Begun, Running

\* The steps of a pass before it writes, and of one that fails there.
LEMMA ControlKeeps ==
    ASSUME IndexInv, StartSome \/ UpdateSome \/ UpdateNothing \/ ParseSome \/ SkipFile \/ GraphFails
    PROVE  IndexInv'
<1> USE DEF IndexInv
<1>1. UNCHANGED <<symbols, calls, stored, together, stale, collection, points, ensured>>
  BY DEF StartSome, Start, UpdateSome, Update, UpdateNothing, ParseSome, ParseFile, SkipFile,
         GraphFails, graphVars, historyVars, vectorVars
<1>2. GraphInv'
  BY <1>1, GraphUnchanged
<1>3. VectorsMatch'
  BY <1>1 DEF VectorsMatch
<1>4. CASE StartSome
  <2>1. PICK present \in SUBSET Files : Start(present)
    BY <1>4 DEF StartSome
  <2>2. /\ phase = "down" /\ pass = Idle /\ recorded = {} /\ recorded' = {}
        /\ next' = AfterLargest(Ids(symbols))
        /\ phase' \in {"serving", "indexing"}
        /\ pass' \in {Idle, Begun(present, present)}
    BY <2>1 DEF Start, Counting
  <2>3. /\ next' \in Nat \ {0} /\ next' <= MaxId + 1
        /\ \A s \in symbols : s.id < next'
    BY <2>2, AfterLargestIsAbove DEF Counting
  <2>4. pass' = Idle \/ (pass' \in Running /\ pass'.step = "parse" /\ pass'.pending = <<>>
                         /\ pass'.todo \subseteq pass'.doomed)
    BY <2>2, BegunIsRunning
  <2>5. TypeOK'
    BY <1>1, <2>2, <2>3, <2>4 DEF TypeOK
  <2>6. Counting'
    BY <1>1, <2>2, <2>3 DEF Counting
  <2>7. Syncs'
    BY <2>4 DEF Syncs, Idle
  <2>8. RecordedDenotes'
    BY <2>2 DEF RecordedDenotes
  <2> QED BY <1>2, <1>3, <2>5, <2>6, <2>7, <2>8
<1>5. CASE UpdateSome
  <2>1. PICK changed, existing : /\ changed \in SUBSET Files /\ existing \in SUBSET changed
                               /\ Update(changed, existing)
    BY <1>5 DEF UpdateSome
  <2>2. /\ phase = "serving" /\ pass' = Begun(changed, existing)
        /\ UNCHANGED <<next, recorded, phase>>
    BY <2>1 DEF Update
  <2>3. pass' \in Running /\ pass'.step = "parse" /\ pass'.pending = <<>>
        /\ pass'.todo \subseteq pass'.doomed
    BY <2>1, <2>2, BegunIsRunning
  <2>4. TypeOK'
    BY <1>1, <2>2, <2>3 DEF TypeOK
  <2>5. Counting'
    BY <1>1, <2>2 DEF Counting
  <2>6. Syncs'
    BY <2>3 DEF Syncs, Idle
  <2>7. RecordedDenotes'
    BY <1>1, <2>2 DEF RecordedDenotes
  <2> QED BY <1>2, <1>3, <2>4, <2>5, <2>6, <2>7
<1>6. CASE UpdateNothing
  <2>1. phase = "serving" /\ pass = Idle /\ recorded' = {} /\ UNCHANGED <<next, phase, pass>>
    BY <1>6 DEF UpdateNothing
  <2>2. TypeOK'
    BY <1>1, <2>1 DEF TypeOK
  <2>3. Counting' /\ Syncs' /\ RecordedDenotes'
    BY <1>1, <2>1 DEF Counting, Syncs, RecordedDenotes, Idle
  <2> QED BY <1>2, <1>3, <2>2, <2>3
<1>7. CASE ParseSome \/ SkipFile
  <2>1. /\ pass \in Running /\ pass.step = "parse" /\ pass.todo # {}
        /\ pass' \in Running /\ pass'.step = "parse" /\ pass'.doomed = pass.doomed
        /\ pass'.todo \subseteq pass.todo
        /\ \A i \in DOMAIN pass'.pending : pass'.pending[i].file \in pass.doomed
        /\ UNCHANGED <<next, recorded, phase>>
    <3>1. pass \in Running /\ pass.step = "parse" /\ pass.todo # {}
          /\ UNCHANGED <<next, recorded, phase>>
      <4>1. Parsing /\ UNCHANGED <<next, recorded, phase>>
        BY <1>7 DEF ParseSome, ParseFile, SkipFile
      <4> QED BY <4>1 DEF Parsing, TypeOK, Idle
    <3>2. First(pass.todo) \in pass.todo /\ pass.todo \subseteq pass.doomed
          /\ pass.doomed \subseteq Files /\ pass.pending \in Seq(Pending)
      BY <3>1, FirstIsOne DEF Running, Syncs, Idle
    <3>3. CASE SkipFile
      BY <3>1, <3>2, <3>3 DEF SkipFile, Running, Syncs
    <3>4. CASE ParseSome
      <4>1. PICK content \in Contents : ParseFile(content)
        BY <3>4 DEF ParseSome
      <4> DEFINE declared == [i \in DOMAIN content |->
                                 [file |-> First(pass.todo), name |-> content[i].name,
                                  calls |-> content[i].calls]]
      <4>2. content \in Seq(Declaration)
        BY ContentsAreSeqs
      <4>3. declared \in Seq(Pending) /\ DOMAIN declared = DOMAIN content
        <5>1. DOMAIN declared = 1..Len(content) /\ Len(content) \in Nat
          BY <4>2
        <5>2. \A i \in 1..Len(content) : declared[i] \in Pending
          <6>1. \A i \in 1..Len(content) : content[i] \in Declaration
            BY <4>2
          <6>2. First(pass.todo) \in Files
            BY <3>2
          <6> QED BY <5>1, <6>1, <6>2 DEF Pending, Declaration
        <5>3. declared \in [1..Len(content) -> Pending]
          BY <5>1, <5>2
        <5> QED BY <5>1, <5>3, <4>2, SeqDef
      <4>4. \A i \in DOMAIN declared : declared[i].file = First(pass.todo)
        OBVIOUS
      <4>5. pass' = [pass EXCEPT !.todo = @ \ {First(pass.todo)}, !.pending = @ \o declared]
        BY <4>1 DEF ParseFile
      <4> HIDE DEF declared
      <4>6. \A i \in DOMAIN (pass.pending \o declared) :
               (pass.pending \o declared)[i].file \in pass.doomed
        BY <3>1, <3>2, <4>3, <4>4 DEF Syncs
      <4>7. pass.pending \o declared \in Seq(Pending)
        BY <3>2, <4>3
      <4> QED BY <3>1, <3>2, <4>5, <4>6, <4>7 DEF Running
    <3> QED BY <1>7, <3>3, <3>4
  <2>2. TypeOK'
    BY <1>1, <2>1 DEF TypeOK
  <2>3. Counting'
    BY <1>1, <2>1 DEF Counting, Idle
  <2>4. Syncs'
    BY <2>1 DEF Syncs, Idle
  <2>5. RecordedDenotes'
    BY <1>1, <2>1 DEF RecordedDenotes
  <2> QED BY <1>2, <1>3, <2>2, <2>3, <2>4, <2>5
<1>8. CASE GraphFails
  <2>1. /\ pass.step = "parse" /\ pass' = Idle /\ recorded' = recorded
        /\ phase' \in {"error", phase}
        /\ next' \in next..(next + Count) /\ next' <= MaxId + 1
    BY <1>8 DEF GraphFails, Fails, Parsed
  <2>2. pass \in Running /\ phase # "down"
    BY <2>1 DEF TypeOK, Counting, Idle
  <2>3. next' \in Nat \ {0} /\ next <= next'
    BY <2>1, <2>2 DEF TypeOK, Count, Running
  <2>4. TypeOK'
    BY <1>1, <2>1, <2>3 DEF TypeOK
  <2>5. \A s \in symbols \cup recorded : s.id \in Nat
    BY DEF TypeOK, Row
  <2>6. Counting'
    BY <1>1, <2>1, <2>2, <2>3, <2>5 DEF Counting, TypeOK
  <2>7. Syncs' /\ RecordedDenotes'
    BY <1>1, <2>1 DEF Syncs, RecordedDenotes, Idle
  <2> QED BY <1>2, <1>3, <2>4, <2>6, <2>7
<1> QED BY <1>4, <1>5, <1>6, <1>7, <1>8

-----------------------------------------------------------------------------
(* The graph transaction.                                                  *)

\* The rows of a pass: their ids are new and their files are the pass's.
LEMMA NewRows ==
    ASSUME IndexInv, CommitGraph
    PROVE  /\ pass \in Running /\ pass.step = "parse" /\ phase # "down"
           /\ Count \in Nat /\ DOMAIN pass.pending = 1..Count
           /\ next \in Nat \ {0} /\ MaxId \in Nat /\ next + Count <= MaxId + 1
           /\ \A i \in 1..Count :
                 /\ pass.pending[i] \in Pending /\ pass.pending[i].file \in pass.doomed
                 /\ RowAt(i) \in Row
                 /\ RowAt(i).id = next + i - 1
                 /\ RowAt(i).file = pass.pending[i].file
                 /\ RowAt(i).name = pass.pending[i].name
<1>1. pass.step = "parse" /\ next + Count <= MaxId + 1
  BY DEF CommitGraph, Parsed
<1>2. pass \in Running
  BY <1>1 DEF IndexInv, TypeOK, Idle
<1>3. pass.pending \in Seq(Pending)
  BY <1>2 DEF Running
<1>4. Count \in Nat /\ DOMAIN pass.pending = 1..Count
  BY <1>3 DEF Count
<1>5. next \in Nat \ {0} /\ phase # "down"
  BY <1>1 DEF IndexInv, TypeOK, Counting, Idle
<1>6. ASSUME NEW i \in 1..Count
      PROVE  /\ pass.pending[i] \in Pending /\ pass.pending[i].file \in pass.doomed
             /\ RowAt(i) \in Row
             /\ RowAt(i).id = next + i - 1
             /\ RowAt(i).file = pass.pending[i].file
             /\ RowAt(i).name = pass.pending[i].name
  <2>1. pass.pending[i] \in Pending
    BY <1>3, <1>4
  <2>2. pass.pending[i].file \in pass.doomed
    BY <1>1, <1>4 DEF IndexInv, Syncs
  <2>3. next + i - 1 \in Nat \ {0}
    BY <1>4, <1>5
  <2> QED BY <2>1, <2>2, <2>3 DEF RowAt, Row, Pending
<1> QED BY <1>1, <1>2, <1>4, <1>5, <1>6, MaxIdIsNat

\* What the transaction leaves behind, said without the pass's sequence.
Rewritten ==
    /\ symbols' = KeptSymbols \cup {RowAt(i) : i \in 1..Count}
    /\ calls' = KeptCalls \cup NewCalls
    /\ stored' = [f \in Files |-> IF f \in pass.doomed THEN DeclaredIn(f) ELSE stored[f]]
    /\ together' = [f \in Files |-> IF f \in pass.doomed THEN pass.doomed ELSE together[f]]

LEMMA RowsAfter ==
    ASSUME IndexInv, CommitGraph
    PROVE  /\ Rewritten
           /\ \A s \in KeptSymbols :
                 /\ s \in Row /\ s \in symbols /\ s \in symbols'
                 /\ s.id < next /\ s.file \notin pass.doomed
           /\ \A s \in symbols : s.file \notin pass.doomed => s \in KeptSymbols
           /\ \A i \in 1..Count : RowAt(i) \in symbols'
           /\ \A s \in symbols' : s \in KeptSymbols \/ \E i \in 1..Count : s = RowAt(i)
           /\ \A s, t \in symbols' : s.id = t.id => s = t
<1>1. Rewritten
  BY DEF CommitGraph, Rewritten
<1>2. /\ \A s \in KeptSymbols :
            /\ s \in Row /\ s \in symbols /\ s \in symbols'
            /\ s.id < next /\ s.file \notin pass.doomed
      /\ \A s \in symbols : s.file \notin pass.doomed => s \in KeptSymbols
  BY <1>1, NewRows DEF Rewritten, KeptSymbols, IndexInv, TypeOK, Counting
<1>3. /\ \A i \in 1..Count : RowAt(i) \in symbols'
      /\ \A s \in symbols' : s \in KeptSymbols \/ \E i \in 1..Count : s = RowAt(i)
  BY <1>1 DEF Rewritten
<1>4. ASSUME NEW s \in symbols', NEW t \in symbols', s.id = t.id
      PROVE  s = t
  <2>1. \A k \in KeptSymbols, i \in 1..Count : k.id # RowAt(i).id
    BY <1>2, NewRows DEF Row
  <2>2. \A i, j \in 1..Count : RowAt(i).id = RowAt(j).id => i = j
    BY NewRows
  <2>3. CASE s \in KeptSymbols /\ t \in KeptSymbols
    BY <1>2, <1>4, <2>3 DEF IndexInv, GraphInv, IdsDiffer
  <2>4. CASE s \in KeptSymbols /\ t \notin KeptSymbols
    BY <1>3, <1>4, <2>1, <2>4
  <2>5. CASE s \notin KeptSymbols /\ t \in KeptSymbols
    BY <1>3, <1>4, <2>1, <2>5
  <2>6. CASE s \notin KeptSymbols /\ t \notin KeptSymbols
    BY <1>3, <1>4, <2>2, <2>6
  <2> QED BY <2>3, <2>4, <2>5, <2>6
<1> QED BY <1>1, <1>2, <1>3, <1>4

LEMMA ReadingsAfter ==
    ASSUME IndexInv, CommitGraph
    PROVE  Readings'
<1> SUFFICES ASSUME NEW f \in Files
             PROVE  /\ \E last \in Nat : DOMAIN stored'[f] \subseteq 1..last
                    /\ \E base \in Nat :
                         {s \in symbols' : s.file = f}
                           = {[id |-> base + i, file |-> f, name |-> stored'[f][i].name] :
                                 i \in DOMAIN stored'[f]}
  BY DEF Readings, RowsOf, ReadAt
<1>1. CASE f \in pass.doomed
  <2>1. stored'[f] = DeclaredIn(f)
    BY <1>1, RowsAfter DEF Rewritten
  <2>2. DOMAIN stored'[f] = {j \in 1..Count : pass.pending[j].file = f}
    BY <2>1 DEF DeclaredIn
  <2>3. \A i \in DOMAIN stored'[f] : stored'[f][i].name = pass.pending[i].name
    BY <2>1 DEF DeclaredIn
  <2>4. next - 1 \in Nat
    BY NewRows
  <2>5. \A i \in DOMAIN stored'[f] :
           RowAt(i) = [id |-> (next - 1) + i, file |-> f, name |-> stored'[f][i].name]
    <3> SUFFICES ASSUME NEW i \in DOMAIN stored'[f]
                 PROVE  RowAt(i) = [id |-> (next - 1) + i, file |-> f,
                                    name |-> stored'[f][i].name]
      OBVIOUS
    <3>1. i \in Nat /\ pass.pending[i].file = f /\ next \in Nat
      BY <2>2, NewRows
    <3>2. (next - 1) + i = next + i - 1
      BY <3>1
    <3> QED BY <2>3, <3>1, <3>2 DEF RowAt
  <2>6. {s \in symbols' : s.file = f} = {RowAt(i) : i \in DOMAIN stored'[f]}
    <3>1. ASSUME NEW s \in symbols', s.file = f
          PROVE  \E i \in DOMAIN stored'[f] : s = RowAt(i)
      <4>1. s \notin KeptSymbols
        BY <1>1, <3>1, RowsAfter
      <4>2. PICK i \in 1..Count : s = RowAt(i)
        BY <4>1, RowsAfter
      <4>3. pass.pending[i].file = f
        BY <3>1, <4>2, NewRows
      <4> QED BY <2>2, <4>2, <4>3
    <3>2. ASSUME NEW i \in DOMAIN stored'[f]
          PROVE  RowAt(i) \in symbols' /\ RowAt(i).file = f
      BY <2>2, RowsAfter, NewRows
    <3> QED BY <3>1, <3>2
  <2>7. {s \in symbols' : s.file = f}
          = {[id |-> (next - 1) + i, file |-> f, name |-> stored'[f][i].name] :
                i \in DOMAIN stored'[f]}
    BY <2>5, <2>6
  <2> QED BY <2>2, <2>4, <2>7, NewRows
<1>2. CASE f \notin pass.doomed
  <2>1. stored'[f] = stored[f]
    BY <1>2, RowsAfter DEF Rewritten
  <2>2. {s \in symbols' : s.file = f} = {s \in symbols : s.file = f}
    BY <1>2, RowsAfter, NewRows
  <2> QED BY <2>1, <2>2 DEF IndexInv, GraphInv, Readings, RowsOf, ReadAt
<1> QED BY <1>1, <1>2

\* The edges after the transaction: kept ones between kept rows, new ones
\* between rows of the pass.
LEMMA KeptEdges ==
    ASSUME IndexInv, CommitGraph, NEW e \in KeptCalls
    PROVE  /\ e \in calls
           /\ \E s, t \in KeptSymbols :
                 s.id = e.from /\ t.id = e.to /\ Reads(s.file, s.name, t.name)
<1>1. e \in calls /\ e.from \notin Gone /\ e.to \notin Gone
  BY DEF KeptCalls
<1>2. PICK s, t \in symbols : s.id = e.from /\ t.id = e.to /\ Reads(s.file, s.name, t.name)
  BY <1>1 DEF IndexInv, GraphInv, EdgesAreCalls
<1>3. s.file \notin pass.doomed /\ t.file \notin pass.doomed
  BY <1>1, <1>2 DEF Gone, Ids
<1> QED BY <1>1, <1>2, <1>3, RowsAfter

LEMMA NewEdges ==
    ASSUME IndexInv, CommitGraph, NEW e \in NewCalls
    PROVE  \E i, j \in 1..Count :
              /\ e.from = RowAt(i).id /\ e.to = RowAt(j).id
              /\ pass.pending[j].name \in pass.pending[i].calls
<1>1. PICK p \in (1..Count) \X (1..Count) :
         /\ \E name \in pass.pending[p[1]].calls : Resolves(name, p[2])
         /\ e = [from |-> next + p[1] - 1, to |-> next + p[2] - 1]
  BY DEF NewCalls, CallsAmong
<1>2. p[1] \in 1..Count /\ p[2] \in 1..Count
  BY <1>1
<1>3. pass.pending[p[2]].name \in pass.pending[p[1]].calls
  BY <1>1 DEF Resolves
<1> QED BY <1>1, <1>2, <1>3, NewRows

LEMMA PassesAfter ==
    ASSUME IndexInv, CommitGraph
    PROVE  Passes'
<1>1. \A f \in Files : together'[f] = IF f \in pass.doomed THEN pass.doomed ELSE together[f]
  BY RowsAfter DEF Rewritten
<1>2. \A f \in Files : together'[f] # {} => f \in together'[f]
  BY <1>1 DEF IndexInv, GraphInv, Passes
<1>3. ASSUME NEW e \in calls', NEW s \in symbols', NEW t \in symbols',
             s.id = e.from, t.id = e.to
      PROVE  together'[s.file] = together'[t.file] /\ t.file \in together'[s.file]
  <2>1. CASE e \in KeptCalls
    <3>1. e \in calls
      BY <2>1, KeptEdges
    <3>2. PICK u, v \in KeptSymbols : u.id = e.from /\ v.id = e.to
      BY <2>1, KeptEdges
    <3>3. s = u /\ t = v
      BY <1>3, <3>2, RowsAfter
    <3>4. s \in KeptSymbols /\ t \in KeptSymbols
      BY <3>2, <3>3
    <3>5. /\ s \in symbols /\ t \in symbols /\ s.file \in Files /\ t.file \in Files
          /\ s.file \notin pass.doomed /\ t.file \notin pass.doomed
      BY <3>4, RowsAfter DEF Row
    <3>6. together[s.file] = together[t.file] /\ t.file \in together[s.file]
      BY <1>3, <3>1, <3>5 DEF IndexInv, GraphInv, Passes
    <3> QED BY <1>1, <3>5, <3>6
  <2>2. CASE e \in NewCalls
    <3>1. PICK i, j \in 1..Count : e.from = RowAt(i).id /\ e.to = RowAt(j).id
      BY <2>2, NewEdges
    <3>2. s = RowAt(i) /\ t = RowAt(j)
      BY <1>3, <3>1, RowsAfter
    <3>3. /\ s.file \in Files /\ t.file \in Files
          /\ s.file \in pass.doomed /\ t.file \in pass.doomed
      BY <3>2, NewRows DEF Row
    <3> QED BY <1>1, <3>3
  <2> QED BY <1>3, <2>1, <2>2, RowsAfter DEF Rewritten
<1> QED BY <1>2, <1>3 DEF Passes

LEMMA DeclaredAfter ==
    ASSUME IndexInv, CommitGraph, NEW f \in Files
    PROVE  /\ f \notin pass.doomed => stored'[f] = stored[f]
           /\ f \in pass.doomed =>
                 /\ DOMAIN stored'[f] = {i \in 1..Count : pass.pending[i].file = f}
                 /\ \A i \in DOMAIN stored'[f] :
                       /\ stored'[f][i].name = pass.pending[i].name
                       /\ stored'[f][i].calls = pass.pending[i].calls
<1>1. stored'[f] = IF f \in pass.doomed THEN DeclaredIn(f) ELSE stored[f]
  BY RowsAfter DEF Rewritten
<1> QED BY <1>1 DEF DeclaredIn

LEMMA EdgesAreCallsAfter ==
    ASSUME IndexInv, CommitGraph
    PROVE  EdgesAreCalls'
<1> SUFFICES ASSUME NEW e \in calls'
             PROVE  \E s, t \in symbols' :
                       /\ s.id = e.from /\ t.id = e.to
                       /\ \E i \in DOMAIN stored'[s.file] :
                            /\ stored'[s.file][i].name = s.name
                            /\ t.name \in stored'[s.file][i].calls
  BY DEF EdgesAreCalls, Reads
<1>1. CASE e \in KeptCalls
  <2>1. PICK s, t \in KeptSymbols :
           s.id = e.from /\ t.id = e.to /\ Reads(s.file, s.name, t.name)
    BY <1>1, KeptEdges
  <2>2. s \in symbols' /\ t \in symbols' /\ s.file \in Files /\ s.file \notin pass.doomed
    BY RowsAfter DEF Row
  <2>3. stored'[s.file] = stored[s.file]
    BY <2>2, DeclaredAfter
  <2> QED BY <2>1, <2>2, <2>3 DEF Reads
<1>2. CASE e \in NewCalls
  <2>1. PICK i, j \in 1..Count : /\ e.from = RowAt(i).id /\ e.to = RowAt(j).id
                                 /\ pass.pending[j].name \in pass.pending[i].calls
    BY <1>2, NewEdges
  <2> DEFINE s == RowAt(i)
             t == RowAt(j)
  <2>2. /\ s \in symbols' /\ t \in symbols' /\ s.file \in Files /\ s.file \in pass.doomed
        /\ s.file = pass.pending[i].file /\ s.name = pass.pending[i].name
        /\ t.name = pass.pending[j].name
    BY RowsAfter, NewRows DEF Row
  <2> HIDE DEF s, t
  <2>3. /\ i \in DOMAIN stored'[s.file]
        /\ stored'[s.file][i].name = s.name /\ stored'[s.file][i].calls = pass.pending[i].calls
    BY <2>2, DeclaredAfter
  <2> QED BY <2>1, <2>2, <2>3 DEF s, t
<1> QED BY <1>1, <1>2, RowsAfter DEF Rewritten

\* The first symbol of a name is what a call of the name resolves to.
LEMMA CallsOfThePass ==
    ASSUME IndexInv, CommitGraph, NEW i \in 1..Count, NEW j \in 1..Count,
           pass.pending[j].name \in pass.pending[i].calls
    PROVE  \E e \in NewCalls : \E k \in 1..Count :
              /\ e.from = RowAt(i).id /\ e.to = RowAt(k).id
              /\ RowAt(k).name = pass.pending[j].name
<1> DEFINE name == pass.pending[j].name
           named == {k \in 1..Count : pass.pending[k].name = name}
<1>1. PICK k \in named : \A l \in named : k <= l
  <2>1. named \in SUBSET Nat /\ j \in named
    BY NewRows
  <2> HIDE DEF named
  <2>2. named # {}
    BY <2>1
  <2> QED BY <2>1, <2>2, LeastExists
<1>2. k \in 1..Count /\ pass.pending[k].name = name
  BY <1>1
<1>3. \A l \in 1..(k - 1) : pass.pending[l].name # name
  <2> SUFFICES ASSUME NEW l \in 1..(k - 1), pass.pending[l].name = name PROVE FALSE
    OBVIOUS
  <2>1. l \in 1..Count /\ ~ (k <= l)
    BY <1>2, NewRows
  <2> QED BY <1>1, <2>1
<1> HIDE DEF named
<1>4. Resolves(name, k)
  BY <1>2, <1>3 DEF Resolves
<1> DEFINE p == <<i, k>>
           e == [from |-> next + p[1] - 1, to |-> next + p[2] - 1]
<1>5. p \in (1..Count) \X (1..Count) /\ p[1] = i /\ p[2] = k
  BY <1>2
<1>6. e \in NewCalls
  BY <1>4, <1>5 DEF NewCalls, CallsAmong
<1>7. e.from = RowAt(i).id /\ e.to = RowAt(k).id /\ RowAt(k).name = name
  BY <1>2, <1>5, NewRows
<1> QED BY <1>2, <1>6, <1>7

LEMMA EdgesKeptAfter ==
    ASSUME IndexInv, CommitGraph
    PROVE  EdgesKept'
<1>1. \A h \in Files : together'[h] = IF h \in pass.doomed THEN pass.doomed ELSE together[h]
  BY RowsAfter DEF Rewritten
<1> SUFFICES ASSUME NEW f \in Files, \A g \in together'[f] : together'[g] = together'[f],
                    NEW g \in together'[f],
                    NEW i \in DOMAIN stored'[f], NEW j \in DOMAIN stored'[g],
                    stored'[g][j].name \in stored'[f][i].calls
             PROVE  \E s \in symbols' :
                       /\ s.file = f
                       /\ s.name = stored'[f][i].name
                       /\ \E e \in calls' :
                            /\ e.from = s.id
                            /\ \E t \in symbols' : t.id = e.to /\ t.name = stored'[g][j].name
  BY DEF EdgesKept, Settled, Calls
<1>2. pass.doomed \in SUBSET Files /\ together \in [Files -> SUBSET Files]
  BY NewRows DEF Running, IndexInv, TypeOK
<1>3. g \in Files
  BY <1>1, <1>2
<1>4. CASE f \in pass.doomed
  <2>1. g \in pass.doomed
    BY <1>1, <1>4
  <2>2. /\ i \in 1..Count /\ pass.pending[i].file = f
        /\ stored'[f][i].name = pass.pending[i].name
        /\ stored'[f][i].calls = pass.pending[i].calls
    BY <1>4, DeclaredAfter
  <2>3. j \in 1..Count /\ stored'[g][j].name = pass.pending[j].name
    BY <1>3, <2>1, DeclaredAfter
  <2>4. PICK e \in NewCalls, k \in 1..Count :
           /\ e.from = RowAt(i).id /\ e.to = RowAt(k).id
           /\ RowAt(k).name = pass.pending[j].name
    BY <2>2, <2>3, CallsOfThePass
  <2>5. e \in calls' /\ RowAt(i) \in symbols' /\ RowAt(k) \in symbols'
    BY <2>2, RowsAfter DEF Rewritten
  <2>6. RowAt(i).file = f /\ RowAt(i).name = pass.pending[i].name
    BY <2>2, NewRows
  <2> QED BY <2>2, <2>3, <2>4, <2>5, <2>6
<1>5. CASE f \notin pass.doomed
  <2>1. together'[f] = together[f] /\ g \in together[f]
    BY <1>1, <1>5
  <2>2. f \in together[f]
    BY <2>1 DEF IndexInv, GraphInv, Passes
  <2>3. ASSUME NEW h \in together[f] PROVE h \in Files /\ h \notin pass.doomed
    <3>1. h \in Files /\ together'[h] = together[f]
      BY <1>2, <2>1
    <3>2. h \in pass.doomed => pass.doomed = together[f]
      BY <1>1, <3>1
    <3> QED BY <1>5, <2>2, <3>1, <3>2
  <2>4. Settled(f)
    <3>1. \A h \in together[f] : together[h] = together[f]
      BY <1>1, <2>1, <2>3
    <3> QED BY <3>1 DEF Settled
  <2>5. stored'[f] = stored[f] /\ stored'[g] = stored[g]
    BY <1>5, <2>1, <2>3, DeclaredAfter
  <2>6. PICK s \in symbols : /\ s.file = f /\ s.name = stored[f][i].name
                             /\ Calls(s, stored[g][j].name)
    BY <2>1, <2>4, <2>5 DEF IndexInv, GraphInv, EdgesKept
  <2>7. PICK e \in calls, t \in symbols :
           e.from = s.id /\ t.id = e.to /\ t.name = stored[g][j].name
    BY <2>6 DEF Calls
  <2>8. t.file \in together[f]
    BY <2>6, <2>7 DEF IndexInv, GraphInv, Passes
  <2>9. s \in symbols' /\ t \in symbols'
    BY <1>5, <2>3, <2>6, <2>8, RowsAfter
  <2>10. e.from \notin Gone /\ e.to \notin Gone
    BY <1>5, <2>3, <2>6, <2>7, <2>8 DEF Gone, Ids, IndexInv, GraphInv, IdsDiffer
  <2>11. e \in calls'
    BY <2>10, RowsAfter DEF Rewritten, KeptCalls
  <2> QED BY <2>5, <2>6, <2>7, <2>9, <2>11
<1> QED BY <1>4, <1>5

LEMMA CommitKeeps ==
    ASSUME IndexInv, CommitGraph
    PROVE  IndexInv'
<1>1. /\ next' = next + Count /\ stale' = stale \cup pass.doomed
      /\ UNCHANGED <<recorded, phase, collection, points, ensured>>
      /\ pass' = [pass EXCEPT !.step = "delete_vectors", !.todo = pass.doomed,
                              !.rows = {RowAt(i) : i \in 1..Count}]
  BY DEF CommitGraph, vectorVars
<1>2. /\ pass' \in Running /\ pass'.step = "delete_vectors"
      /\ pass'.todo = pass.doomed /\ pass'.doomed = pass.doomed
      /\ pass'.rows = {RowAt(i) : i \in 1..Count}
      /\ pass.doomed \in SUBSET Files
  <2>1. {RowAt(i) : i \in 1..Count} \in SUBSET Row
    BY NewRows
  <2> QED BY <1>1, <2>1, NewRows DEF Running
<1>3. GraphInv'
  <2>1. IdsDiffer'
    BY RowsAfter DEF IdsDiffer
  <2> QED BY <2>1, ReadingsAfter, PassesAfter, EdgesAreCallsAfter, EdgesKeptAfter DEF GraphInv
<1>4. TypeOK'
  <2>1. symbols' \subseteq Row
    BY RowsAfter, NewRows
  <2>2. calls' \subseteq Edge
    <3>1. NewCalls \subseteq Edge
      <4> SUFFICES ASSUME NEW e \in NewCalls PROVE e \in Edge
        OBVIOUS
      <4>1. PICK p \in (1..Count) \X (1..Count) :
               e = [from |-> next + p[1] - 1, to |-> next + p[2] - 1]
        BY DEF NewCalls, CallsAmong
      <4>2. p[1] \in 1..Count /\ p[2] \in 1..Count
        OBVIOUS
      <4>3. next + p[1] - 1 \in Nat \ {0} /\ next + p[2] - 1 \in Nat \ {0}
        BY <4>2, NewRows
      <4> QED BY <4>1, <4>3 DEF Edge
    <3> QED BY <3>1, RowsAfter DEF Rewritten, KeptCalls, IndexInv, TypeOK
  <2>3. DOMAIN stored' = Files /\ together' \in [Files -> SUBSET Files]
    BY <1>2, RowsAfter DEF Rewritten, IndexInv, TypeOK
  <2>4. ASSUME NEW f \in Files PROVE stored'[f] \in [DOMAIN stored'[f] -> Declaration]
    <3>1. CASE f \in pass.doomed
      <4>1. stored'[f] = DeclaredIn(f)
        BY <3>1, RowsAfter DEF Rewritten
      <4> QED BY <4>1, NewRows DEF DeclaredIn, Pending, Declaration
    <3>2. CASE f \notin pass.doomed
      BY <3>2, DeclaredAfter DEF IndexInv, TypeOK
    <3> QED BY <3>1, <3>2
  <2>5. next' \in Nat \ {0}
    BY <1>1, NewRows
  <2> QED BY <1>1, <1>2, <2>1, <2>2, <2>3, <2>4, <2>5 DEF IndexInv, TypeOK
<1>5. Counting'
  <2>1. \A s \in symbols' : s.id < next' /\ s.id <= MaxId
    BY <1>1, RowsAfter, NewRows DEF Row
  <2>2. \A r \in recorded : r.id < next'
    BY <1>1, NewRows DEF IndexInv, Counting, TypeOK, Row
  <2> QED BY <1>1, <2>1, <2>2, NewRows DEF Counting
<1>6. Syncs'
  <2>1. pass'.rows = {s \in symbols' : s.file \in pass.doomed}
    BY <1>2, RowsAfter, NewRows
  <2> QED BY <1>1, <1>2, <2>1 DEF Syncs
<1>7. VectorsMatch'
  <2> SUFFICES ASSUME NEW f \in Files \ stale'
               PROVE  {p \in points' : p.file = f} = {s \in symbols' : s.file = f}
    BY DEF VectorsMatch
  <2>1. f \notin pass.doomed /\ f \in Files \ stale
    BY <1>1
  <2>2. {s \in symbols' : s.file = f} = {s \in symbols : s.file = f}
    BY <2>1, RowsAfter, NewRows
  <2> QED BY <1>1, <2>1, <2>2 DEF IndexInv, VectorsMatch
<1>8. RecordedDenotes'
  <2> SUFFICES ASSUME NEW r \in recorded, NEW s \in symbols', r.id = s.id PROVE r = s
    BY <1>1 DEF RecordedDenotes
  <2>1. r.id < next
    BY NewRows DEF IndexInv, Counting
  <2>2. r.id \in Nat
    BY DEF IndexInv, TypeOK, Row
  <2>3. s \in KeptSymbols
    BY <2>1, <2>2, RowsAfter, NewRows
  <2> QED BY <2>3, RowsAfter DEF IndexInv, RecordedDenotes
<1> QED BY <1>3, <1>4, <1>5, <1>6, <1>7, <1>8 DEF IndexInv

-----------------------------------------------------------------------------
(* The vector sync, and the end of the process or of the collection.       *)

\* What a pass that syncs its vectors knows.
LEMMA SyncingPass ==
    ASSUME IndexInv, Syncing
    PROVE  /\ pass \in Running /\ phase # "down"
           /\ pass.todo \subseteq pass.doomed /\ pass.doomed \subseteq stale
           /\ pass.doomed \subseteq Files
           /\ pass.rows = {s \in symbols : s.file \in pass.doomed}
           /\ \A p \in points : p.file \in pass.doomed => p.file \in pass.todo
  BY DEF Syncing, IndexInv, TypeOK, Counting, Syncs, Idle, Running

\* A request of the pass, whether it returns or raises, leaves the points of
\* the files alone that are not stale.
Requested ==
    \/ points' = points
    \/ \E g \in pass.doomed : points' = WithoutFile(g)
    \/ points' = Upserted(pass.rows)

LEMMA RequestsKeepOthers ==
    ASSUME IndexInv, Syncing, Requested, NEW f \in Files \ stale
    PROVE  /\ f \notin pass.doomed
           /\ {p \in points' : p.file = f} = {s \in symbols : s.file = f}
<1>1. f \notin pass.doomed
  BY SyncingPass
<1>2. {p \in points : p.file = f} = {s \in symbols : s.file = f}
  BY DEF IndexInv, VectorsMatch
<1>3. CASE points' = points
  BY <1>1, <1>2, <1>3
<1>4. CASE \E g \in pass.doomed : points' = WithoutFile(g)
  BY <1>1, <1>2, <1>4 DEF WithoutFile
<1>5. CASE points' = Upserted(pass.rows)
  <2>1. \A r \in pass.rows : r \in symbols /\ r.file # f
    BY <1>1, SyncingPass
  <2>2. ASSUME NEW p \in points, p.file = f, NEW r \in pass.rows
        PROVE  r.id # p.id
    BY <1>2, <2>1, <2>2 DEF IndexInv, GraphInv, IdsDiffer
  <2> QED BY <1>1, <1>2, <1>5, <2>1, <2>2 DEF Upserted
<1> QED BY <1>1, <1>3, <1>4, <1>5 DEF Requested

LEMMA RequestsKeepType ==
    ASSUME IndexInv, Syncing, Requested
    PROVE  points' \subseteq Row
  BY SyncingPass DEF Requested, WithoutFile, Upserted, IndexInv, TypeOK

LEMMA SyncKeeps ==
    ASSUME IndexInv, DeleteVectors \/ UpsertVectors \/ SyncFails
    PROVE  IndexInv'
<1>1. Syncing /\ UNCHANGED <<symbols, calls, next, stored, together>>
  BY DEF DeleteVectors, UpsertVectors, SyncFails, graphVars, historyVars
<1>2. GraphInv'
  BY <1>1, GraphUnchanged DEF IndexInv
<1>3. pass.todo # {} => First(pass.todo) \in pass.todo
  BY <1>1, SyncingPass, FirstIsOne
<1>4. CASE DeleteVectors
  <2>1. /\ pass.todo # {} /\ points' = WithoutFile(First(pass.todo))
        /\ collection' = TRUE /\ ensured' = TRUE
        /\ pass' = [pass EXCEPT !.todo = @ \ {First(pass.todo)}]
        /\ UNCHANGED <<recorded, phase, stale>>
    BY <1>4 DEF DeleteVectors, Returns, historyVars
  <2>2. Requested
    BY <1>1, <1>3, <2>1, SyncingPass DEF Requested
  <2>3. /\ pass' \in Running /\ pass'.step = "delete_vectors"
        /\ pass'.todo = pass.todo \ {First(pass.todo)}
        /\ pass'.doomed = pass.doomed /\ pass'.rows = pass.rows
    BY <1>1, <2>1, SyncingPass DEF Running, Syncing
  <2>4. TypeOK'
    BY <1>1, <2>1, <2>2, <2>3, RequestsKeepType DEF IndexInv, TypeOK
  <2>5. Counting'
    BY <1>1, <2>1, SyncingPass DEF IndexInv, Counting
  <2>6. Syncs'
    BY <1>1, <2>1, <2>3, SyncingPass DEF Syncs, WithoutFile
  <2>7. VectorsMatch'
    BY <1>1, <2>1, <2>2, RequestsKeepOthers DEF VectorsMatch
  <2>8. RecordedDenotes'
    BY <1>1, <2>1 DEF IndexInv, RecordedDenotes
  <2> QED BY <1>2, <2>4, <2>5, <2>6, <2>7, <2>8 DEF IndexInv
<1>5. CASE UpsertVectors
  <2>1. /\ pass.todo = {} /\ pass' = Idle /\ phase' = "serving"
        /\ recorded' = pass.rows /\ stale' = stale \ pass.doomed
        /\ IF pass.rows = {} THEN points' = points ELSE points' = Upserted(pass.rows)
        /\ collection' \in {collection, TRUE} /\ ensured' \in {ensured, TRUE}
    BY <1>5 DEF UpsertVectors, Returns, vectorVars
  <2>2. Requested
    BY <2>1 DEF Requested
  <2>3. pass.rows \subseteq symbols /\ pass.rows \subseteq Row
    BY <1>1, SyncingPass DEF IndexInv, TypeOK
  <2>4. TypeOK'
    BY <1>1, <2>1, <2>2, <2>3, RequestsKeepType DEF IndexInv, TypeOK
  <2>5. Counting'
    BY <1>1, <2>1, <2>3, SyncingPass DEF IndexInv, Counting
  <2>6. Syncs'
    BY <2>1 DEF Syncs, Idle
  <2>7. VectorsMatch'
    <3> SUFFICES ASSUME NEW f \in Files \ stale'
                 PROVE  {p \in points' : p.file = f} = {s \in symbols : s.file = f}
      BY <1>1 DEF VectorsMatch
    <3>1. CASE f \in pass.doomed
      <4>1. \A p \in points : p.file # f
        BY <1>1, <2>1, <3>1, SyncingPass
      <4>2. {r \in pass.rows : r.file = f} = {s \in symbols : s.file = f}
        BY <1>1, <3>1, SyncingPass
      <4> QED BY <2>1, <4>1, <4>2 DEF Upserted
    <3>2. CASE f \notin pass.doomed
      BY <1>1, <2>1, <2>2, <3>2, RequestsKeepOthers
    <3> QED BY <3>1, <3>2
  <2>8. RecordedDenotes'
    BY <1>1, <2>1, <2>3 DEF IndexInv, GraphInv, IdsDiffer, RecordedDenotes
  <2> QED BY <1>2, <2>4, <2>5, <2>6, <2>7, <2>8 DEF IndexInv
<1>6. CASE SyncFails
  <2>1. /\ pass' = Idle /\ phase' \in {"error", phase} /\ UNCHANGED <<recorded, stale>>
    BY <1>6 DEF SyncFails, Fails, historyVars
  <2>2. Requested /\ collection' \in {collection, TRUE} /\ ensured' \in BOOLEAN
    <3>1. \/ pass.todo # {} /\ Raises(WithoutFile(First(pass.todo)))
          \/ Raises(Upserted(pass.rows))
      BY <1>6 DEF SyncFails
    <3> QED BY <1>1, <1>3, <3>1, SyncingPass
            DEF Raises, Returns, vectorVars, Requested, IndexInv, TypeOK
  <2>3. TypeOK'
    BY <1>1, <2>1, <2>2, RequestsKeepType DEF IndexInv, TypeOK
  <2>4. Counting'
    BY <1>1, <2>1, SyncingPass DEF IndexInv, Counting
  <2>5. Syncs'
    BY <2>1 DEF Syncs, Idle
  <2>6. VectorsMatch'
    BY <1>1, <2>1, <2>2, RequestsKeepOthers DEF VectorsMatch
  <2>7. RecordedDenotes'
    BY <1>1, <2>1 DEF IndexInv, RecordedDenotes
  <2> QED BY <1>2, <2>3, <2>4, <2>5, <2>6, <2>7 DEF IndexInv
<1> QED BY <1>4, <1>5, <1>6

LEMMA CrashKeeps ==
    ASSUME IndexInv, Crash
    PROVE  IndexInv'
<1>1. /\ phase' = "down" /\ pass' = Idle /\ recorded' = {} /\ next' = 1
      /\ ensured' = FALSE
      /\ UNCHANGED <<symbols, calls, stored, together, stale, collection, points>>
  BY DEF Crash, Forget, graphVars, historyVars
<1>2. GraphInv'
  BY <1>1, GraphUnchanged DEF IndexInv
<1>3. TypeOK' /\ Counting' /\ Syncs' /\ VectorsMatch' /\ RecordedDenotes'
  <2>1. TypeOK'
    <3>1. /\ next' \in Nat \ {0} /\ recorded' \subseteq Row
          /\ phase' \in {"down", "indexing", "serving", "error"}
      BY <1>1
    <3>2. ensured' \in BOOLEAN
      BY <1>1
    <3>3. pass' = Idle
      BY <1>1
    <3>4. TypeOK
      BY DEF IndexInv
    <3>5. /\ symbols' \subseteq Row /\ calls' \subseteq Edge /\ points' \subseteq Row
          /\ stale' \subseteq Files /\ collection' \in BOOLEAN
      BY <1>1, <3>4 DEF TypeOK
    <3>6. /\ DOMAIN stored' = Files /\ together' \in [Files -> SUBSET Files]
          /\ \A f \in Files : stored'[f] \in [DOMAIN stored'[f] -> Declaration]
      BY <1>1, <3>4 DEF TypeOK
    <3> QED BY <3>1, <3>2, <3>3, <3>5, <3>6 DEF TypeOK
  <2>2. Counting'
    BY <1>1, MaxIdIsNat DEF IndexInv, Counting
  <2>3. Syncs' /\ VectorsMatch' /\ RecordedDenotes'
    BY <1>1 DEF IndexInv, Syncs, VectorsMatch, RecordedDenotes, Idle
  <2> QED BY <2>1, <2>2, <2>3
<1> QED BY <1>2, <1>3 DEF IndexInv

LEMMA LossKeeps ==
    ASSUME IndexInv, LoseCollection
    PROVE  IndexInv'
<1>1. /\ points' = {} /\ collection' = FALSE
      /\ stale' = stale \cup {f \in Files : DOMAIN stored[f] # {}}
      /\ UNCHANGED <<symbols, calls, next, recorded, phase, pass, stored, together, ensured>>
  BY DEF LoseCollection, Wipe, graphVars
<1>2. GraphInv'
  BY <1>1, GraphUnchanged DEF IndexInv
<1>3. VectorsMatch'
  <2> SUFFICES ASSUME NEW f \in Files \ stale'
               PROVE  {p \in points' : p.file = f} = {s \in symbols : s.file = f}
    BY <1>1 DEF VectorsMatch
  <2>1. DOMAIN stored[f] = {}
    BY <1>1
  <2>2. PICK base \in Nat : RowsOf(f) = ReadAt(f, base)
    BY DEF IndexInv, GraphInv, Readings
  <2>3. {s \in symbols : s.file = f} = {}
    BY <2>1, <2>2 DEF RowsOf, ReadAt
  <2> QED BY <1>1, <2>3
<1>4. TypeOK' /\ Counting' /\ Syncs' /\ RecordedDenotes'
  BY <1>1 DEF IndexInv, TypeOK, Counting, Syncs, RecordedDenotes
<1> QED BY <1>2, <1>3, <1>4 DEF IndexInv

LEMMA InitIndexInv == Init => IndexInv
<1> SUFFICES ASSUME Init PROVE IndexInv
  OBVIOUS
<1> USE DEF Init, VectorInit
<1>1. TypeOK
  <2>1. \A f \in Files : stored[f] \in [DOMAIN stored[f] -> Declaration]
    OBVIOUS
  <2>2. DOMAIN stored = Files /\ together \in [Files -> SUBSET Files]
    OBVIOUS
  <2>3. /\ symbols \subseteq Row /\ calls \subseteq Edge /\ recorded \subseteq Row
        /\ points \subseteq Row /\ stale \subseteq Files
    OBVIOUS
  <2>4. next \in Nat \ {0} /\ phase \in {"down", "indexing", "serving", "error"}
    OBVIOUS
  <2>5. collection \in BOOLEAN /\ ensured \in BOOLEAN
    OBVIOUS
  <2> HIDE DEF Init, VectorInit
  <2>6. pass = Idle
    BY DEF Init
  <2> QED BY <2>1, <2>2, <2>3, <2>4, <2>5, <2>6 DEF TypeOK
<1>2. Counting /\ Syncs /\ VectorsMatch /\ RecordedDenotes
  BY MaxIdIsNat DEF Counting, Syncs, VectorsMatch, RecordedDenotes, Idle
<1>3. Readings
  <2>1. \A f \in Files : DOMAIN stored[f] = {} /\ RowsOf(f) = {}
    BY DEF RowsOf
  <2>2. \A f \in Files, base \in Nat : ReadAt(f, base) = {}
    BY <2>1 DEF ReadAt
  <2>3. 0 \in Nat
    OBVIOUS
  <2> QED BY <2>1, <2>2, <2>3 DEF Readings
<1>4. IdsDiffer /\ Passes /\ EdgesAreCalls /\ EdgesKept
  BY DEF IdsDiffer, Passes, EdgesAreCalls, EdgesKept
<1> QED BY <1>1, <1>2, <1>3, <1>4 DEF IndexInv, GraphInv

LEMMA StepIndexInv == IndexInv /\ [Next]_vars => IndexInv'
<1> SUFFICES ASSUME IndexInv, [Next]_vars PROVE IndexInv'
  OBVIOUS
<1>1. CASE UNCHANGED vars
  <2>1. GraphInv'
    BY <1>1, GraphUnchanged DEF IndexInv, vars
  <2> QED BY <1>1, <2>1 DEF vars, IndexInv, TypeOK, Counting, Syncs, VectorsMatch, RecordedDenotes
<1> QED BY <1>1, ControlKeeps, CommitKeeps, SyncKeeps, CrashKeeps, LossKeeps DEF Next

LEMMA IndexInvHolds == Spec => []IndexInv
  BY InitIndexInv, StepIndexInv, PTL DEF Spec

-----------------------------------------------------------------------------

\* Every edge joins two stored symbols, and the caller makes that call
\* (indexer.cpp:551-585).
THEOREM EdgesJoinTheirCalls == Spec => []EdgesAreCalls
<1>1. IndexInv => EdgesAreCalls
  BY DEF IndexInv, GraphInv
<1> QED BY <1>1, IndexInvHolds, PTL

\* The calls among the files of a pass keep their edges until one of these
\* files is written again (indexer.cpp:551-585).
THEOREM EdgesStay == Spec => []EdgesKept
<1>1. IndexInv => EdgesKept
  BY DEF IndexInv, GraphInv
<1> QED BY <1>1, IndexInvHolds, PTL

\* Qdrant has of a file what the graph has once a sync of it finished
\* (indexer.cpp:591-611).
THEOREM VectorsFollowTheGraph == Spec => []VectorsMatch
<1>1. IndexInv => VectorsMatch
  BY DEF IndexInv
<1> QED BY <1>1, IndexInvHolds, PTL

\* No id of symbols_ has come to be another symbol's (indexer.cpp:624-629).
THEOREM IdsInMemoryDenote == Spec => []RecordedDenotes
<1>1. IndexInv => RecordedDenotes
  BY DEF IndexInv
<1> QED BY <1>1, IndexInvHolds, PTL

\* Every variable keeps its type.
THEOREM IndexerTypes == Spec => []TypeOK
<1>1. IndexInv => TypeOK
  BY DEF IndexInv
<1> QED BY <1>1, IndexInvHolds, PTL

\* The rows of a file are one for each declaration of its last reading: their
\* ids run with the places of the declarations in the pass.
THEOREM RowsFollowAReading == Spec => []RowsAreOneReading
<1>1. IndexInv => RowsAreOneReading
  <2> SUFFICES ASSUME IndexInv, NEW f \in Files, NEW name \in Names
               PROVE  Cardinality({s \in symbols : s.file = f /\ s.name = name})
                        = Cardinality({i \in DOMAIN stored[f] : stored[f][i].name = name})
    BY DEF RowsAreOneReading
  <2>1. PICK base \in Nat : RowsOf(f) = ReadAt(f, base)
    BY DEF IndexInv, GraphInv, Readings
  <2>2. PICK last \in Nat : DOMAIN stored[f] \subseteq 1..last
    BY DEF IndexInv, GraphInv, Readings
  <2> DEFINE places == {i \in DOMAIN stored[f] : stored[f][i].name = name}
             rows == {s \in symbols : s.file = f /\ s.name = name}
             rowAt == [i \in places |-> [id |-> base + i, file |-> f, name |-> name]]
  <2>3. IsFiniteSet(places)
    <3>1. places \subseteq 1..last /\ IsFiniteSet(1..last)
      BY <2>2, FS_Interval
    <3> QED BY <3>1, FS_Subset
  <2>4. \A s : s \in rows <=> s \in ReadAt(f, base) /\ s.name = name
    BY <2>1 DEF RowsOf
  <2>5. rowAt \in [places -> rows]
    <3> SUFFICES ASSUME NEW i \in places PROVE rowAt[i] \in rows
      OBVIOUS
    <3> QED BY <2>4 DEF ReadAt
  <2>6. \A i, j \in places : rowAt[i] = rowAt[j] => i = j
    <3> SUFFICES ASSUME NEW i \in places, NEW j \in places, rowAt[i] = rowAt[j] PROVE i = j
      OBVIOUS
    <3>1. i \in Nat /\ j \in Nat
      BY <2>2
    <3>2. base + i = base + j
      OBVIOUS
    <3> QED BY <3>1, <3>2
  <2>7. \A s \in rows : \E i \in places : rowAt[i] = s
    BY <2>4 DEF ReadAt
  <2> HIDE DEF places, rows, rowAt
  <2>8. ExistsBijection(places, rows)
    BY <2>5, <2>6, <2>7 DEF ExistsBijection, Bijection, Injection, IsInjective, Surjection
  <2>9. Cardinality(rows) = Cardinality(places)
    BY <2>3, <2>8, FS_Bijection
  <2> QED BY <2>9 DEF places, rows
<1> QED BY <1>1, IndexInvHolds, PTL

=============================================================================
