-------------------------- MODULE GraphLedgerProofs ---------------------------
(***************************************************************************)
(* Proofs about GraphLedger, for any runs, entities, claims, triples and   *)
(* bounds, by two inductive invariants.                                    *)
(*                                                                         *)
(* LedgerInv says what is on the log when a row appears (a relation's or a *)
(* merge's two nodes, a claim's key once at most), what a run that is      *)
(* half-way has logged already, and how a graph that has applied some      *)
(* events, in whatever order, fits the log.                                *)
(*                                                                         *)
(* KeptInv says what the editor's events, one at a time and in their       *)
(* order, have left on the kept graph; the runs' events, in whatever       *)
(* order, leave that part alone.                                           *)
(***************************************************************************)
EXTENDS GraphLedger, FiniteSetTheorems, SequenceTheorems, TLAPS

-------------------------------------------------------------------------------
(* Types.                                                                  *)

NodeEvents == {Node(kind, id) : kind \in {"create_node", "create_entity"}, id \in Ids}

EventRecords ==
    [key : Ops \X (Ids \cup Nat), op : Ops, subject : Ids, object : Ids \cup {NoId},
     ref : Ids \cup Nat \cup {NoId}]

RelationEvents ==
    {e \in EventRecords :
        /\ e.op = "create_edge" /\ e.key = <<"create_edge", e.ref>>
        /\ <<e.ref, e.subject, e.object>> \in Triples
        /\ e.object # NoId}

EditEvents ==
    {e \in EventRecords :
        /\ e.op \in {"merge_entity", "unmerge", "supersede", "delete"}
        /\ e.key[1] = e.op
        /\ e.op # "delete" => <<e.subject, e.object>> \in Pairs}

RunEvents == NodeEvents \cup RelationEvents
Events == RunEvents \cup EditEvents
Rows == [writer : Writers, event : Events, done : BOOLEAN]

NodeRecords == [canonical : Ids \cup {NoId}, merged : BOOLEAN, closed : BOOLEAN, deleted : BOOLEAN]
RelationTypes == Claims \cup {"SAME_AS", "SUPERSEDES"}
EdgeRecords ==
    [id : Nat, type : RelationTypes, from : Ids, to : Ids, ref : Ids \cup Nat \cup {NoId}]

-------------------------------------------------------------------------------
(* What other sessions see, as sets.                                       *)

SeenIn(rows) == {rows[i].event : i \in {j \in 1 .. Len(rows) : rows[j].done}}
Seen == SeenIn(log)
KeysOf(events) == {e.key : e \in events}

UnmergedIn(events) == {PairOf(e) : e \in {f \in events : f.op = "unmerge"}}

-------------------------------------------------------------------------------
(* A graph that has applied some of a set of events.                       *)

GraphIsTyped(g) ==
    /\ DOMAIN g = {"nodes", "edges", "applied", "edgeSeq", "quarantined"}
    /\ g.edges \in Seq(EdgeRecords)
    /\ g.edgeSeq \in Nat
    /\ DOMAIN g.nodes \subseteq Ids
    /\ g.nodes \in [DOMAIN g.nodes -> NodeRecords]

(* Nodes are those that were created.                                      *)
NodesFit(nodes, applied, events) ==
    /\ applied \subseteq KeysOf(events)
    /\ \A e \in events :
          e.op = "create_node" /\ e.key \in applied => e.subject \in DOMAIN nodes
    /\ \A id \in DOMAIN nodes : \E e \in events : e.op = "create_node" /\ e.subject = id

(* A claim's relation comes from its event, and is there once; a SAME_AS   *)
(* joins a pair.                                                           *)
RelationsFit(edges, applied, events) ==
    /\ \A x \in edges : x.type = "SAME_AS" => <<x.from, x.to>> \in Pairs
    /\ \A x \in edges :
          x.type \in Claims =>
             \E e \in events : /\ e.op = "create_edge" /\ e.key \in applied
                               /\ e.ref = x.type /\ e.subject = x.from /\ e.object = x.to
    /\ \A x, y \in edges : x.type = y.type /\ x.type \in Claims => x = y

(* A relation that is gone has lost a node, or its nodes were unmerged.    *)
WiringFits(nodes, edges, applied, events) ==
    \A e \in events :
       e.op = "create_edge" /\ e.key \in applied =>
          \/ \E x \in edges : x.type = e.ref
          \/ \E id \in {e.subject, e.object} \cap DOMAIN nodes : nodes[id].deleted
          \/ PairOf(e) \in UnmergedIn(events)

GraphFits(g, events) ==
    /\ GraphIsTyped(g)
    /\ g.quarantined = {}
    /\ NodesFit(g.nodes, g.applied, events)
    /\ RelationsFit(ToSet(g.edges), g.applied, events)
    /\ WiringFits(g.nodes, ToSet(g.edges), g.applied, events)

-------------------------------------------------------------------------------
(* The inductive invariant.                                                *)

StateIsTyped ==
    /\ log \in Seq(Rows)
    /\ program \in [Runs -> Seq(RunEvents)]
    /\ \A w \in Runs : Len(program[w]) <= 4
    /\ taken \in 0 .. MaxClaims /\ edited \in 0 .. MaxEdits
    /\ refreshed \in 0 .. MaxRefreshes /\ faults \in 0 .. MaxFaults

(* ON CONFLICT DO NOTHING.                                                 *)
KeysAreUnique(rows) ==
    \A i, j \in 1 .. Len(rows) :
       rows[i].done /\ rows[j].done /\ rows[i].event.key = rows[j].event.key => i = j

NeedsNodes(e) == e.op \in {"create_edge", "merge_entity"}

(* Whoever starts to log a relation or a merge has seen its nodes.         *)
NodesComeFirst(rows) ==
    \A i \in 1 .. Len(rows) :
       NeedsNodes(rows[i].event) =>
          \A id \in {rows[i].event.subject, rows[i].event.object} :
             \E j \in 1 .. i - 1 :
                /\ rows[j].done
                /\ rows[j].event.op = "create_node" /\ rows[j].event.subject = id

(* What a relation needs is on the log, or the run logs it before.         *)
Needs(e) ==
    {<<"create_entity", e.subject>>, <<"create_entity", e.object>>, <<"create_node", e.ref>>}

ProgramsPrepare ==
    \A w \in Runs : \A n \in 1 .. Len(program[w]) :
       program[w][n].op = "create_edge" =>
          \A key \in Needs(program[w][n]) :
             key \in KeysOf(Seen) \/ \E m \in 1 .. n - 1 : program[w][m].key = key

(* A run's statement under way, one at most, is for its next event.        *)
OpenIsNext(rows, programs) ==
    \A i \in 1 .. Len(rows) :
       ~ rows[i].done /\ rows[i].writer \in Runs =>
          /\ programs[rows[i].writer] # <<>>
          /\ rows[i].event = Head(programs[rows[i].writer])
          /\ \A j \in 1 .. Len(rows) : ~ rows[j].done /\ rows[j].writer = rows[i].writer => j = i

FinishedIsSeen ==
    \A last \in finished :
       /\ last \in RunEvents /\ last.key \in KeysOf(Seen)
       /\ last.op = "create_edge" => <<"create_node", last.ref>> \in KeysOf(Seen)

LedgerInv ==
    /\ StateIsTyped
    /\ KeysAreUnique(log)
    /\ NodesComeFirst(log)
    /\ ProgramsPrepare
    /\ OpenIsNext(log, program)
    /\ FinishedIsSeen
    /\ GraphFits(live, Seen)

-------------------------------------------------------------------------------
(* Recursive functions.                                                    *)

(* A set of naturals that is not empty has a least element: otherwise the  *)
(* bounds below it, of which there are finitely many, would be closed under*)
(* the successor.                                                          *)
LEMMA LeastNatural ==
    ASSUME NEW S, S \subseteq Nat, S # {}
    PROVE  \E m \in S : \A n \in S : m <= n
<1> DEFINE L == {k \in Nat : \A n \in S : k <= n}
           next == [k \in L |-> k + 1]
<1>1. SUFFICES ASSUME \A m \in S : \E n \in S : n < m PROVE FALSE
  OBVIOUS
<1>2. IsFiniteSet(L)
  <2>1. PICK x \in S : TRUE
    OBVIOUS
  <2>2. L \subseteq 0 .. x /\ IsFiniteSet(0 .. x)
    BY FS_Interval
  <2> QED
    BY <2>2, FS_Subset
<1>3. 0 \in L
  OBVIOUS
<1>4. next \in [L -> L \ {0}]
  BY <1>1
<1>5. IsFiniteSet(L \ {0}) /\ Cardinality(L \ {0}) < Cardinality(L)
  <2> HIDE DEF L
  <2>1. Cardinality(L) \in Nat
    BY <1>2, FS_CardinalityType
  <2>2. IsFiniteSet(L \ {0}) /\ Cardinality(L \ {0}) = Cardinality(L) - 1
    BY <1>2, <1>3, FS_RemoveElement
  <2> QED
    BY <2>1, <2>2
<1>6. \E j, k \in L : j # k /\ next[j] = next[k]
  <2> HIDE DEF L, next
  <2> QED
    BY <1>2, <1>4, <1>5, FS_PigeonHole
<1> QED
  BY <1>6

(* Picking from a sequence, reading its visible rows and applying events   *)
(* are each a function of the length done so far.                          *)
Picking(s, S, n, f) ==
    f = [k \in 0 .. n |->
            IF k = 0 THEN <<>>
            ELSE IF s[k] \in S THEN Append(f[k - 1], s[k]) ELSE f[k - 1]]

Reading(rows, n, f) ==
    f = [k \in 0 .. n |->
            IF k = 0 THEN <<>>
            ELSE IF rows[k].done THEN Append(f[k - 1], rows[k]) ELSE f[k - 1]]

Applying(g, events, n, f) ==
    f = [k \in 0 .. n |-> IF k = 0 THEN g ELSE ApplyEvent(f[k - 1], events[k])]

(* The function that picks a prefix's elements exists, by the least length *)
(* without one.                                                            *)
LEMMA PickingIsDefined ==
    ASSUME NEW s, NEW S, NEW n \in Nat
    PROVE  \E f : Picking(s, S, n, f)
<1> DEFINE Bad == {m \in Nat : ~ \E f : Picking(s, S, m, f)}
<1>1. SUFFICES ASSUME n \in Bad PROVE FALSE
  OBVIOUS
<1>2. PICK m \in Bad : \A k \in Bad : m <= k
  BY <1>1, LeastNatural
<1>3. m # 0
  <2>1. Picking(s, S, 0, [k \in 0 .. 0 |-> <<>>])
    BY DEF Picking
  <2> QED
    BY <2>1
<1>4. m - 1 \in Nat /\ m - 1 \notin Bad
  BY <1>2, <1>3
<1>5. PICK f : Picking(s, S, m - 1, f)
  BY <1>4
<1> DEFINE last == IF s[m] \in S THEN Append(f[m - 1], s[m]) ELSE f[m - 1]
           h == [k \in 0 .. m |-> IF k = m THEN last ELSE f[k]]
<1>6. ASSUME NEW k \in 0 .. m
      PROVE  h[k] = IF k = 0 THEN <<>>
                    ELSE IF s[k] \in S THEN Append(h[k - 1], s[k]) ELSE h[k - 1]
  <2>1. CASE k = m
    BY <1>3, <1>4, <2>1
  <2>2. CASE k \in 0 .. m - 1
    <3>1. h[k] = f[k] /\ (k # 0 => h[k - 1] = f[k - 1])
      BY <1>4, <2>2
    <3> HIDE DEF h
    <3> QED
      BY <1>4, <1>5, <2>2, <3>1 DEF Picking
  <2> QED
    BY <1>4, <2>1, <2>2
<1>7. h = [k \in 0 .. m |-> h[k]]
  OBVIOUS
<1>8. Picking(s, S, m, h)
  <2> HIDE DEF h
  <2> QED
    BY <1>6, <1>7 DEF Picking
<1> QED
  BY <1>2, <1>8

(* So does the one that reads a prefix of the log.                         *)
LEMMA ReadingIsDefined ==
    ASSUME NEW rows, NEW n \in Nat
    PROVE  \E f : Reading(rows, n, f)
<1> DEFINE Bad == {m \in Nat : ~ \E f : Reading(rows, m, f)}
<1>1. SUFFICES ASSUME n \in Bad PROVE FALSE
  OBVIOUS
<1>2. PICK m \in Bad : \A k \in Bad : m <= k
  BY <1>1, LeastNatural
<1>3. m # 0
  <2>1. Reading(rows, 0, [k \in 0 .. 0 |-> <<>>])
    BY DEF Reading
  <2> QED
    BY <2>1
<1>4. m - 1 \in Nat /\ m - 1 \notin Bad
  BY <1>2, <1>3
<1>5. PICK f : Reading(rows, m - 1, f)
  BY <1>4
<1> DEFINE last == IF rows[m].done THEN Append(f[m - 1], rows[m]) ELSE f[m - 1]
           h == [k \in 0 .. m |-> IF k = m THEN last ELSE f[k]]
<1>6. ASSUME NEW k \in 0 .. m
      PROVE  h[k] = IF k = 0 THEN <<>>
                    ELSE IF rows[k].done THEN Append(h[k - 1], rows[k]) ELSE h[k - 1]
  <2>1. CASE k = m
    BY <1>3, <1>4, <2>1
  <2>2. CASE k \in 0 .. m - 1
    <3>1. h[k] = f[k] /\ (k # 0 => h[k - 1] = f[k - 1])
      BY <1>4, <2>2
    <3> HIDE DEF h
    <3> QED
      BY <1>4, <1>5, <2>2, <3>1 DEF Reading
  <2> QED
    BY <1>4, <2>1, <2>2
<1>7. h = [k \in 0 .. m |-> h[k]]
  OBVIOUS
<1>8. Reading(rows, m, h)
  <2> HIDE DEF h
  <2> QED
    BY <1>6, <1>7 DEF Reading
<1> QED
  BY <1>2, <1>8

(* And the one that applies a prefix of the events.                        *)
LEMMA ApplyingIsDefined ==
    ASSUME NEW g, NEW events, NEW n \in Nat
    PROVE  \E f : Applying(g, events, n, f)
<1> DEFINE Bad == {m \in Nat : ~ \E f : Applying(g, events, m, f)}
<1>1. SUFFICES ASSUME n \in Bad PROVE FALSE
  OBVIOUS
<1>2. PICK m \in Bad : \A k \in Bad : m <= k
  BY <1>1, LeastNatural
<1>3. m # 0
  <2>1. Applying(g, events, 0, [k \in 0 .. 0 |-> g])
    BY DEF Applying
  <2> QED
    BY <2>1
<1>4. m - 1 \in Nat /\ m - 1 \notin Bad
  BY <1>2, <1>3
<1>5. PICK f : Applying(g, events, m - 1, f)
  BY <1>4
<1> DEFINE h == [k \in 0 .. m |-> IF k = m THEN ApplyEvent(f[m - 1], events[m]) ELSE f[k]]
<1>6. ASSUME NEW k \in 0 .. m
      PROVE  h[k] = IF k = 0 THEN g ELSE ApplyEvent(h[k - 1], events[k])
  BY <1>3, <1>4, <1>5 DEF Applying
<1>7. h = [k \in 0 .. m |-> h[k]]
  OBVIOUS
<1>8. Applying(g, events, m, h)
  <2> HIDE DEF h
  <2> QED
    BY <1>6, <1>7 DEF Applying
<1> QED
  BY <1>2, <1>8

-------------------------------------------------------------------------------
(* Sequences.                                                              *)

(* ToSet, by the index set.                                                *)
LEMMA ElementsOfASequence ==
    ASSUME NEW T, NEW s \in Seq(T)
    PROVE  ToSet(s) = {s[i] : i \in 1 .. Len(s)} /\ ToSet(s) \subseteq T
BY DEF ToSet

(* An element more.                                                        *)
LEMMA ElementsOfAppend ==
    ASSUME NEW T, NEW s \in Seq(T), NEW x \in T
    PROVE  Append(s, x) \in Seq(T) /\ ToSet(Append(s, x)) = ToSet(s) \cup {x}
<1> DEFINE t == Append(s, x)
<1>1. /\ t \in Seq(T) /\ Len(t) = Len(s) + 1 /\ Len(s) \in Nat
      /\ \A i \in 1 .. Len(s) : t[i] = s[i]
      /\ t[Len(s) + 1] = x
  BY AppendProperties
<1> HIDE DEF t
<1>2. ToSet(t) = {t[i] : i \in 1 .. Len(s) + 1} /\ ToSet(s) = {s[i] : i \in 1 .. Len(s)}
  BY <1>1, ElementsOfASequence
<1>3. ToSet(t) \subseteq ToSet(s) \cup {x}
  BY <1>1, <1>2
<1>4. ToSet(s) \subseteq ToSet(t)
  BY <1>1, <1>2
<1>5. x \in ToSet(t)
  BY <1>1, <1>2
<1> QED
  BY <1>1, <1>3, <1>4, <1>5 DEF t

(* A picked sequence has the picked elements.                              *)
LEMMA ElementsOfPicked ==
    ASSUME NEW T, NEW s \in Seq(T), NEW S
    PROVE  Picked(s, S) \in Seq(T) /\ ToSet(Picked(s, S)) = ToSet(s) \cap S
<1> DEFINE f == CHOOSE g : Picking(s, S, Len(s), g)
           Good(n) == f[n] \in Seq(T) /\ ToSet(f[n]) = {s[i] : i \in 1 .. n} \cap S
           Bad == {n \in 0 .. Len(s) : ~ Good(n)}
<1>1. Len(s) \in Nat
  OBVIOUS
<1>2. Picking(s, S, Len(s), f)
  BY <1>1, PickingIsDefined
<1>3. Picked(s, S) = f[Len(s)]
  BY DEF Picked, Picking
<1> HIDE DEF f
<1>4. Bad = {}
  <2> SUFFICES ASSUME Bad # {} PROVE FALSE
    OBVIOUS
  <2>1. Bad \subseteq Nat
    BY <1>1
  <2> HIDE DEF Bad
  <2>2. PICK m \in Bad : \A k \in Bad : m <= k
    BY <2>1, LeastNatural
  <2>3. m \in 0 .. Len(s) /\ ~ Good(m)
    BY <2>2 DEF Bad
  <2>4. m # 0
    <3>1. f[0] = <<>>
      BY <1>1, <1>2 DEF Picking
    <3>2. ToSet(<<>>) = {}
      BY DEF ToSet
    <3>3. {s[i] : i \in 1 .. 0} = {} /\ <<>> \in Seq(T)
      OBVIOUS
    <3>4. Good(0)
      BY <3>1, <3>2, <3>3
    <3> QED
      BY <2>3, <3>4
  <2>5. m - 1 \in 0 .. Len(s) /\ m - 1 \notin Bad
    BY <1>1, <2>2, <2>3, <2>4
  <2>6. Good(m - 1)
    BY <2>5 DEF Bad
  <2>7. f[m] = IF s[m] \in S THEN Append(f[m - 1], s[m]) ELSE f[m - 1]
    BY <1>2, <2>3, <2>4 DEF Picking
  <2>8. s[m] \in T
    BY <2>3, <2>4
  <2>9. {s[i] : i \in 1 .. m} = {s[i] : i \in 1 .. m - 1} \cup {s[m]}
    BY <2>3, <2>4
  <2>10. CASE s[m] \in S
    <3>1. f[m] \in Seq(T) /\ ToSet(f[m]) = ToSet(f[m - 1]) \cup {s[m]}
      BY <2>6, <2>7, <2>8, <2>10, ElementsOfAppend
    <3> QED
      BY <2>3, <2>6, <2>9, <2>10, <3>1
  <2>11. CASE s[m] \notin S
    BY <2>3, <2>6, <2>7, <2>9, <2>11
  <2> QED
    BY <2>10, <2>11
<1>5. Good(Len(s))
  BY <1>1, <1>4
<1> QED
  BY <1>3, <1>5, ElementsOfASequence

(* Every visible row is read, after those before it.                       *)
ReadsInOrder(rows, n, read) ==
    /\ read \in Seq(Rows)
    /\ \A i \in 1 .. n : rows[i].done => \E k \in 1 .. Len(read) : read[k] = rows[i]
    /\ \A k \in 1 .. Len(read) :
          \E i \in 1 .. n :
             /\ read[k] = rows[i] /\ rows[i].done
             /\ \A j \in 1 .. i - 1 : rows[j].done => \E l \in 1 .. k - 1 : read[l] = rows[j]

(* The next row is read, or left out, in order.                            *)
LEMMA ReadingGoesOn ==
    ASSUME NEW rows \in Seq(Rows), NEW m \in 1 .. Len(rows), NEW read,
           ReadsInOrder(rows, m - 1, read)
    PROVE  ReadsInOrder(rows, m, IF rows[m].done THEN Append(read, rows[m]) ELSE read)
<1>1. rows[m] \in Rows /\ m \in Nat /\ read \in Seq(Rows) /\ Len(read) \in Nat
  BY DEF ReadsInOrder
<1>2. CASE ~ rows[m].done
  <2>1. \A i \in 1 .. m : rows[i].done => i \in 1 .. m - 1
    BY <1>1, <1>2
  <2>2. \A i \in 1 .. m - 1 : i \in 1 .. m
    BY <1>1
  <2>3. ReadsInOrder(rows, m, read)
    BY <1>1, <2>1, <2>2 DEF ReadsInOrder
  <2> QED
    BY <1>2, <2>3
<1>3. CASE rows[m].done
  <2> DEFINE now == Append(read, rows[m])
  <2>1. /\ now \in Seq(Rows) /\ Len(now) = Len(read) + 1
        /\ \A k \in 1 .. Len(read) : now[k] = read[k]
        /\ now[Len(read) + 1] = rows[m]
    BY <1>1, AppendProperties
  <2> HIDE DEF now
  <2>2. ASSUME NEW i \in 1 .. m, rows[i].done
        PROVE  \E k \in 1 .. Len(now) : now[k] = rows[i]
    <3>1. CASE i = m
      BY <1>1, <2>1, <3>1
    <3>2. CASE i # m
      <4>1. PICK k \in 1 .. Len(read) : read[k] = rows[i]
        BY <1>1, <2>2, <3>2 DEF ReadsInOrder
      <4> QED
        BY <1>1, <2>1, <4>1
    <3> QED
      BY <3>1, <3>2
  <2>3. ASSUME NEW k \in 1 .. Len(now)
        PROVE  \E i \in 1 .. m :
                  /\ now[k] = rows[i] /\ rows[i].done
                  /\ \A j \in 1 .. i - 1 :
                        rows[j].done => \E l \in 1 .. k - 1 : now[l] = rows[j]
    <3>1. CASE k = Len(read) + 1
      <4>1. ASSUME NEW j \in 1 .. m - 1, rows[j].done
            PROVE  \E l \in 1 .. k - 1 : now[l] = rows[j]
        <5>1. PICK l \in 1 .. Len(read) : read[l] = rows[j]
          BY <4>1 DEF ReadsInOrder
        <5> QED
          BY <1>1, <2>1, <3>1, <5>1
      <4> QED
        BY <1>1, <1>3, <2>1, <3>1, <4>1
    <3>2. CASE k \in 1 .. Len(read)
      <4>1. PICK i \in 1 .. m - 1 :
               /\ read[k] = rows[i] /\ rows[i].done
               /\ \A j \in 1 .. i - 1 :
                     rows[j].done => \E l \in 1 .. k - 1 : read[l] = rows[j]
        BY <3>2 DEF ReadsInOrder
      <4>2. \A l \in 1 .. k - 1 : now[l] = read[l]
        BY <1>1, <2>1, <3>2
      <4>3. i \in 1 .. m /\ now[k] = rows[i]
        BY <1>1, <2>1, <3>2, <4>1
      <4> QED
        BY <4>1, <4>2, <4>3
    <3> QED
      BY <1>1, <2>1, <3>1, <3>2
  <2>4. ReadsInOrder(rows, m, now)
    BY <2>1, <2>2, <2>3 DEF ReadsInOrder
  <2> QED
    BY <1>3, <2>4 DEF now
<1> QED
  BY <1>2, <1>3

(* What a replay reads: the rows that are done, in the order of the log.   *)
LEMMA VisibleIsInOrder ==
    ASSUME NEW rows \in Seq(Rows)
    PROVE  ReadsInOrder(rows, Len(rows), VisibleOf(rows))
<1> DEFINE f == CHOOSE g : Reading(rows, Len(rows), g)
           Bad == {n \in 0 .. Len(rows) : ~ ReadsInOrder(rows, n, f[n])}
<1>1. Len(rows) \in Nat
  OBVIOUS
<1>2. Reading(rows, Len(rows), f)
  BY <1>1, ReadingIsDefined
<1>3. VisibleOf(rows) = f[Len(rows)]
  BY DEF VisibleOf, Reading
<1> HIDE DEF f
<1>4. Bad = {}
  <2> SUFFICES ASSUME Bad # {} PROVE FALSE
    OBVIOUS
  <2>1. Bad \subseteq Nat
    BY <1>1
  <2> HIDE DEF Bad
  <2>2. PICK m \in Bad : \A k \in Bad : m <= k
    BY <2>1, LeastNatural
  <2>3. m \in 0 .. Len(rows) /\ ~ ReadsInOrder(rows, m, f[m])
    BY <2>2 DEF Bad
  <2>4. m # 0
    <3>1. f[0] = <<>>
      BY <1>1, <1>2 DEF Reading
    <3>2. ReadsInOrder(rows, 0, <<>>)
      BY DEF ReadsInOrder
    <3> QED
      BY <2>3, <3>1, <3>2
  <2>5. m - 1 \in 0 .. Len(rows) /\ m - 1 \notin Bad
    BY <1>1, <2>2, <2>3, <2>4
  <2>6. ReadsInOrder(rows, m - 1, f[m - 1])
    BY <2>5 DEF Bad
  <2>7. f[m] = IF rows[m].done THEN Append(f[m - 1], rows[m]) ELSE f[m - 1]
    BY <1>2, <2>3, <2>4 DEF Reading
  <2> QED
    BY <2>3, <2>4, <2>6, <2>7, ReadingGoesOn
<1> QED
  BY <1>1, <1>3, <1>4

-------------------------------------------------------------------------------
(* What the parts of an event's effect do to a graph.                      *)

Marked(g, e) == [g EXCEPT !.applied = @ \cup {e.key}]

StillDeleted(old, new) ==
    \A id \in DOMAIN old : id \in DOMAIN new /\ (old[id].deleted => new[id].deleted)

KeysTellApart(events) == \A a, b \in events : a.key = b.key => a = b

(* What an operation changes of a node.                                    *)
LEMMA NodeUpdates ==
    ASSUME NEW n \in NodeRecords, NEW c \in Ids \cup {NoId}, NEW b \in BOOLEAN
    PROVE  /\ [n EXCEPT !.canonical = c, !.merged = b] \in NodeRecords
           /\ [n EXCEPT !.canonical = c, !.merged = b].deleted = n.deleted
           /\ [n EXCEPT !.closed = TRUE] \in NodeRecords
           /\ [n EXCEPT !.closed = TRUE].deleted = n.deleted
           /\ [n EXCEPT !.deleted = TRUE] \in NodeRecords
           /\ [n EXCEPT !.deleted = TRUE].deleted = TRUE
BY DEF NodeRecords

(* A node set in a graph; a deleted one stays deleted.                     *)
LEMMA SetNodeFits ==
    ASSUME NEW g, GraphIsTyped(g), NEW id \in Ids, NEW node \in NodeRecords,
           id \in DOMAIN g.nodes => (g.nodes[id].deleted => node.deleted),
           NEW h, h = SetNode(g, id, node)
    PROVE  /\ GraphIsTyped(h)
           /\ DOMAIN h.nodes = DOMAIN g.nodes \cup {id} /\ h.nodes[id] = node
           /\ h.edges = g.edges /\ h.applied = g.applied /\ h.quarantined = g.quarantined
           /\ StillDeleted(g.nodes, h.nodes)
<1> DEFINE nodes == [i \in DOMAIN g.nodes \cup {id} |-> IF i = id THEN node ELSE g.nodes[i]]
<1>1. /\ DOMAIN h = DOMAIN g
      /\ h.nodes = nodes /\ h.edges = g.edges /\ h.edgeSeq = g.edgeSeq
      /\ h.applied = g.applied /\ h.quarantined = g.quarantined
  BY DEF SetNode, GraphIsTyped
<1>2. DOMAIN nodes = DOMAIN g.nodes \cup {id} /\ nodes[id] = node
  OBVIOUS
<1>3. nodes \in [DOMAIN nodes -> NodeRecords]
  BY DEF GraphIsTyped
<1>4. StillDeleted(g.nodes, nodes)
  BY DEF StillDeleted
<1> HIDE DEF nodes
<1>5. GraphIsTyped(h)
  BY <1>1, <1>2, <1>3 DEF GraphIsTyped
<1> QED
  BY <1>1, <1>2, <1>4, <1>5

(* A graph with one relation more.                                         *)
HasAlso(h, g, type, from, to) ==
    \E x : /\ x.type = type /\ x.from = from /\ x.to = to
           /\ GraphIsTyped(h)
           /\ ToSet(h.edges) = ToSet(g.edges) \cup {x}
           /\ h.nodes = g.nodes /\ h.applied = g.applied /\ h.quarantined = g.quarantined

(* A relation more.                                                        *)
LEMMA AddEdgeFits ==
    ASSUME NEW g, GraphIsTyped(g), NEW type \in RelationTypes, NEW from \in Ids, NEW to \in Ids,
           NEW ref \in Ids \cup Nat \cup {NoId},
           NEW h, h = AddEdge(g, type, from, to, ref)
    PROVE  HasAlso(h, g, type, from, to)
<1> DEFINE x == [id |-> g.edgeSeq + 1, type |-> type, from |-> from, to |-> to, ref |-> ref]
<1>1. /\ DOMAIN h = DOMAIN g
      /\ h.edges = Append(g.edges, x) /\ h.edgeSeq = g.edgeSeq + 1
      /\ h.nodes = g.nodes /\ h.applied = g.applied /\ h.quarantined = g.quarantined
  BY DEF AddEdge, GraphIsTyped
<1>2. x \in EdgeRecords /\ g.edges \in Seq(EdgeRecords) /\ g.edgeSeq \in Nat
  BY DEF EdgeRecords, GraphIsTyped
<1>3. x.type = type /\ x.from = from /\ x.to = to
  OBVIOUS
<1> HIDE DEF x
<1>4. Append(g.edges, x) \in Seq(EdgeRecords) /\ ToSet(h.edges) = ToSet(g.edges) \cup {x}
  BY <1>1, <1>2, ElementsOfAppend
<1>5. GraphIsTyped(h)
  BY <1>1, <1>2, <1>4 DEF GraphIsTyped
<1> QED
  BY <1>1, <1>3, <1>4, <1>5 DEF HasAlso

(* Relations less.                                                         *)
LEMMA DropEdgesFits ==
    ASSUME NEW g, GraphIsTyped(g), NEW dropped, NEW h, h = DropEdges(g, dropped)
    PROVE  /\ GraphIsTyped(h)
           /\ ToSet(h.edges) = ToSet(g.edges) \ dropped
           /\ h.nodes = g.nodes /\ h.applied = g.applied /\ h.quarantined = g.quarantined
<1> DEFINE kept == Picked(g.edges, ToSet(g.edges) \ dropped)
<1>1. /\ DOMAIN h = DOMAIN g
      /\ h.edges = kept /\ h.edgeSeq = g.edgeSeq
      /\ h.nodes = g.nodes /\ h.applied = g.applied /\ h.quarantined = g.quarantined
  BY DEF DropEdges, GraphIsTyped
<1>2. kept \in Seq(EdgeRecords) /\ ToSet(kept) = ToSet(g.edges) \ dropped
  <2>1. g.edges \in Seq(EdgeRecords)
    BY DEF GraphIsTyped
  <2>2. kept \in Seq(EdgeRecords) /\ ToSet(kept) = ToSet(g.edges) \cap (ToSet(g.edges) \ dropped)
    BY <2>1, ElementsOfPicked
  <2> QED
    BY <2>2
<1> HIDE DEF kept
<1>3. GraphIsTyped(h)
  BY <1>1, <1>2 DEF GraphIsTyped
<1> QED
  BY <1>1, <1>2, <1>3

(* An event noted as applied.                                              *)
LEMMA MarkedFits ==
    ASSUME NEW g, GraphIsTyped(g), NEW e, NEW h, h = Marked(g, e)
    PROVE  /\ GraphIsTyped(h)
           /\ h.applied = g.applied \cup {e.key}
           /\ h.nodes = g.nodes /\ h.edges = g.edges /\ h.quarantined = g.quarantined
BY DEF Marked, GraphIsTyped

-------------------------------------------------------------------------------
(* How the parts of GraphFits survive an event.                            *)

(* An event applied leaves the nodes it should leave.                      *)
LEMMA NodesStayFit ==
    ASSUME NEW old, NEW new, NEW applied, NEW events, NEW e \in events,
           NodesFit(old, applied, events), KeysTellApart(events),
           DOMAIN new = IF e.op = "create_node" THEN DOMAIN old \cup {e.subject} ELSE DOMAIN old
    PROVE  NodesFit(new, applied \cup {e.key}, events)
<1>1. applied \cup {e.key} \subseteq KeysOf(events)
  BY DEF NodesFit, KeysOf
<1>2. ASSUME NEW a \in events, a.op = "create_node", a.key \in applied \cup {e.key}
      PROVE  a.subject \in DOMAIN new
  <2>1. CASE a.key \in applied
    BY <1>2, <2>1 DEF NodesFit
  <2>2. CASE a.key = e.key
    <3>1. a = e
      BY <2>2 DEF KeysTellApart
    <3> QED
      BY <1>2, <3>1
  <2> QED
    BY <1>2, <2>1, <2>2
<1>3. ASSUME NEW id \in DOMAIN new
      PROVE  \E a \in events : a.op = "create_node" /\ a.subject = id
  BY DEF NodesFit
<1> QED
  BY <1>1, <1>2, <1>3 DEF NodesFit

(* Relations taken out leave the others fit.                               *)
LEMMA FewerRelationsFit ==
    ASSUME NEW old, NEW new, new \subseteq old, NEW applied, NEW key, NEW events,
           RelationsFit(old, applied, events)
    PROVE  RelationsFit(new, applied \cup {key}, events)
<1>1. ASSUME NEW x \in new, x.type \in Claims
      PROVE  \E e \in events : /\ e.op = "create_edge" /\ e.key \in applied \cup {key}
                               /\ e.ref = x.type /\ e.subject = x.from /\ e.object = x.to
  BY <1>1 DEF RelationsFit
<1>2. \A x \in new : x.type = "SAME_AS" => <<x.from, x.to>> \in Pairs
  BY DEF RelationsFit
<1>3. \A x, y \in new : x.type = y.type /\ x.type \in Claims => x = y
  BY DEF RelationsFit
<1> QED
  BY <1>1, <1>2, <1>3 DEF RelationsFit

(* So does one that is no claim's.                                         *)
LEMMA AnotherRelationFits ==
    ASSUME NEW edges, NEW applied, NEW events, RelationsFit(edges, applied, events),
           NEW x, x.type \notin Claims, x.type = "SAME_AS" => <<x.from, x.to>> \in Pairs
    PROVE  RelationsFit(edges \cup {x}, applied, events)
<1>1. ASSUME NEW y \in edges \cup {x}, y.type \in Claims
      PROVE  \E e \in events : /\ e.op = "create_edge" /\ e.key \in applied
                               /\ e.ref = y.type /\ e.subject = y.from /\ e.object = y.to
  BY <1>1 DEF RelationsFit
<1>2. \A y \in edges \cup {x} : y.type = "SAME_AS" => <<y.from, y.to>> \in Pairs
  BY DEF RelationsFit
<1>3. \A y, z \in edges \cup {x} : y.type = z.type /\ y.type \in Claims => y = z
  BY DEF RelationsFit
<1> QED
  BY <1>1, <1>2, <1>3 DEF RelationsFit

(* An event that takes no relation out, and is none, breaks no wiring.     *)
LEMMA WiringStaysFit ==
    ASSUME NEW old, NEW new, StillDeleted(old, new), NEW edges, NEW more, edges \subseteq more,
           NEW applied, NEW events, NEW e \in events, e.op # "create_edge",
           KeysTellApart(events), WiringFits(old, edges, applied, events)
    PROVE  WiringFits(new, more, applied \cup {e.key}, events)
<1> SUFFICES ASSUME NEW a \in events, a.op = "create_edge", a.key \in applied \cup {e.key}
             PROVE  \/ \E x \in more : x.type = a.ref
                    \/ \E id \in {a.subject, a.object} \cap DOMAIN new : new[id].deleted
                    \/ PairOf(a) \in UnmergedIn(events)
  BY DEF WiringFits
<1>1. a.key \in applied
  BY DEF KeysTellApart
<1>2. CASE \E x \in edges : x.type = a.ref
  BY <1>2
<1>3. CASE \E id \in {a.subject, a.object} \cap DOMAIN old : old[id].deleted
  <2>1. PICK id \in {a.subject, a.object} \cap DOMAIN old : old[id].deleted
    BY <1>3
  <2>2. id \in DOMAIN new /\ new[id].deleted
    BY <2>1 DEF StillDeleted
  <2> QED
    BY <2>1, <2>2
<1> QED
  BY <1>1, <1>2, <1>3 DEF WiringFits

-------------------------------------------------------------------------------
(* Every event leaves a graph that fits.                                   *)

(* The fields of each kind of event.                                       *)
LEMMA EventFields ==
    ASSUME NEW e \in Events
    PROVE  /\ e.op \in Ops
           /\ e.subject \in Ids /\ e.object \in Ids \cup {NoId}
           /\ e.ref \in Ids \cup Nat \cup {NoId}
           /\ e.op = "create_node" => e \in NodeEvents
           /\ e.op = "create_edge" =>
                /\ e.key = <<"create_edge", e.ref>>
                /\ <<e.ref, e.subject, e.object>> \in Triples
                /\ e.ref \in Claims /\ e.object \in Ids
           /\ e.op \in {"merge_entity", "unmerge", "supersede"} =>
                <<e.subject, e.object>> \in Pairs /\ e.object \in Ids
<1>1. CASE e \in NodeEvents
  BY <1>1, LedgerAssumption DEF NodeEvents, Node, Event, Ops
<1>2. CASE e \in RelationEvents
  <2>1. /\ e \in EventRecords /\ e.op = "create_edge" /\ e.key = <<"create_edge", e.ref>>
        /\ <<e.ref, e.subject, e.object>> \in Triples /\ e.object # NoId
    BY <1>2 DEF RelationEvents
  <2>2. e.ref \in Claims
    BY <2>1, LedgerAssumption
  <2>3. /\ e.subject \in Ids /\ e.object \in Ids \cup {NoId}
        /\ e.ref \in Ids \cup Nat \cup {NoId}
    BY <2>1 DEF EventRecords
  <2> QED
    BY <2>1, <2>2, <2>3 DEF Ops
<1>3. CASE e \in EditEvents
  <2>1. /\ e \in EventRecords /\ e.op \in {"merge_entity", "unmerge", "supersede", "delete"}
        /\ e.op # "delete" => <<e.subject, e.object>> \in Pairs
    BY <1>3 DEF EditEvents
  <2>2. /\ e.subject \in Ids /\ e.object \in Ids \cup {NoId}
        /\ e.ref \in Ids \cup Nat \cup {NoId}
    BY <2>1 DEF EventRecords
  <2>3. <<e.subject, e.object>> \in Pairs => e.object \in Ids
    BY LedgerAssumption
  <2> QED
    BY <2>1, <2>2, <2>3 DEF Ops
<1> QED
  BY <1>1, <1>2, <1>3 DEF Events, RunEvents

(* An event of a set that the graph has not applied.                       *)
IsNew(g, events, e) ==
    /\ GraphFits(g, events)
    /\ events \subseteq Events /\ KeysTellApart(events)
    /\ e \in events /\ e.key \notin g.applied

(* GraphFits of a graph with an event noted, part by part.                 *)
LEMMA MarkedIsFit ==
    ASSUME NEW g, NEW events, NEW e, GraphIsTyped(g), g.quarantined = {},
           NodesFit(g.nodes, g.applied \cup {e.key}, events),
           RelationsFit(ToSet(g.edges), g.applied \cup {e.key}, events),
           WiringFits(g.nodes, ToSet(g.edges), g.applied \cup {e.key}, events)
    PROVE  GraphFits(Marked(g, e), events)
<1> DEFINE h == Marked(g, e)
<1>1. /\ GraphIsTyped(h)
      /\ h.applied = g.applied \cup {e.key}
      /\ h.nodes = g.nodes /\ h.edges = g.edges /\ h.quarantined = g.quarantined
  BY MarkedFits
<1> HIDE DEF h
<1>2. GraphFits(h, events)
  BY <1>1 DEF GraphFits
<1> QED
  BY <1>2 DEF h

(* Each operation, on an event that was not applied yet: create_node.      *)
LEMMA CreateNodeFits ==
    ASSUME NEW g, NEW events, NEW e, IsNew(g, events, e), e.op = "create_node"
    PROVE  GraphFits(Marked(CreateNode(g, e), e), events)
<1> DEFINE h == CreateNode(g, e)
<1>1. /\ GraphIsTyped(g) /\ g.quarantined = {}
      /\ NodesFit(g.nodes, g.applied, events) /\ RelationsFit(ToSet(g.edges), g.applied, events)
      /\ WiringFits(g.nodes, ToSet(g.edges), g.applied, events)
      /\ e \in events /\ e \in Events /\ KeysTellApart(events)
  BY DEF IsNew, GraphFits
<1>2. e.subject \in Ids
  BY <1>1, EventFields
<1>3. /\ GraphIsTyped(h)
      /\ DOMAIN h.nodes = DOMAIN g.nodes \cup {e.subject}
      /\ h.edges = g.edges /\ h.applied = g.applied /\ h.quarantined = g.quarantined
      /\ StillDeleted(g.nodes, h.nodes)
  <2>1. CASE e.subject \in DOMAIN g.nodes
    <3>1. h = g
      BY <2>1 DEF CreateNode, HasNode
    <3> QED
      BY <1>1, <2>1, <3>1 DEF StillDeleted
  <2>2. CASE e.subject \notin DOMAIN g.nodes
    <3>1. h = SetNode(g, e.subject, NewNode)
      BY <2>2 DEF CreateNode, HasNode
    <3>2. NewNode \in NodeRecords
      BY DEF NewNode, NodeRecords
    <3> QED
      BY <1>1, <1>2, <2>2, <3>1, <3>2, SetNodeFits
  <2> QED
    BY <2>1, <2>2
<1> HIDE DEF h
<1>4. NodesFit(h.nodes, h.applied \cup {e.key}, events)
  BY <1>1, <1>3, NodesStayFit
<1>5. RelationsFit(ToSet(h.edges), h.applied \cup {e.key}, events)
  BY <1>1, <1>3, FewerRelationsFit
<1>6. WiringFits(h.nodes, ToSet(h.edges), h.applied \cup {e.key}, events)
  BY <1>1, <1>3, WiringStaysFit
<1>7. GraphFits(Marked(h, e), events)
  BY <1>1, <1>3, <1>4, <1>5, <1>6, MarkedIsFit
<1> QED
  BY <1>7 DEF h

(* A relation whose nodes are there: its claim has none yet, as its key    *)
(* has not been applied.                                                   *)
LEMMA CreateEdgeFits ==
    ASSUME NEW g, NEW events, NEW e, IsNew(g, events, e), e.op = "create_edge",
           {e.subject, e.object} \subseteq DOMAIN g.nodes
    PROVE  GraphFits(Marked(CreateEdge(g, e), e), events)
<1> DEFINE h == CreateEdge(g, e)
<1>1. /\ GraphIsTyped(g) /\ g.quarantined = {}
      /\ NodesFit(g.nodes, g.applied, events) /\ RelationsFit(ToSet(g.edges), g.applied, events)
      /\ WiringFits(g.nodes, ToSet(g.edges), g.applied, events)
      /\ e \in events /\ events \subseteq Events /\ KeysTellApart(events)
      /\ e.key \notin g.applied
  BY DEF IsNew, GraphFits
<1>2. /\ e.subject \in Ids /\ e.object \in Ids /\ e.ref \in Claims
      /\ e.key = <<"create_edge", e.ref>>
  BY <1>1, EventFields
<1>3. h = AddEdge(g, e.ref, e.subject, e.object, NoId)
  BY DEF CreateEdge, HasNode
<1> HIDE DEF h
<1>4. e.ref \in RelationTypes /\ NoId \in Ids \cup Nat \cup {NoId}
  BY <1>2 DEF RelationTypes
<1>5. PICK x : /\ x.type = e.ref /\ x.from = e.subject /\ x.to = e.object
               /\ GraphIsTyped(h) /\ ToSet(h.edges) = ToSet(g.edges) \cup {x}
               /\ h.nodes = g.nodes /\ h.applied = g.applied /\ h.quarantined = g.quarantined
  <2>1. HasAlso(h, g, e.ref, e.subject, e.object)
    BY <1>1, <1>2, <1>3, <1>4, AddEdgeFits
  <2> QED
    BY <2>1 DEF HasAlso
<1>6. NodesFit(h.nodes, h.applied \cup {e.key}, events)
  BY <1>1, <1>5, NodesStayFit
<1>7. ASSUME NEW y \in ToSet(g.edges) PROVE y.type # e.ref
  <2> SUFFICES ASSUME y.type = e.ref PROVE FALSE
    OBVIOUS
  <2>1. PICK a \in events : a.op = "create_edge" /\ a.key \in g.applied /\ a.ref = e.ref
    BY <1>1, <1>2 DEF RelationsFit
  <2>2. a.key = <<"create_edge", a.ref>>
    BY <1>1, <2>1, EventFields
  <2> QED
    BY <1>1, <1>2, <2>1, <2>2
<1>8. RelationsFit(ToSet(h.edges), h.applied \cup {e.key}, events)
  <2> DEFINE edges == ToSet(h.edges)
             applied == h.applied \cup {e.key}
  <2>1. RelationsFit(ToSet(g.edges), applied, events)
    BY <1>1, <1>5, FewerRelationsFit
  <2>2. edges = ToSet(g.edges) \cup {x} /\ e.key \in applied
    BY <1>5
  <2> HIDE DEF edges, applied
  <2>3. ASSUME NEW y \in edges, y.type = "SAME_AS" PROVE <<y.from, y.to>> \in Pairs
    <3>1. y # x
      BY <1>2, <1>5, <2>3, LedgerAssumption
    <3> QED
      BY <2>1, <2>2, <2>3, <3>1 DEF RelationsFit
  <2>4. ASSUME NEW y \in edges, y.type \in Claims
        PROVE  \E a \in events : /\ a.op = "create_edge" /\ a.key \in applied
                                 /\ a.ref = y.type /\ a.subject = y.from /\ a.object = y.to
    <3>1. CASE y = x
      BY <1>1, <1>5, <2>2, <3>1
    <3>2. CASE y \in ToSet(g.edges)
      BY <2>1, <2>4, <3>2 DEF RelationsFit
    <3> QED
      BY <2>2, <3>1, <3>2
  <2>5. ASSUME NEW y \in edges, NEW z \in edges, y.type = z.type, y.type \in Claims
        PROVE  y = z
    <3>1. CASE y \in ToSet(g.edges) /\ z \in ToSet(g.edges)
      BY <2>1, <2>5, <3>1 DEF RelationsFit
    <3>2. CASE y = x \/ z = x
      BY <1>5, <1>7, <2>2, <2>5, <3>2
    <3> QED
      BY <2>2, <3>1, <3>2
  <2>6. RelationsFit(edges, applied, events)
    BY <2>3, <2>4, <2>5 DEF RelationsFit
  <2> QED
    BY <2>6 DEF edges, applied
<1>9. WiringFits(h.nodes, ToSet(h.edges), h.applied \cup {e.key}, events)
  <2>1. ASSUME NEW a \in events, a.op = "create_edge", a.key \in g.applied \cup {e.key}
        PROVE  \/ \E y \in ToSet(h.edges) : y.type = a.ref
               \/ \E id \in {a.subject, a.object} \cap DOMAIN h.nodes : h.nodes[id].deleted
               \/ PairOf(a) \in UnmergedIn(events)
    <3>1. CASE a.key \in g.applied
      BY <1>1, <1>5, <2>1, <3>1 DEF WiringFits
    <3>2. CASE a.key = e.key
      BY <1>1, <1>5, <3>2 DEF KeysTellApart
    <3> QED
      BY <2>1, <3>1, <3>2
  <2> QED
    BY <1>5, <2>1 DEF WiringFits
<1>10. GraphFits(Marked(h, e), events)
  BY <1>1, <1>5, <1>6, <1>8, <1>9, MarkedIsFit
<1> QED
  BY <1>10 DEF h

(* merge_entity: its SAME_AS joins a pair.                                 *)
LEMMA MergeFits ==
    ASSUME NEW g, NEW events, NEW e, IsNew(g, events, e), e.op = "merge_entity",
           {e.subject, e.object} \subseteq DOMAIN g.nodes
    PROVE  GraphFits(Marked(Merge(g, e), e), events)
<1> DEFINE node == [g.nodes[e.subject] EXCEPT !.canonical = e.object, !.merged = TRUE]
           m == SetNode(g, e.subject, node)
           h == Merge(g, e)
<1>1. /\ GraphIsTyped(g) /\ g.quarantined = {}
      /\ NodesFit(g.nodes, g.applied, events) /\ RelationsFit(ToSet(g.edges), g.applied, events)
      /\ WiringFits(g.nodes, ToSet(g.edges), g.applied, events)
      /\ e \in events /\ e \in Events /\ KeysTellApart(events)
  BY DEF IsNew, GraphFits
<1>2. /\ e.subject \in Ids /\ e.object \in Ids /\ <<e.subject, e.object>> \in Pairs
      /\ e.ref \in Ids \cup Nat \cup {NoId}
  BY <1>1, EventFields
<1>3. h = AddEdge(m, "SAME_AS", e.subject, e.object, e.ref)
  BY DEF Merge, HasNode
<1>4. node \in NodeRecords /\ (g.nodes[e.subject].deleted => node.deleted)
  <2>1. g.nodes[e.subject] \in NodeRecords
    BY <1>1 DEF GraphIsTyped
  <2>2. e.object \in Ids \cup {NoId} /\ TRUE \in BOOLEAN
    BY <1>2
  <2>3. node \in NodeRecords /\ node.deleted = g.nodes[e.subject].deleted
    BY <2>1, <2>2, NodeUpdates
  <2> HIDE DEF node
  <2> QED
    BY <2>3
<1> HIDE DEF node, h
<1>5. /\ GraphIsTyped(m) /\ DOMAIN m.nodes = DOMAIN g.nodes
      /\ m.edges = g.edges /\ m.applied = g.applied /\ m.quarantined = g.quarantined
      /\ StillDeleted(g.nodes, m.nodes)
  <2>1. m = SetNode(g, e.subject, node)
    OBVIOUS
  <2> HIDE DEF m
  <2>2. /\ GraphIsTyped(m) /\ DOMAIN m.nodes = DOMAIN g.nodes \cup {e.subject}
        /\ m.edges = g.edges /\ m.applied = g.applied /\ m.quarantined = g.quarantined
        /\ StillDeleted(g.nodes, m.nodes)
    BY <1>1, <1>2, <1>4, <2>1, SetNodeFits
  <2> QED
    BY <2>2
<1> HIDE DEF m
<1>6. "SAME_AS" \in RelationTypes
  BY DEF RelationTypes
<1>7. PICK x : /\ x.type = "SAME_AS" /\ x.from = e.subject /\ x.to = e.object
               /\ GraphIsTyped(h) /\ ToSet(h.edges) = ToSet(m.edges) \cup {x}
               /\ h.nodes = m.nodes /\ h.applied = m.applied /\ h.quarantined = m.quarantined
  <2>1. HasAlso(h, m, "SAME_AS", e.subject, e.object)
    BY <1>2, <1>3, <1>5, <1>6, AddEdgeFits
  <2> QED
    BY <2>1 DEF HasAlso
<1>8. NodesFit(h.nodes, h.applied \cup {e.key}, events)
  BY <1>1, <1>5, <1>7, NodesStayFit
<1>9. RelationsFit(ToSet(h.edges), h.applied \cup {e.key}, events)
  <2>1. RelationsFit(ToSet(g.edges), h.applied \cup {e.key}, events)
    BY <1>1, <1>5, <1>7, FewerRelationsFit
  <2>2. x.type \notin Claims
    BY <1>7, LedgerAssumption
  <2> QED
    BY <1>2, <1>5, <1>7, <2>1, <2>2, AnotherRelationFits
<1>10. WiringFits(h.nodes, ToSet(h.edges), h.applied \cup {e.key}, events)
  BY <1>1, <1>5, <1>7, WiringStaysFit
<1>11. GraphFits(Marked(h, e), events)
  BY <1>1, <1>5, <1>7, <1>8, <1>9, <1>10, MarkedIsFit
<1> QED
  BY <1>11 DEF h

(* supersede: nothing happens without its nodes.                           *)
LEMMA SupersedeFits ==
    ASSUME NEW g, NEW events, NEW e, IsNew(g, events, e), e.op = "supersede"
    PROVE  GraphFits(Marked(Supersede(g, e), e), events)
<1> DEFINE m == AddEdge(g, "SUPERSEDES", e.subject, e.object, NoId)
           node == [g.nodes[e.object] EXCEPT !.closed = TRUE]
           h == Supersede(g, e)
<1>1. /\ GraphIsTyped(g) /\ g.quarantined = {}
      /\ NodesFit(g.nodes, g.applied, events) /\ RelationsFit(ToSet(g.edges), g.applied, events)
      /\ WiringFits(g.nodes, ToSet(g.edges), g.applied, events)
      /\ e \in events /\ e \in Events /\ KeysTellApart(events)
  BY DEF IsNew, GraphFits
<1>2. e.subject \in Ids /\ e.object \in Ids
  BY <1>1, EventFields
<1>3. /\ GraphIsTyped(h) /\ DOMAIN h.nodes = DOMAIN g.nodes
      /\ h.applied = g.applied /\ h.quarantined = g.quarantined
      /\ StillDeleted(g.nodes, h.nodes)
      /\ ToSet(g.edges) \subseteq ToSet(h.edges)
      /\ RelationsFit(ToSet(h.edges), h.applied, events)
  <2>1. CASE ~ {e.subject, e.object} \subseteq DOMAIN g.nodes
    <3>1. h = g
      BY <2>1 DEF Supersede, HasNode
    <3> QED
      BY <1>1, <3>1 DEF StillDeleted
  <2>2. CASE {e.subject, e.object} \subseteq DOMAIN g.nodes
    <3>1. h = SetNode(m, e.object, node)
      BY <2>2 DEF Supersede, HasNode
    <3>2. node \in NodeRecords /\ (g.nodes[e.object].deleted => node.deleted)
      <4>1. g.nodes[e.object] \in NodeRecords
        BY <1>1, <2>2 DEF GraphIsTyped
      <4>2. NoId \in Ids \cup {NoId} /\ TRUE \in BOOLEAN
        OBVIOUS
      <4> QED
        BY <4>1, <4>2, NodeUpdates
    <3> HIDE DEF h, node
    <3>3. "SUPERSEDES" \in RelationTypes /\ NoId \in Ids \cup Nat \cup {NoId}
      BY DEF RelationTypes
    <3>4. PICK x : /\ x.type = "SUPERSEDES"
                   /\ GraphIsTyped(m) /\ ToSet(m.edges) = ToSet(g.edges) \cup {x}
                   /\ m.nodes = g.nodes /\ m.applied = g.applied
                   /\ m.quarantined = g.quarantined
      <4>1. HasAlso(m, g, "SUPERSEDES", e.subject, e.object)
        BY <1>1, <1>2, <3>3, AddEdgeFits
      <4> QED
        BY <4>1 DEF HasAlso
    <3> HIDE DEF m
    <3>5. /\ GraphIsTyped(h) /\ DOMAIN h.nodes = DOMAIN m.nodes \cup {e.object}
          /\ h.edges = m.edges /\ h.applied = m.applied /\ h.quarantined = m.quarantined
          /\ StillDeleted(m.nodes, h.nodes)
      BY <1>2, <3>1, <3>2, <3>4, SetNodeFits
    <3>6. RelationsFit(ToSet(g.edges) \cup {x}, g.applied, events)
      <4>1. x.type \notin Claims /\ x.type # "SAME_AS"
        BY <3>4, LedgerAssumption
      <4> QED
        BY <1>1, <4>1, AnotherRelationFits
    <3> QED
      BY <2>2, <3>4, <3>5, <3>6
  <2> HIDE DEF h, m, node
  <2> QED
    BY <2>1, <2>2
<1> HIDE DEF h
<1>4. NodesFit(h.nodes, h.applied \cup {e.key}, events)
  BY <1>1, <1>3, NodesStayFit
<1>5. RelationsFit(ToSet(h.edges), h.applied \cup {e.key}, events)
  BY <1>3, FewerRelationsFit
<1>6. WiringFits(h.nodes, ToSet(h.edges), h.applied \cup {e.key}, events)
  BY <1>1, <1>3, WiringStaysFit
<1>7. GraphFits(Marked(h, e), events)
  BY <1>1, <1>3, <1>4, <1>5, <1>6, MarkedIsFit
<1> QED
  BY <1>7 DEF h

(* An unmerge may take out a relation of a claim, between the two.         *)
LEMMA UnmergeFits ==
    ASSUME NEW g, NEW events, NEW e, IsNew(g, events, e), e.op = "unmerge"
    PROVE  GraphFits(Marked(Unmerge(g, e), e), events)
<1> DEFINE m == DropEdges(g, Undone(g, e))
           node == [g.nodes[e.subject] EXCEPT !.canonical = NoId, !.merged = FALSE]
           h == Unmerge(g, e)
<1>1. /\ GraphIsTyped(g) /\ g.quarantined = {}
      /\ NodesFit(g.nodes, g.applied, events) /\ RelationsFit(ToSet(g.edges), g.applied, events)
      /\ WiringFits(g.nodes, ToSet(g.edges), g.applied, events)
      /\ e \in events /\ events \subseteq Events /\ KeysTellApart(events)
  BY DEF IsNew, GraphFits
<1>2. e.subject \in Ids /\ <<e.subject, e.object>> \in Pairs
  BY <1>1, EventFields
<1>3. /\ GraphIsTyped(m) /\ ToSet(m.edges) = ToSet(g.edges) \ Undone(g, e)
      /\ m.nodes = g.nodes /\ m.applied = g.applied /\ m.quarantined = g.quarantined
  BY <1>1, DropEdgesFits
<1>4. \/ h = g
      \/ h = m
      \/ e.subject \in DOMAIN g.nodes /\ h = SetNode(m, e.subject, node)
  BY DEF Unmerge, HasNode
<1>5. e.subject \in DOMAIN g.nodes =>
        node \in NodeRecords /\ (g.nodes[e.subject].deleted => node.deleted)
  <2> SUFFICES ASSUME e.subject \in DOMAIN g.nodes
               PROVE  node \in NodeRecords /\ (g.nodes[e.subject].deleted => node.deleted)
    OBVIOUS
  <2>1. g.nodes[e.subject] \in NodeRecords
    BY <1>1 DEF GraphIsTyped
  <2>2. NoId \in Ids \cup {NoId} /\ FALSE \in BOOLEAN
    OBVIOUS
  <2>3. node \in NodeRecords /\ node.deleted = g.nodes[e.subject].deleted
    BY <2>1, <2>2, NodeUpdates
  <2> HIDE DEF node
  <2> QED
    BY <2>3
<1> HIDE DEF m, node, h
<1>6. /\ GraphIsTyped(h) /\ DOMAIN h.nodes = DOMAIN g.nodes
      /\ h.applied = g.applied /\ h.quarantined = g.quarantined
      /\ StillDeleted(g.nodes, h.nodes)
      /\ ToSet(h.edges) \in {ToSet(g.edges), ToSet(g.edges) \ Undone(g, e)}
  <2>1. CASE h = g
    BY <1>1, <2>1 DEF StillDeleted
  <2>2. CASE h = m
    BY <1>3, <2>2 DEF StillDeleted
  <2>3. CASE e.subject \in DOMAIN g.nodes /\ h = SetNode(m, e.subject, node)
    <3>1. /\ GraphIsTyped(h) /\ DOMAIN h.nodes = DOMAIN m.nodes \cup {e.subject}
          /\ h.edges = m.edges /\ h.applied = m.applied /\ h.quarantined = m.quarantined
          /\ StillDeleted(m.nodes, h.nodes)
      BY <1>2, <1>3, <1>5, <2>3, SetNodeFits
    <3> QED
      BY <1>3, <2>3, <3>1
  <2> QED
    BY <1>4, <2>1, <2>2, <2>3
<1>7. NodesFit(h.nodes, h.applied \cup {e.key}, events)
  BY <1>1, <1>6, NodesStayFit
<1>8. RelationsFit(ToSet(h.edges), h.applied \cup {e.key}, events)
  <2>1. ToSet(h.edges) \subseteq ToSet(g.edges)
    BY <1>6
  <2> QED
    BY <1>1, <1>6, <2>1, FewerRelationsFit
<1>9. WiringFits(h.nodes, ToSet(h.edges), h.applied \cup {e.key}, events)
  <2>1. ASSUME NEW a \in events, a.op = "create_edge", a.key \in h.applied \cup {e.key}
        PROVE  \/ \E y \in ToSet(h.edges) : y.type = a.ref
               \/ \E id \in {a.subject, a.object} \cap DOMAIN h.nodes : h.nodes[id].deleted
               \/ PairOf(a) \in UnmergedIn(events)
    <3>1. a.key \in g.applied
      BY <1>1, <1>6, <2>1 DEF KeysTellApart
    <3>2. CASE \E y \in ToSet(g.edges) : y.type = a.ref
      <4>1. PICK y \in ToSet(g.edges) : y.type = a.ref
        BY <3>2
      <4>2. y.type \in Claims
        BY <1>1, <2>1, <4>1, EventFields
      <4>3. PICK c \in events : /\ c.op = "create_edge" /\ c.key \in g.applied
                                /\ c.ref = y.type /\ c.subject = y.from /\ c.object = y.to
        BY <1>1, <4>2 DEF RelationsFit
      <4>4. c = a
        <5>1. a.key = <<"create_edge", a.ref>>
          BY <1>1, <2>1, EventFields
        <5>2. c.key = <<"create_edge", c.ref>>
          BY <1>1, <4>3, EventFields
        <5> QED
          BY <1>1, <4>1, <4>3, <5>1, <5>2 DEF KeysTellApart
      <4>5. CASE y \in Undone(g, e)
        <5>1. PairOf(a) = PairOf(e)
          BY <4>3, <4>4, <4>5 DEF Undone, PairOf
        <5> QED
          BY <1>1, <5>1 DEF UnmergedIn
      <4>6. CASE y \notin Undone(g, e)
        BY <1>6, <4>1, <4>6
      <4> QED
        BY <4>5, <4>6
    <3>3. CASE \E id \in {a.subject, a.object} \cap DOMAIN g.nodes : g.nodes[id].deleted
      BY <1>6, <3>3 DEF StillDeleted
    <3> QED
      BY <1>1, <2>1, <3>1, <3>2, <3>3 DEF WiringFits
  <2> QED
    BY <2>1 DEF WiringFits
<1>10. GraphFits(Marked(h, e), events)
  BY <1>1, <1>6, <1>7, <1>8, <1>9, MarkedIsFit
<1> QED
  BY <1>10 DEF h

(* A deletion takes out the relations of the node it marks.                *)
LEMMA DeleteFits ==
    ASSUME NEW g, NEW events, NEW e, IsNew(g, events, e), e.op = "delete"
    PROVE  GraphFits(Marked(Delete(g, e), e), events)
<1> DEFINE node == [g.nodes[e.subject] EXCEPT !.deleted = TRUE]
           m == SetNode(g, e.subject, node)
           touching == {x \in ToSet(g.edges) : e.subject \in {x.from, x.to}}
           h == Delete(g, e)
<1>1. /\ GraphIsTyped(g) /\ g.quarantined = {}
      /\ NodesFit(g.nodes, g.applied, events) /\ RelationsFit(ToSet(g.edges), g.applied, events)
      /\ WiringFits(g.nodes, ToSet(g.edges), g.applied, events)
      /\ e \in events /\ events \subseteq Events /\ KeysTellApart(events)
  BY DEF IsNew, GraphFits
<1>2. e.subject \in Ids
  BY <1>1, EventFields
<1>3. CASE e.subject \notin DOMAIN g.nodes
  <2>1. h = g
    BY <1>3 DEF Delete, HasNode
  <2>2. StillDeleted(g.nodes, g.nodes)
    BY DEF StillDeleted
  <2> HIDE DEF h
  <2>3. NodesFit(h.nodes, h.applied \cup {e.key}, events)
    BY <1>1, <2>1, NodesStayFit
  <2>4. RelationsFit(ToSet(h.edges), h.applied \cup {e.key}, events)
    BY <1>1, <2>1, FewerRelationsFit
  <2>5. WiringFits(h.nodes, ToSet(h.edges), h.applied \cup {e.key}, events)
    BY <1>1, <2>1, <2>2, WiringStaysFit
  <2>6. GraphFits(Marked(h, e), events)
    BY <1>1, <2>1, <2>3, <2>4, <2>5, MarkedIsFit
  <2> QED
    BY <2>6 DEF h
<1>4. CASE e.subject \in DOMAIN g.nodes
  <2>1. h = DropEdges(m, touching)
    BY <1>4 DEF Delete, HasNode
  <2>2. node \in NodeRecords /\ node.deleted = TRUE
    <3>1. g.nodes[e.subject] \in NodeRecords
      BY <1>1, <1>4 DEF GraphIsTyped
    <3>2. NoId \in Ids \cup {NoId} /\ TRUE \in BOOLEAN
      OBVIOUS
    <3> QED
      BY <3>1, <3>2, NodeUpdates
  <2>3. g.nodes[e.subject].deleted => node.deleted
    BY <2>2
  <2> HIDE DEF node, h, touching
  <2>4. /\ GraphIsTyped(m) /\ DOMAIN m.nodes = DOMAIN g.nodes \cup {e.subject}
        /\ m.nodes[e.subject] = node
        /\ m.edges = g.edges /\ m.applied = g.applied /\ m.quarantined = g.quarantined
        /\ StillDeleted(g.nodes, m.nodes)
    BY <1>1, <1>2, <2>2, <2>3, SetNodeFits
  <2> HIDE DEF m
  <2>5. /\ GraphIsTyped(h) /\ ToSet(h.edges) = ToSet(m.edges) \ touching
        /\ h.nodes = m.nodes /\ h.applied = m.applied /\ h.quarantined = m.quarantined
    BY <2>1, <2>4, DropEdgesFits
  <2>6. DOMAIN h.nodes = DOMAIN g.nodes /\ h.nodes[e.subject].deleted
    <3>1. DOMAIN m.nodes = DOMAIN g.nodes
      BY <1>4, <2>4
    <3> QED
      BY <2>2, <2>4, <2>5, <3>1
  <2>7. NodesFit(h.nodes, h.applied \cup {e.key}, events)
    BY <1>1, <2>4, <2>5, <2>6, NodesStayFit
  <2>8. RelationsFit(ToSet(h.edges), h.applied \cup {e.key}, events)
    <3>1. ToSet(h.edges) \subseteq ToSet(g.edges)
      BY <2>4, <2>5
    <3> QED
      BY <1>1, <2>4, <2>5, <3>1, FewerRelationsFit
  <2>9. WiringFits(h.nodes, ToSet(h.edges), h.applied \cup {e.key}, events)
    <3>1. WiringFits(h.nodes, ToSet(g.edges), h.applied \cup {e.key}, events)
      BY <1>1, <2>4, <2>5, WiringStaysFit
    <3>2. ASSUME NEW a \in events, a.op = "create_edge", a.key \in h.applied \cup {e.key},
                 NEW x \in ToSet(g.edges), x.type = a.ref, x \in touching
          PROVE  \E id \in {a.subject, a.object} \cap DOMAIN h.nodes : h.nodes[id].deleted
      <4>1. a.ref \in Claims /\ a.key = <<"create_edge", a.ref>>
        BY <1>1, <3>2, EventFields
      <4>2. PICK b \in events : /\ b.op = "create_edge" /\ b.ref = x.type
                                /\ b.subject = x.from /\ b.object = x.to
        BY <1>1, <3>2, <4>1 DEF RelationsFit
      <4>3. b.key = <<"create_edge", b.ref>>
        BY <1>1, <4>2, EventFields
      <4>4. a = b
        BY <1>1, <3>2, <4>1, <4>2, <4>3 DEF KeysTellApart
      <4>5. e.subject \in {a.subject, a.object}
        BY <3>2, <4>2, <4>4 DEF touching
      <4> QED
        BY <1>4, <2>6, <4>5
    <3>3. ASSUME NEW a \in events, a.op = "create_edge", a.key \in h.applied \cup {e.key}
          PROVE  \/ \E x \in ToSet(h.edges) : x.type = a.ref
                 \/ \E id \in {a.subject, a.object} \cap DOMAIN h.nodes : h.nodes[id].deleted
                 \/ PairOf(a) \in UnmergedIn(events)
      <4>1. CASE \E x \in ToSet(g.edges) : x.type = a.ref
        BY <2>4, <2>5, <3>2, <3>3, <4>1
      <4>2. CASE \E id \in {a.subject, a.object} \cap DOMAIN h.nodes : h.nodes[id].deleted
        BY <4>2
      <4> QED
        BY <3>1, <3>3, <4>1, <4>2 DEF WiringFits
    <3> QED
      BY <3>3 DEF WiringFits
  <2>10. GraphFits(Marked(h, e), events)
    BY <1>1, <2>4, <2>5, <2>7, <2>8, <2>9, MarkedIsFit
  <2> QED
    BY <2>10 DEF h
<1> QED
  BY <1>3, <1>4

(* Only ApplyEvent notes what is applied.                                  *)
LEMMA EffectMarksNothing ==
    ASSUME NEW g, GraphIsTyped(g), NEW e, e.op \in Ops
    PROVE  Effect(g, e).applied = g.applied
<1>1. \A id, node : SetNode(g, id, node).applied = g.applied
  BY DEF SetNode, GraphIsTyped
<1>2. \A type, from, to, ref : AddEdge(g, type, from, to, ref).applied = g.applied
  BY DEF AddEdge, GraphIsTyped
<1>3. \A dropped : DropEdges(g, dropped).applied = g.applied
  BY DEF DropEdges, GraphIsTyped
<1>4. \A type : Quarantine(g, type, e).applied = g.applied
  BY DEF Quarantine, GraphIsTyped
<1>5. \A id, node : "applied" \in DOMAIN SetNode(g, id, node)
  BY DEF SetNode, GraphIsTyped
<1>6. \A dropped : "applied" \in DOMAIN DropEdges(g, dropped)
  BY DEF DropEdges, GraphIsTyped
<1>7. \A type, from, to, ref : "applied" \in DOMAIN AddEdge(g, type, from, to, ref)
  BY DEF AddEdge, GraphIsTyped
<1>8. CreateNode(g, e).applied = g.applied
  BY <1>1 DEF CreateNode
<1>9. CreateEdge(g, e).applied = g.applied
  BY <1>2, <1>4 DEF CreateEdge
<1>10. Merge(g, e).applied = g.applied
  <2>1. \A id, node, type, from, to, ref :
           AddEdge(SetNode(g, id, node), type, from, to, ref).applied = g.applied
    BY <1>1, <1>5 DEF AddEdge
  <2> QED
    BY <1>4, <2>1 DEF Merge
<1>11. Unmerge(g, e).applied = g.applied
  <2>1. \A id, node, dropped : SetNode(DropEdges(g, dropped), id, node).applied = g.applied
    BY <1>3, <1>6 DEF SetNode
  <2> QED
    BY <1>3, <2>1 DEF Unmerge
<1>12. Supersede(g, e).applied = g.applied
  <2>1. \A id, node, type, from, to, ref :
           SetNode(AddEdge(g, type, from, to, ref), id, node).applied = g.applied
    BY <1>2, <1>7 DEF SetNode
  <2> QED
    BY <2>1 DEF Supersede
<1>13. Delete(g, e).applied = g.applied
  <2>1. \A id, node, dropped : DropEdges(SetNode(g, id, node), dropped).applied = g.applied
    BY <1>1, <1>5 DEF DropEdges
  <2> QED
    BY <2>1 DEF Delete
<1>14. Effect(g, e) \in {CreateNode(g, e), CreateEdge(g, e), Merge(g, e), Unmerge(g, e),
                         Supersede(g, e), Delete(g, e)}
  BY DEF Effect, Ops
<1> QED
  BY <1>8, <1>9, <1>10, <1>11, <1>12, <1>13, <1>14

(* One event, applied or skipped.                                          *)
LEMMA ApplyEventFits ==
    ASSUME NEW g, NEW events, GraphFits(g, events), events \subseteq Events,
           KeysTellApart(events), NEW e \in events,
           NeedsNodes(e) => {e.subject, e.object} \subseteq DOMAIN g.nodes
    PROVE  /\ GraphFits(ApplyEvent(g, e), events)
           /\ e.key \in ApplyEvent(g, e).applied
           /\ g.applied \subseteq ApplyEvent(g, e).applied
<1>1. CASE e.key \in g.applied
  <2>1. ApplyEvent(g, e) = g
    BY <1>1 DEF ApplyEvent
  <2> QED
    BY <1>1, <2>1
<1>2. CASE e.key \notin g.applied
  <2>1. IsNew(g, events, e)
    BY <1>2 DEF IsNew
  <2>2. e.op \in Ops
    BY EventFields
  <2>3. ApplyEvent(g, e) = Marked(Effect(g, e), e)
    BY <1>2 DEF ApplyEvent, Marked
  <2>4. GraphFits(Marked(Effect(g, e), e), events)
    <3>1. CASE e.op = "create_node"
      <4>1. Effect(g, e) = CreateNode(g, e)
        BY <3>1 DEF Effect
      <4> QED
        BY <2>1, <3>1, <4>1, CreateNodeFits
    <3>2. CASE e.op = "create_edge"
      <4>1. Effect(g, e) = CreateEdge(g, e)
        BY <3>2 DEF Effect
      <4> QED
        BY <2>1, <3>2, <4>1, CreateEdgeFits DEF NeedsNodes
    <3>3. CASE e.op = "merge_entity"
      <4>1. Effect(g, e) = Merge(g, e)
        BY <3>3 DEF Effect
      <4> QED
        BY <2>1, <3>3, <4>1, MergeFits DEF NeedsNodes
    <3>4. CASE e.op = "unmerge"
      <4>1. Effect(g, e) = Unmerge(g, e)
        BY <3>4 DEF Effect
      <4> QED
        BY <2>1, <3>4, <4>1, UnmergeFits
    <3>5. CASE e.op = "supersede"
      <4>1. Effect(g, e) = Supersede(g, e)
        BY <3>5 DEF Effect
      <4> QED
        BY <2>1, <3>5, <4>1, SupersedeFits
    <3>6. CASE e.op = "delete"
      <4>1. Effect(g, e) = Delete(g, e)
        BY <3>6 DEF Effect
      <4> QED
        BY <2>1, <3>6, <4>1, DeleteFits
    <3> QED
      BY <2>2, <3>1, <3>2, <3>3, <3>4, <3>5, <3>6 DEF Ops
  <2>5. Effect(g, e).applied = g.applied
    BY <2>2, EffectMarksNothing DEF GraphFits
  <2>6. Marked(Effect(g, e), e).applied = g.applied \cup {e.key}
    <3>1. PICK h : h = Effect(g, e)
      OBVIOUS
    <3>2. "applied" \in DOMAIN Marked(h, e)
      BY <2>4, <3>1 DEF GraphFits, GraphIsTyped
    <3>3. "applied" \in DOMAIN h
      BY <3>2 DEF Marked
    <3>4. Marked(h, e).applied = h.applied \cup {e.key}
      BY <3>3 DEF Marked
    <3> QED
      BY <2>5, <3>1, <3>4
  <2> QED
    BY <2>3, <2>4, <2>6
<1> QED
  BY <1>1, <1>2

(* Nodes are created before relations and merges need them.                *)
IsOrdered(events) ==
    \A k \in 1 .. Len(events) :
       NeedsNodes(events[k]) =>
          \A id \in {events[k].subject, events[k].object} :
             \E l \in 1 .. k - 1 : events[l].op = "create_node" /\ events[l].subject = id

(* A list of events in which nodes come before what needs them.            *)
LEMMA ApplyFits ==
    ASSUME NEW events, events \subseteq Events, KeysTellApart(events),
           NEW g, GraphFits(g, events),
           NEW rows \in Seq(events), IsOrdered(rows)
    PROVE  /\ GraphFits(Apply(g, rows), events)
           /\ \A k \in 1 .. Len(rows) : rows[k].key \in Apply(g, rows).applied
<1> DEFINE f == CHOOSE h : Applying(g, rows, Len(rows), h)
           Good(n) == /\ GraphFits(f[n], events)
                      /\ \A k \in 1 .. n : rows[k].key \in f[n].applied
           Bad == {n \in 0 .. Len(rows) : ~ Good(n)}
<1>1. Len(rows) \in Nat
  OBVIOUS
<1>2. Applying(g, rows, Len(rows), f)
  BY <1>1, ApplyingIsDefined
<1>3. Apply(g, rows) = f[Len(rows)]
  BY DEF Apply, Applying
<1> HIDE DEF f
<1>4. Bad = {}
  <2> SUFFICES ASSUME Bad # {} PROVE FALSE
    OBVIOUS
  <2>1. Bad \subseteq Nat
    BY <1>1
  <2> HIDE DEF Bad
  <2>2. PICK m \in Bad : \A k \in Bad : m <= k
    BY <2>1, LeastNatural
  <2>3. m \in 0 .. Len(rows) /\ ~ Good(m)
    BY <2>2 DEF Bad
  <2>4. m # 0
    <3>1. f[0] = g
      BY <1>1, <1>2 DEF Applying
    <3> QED
      BY <2>3, <3>1
  <2>5. m - 1 \in 0 .. Len(rows) /\ m - 1 \notin Bad
    BY <1>1, <2>2, <2>3, <2>4
  <2>6. Good(m - 1)
    BY <2>5 DEF Bad
  <2>7. f[m] = ApplyEvent(f[m - 1], rows[m])
    BY <1>2, <2>3, <2>4 DEF Applying
  <2>8. m \in 1 .. Len(rows) /\ rows[m] \in events
    BY <2>3, <2>4
  <2>9. ASSUME NEW id \in {rows[m].subject, rows[m].object}, NeedsNodes(rows[m])
        PROVE  id \in DOMAIN f[m - 1].nodes
    <3>1. PICK l \in 1 .. m - 1 : rows[l].op = "create_node" /\ rows[l].subject = id
      BY <2>8, <2>9 DEF IsOrdered
    <3>2. rows[l] \in events /\ rows[l].key \in f[m - 1].applied
      BY <2>3, <2>6, <3>1
    <3> QED
      BY <2>6, <3>1, <3>2 DEF GraphFits, NodesFit
  <2>10. /\ GraphFits(f[m], events)
         /\ rows[m].key \in f[m].applied
         /\ f[m - 1].applied \subseteq f[m].applied
    <3>1. NeedsNodes(rows[m]) => {rows[m].subject, rows[m].object} \subseteq DOMAIN f[m - 1].nodes
      BY <2>9
    <3> QED
      BY <2>6, <2>7, <2>8, <3>1, ApplyEventFits
  <2>11. ASSUME NEW k \in 1 .. m PROVE rows[k].key \in f[m].applied
    <3>1. CASE k = m
      BY <2>10, <3>1
    <3>2. CASE k # m
      <4>1. k \in 1 .. m - 1
        BY <2>8, <3>2
      <4> QED
        BY <2>6, <2>10, <4>1
    <3> QED
      BY <3>1, <3>2
  <2> QED
    BY <2>3, <2>10, <2>11
<1>5. Good(Len(rows))
  BY <1>1, <1>4
<1> QED
  BY <1>3, <1>5

(* A graph to begin with.                                                  *)
LEMMA EmptyGraphFits ==
    ASSUME NEW events
    PROVE  GraphFits(EmptyGraph, events)
<1>1. /\ EmptyGraph.nodes = <<>> /\ EmptyGraph.edges = <<>> /\ EmptyGraph.applied = {}
      /\ EmptyGraph.quarantined = {} /\ EmptyGraph.edgeSeq = 0
      /\ DOMAIN EmptyGraph = {"nodes", "edges", "applied", "edgeSeq", "quarantined"}
  BY DEF EmptyGraph
<1>2. DOMAIN <<>> = {} /\ ToSet(<<>>) = {}
  BY DEF ToSet
<1>3. <<>> \in [{} -> NodeRecords] /\ <<>> \in Seq(EdgeRecords)
  OBVIOUS
<1>4. GraphIsTyped(EmptyGraph)
  BY <1>1, <1>2, <1>3 DEF GraphIsTyped
<1>5. NodesFit(<<>>, {}, events) /\ RelationsFit({}, {}, events) /\ WiringFits(<<>>, {}, {}, events)
  BY <1>2 DEF NodesFit, RelationsFit, WiringFits
<1> QED
  BY <1>1, <1>2, <1>4, <1>5 DEF GraphFits

(* More events on the log leave a graph that fits: their keys are new, and *)
(* it has not applied them.                                                *)
LEMMA FitsMore ==
    ASSUME NEW g, NEW old, NEW new, old \subseteq new, KeysTellApart(new), GraphFits(g, old)
    PROVE  GraphFits(g, new)
<1>1. /\ GraphIsTyped(g) /\ g.quarantined = {}
      /\ NodesFit(g.nodes, g.applied, old) /\ RelationsFit(ToSet(g.edges), g.applied, old)
      /\ WiringFits(g.nodes, ToSet(g.edges), g.applied, old)
  BY DEF GraphFits
<1>2. ASSUME NEW e \in new, e.key \in g.applied PROVE e \in old
  <2>1. PICK a \in old : a.key = e.key
    BY <1>1, <1>2 DEF NodesFit, KeysOf
  <2> QED
    BY <1>2, <2>1 DEF KeysTellApart
<1>3. NodesFit(g.nodes, g.applied, new)
  BY <1>1, <1>2 DEF NodesFit, KeysOf
<1>4. RelationsFit(ToSet(g.edges), g.applied, new)
  <2>1. ASSUME NEW x \in ToSet(g.edges), x.type \in Claims
        PROVE  \E e \in new : /\ e.op = "create_edge" /\ e.key \in g.applied
                              /\ e.ref = x.type /\ e.subject = x.from /\ e.object = x.to
    BY <1>1, <2>1 DEF RelationsFit
  <2> QED
    BY <1>1, <2>1 DEF RelationsFit
<1>5. WiringFits(g.nodes, ToSet(g.edges), g.applied, new)
  <2>1. UnmergedIn(old) \subseteq UnmergedIn(new)
    BY DEF UnmergedIn
  <2> QED
    BY <1>1, <1>2, <2>1 DEF WiringFits
<1> QED
  BY <1>1, <1>3, <1>4, <1>5 DEF GraphFits

-------------------------------------------------------------------------------
(* What a change of the log keeps.                                         *)

(* Other sessions still see what they saw, and a past without statements   *)
(* under way stays as it is.                                               *)
LogIsKept(old, new) ==
    /\ new \in Seq(Rows)
    /\ SeenIn(old) \subseteq SeenIn(new)
    /\ \A i \in 1 .. Len(old) :
          (\A j \in 1 .. i : old[j].done) => SubSeq(new, 1, i) = SubSeq(old, 1, i)

(* Sequences that agree up to i have the same first i elements.            *)
LEMMA SamePart ==
    ASSUME NEW T, NEW s \in Seq(T), NEW t \in Seq(T), NEW i \in 1 .. Len(s), i <= Len(t),
           \A k \in 1 .. i : s[k] = t[k]
    PROVE  SubSeq(s, 1, i) = SubSeq(t, 1, i)
<1>1. /\ Len(s) \in Nat /\ Len(t) \in Nat
      /\ \A k \in 1 .. i : s[k] \in T /\ t[k] \in T
  OBVIOUS
<1>2. /\ SubSeq(s, 1, i) \in Seq(T) /\ Len(SubSeq(s, 1, i)) = i
      /\ \A k \in 1 .. i : SubSeq(s, 1, i)[k] = s[k]
  BY <1>1
<1>3. /\ SubSeq(t, 1, i) \in Seq(T) /\ Len(SubSeq(t, 1, i)) = i
      /\ \A k \in 1 .. i : SubSeq(t, 1, i)[k] = t[k]
  BY <1>1
<1> QED
  BY <1>2, <1>3, SeqEqual

(* A statement starts.                                                     *)
LEMMA StartKeeps ==
    ASSUME NEW old \in Seq(Rows), KeysAreUnique(old), NodesComeFirst(old),
           NEW row \in Rows, ~ row.done,
           NeedsNodes(row.event) =>
             \A id \in {row.event.subject, row.event.object} :
                \E e \in SeenIn(old) : e.op = "create_node" /\ e.subject = id,
           NEW new, new = Append(old, row)
    PROVE  LogIsKept(old, new) /\ KeysAreUnique(new) /\ NodesComeFirst(new)
<1>1. /\ new \in Seq(Rows) /\ Len(old) \in Nat /\ Len(new) = Len(old) + 1
      /\ \A i \in 1 .. Len(old) : new[i] = old[i]
      /\ new[Len(old) + 1] = row
  BY AppendProperties
<1>2. SeenIn(old) \subseteq SeenIn(new)
  BY <1>1 DEF SeenIn
<1>3. ASSUME NEW i \in 1 .. Len(old) PROVE SubSeq(new, 1, i) = SubSeq(old, 1, i)
  <2>1. i <= Len(new) /\ i <= Len(old) /\ i \in 1 .. Len(new) /\ \A k \in 1 .. i : new[k] = old[k]
    BY <1>1
  <2> QED
    BY <1>1, <2>1, SamePart
<1>4. KeysAreUnique(new)
  BY <1>1 DEF KeysAreUnique
<1>5. ASSUME NEW i \in 1 .. Len(new), NeedsNodes(new[i].event),
             NEW id \in {new[i].event.subject, new[i].event.object}
      PROVE  \E j \in 1 .. i - 1 :
                /\ new[j].done
                /\ new[j].event.op = "create_node" /\ new[j].event.subject = id
  <2>1. CASE i = Len(old) + 1
    <3>1. PICK e \in SeenIn(old) : e.op = "create_node" /\ e.subject = id
      BY <1>1, <1>5, <2>1
    <3>2. PICK j \in 1 .. Len(old) : old[j].done /\ old[j].event = e
      BY DEF SeenIn
    <3> QED
      BY <1>1, <2>1, <3>1, <3>2
  <2>2. CASE i \in 1 .. Len(old)
    <3>1. new[i] = old[i] /\ NeedsNodes(old[i].event)
      BY <1>1, <1>5, <2>2
    <3>2. id \in {old[i].event.subject, old[i].event.object}
      BY <1>5, <3>1
    <3>3. PICK j \in 1 .. i - 1 :
             old[j].done /\ old[j].event.op = "create_node" /\ old[j].event.subject = id
      BY <2>2, <3>1, <3>2 DEF NodesComeFirst
    <3>4. j \in 1 .. Len(old)
      BY <1>1, <2>2
    <3> QED
      BY <1>1, <3>3, <3>4
  <2> QED
    BY <1>1, <2>1, <2>2
<1>6. NodesComeFirst(new)
  BY <1>5 DEF NodesComeFirst
<1> QED
  BY <1>1, <1>2, <1>3, <1>4, <1>6 DEF LogIsKept

(* A statement ends, or goes on without its run: rows stay in their places.*)
LEMMA RowInPlaceKeeps ==
    ASSUME NEW old \in Seq(Rows), KeysAreUnique(old), NodesComeFirst(old),
           NEW i \in 1 .. Len(old), ~ old[i].done,
           NEW row \in Rows, row.event = old[i].event,
           row.done => row.event.key \notin KeysOf(SeenIn(old)),
           NEW new, new = [old EXCEPT ![i] = row]
    PROVE  LogIsKept(old, new) /\ KeysAreUnique(new) /\ NodesComeFirst(new)
<1>1. /\ new \in Seq(Rows) /\ Len(new) = Len(old) /\ Len(old) \in Nat
      /\ new[i] = row
      /\ \A k \in 1 .. Len(old) : k # i => new[k] = old[k]
  BY ExceptSeq
<1>2. \A k \in 1 .. Len(old) : new[k].event = old[k].event /\ (old[k].done => new[k] = old[k])
  BY <1>1
<1>3. SeenIn(old) \subseteq SeenIn(new)
  BY <1>1, <1>2 DEF SeenIn
<1>4. ASSUME NEW n \in 1 .. Len(old), \A j \in 1 .. n : old[j].done
      PROVE  SubSeq(new, 1, n) = SubSeq(old, 1, n)
  <2>1. n <= Len(old) /\ n \in 1 .. Len(new) /\ \A k \in 1 .. n : new[k] = old[k]
    BY <1>1, <1>2, <1>4
  <2> QED
    BY <1>1, <2>1, SamePart
<1>5. ASSUME NEW k \in 1 .. Len(new), NEW l \in 1 .. Len(new),
             new[k].done, new[l].done, new[k].event.key = new[l].event.key
      PROVE  k = l
  <2>1. ASSUME NEW n \in 1 .. Len(old), n # i, new[n].done
        PROVE  old[n].done /\ old[n].event.key \in KeysOf(SeenIn(old))
    BY <1>1, <2>1 DEF SeenIn, KeysOf
  <2>2. CASE k # i /\ l # i
    <3>1. old[k].done /\ old[l].done /\ old[k].event.key = old[l].event.key
      BY <1>1, <1>5, <2>1, <2>2
    <3> QED
      BY <1>1, <3>1 DEF KeysAreUnique
  <2>3. CASE k = i \/ l = i
    BY <1>1, <1>2, <1>5, <2>1, <2>3
  <2> QED
    BY <2>2, <2>3
<1>6. ASSUME NEW k \in 1 .. Len(new), NeedsNodes(new[k].event),
             NEW id \in {new[k].event.subject, new[k].event.object}
      PROVE  \E j \in 1 .. k - 1 :
                /\ new[j].done
                /\ new[j].event.op = "create_node" /\ new[j].event.subject = id
  <2>1. PICK j \in 1 .. k - 1 :
           old[j].done /\ old[j].event.op = "create_node" /\ old[j].event.subject = id
    BY <1>1, <1>2, <1>6 DEF NodesComeFirst
  <2>2. j \in 1 .. Len(old)
    BY <1>1, <2>1
  <2> QED
    BY <1>2, <2>1, <2>2
<1>7. KeysAreUnique(new) /\ NodesComeFirst(new)
  BY <1>5, <1>6 DEF KeysAreUnique, NodesComeFirst
<1> QED
  BY <1>1, <1>3, <1>4, <1>7 DEF LogIsKept

(* What is left when one element is removed.                               *)
LEMMA RemoveAtProperties ==
    ASSUME NEW T, NEW s \in Seq(T), NEW i \in 1 .. Len(s)
    PROVE  /\ RemoveAt(s, i) \in Seq(T) /\ Len(RemoveAt(s, i)) = Len(s) - 1
           /\ \A k \in 1 .. Len(s) - 1 :
                 RemoveAt(s, i)[k] = IF k < i THEN s[k] ELSE s[k + 1]
<1> DEFINE a == SubSeq(s, 1, i - 1)
           b == SubSeq(s, i + 1, Len(s))
<1>1. Len(s) \in Nat /\ i \in Nat /\ i >= 1 /\ i <= Len(s)
  OBVIOUS
<1>2. /\ a \in Seq(T) /\ Len(a) = i - 1
      /\ \A k \in 1 .. i - 1 : a[k] = s[k]
  <2>1. \A k \in 1 .. i - 1 : s[k] \in T
    BY <1>1
  <2> QED
    BY <1>1, <2>1
<1>3. /\ b \in Seq(T) /\ Len(b) = Len(s) - i
      /\ \A k \in 1 .. Len(s) - i : b[k] = s[k + i]
  <2>1. \A k \in i + 1 .. Len(s) : s[k] \in T
    BY <1>1
  <2> QED
    BY <1>1, <2>1
<1> HIDE DEF a, b
<1>4. PICK c : c = a \o b
  OBVIOUS
<1>5. /\ c \in Seq(T) /\ Len(c) = Len(a) + Len(b)
      /\ \A k \in 1 .. Len(a) + Len(b) : c[k] = IF k <= Len(a) THEN a[k] ELSE b[k - Len(a)]
  BY <1>2, <1>3, <1>4, ConcatProperties
<1>6. Len(c) = Len(s) - 1
  BY <1>1, <1>2, <1>3, <1>5
<1>7. ASSUME NEW k \in 1 .. Len(s) - 1
      PROVE  c[k] = IF k < i THEN s[k] ELSE s[k + 1]
  <2>1. k \in 1 .. Len(a) + Len(b) /\ k \in Nat
    BY <1>1, <1>2, <1>3
  <2>2. CASE k < i
    <3>1. k <= Len(a) /\ k \in 1 .. i - 1
      BY <1>1, <1>2, <2>1, <2>2
    <3> QED
      BY <1>2, <1>5, <2>1, <2>2, <3>1
  <2>3. CASE k >= i
    <3>1. k - Len(a) \in 1 .. Len(s) - i /\ k - Len(a) + i = k + 1 /\ ~ (k <= Len(a)) /\ ~ (k < i)
      BY <1>1, <1>2, <2>1, <2>3
    <3>2. c[k] = b[k - Len(a)]
      BY <1>5, <2>1, <3>1
    <3>3. b[k - Len(a)] = s[k + 1]
      BY <1>3, <3>1
    <3> QED
      BY <3>1, <3>2, <3>3
  <2> QED
    BY <1>1, <2>1, <2>2, <2>3
<1> QED
  BY <1>4, <1>5, <1>6, <1>7 DEF RemoveAt, a, b

(* A statement leaves nothing: its key was on the log, or its run died     *)
(* before the server saw it.                                               *)
LEMMA RemovalKeeps ==
    ASSUME NEW old \in Seq(Rows), KeysAreUnique(old), NodesComeFirst(old),
           NEW i \in 1 .. Len(old), ~ old[i].done,
           NEW new, new = RemoveAt(old, i)
    PROVE  LogIsKept(old, new) /\ KeysAreUnique(new) /\ NodesComeFirst(new)
<1> DEFINE At(k) == IF k < i THEN k ELSE k + 1
           Place(k) == IF k < i THEN k ELSE k - 1
<1>1. /\ new \in Seq(Rows) /\ Len(new) = Len(old) - 1 /\ Len(old) \in Nat /\ i \in Nat
      /\ \A k \in 1 .. Len(new) : new[k] = IF k < i THEN old[k] ELSE old[k + 1]
  <2>1. Len(old) \in Nat /\ i \in Nat
    OBVIOUS
  <2>2. /\ new \in Seq(Rows) /\ Len(new) = Len(old) - 1
        /\ \A k \in 1 .. Len(old) - 1 : new[k] = IF k < i THEN old[k] ELSE old[k + 1]
    BY RemoveAtProperties
  <2> QED
    BY <2>1, <2>2
<1>2. ASSUME NEW k \in 1 .. Len(new)
      PROVE  At(k) \in 1 .. Len(old) /\ At(k) # i /\ new[k] = old[At(k)]
  BY <1>1
<1>3. ASSUME NEW k \in 1 .. Len(old), old[k].done
      PROVE  Place(k) \in 1 .. Len(new) /\ new[Place(k)] = old[k]
  <2>1. k # i /\ k \in Nat
    BY <1>3
  <2>2. CASE k < i
    BY <1>1, <2>1, <2>2
  <2>3. CASE k > i
    <3>1. k - 1 \in 1 .. Len(new) /\ ~ (k - 1 < i) /\ k - 1 + 1 = k /\ ~ (k < i)
      BY <1>1, <2>1, <2>3
    <3> QED
      BY <1>1, <3>1
  <2> QED
    BY <1>1, <2>1, <2>2, <2>3
<1>4. SeenIn(old) \subseteq SeenIn(new)
  BY <1>3 DEF SeenIn
<1>5. ASSUME NEW n \in 1 .. Len(old), \A j \in 1 .. n : old[j].done
      PROVE  SubSeq(new, 1, n) = SubSeq(old, 1, n)
  <2>1. n < i
    BY <1>1, <1>5
  <2>2. n <= Len(old) /\ n \in 1 .. Len(new) /\ \A k \in 1 .. n : new[k] = old[k]
    BY <1>1, <2>1
  <2> QED
    BY <1>1, <2>2, SamePart
<1>6. ASSUME NEW k \in 1 .. Len(new), NEW l \in 1 .. Len(new),
             new[k].done, new[l].done, new[k].event.key = new[l].event.key
      PROVE  k = l
  <2>1. At(k) = At(l)
    <3>1. /\ At(k) \in 1 .. Len(old) /\ new[k] = old[At(k)]
          /\ At(l) \in 1 .. Len(old) /\ new[l] = old[At(l)]
      BY <1>2
    <3> HIDE DEF At
    <3> QED
      BY <1>6, <3>1 DEF KeysAreUnique
  <2> QED
    BY <1>1, <2>1
<1>7. ASSUME NEW k \in 1 .. Len(new), NeedsNodes(new[k].event),
             NEW id \in {new[k].event.subject, new[k].event.object}
      PROVE  \E j \in 1 .. k - 1 :
                /\ new[j].done
                /\ new[j].event.op = "create_node" /\ new[j].event.subject = id
  <2>1. At(k) \in 1 .. Len(old) /\ At(k) # i /\ new[k] = old[At(k)]
    BY <1>2
  <2>2. PICK j \in 1 .. At(k) - 1 :
           old[j].done /\ old[j].event.op = "create_node" /\ old[j].event.subject = id
    <3> HIDE DEF At
    <3> QED
      BY <1>7, <2>1 DEF NodesComeFirst
  <2>3. j \in 1 .. Len(old) /\ j # i
    BY <1>1, <2>1, <2>2
  <2>4. Place(j) \in 1 .. Len(new) /\ new[Place(j)] = old[j]
    BY <1>3, <2>2, <2>3
  <2>5. Place(j) \in 1 .. k - 1
    BY <1>1, <2>1, <2>2, <2>3, <2>4
  <2> HIDE DEF Place, At
  <2> QED
    BY <2>2, <2>4, <2>5
<1>8. KeysAreUnique(new) /\ NodesComeFirst(new)
  BY <1>6, <1>7 DEF KeysAreUnique, NodesComeFirst
<1> QED
  BY <1>1, <1>4, <1>5, <1>8 DEF LogIsKept

(* The rows of runs under way are those that were, but for one.            *)
OpenRowsAreLeft(old, new, i) ==
    \E at \in [1 .. Len(new) -> 1 .. Len(old)] :
       /\ \A k, l \in 1 .. Len(new) : at[k] = at[l] => k = l
       /\ \A k \in 1 .. Len(new) :
             ~ new[k].done /\ new[k].writer \in Runs => at[k] # i /\ new[k] = old[at[k]]

(* A row that is removed leaves the other open rows.                       *)
LEMMA RemovalLeaves ==
    ASSUME NEW old \in Seq(Rows), NEW i \in 1 .. Len(old), NEW new, new = RemoveAt(old, i)
    PROVE  OpenRowsAreLeft(old, new, i)
<1> DEFINE at == [k \in 1 .. Len(new) |-> IF k < i THEN k ELSE k + 1]
<1>1. Len(old) \in Nat /\ i \in Nat
  OBVIOUS
<1>2. /\ Len(new) = Len(old) - 1
      /\ \A k \in 1 .. Len(old) - 1 : new[k] = IF k < i THEN old[k] ELSE old[k + 1]
  BY RemoveAtProperties
<1>3. at \in [1 .. Len(new) -> 1 .. Len(old)]
  BY <1>1, <1>2
<1>4. \A k, l \in 1 .. Len(new) : at[k] = at[l] => k = l
  BY <1>1
<1>5. \A k \in 1 .. Len(new) : at[k] # i /\ new[k] = old[at[k]]
  BY <1>1, <1>2
<1> HIDE DEF at
<1> QED
  BY <1>3, <1>4, <1>5 DEF OpenRowsAreLeft

(* So does a row that is no run's open row any more.                       *)
LEMMA RowInPlaceLeaves ==
    ASSUME NEW old \in Seq(Rows), NEW i \in 1 .. Len(old), NEW row,
           row.done \/ row.writer \notin Runs,
           NEW new, new = [old EXCEPT ![i] = row]
    PROVE  OpenRowsAreLeft(old, new, i)
<1> DEFINE at == [k \in 1 .. Len(new) |-> k]
<1>1. Len(new) = Len(old) /\ new[i] = row /\ \A k \in 1 .. Len(old) : k # i => new[k] = old[k]
  OBVIOUS
<1>2. at \in [1 .. Len(new) -> 1 .. Len(old)] /\ \A k, l \in 1 .. Len(new) : at[k] = at[l] => k = l
  BY <1>1
<1>3. \A k \in 1 .. Len(new) :
         ~ new[k].done /\ new[k].writer \in Runs => at[k] # i /\ new[k] = old[at[k]]
  BY <1>1
<1> HIDE DEF at
<1> QED
  BY <1>2, <1>3 DEF OpenRowsAreLeft

(* Its run may go on with another program.                                 *)
LEMMA OthersAreNext ==
    ASSUME NEW old, NEW new, NEW programs, NEW others, NEW i \in 1 .. Len(old),
           OpenIsNext(old, programs), OpenRowsAreLeft(old, new, i), ~ old[i].done,
           \A w \in Runs : w # old[i].writer => others[w] = programs[w]
    PROVE  OpenIsNext(new, others)
<1>1. PICK at \in [1 .. Len(new) -> 1 .. Len(old)] :
         /\ \A k, l \in 1 .. Len(new) : at[k] = at[l] => k = l
         /\ \A k \in 1 .. Len(new) :
               ~ new[k].done /\ new[k].writer \in Runs => at[k] # i /\ new[k] = old[at[k]]
  BY DEF OpenRowsAreLeft
<1> SUFFICES ASSUME NEW k \in 1 .. Len(new), ~ new[k].done, new[k].writer \in Runs
             PROVE  /\ others[new[k].writer] # <<>>
                    /\ new[k].event = Head(others[new[k].writer])
                    /\ \A l \in 1 .. Len(new) :
                          ~ new[l].done /\ new[l].writer = new[k].writer => l = k
  BY DEF OpenIsNext
<1>2. at[k] \in 1 .. Len(old) /\ at[k] # i /\ new[k] = old[at[k]]
  BY <1>1
<1>3. /\ programs[new[k].writer] # <<>> /\ new[k].event = Head(programs[new[k].writer])
      /\ \A j \in 1 .. Len(old) : ~ old[j].done /\ old[j].writer = new[k].writer => j = at[k]
  BY <1>2 DEF OpenIsNext
<1>4. others[new[k].writer] = programs[new[k].writer]
  BY <1>2, <1>3
<1>5. ASSUME NEW l \in 1 .. Len(new), ~ new[l].done, new[l].writer = new[k].writer
      PROVE  l = k
  <2>1. at[l] \in 1 .. Len(old) /\ new[l] = old[at[l]]
    BY <1>1, <1>5
  <2>2. at[l] = at[k]
    BY <1>3, <1>5, <2>1
  <2> QED
    BY <1>1, <2>2
<1> QED
  BY <1>3, <1>4, <1>5

-------------------------------------------------------------------------------
(* What the log shows.                                                     *)

(* The events a replay applies are those that are seen, in an order in     *)
(* which nodes come first.                                                 *)
LEMMA SeenEvents ==
    ASSUME log \in Seq(Rows)
    PROVE  /\ Seen \subseteq Events
           /\ KeysAreUnique(log) => KeysTellApart(Seen)
           /\ AllMutations \in Seq(Seen)
           /\ Len(AllMutations) = Len(Visible)
           /\ ToSet(AllMutations) = Seen
           /\ Keys(Visible) = KeysOf(Seen)
           /\ NodesComeFirst(log) => IsOrdered(AllMutations)
<1> DEFINE v == Visible
           m == AllMutations
<1>1. ASSUME NEW i \in 1 .. Len(log) PROVE log[i] \in Rows /\ log[i].event \in Events
  <2>1. log[i] \in Rows
    OBVIOUS
  <2> QED
    BY <2>1 DEF Rows
<1>2. Seen \subseteq Events
  BY <1>1 DEF Seen, SeenIn
<1>3. KeysAreUnique(log) => KeysTellApart(Seen)
  BY DEF KeysAreUnique, KeysTellApart, Seen, SeenIn
<1>4. ReadsInOrder(log, Len(log), v)
  BY VisibleIsInOrder DEF Visible
<1>5. m = [k \in DOMAIN v |-> v[k].event]
  BY DEF AllMutations, EventsOf
<1>6. v \in Seq(Rows) /\ DOMAIN v = 1 .. Len(v) /\ Len(v) \in Nat
  BY <1>4 DEF ReadsInOrder
<1> HIDE DEF v, m
<1>7. \A k \in 1 .. Len(v) : v[k].event \in Seen
  BY <1>4 DEF ReadsInOrder, Seen, SeenIn
<1>8. m \in Seq(Seen) /\ Len(m) = Len(v) /\ \A k \in 1 .. Len(v) : m[k] = v[k].event
  BY <1>5, <1>6, <1>7
<1>9. ASSUME NEW e \in Seen PROVE \E k \in 1 .. Len(v) : m[k] = e /\ v[k].event = e
  <2>1. PICK i \in 1 .. Len(log) : log[i].done /\ log[i].event = e
    BY DEF Seen, SeenIn
  <2> QED
    BY <1>4, <1>8, <2>1 DEF ReadsInOrder
<1>10. ToSet(m) = {m[k] : k \in 1 .. Len(m)} /\ ToSet(v) = {v[k] : k \in 1 .. Len(v)}
  BY <1>6, <1>8, ElementsOfASequence
<1>11. ToSet(m) = Seen
  <2>1. Seen \subseteq ToSet(m)
    BY <1>8, <1>9, <1>10
  <2>2. ToSet(m) \subseteq Seen
    BY <1>7, <1>8, <1>10
  <2> QED
    BY <2>1, <2>2
<1>12. Keys(v) = KeysOf(Seen)
  <2>1. Keys(v) = {row.event.key : row \in ToSet(v)}
    BY DEF Keys
  <2>2. Keys(v) \subseteq KeysOf(Seen)
    BY <1>7, <1>10, <2>1 DEF KeysOf
  <2>3. KeysOf(Seen) \subseteq Keys(v)
    BY <1>9, <1>10, <2>1 DEF KeysOf
  <2> QED
    BY <2>2, <2>3
<1>13. ASSUME NodesComeFirst(log) PROVE IsOrdered(m)
  <2>1. ASSUME NEW k \in 1 .. Len(m), NeedsNodes(m[k]), NEW id \in {m[k].subject, m[k].object}
        PROVE  \E l \in 1 .. k - 1 : m[l].op = "create_node" /\ m[l].subject = id
    <3>1. PICK i \in 1 .. Len(log) :
             /\ v[k] = log[i] /\ log[i].done
             /\ \A j \in 1 .. i - 1 : log[j].done => \E l \in 1 .. k - 1 : v[l] = log[j]
      BY <1>4, <1>8 DEF ReadsInOrder
    <3>2. NeedsNodes(log[i].event) /\ id \in {log[i].event.subject, log[i].event.object}
      BY <1>8, <2>1, <3>1
    <3>3. PICK j \in 1 .. i - 1 :
             log[j].done /\ log[j].event.op = "create_node" /\ log[j].event.subject = id
      BY <1>13, <3>2 DEF NodesComeFirst
    <3>4. PICK l \in 1 .. k - 1 : v[l] = log[j]
      BY <3>1, <3>3
    <3>5. l \in 1 .. Len(v)
      BY <1>6, <1>8, <3>4
    <3> QED
      BY <1>8, <3>3, <3>4, <3>5
  <2> QED
    BY <2>1 DEF IsOrdered
<1> QED
  BY <1>2, <1>3, <1>8, <1>11, <1>12, <1>13 DEF v, m

(* The replayed graph fits, and has applied every event.                   *)
LEMMA CurrentFits ==
    ASSUME log \in Seq(Rows), KeysAreUnique(log), NodesComeFirst(log)
    PROVE  /\ GraphFits(Current, Seen)
           /\ KeysOf(Seen) \subseteq Current.applied
<1>1. /\ Seen \subseteq Events /\ KeysTellApart(Seen)
      /\ AllMutations \in Seq(Seen) /\ IsOrdered(AllMutations)
      /\ ToSet(AllMutations) = Seen
  BY SeenEvents
<1>2. GraphFits(EmptyGraph, Seen)
  BY EmptyGraphFits
<1>3. Current = Apply(EmptyGraph, AllMutations)
  BY DEF Current, Replay
<1>4. /\ GraphFits(Current, Seen)
      /\ \A k \in 1 .. Len(AllMutations) : AllMutations[k].key \in Current.applied
  BY <1>1, <1>2, <1>3, ApplyFits
<1>5. \A e \in Seen : \E k \in 1 .. Len(AllMutations) : AllMutations[k] = e
  BY <1>1, ElementsOfASequence
<1> QED
  BY <1>4, <1>5 DEF KeysOf

(* A node's key is that of the events that create it.                      *)
LEMMA NodeKeys ==
    ASSUME NEW e \in Events, NEW id,
           e.key = <<"create_node", id>> \/ e.key = <<"create_entity", id>>
    PROVE  e.op = "create_node" /\ e.subject = id
<1>1. CASE e \in NodeEvents
  BY <1>1 DEF NodeEvents, Node, Event
<1>2. CASE e \in RelationEvents
  BY <1>2 DEF RelationEvents
<1>3. CASE e \in EditEvents
  BY <1>3 DEF EditEvents
<1> QED
  BY <1>1, <1>2, <1>3 DEF Events, RunEvents

(* A relation's key is of its claim only.                                  *)
LEMMA RelationKeys ==
    ASSUME NEW e \in Events, NEW ref, e.key = <<"create_edge", ref>>
    PROVE  e.op = "create_edge" /\ e.ref = ref
<1>1. CASE e \in NodeEvents
  BY <1>1 DEF NodeEvents, Node, Event
<1>2. CASE e \in RelationEvents
  BY <1>2 DEF RelationEvents
<1>3. CASE e \in EditEvents
  BY <1>3 DEF EditEvents
<1> QED
  BY <1>1, <1>2, <1>3 DEF Events, RunEvents

(* Runs log nodes and relations.                                           *)
LEMMA RunEventKinds ==
    ASSUME NEW e \in RunEvents
    PROVE  e \in Events /\ e.op \in {"create_node", "create_edge"}
BY DEF RunEvents, Events, NodeEvents, RelationEvents, Node, Event

-------------------------------------------------------------------------------
(* The inductive invariant.                                                *)

(* Nodes come before the relation that needs them.                         *)
Prepares(m) ==
    \A n \in 1 .. Len(m) :
       m[n].op = "create_edge" =>
          \A key \in Needs(m[n]) : \E k \in 1 .. n - 1 : m[k].key = key

(* The events of a claim.                                                  *)
LEMMA MutationsPrepare ==
    ASSUME NEW triple \in Triples,
           NEW m, m = Mutations(triple[1], triple[2], triple[3])
    PROVE  /\ m \in Seq(RunEvents) /\ Len(m) <= 4 /\ m # <<>>
           /\ Head(m) = m[1] /\ m[1].op = "create_node"
           /\ Prepares(m)
<1> DEFINE c == triple[1]
           s == triple[2]
           o == triple[3]
           claim == Node("create_node", c)
           subject == Node("create_entity", s)
           object == Node("create_entity", o)
           relation == Event(<<"create_edge", c>>, "create_edge", s, o, c)
<1>1. /\ c \in Claims /\ s \in Entities /\ o \in Entities \cup {NoId}
      /\ triple = <<c, s, o>> /\ Entities \cup Claims = Ids
  BY LedgerAssumption
<1>2. claim \in RunEvents /\ claim.op = "create_node" /\ claim.key = <<"create_node", c>>
  BY <1>1 DEF RunEvents, NodeEvents, Node, Event
<1>3. subject \in RunEvents /\ subject.op = "create_node" /\ subject.key = <<"create_entity", s>>
  BY <1>1 DEF RunEvents, NodeEvents, Node, Event
<1>4. o # NoId =>
        object \in RunEvents /\ object.op = "create_node" /\ object.key = <<"create_entity", o>>
  BY <1>1 DEF RunEvents, NodeEvents, Node, Event
<1>5. relation.subject = s /\ relation.object = o /\ relation.ref = c
  BY DEF Event
<1>6. o # NoId => relation \in RunEvents
  <2> SUFFICES ASSUME o # NoId PROVE relation \in RelationEvents
    BY DEF RunEvents
  <2>1. /\ s \in Ids /\ o \in Ids \cup {NoId} /\ c \in Ids \cup Nat \cup {NoId}
        /\ <<"create_edge", c>> \in Ops \X (Ids \cup Nat) /\ "create_edge" \in Ops
    BY <1>1 DEF Ops
  <2>2. relation \in EventRecords
    BY <2>1 DEF EventRecords, Event
  <2>3. <<c, s, o>> \in Triples
    BY <1>1
  <2>4. relation.op = "create_edge" /\ relation.key = <<"create_edge", c>>
    BY DEF Event
  <2> HIDE DEF relation, c, s, o
  <2> QED
    BY <1>5, <2>2, <2>3, <2>4 DEF RelationEvents
<1> HIDE DEF c, s, o, claim, subject, object, relation
<1>7. CASE o = NoId
  <2>1. m = <<claim>>
    BY <1>7 DEF Mutations, claim, c, o
  <2>2. m \in Seq(RunEvents) /\ Len(m) = 1 /\ m # <<>> /\ Head(m) = m[1] /\ m[1] = claim
    BY <1>2, <2>1
  <2>3. Prepares(m)
    BY <1>2, <2>2 DEF Prepares
  <2> QED
    BY <1>2, <2>2, <2>3
<1>8. CASE o # NoId
  <2>1. m = <<claim, subject, object, relation>>
    BY <1>8 DEF Mutations, claim, subject, object, relation, c, s, o
  <2>2. m \in Seq(RunEvents) /\ Len(m) = 4 /\ m # <<>> /\ Head(m) = m[1]
    BY <1>2, <1>3, <1>4, <1>6, <1>8, <2>1
  <2>3. m[1] = claim /\ m[2] = subject /\ m[3] = object /\ m[4] = relation
    BY <2>1
  <2>4. Needs(m[4]) = {m[2].key, m[3].key, m[1].key}
    BY <1>2, <1>3, <1>4, <1>5, <1>8, <2>3 DEF Needs
  <2>5. ASSUME NEW n \in 1 .. 4, m[n].op = "create_edge", NEW key \in Needs(m[n])
        PROVE  \E k \in 1 .. n - 1 : m[k].key = key
    <3>1. n = 4
      BY <1>2, <1>3, <1>4, <1>8, <2>3, <2>5
    <3>2. 1 \in 1 .. n - 1 /\ 2 \in 1 .. n - 1 /\ 3 \in 1 .. n - 1
      BY <3>1
    <3> QED
      BY <2>4, <2>5, <3>1, <3>2
  <2>6. Prepares(m)
    BY <2>2, <2>5 DEF Prepares
  <2> QED
    BY <1>2, <2>2, <2>3, <2>6
<1> QED
  BY <1>7, <1>8

(* What an event log that is kept gives the parts of the invariant about   *)
(* other things.                                                           *)
LEMMA KeptLogKeeps ==
    ASSUME log \in Seq(Rows), LogIsKept(log, log'), KeysAreUnique(log')
    PROVE  /\ Seen \subseteq Seen' /\ KeysOf(Seen) \subseteq KeysOf(Seen')
           /\ FinishedIsSeen /\ UNCHANGED finished => FinishedIsSeen'
           /\ GraphFits(live, Seen) => GraphFits(live, Seen')
           /\ ProgramsPrepare =>
                \A w \in Runs : \A n \in 1 .. Len(program[w]) :
                   program[w][n].op = "create_edge" =>
                      \A key \in Needs(program[w][n]) :
                         key \in KeysOf(Seen') \/ \E m \in 1 .. n - 1 : program[w][m].key = key
<1>1. Seen \subseteq Seen'
  BY DEF LogIsKept, Seen
<1>2. KeysOf(Seen) \subseteq KeysOf(Seen')
  BY <1>1 DEF KeysOf
<1>3. KeysTellApart(Seen')
  BY DEF KeysAreUnique, KeysTellApart, Seen, SeenIn
<1>4. FinishedIsSeen /\ UNCHANGED finished => FinishedIsSeen'
  BY <1>2 DEF FinishedIsSeen
<1>5. GraphFits(live, Seen) => GraphFits(live, Seen')
  BY <1>1, <1>3, FitsMore
<1>6. ProgramsPrepare =>
        \A w \in Runs : \A n \in 1 .. Len(program[w]) :
           program[w][n].op = "create_edge" =>
              \A key \in Needs(program[w][n]) :
                 key \in KeysOf(Seen') \/ \E m \in 1 .. n - 1 : program[w][m].key = key
  BY <1>2 DEF ProgramsPrepare
<1> QED
  BY <1>1, <1>2, <1>4, <1>5, <1>6

(* The invariant at the beginning.                                         *)
LEMMA InitHolds == Init => LedgerInv
<1> SUFFICES ASSUME Init PROVE LedgerInv
  OBVIOUS
<1>1. /\ log = <<>> /\ program = [w \in Runs |-> <<>>] /\ finished = {} /\ live = EmptyGraph
      /\ taken = 0 /\ edited = 0 /\ refreshed = 0 /\ faults = 0
  BY DEF Init
<1>2. StateIsTyped
  <2>1. /\ MaxClaims \in Nat /\ MaxEdits \in Nat /\ MaxRefreshes \in Nat /\ MaxFaults \in Nat
    BY LedgerAssumption
  <2>2. <<>> \in Seq(Rows) /\ <<>> \in Seq(RunEvents) /\ Len(<<>>) = 0
    OBVIOUS
  <2>3. program \in [Runs -> Seq(RunEvents)] /\ \A w \in Runs : Len(program[w]) <= 4
    BY <1>1, <2>2
  <2> QED
    BY <1>1, <2>1, <2>2, <2>3 DEF StateIsTyped
<1>3. Len(log) = 0 /\ 1 .. 0 = {}
  BY <1>1
<1>4. KeysAreUnique(log) /\ NodesComeFirst(log) /\ OpenIsNext(log, program)
  BY <1>3 DEF KeysAreUnique, NodesComeFirst, OpenIsNext
<1>5. ProgramsPrepare
  <2>1. \A w \in Runs : Len(program[w]) = 0
    BY <1>1
  <2> QED
    BY <1>3, <2>1 DEF ProgramsPrepare
<1>6. FinishedIsSeen
  BY <1>1 DEF FinishedIsSeen
<1>7. GraphFits(live, Seen)
  BY <1>1, EmptyGraphFits
<1> QED
  BY <1>2, <1>4, <1>5, <1>6, <1>7 DEF LedgerInv

(* A run starts with a node, which needs nothing.                          *)
LEMMA PromoteKeeps ==
    ASSUME LedgerInv, NEW w \in Runs, Promote(w)
    PROVE  LedgerInv' /\ LogIsKept(log, log')
<1>1. /\ StateIsTyped /\ KeysAreUnique(log) /\ NodesComeFirst(log)
      /\ ProgramsPrepare /\ OpenIsNext(log, program) /\ FinishedIsSeen /\ GraphFits(live, Seen)
  BY DEF LedgerInv
<1>2. log \in Seq(Rows) /\ program \in [Runs -> Seq(RunEvents)]
  BY <1>1 DEF StateIsTyped
<1>3. /\ program[w] = <<>> /\ taken < MaxClaims /\ taken' = taken + 1
      /\ UNCHANGED <<finished, live, edited, refreshed, faults>>
  BY DEF Promote
<1>4. PICK triple \in Triples :
         LET events == Mutations(triple[1], triple[2], triple[3])
         IN program' = [program EXCEPT ![w] = events] /\ Start(w, Head(events))
  BY DEF Promote
<1>5. PICK m : m = Mutations(triple[1], triple[2], triple[3])
  OBVIOUS
<1>6. /\ m \in Seq(RunEvents) /\ Len(m) <= 4 /\ m # <<>>
      /\ Head(m) = m[1] /\ m[1].op = "create_node"
      /\ \A n \in 1 .. Len(m) :
            m[n].op = "create_edge" =>
               \A key \in Needs(m[n]) : \E k \in 1 .. n - 1 : m[k].key = key
  <2>1. /\ m \in Seq(RunEvents) /\ Len(m) <= 4 /\ m # <<>>
        /\ Head(m) = m[1] /\ m[1].op = "create_node"
    BY <1>5, MutationsPrepare
  <2>2. Prepares(m)
    BY <1>5, MutationsPrepare
  <2> QED
    BY <2>1, <2>2 DEF Prepares
<1>7. PICK row : row = [writer |-> w, event |-> m[1], done |-> FALSE]
  OBVIOUS
<1>8. program' = [program EXCEPT ![w] = m] /\ log' = Append(log, row)
  BY <1>4, <1>5, <1>6, <1>7 DEF Start
<1>9. /\ row \in Rows /\ ~ row.done /\ row.writer = w /\ row.event = m[1]
      /\ ~ NeedsNodes(row.event)
  <2>1. m[1] \in RunEvents
    BY <1>6
  <2>2. m[1] \in Events /\ w \in Writers
    BY <2>1, RunEventKinds DEF Writers
  <2> QED
    BY <1>6, <1>7, <2>2 DEF Rows, NeedsNodes
<1>10. LogIsKept(log, log') /\ KeysAreUnique(log') /\ NodesComeFirst(log')
  BY <1>1, <1>2, <1>8, <1>9, StartKeeps
<1>11. StateIsTyped'
  <2>1. log' \in Seq(Rows)
    BY <1>10 DEF LogIsKept
  <2>2. program' \in [Runs -> Seq(RunEvents)] /\ \A v \in Runs : Len(program'[v]) <= 4
    BY <1>1, <1>2, <1>6, <1>8 DEF StateIsTyped
  <2>3. taken' \in 0 .. MaxClaims
    BY <1>1, <1>3, LedgerAssumption DEF StateIsTyped
  <2> QED
    BY <1>1, <1>3, <2>1, <2>2, <2>3 DEF StateIsTyped
<1>12. /\ \A i \in 1 .. Len(log) : log'[i] = log[i]
       /\ log'[Len(log) + 1] = row /\ Len(log') = Len(log) + 1 /\ Len(log) \in Nat
  BY <1>2, <1>8, <1>9, AppendProperties
<1>13. OpenIsNext(log', program')
  <2>1. \A i \in 1 .. Len(log) : log[i].done \/ log[i].writer # w
    BY <1>1, <1>3 DEF OpenIsNext
  <2>2. program'[w] = m /\ \A v \in Runs : v # w => program'[v] = program[v]
    BY <1>2, <1>8
  <2> SUFFICES ASSUME NEW i \in 1 .. Len(log'), ~ log'[i].done, log'[i].writer \in Runs
               PROVE  /\ program'[log'[i].writer] # <<>>
                      /\ log'[i].event = Head(program'[log'[i].writer])
                      /\ \A j \in 1 .. Len(log') :
                            ~ log'[j].done /\ log'[j].writer = log'[i].writer => j = i
    BY DEF OpenIsNext
  <2>3. CASE i = Len(log) + 1
    <3>1. log'[i] = row
      BY <1>12, <2>3
    <3>2. \A j \in 1 .. Len(log') : ~ log'[j].done /\ log'[j].writer = w => j = i
      BY <1>12, <2>1, <2>3
    <3> QED
      BY <1>6, <1>9, <2>2, <3>1, <3>2
  <2>4. CASE i \in 1 .. Len(log)
    <3>1. log'[i] = log[i] /\ log[i].writer # w
      BY <1>12, <2>1, <2>4
    <3>2. /\ program[log[i].writer] # <<>> /\ log[i].event = Head(program[log[i].writer])
          /\ \A j \in 1 .. Len(log) :
                ~ log[j].done /\ log[j].writer = log[i].writer => j = i
      BY <1>1, <2>4, <3>1 DEF OpenIsNext
    <3>3. \A j \in 1 .. Len(log') : ~ log'[j].done /\ log'[j].writer = log[i].writer => j = i
      BY <1>9, <1>12, <3>1, <3>2
    <3> QED
      BY <2>2, <3>1, <3>2, <3>3
  <2> QED
    BY <1>12, <2>3, <2>4
<1>14. /\ FinishedIsSeen' /\ GraphFits(live, Seen')
       /\ \A v \in Runs : \A n \in 1 .. Len(program[v]) :
             program[v][n].op = "create_edge" =>
                \A key \in Needs(program[v][n]) :
                   key \in KeysOf(Seen') \/ \E k \in 1 .. n - 1 : program[v][k].key = key
  BY <1>1, <1>2, <1>3, <1>10, KeptLogKeeps
<1>15. ProgramsPrepare'
  <2>1. program'[w] = m /\ \A v \in Runs : v # w => program'[v] = program[v]
    BY <1>2, <1>8
  <2> SUFFICES ASSUME NEW v \in Runs, NEW n \in 1 .. Len(program'[v]),
                      program'[v][n].op = "create_edge", NEW key \in Needs(program'[v][n])
               PROVE  \/ key \in KeysOf(Seen')
                      \/ \E k \in 1 .. n - 1 : program'[v][k].key = key
    BY DEF ProgramsPrepare
  <2>2. CASE v = w
    <3>1. program'[v] = m
      BY <2>1, <2>2
    <3>2. n \in 1 .. Len(m) /\ m[n].op = "create_edge" /\ key \in Needs(m[n])
      BY <3>1
    <3>3. \E k \in 1 .. n - 1 : m[k].key = key
      BY <1>6, <3>2
    <3> QED
      BY <3>1, <3>3
  <2>3. CASE v # w
    BY <1>14, <2>1, <2>3
  <2> QED
    BY <2>2, <2>3
<1>16. GraphFits(live', Seen')
  BY <1>3, <1>14
<1> QED
  BY <1>10, <1>11, <1>13, <1>14, <1>15, <1>16 DEF LedgerInv

(* A run starts its next statement, whose nodes are seen.                  *)
LEMMA LogNextKeeps ==
    ASSUME LedgerInv, NEW w \in Runs, LogNext(w)
    PROVE  LedgerInv' /\ LogIsKept(log, log')
<1>1. /\ StateIsTyped /\ KeysAreUnique(log) /\ NodesComeFirst(log)
      /\ ProgramsPrepare /\ OpenIsNext(log, program) /\ FinishedIsSeen /\ GraphFits(live, Seen)
  BY DEF LedgerInv
<1>2. log \in Seq(Rows) /\ program \in [Runs -> Seq(RunEvents)]
  BY <1>1 DEF StateIsTyped
<1>3. /\ program[w] # <<>> /\ ~ Open(w)
      /\ UNCHANGED <<program, finished, live, taken, edited, refreshed, faults>>
  BY DEF LogNext, counters
<1>4. PICK e : e = Head(program[w])
  OBVIOUS
<1>5. PICK row : row = [writer |-> w, event |-> e, done |-> FALSE]
  OBVIOUS
<1>6. log' = Append(log, row)
  BY <1>4, <1>5 DEF LogNext, Start
<1>7. /\ e \in RunEvents /\ e = program[w][1] /\ 1 \in 1 .. Len(program[w])
  BY <1>2, <1>3, <1>4
<1>8. /\ row \in Rows /\ ~ row.done /\ row.writer = w /\ row.event = e
  <2>1. e \in Events /\ w \in Writers
    BY <1>7, RunEventKinds DEF Writers
  <2> QED
    BY <1>5, <2>1 DEF Rows
<1>9. ASSUME NeedsNodes(e), NEW id \in {e.subject, e.object}
      PROVE  \E a \in Seen : a.op = "create_node" /\ a.subject = id
  <2>1. e.op = "create_edge"
    BY <1>7, <1>9, RunEventKinds DEF NeedsNodes
  <2>2. <<"create_entity", id>> \in Needs(e)
    BY <1>9 DEF Needs
  <2>3. <<"create_entity", id>> \in KeysOf(Seen)
    <3>1. \/ <<"create_entity", id>> \in KeysOf(Seen)
          \/ \E k \in 1 .. 1 - 1 : program[w][k].key = <<"create_entity", id>>
      BY <1>1, <1>7, <2>1, <2>2 DEF ProgramsPrepare
    <3> QED
      BY <3>1
  <2>4. PICK a \in Seen : a.key = <<"create_entity", id>>
    BY <2>3 DEF KeysOf
  <2>5. a \in Events
    BY <1>2, SeenEvents
  <2> QED
    BY <2>4, <2>5, NodeKeys
<1>10. LogIsKept(log, log') /\ KeysAreUnique(log') /\ NodesComeFirst(log')
  BY <1>1, <1>2, <1>6, <1>8, <1>9, StartKeeps DEF Seen
<1>11. StateIsTyped'
  <2>1. log' \in Seq(Rows)
    BY <1>10 DEF LogIsKept
  <2> QED
    BY <1>1, <1>3, <2>1 DEF StateIsTyped
<1>12. /\ \A i \in 1 .. Len(log) : log'[i] = log[i]
       /\ log'[Len(log) + 1] = row /\ Len(log') = Len(log) + 1 /\ Len(log) \in Nat
  BY <1>2, <1>6, <1>8, AppendProperties
<1>13. OpenIsNext(log', program)
  <2>1. \A i \in 1 .. Len(log) : log[i].done \/ log[i].writer # w
    <3>1. \A row2 \in ToSet(log) : row2.writer # w \/ row2.done
      BY <1>3 DEF Open
    <3>2. ToSet(log) = {log[i] : i \in 1 .. Len(log)}
      BY <1>2, ElementsOfASequence
    <3> QED
      BY <3>1, <3>2
  <2> SUFFICES ASSUME NEW i \in 1 .. Len(log'), ~ log'[i].done, log'[i].writer \in Runs
               PROVE  /\ program[log'[i].writer] # <<>>
                      /\ log'[i].event = Head(program[log'[i].writer])
                      /\ \A j \in 1 .. Len(log') :
                            ~ log'[j].done /\ log'[j].writer = log'[i].writer => j = i
    BY DEF OpenIsNext
  <2>3. CASE i = Len(log) + 1
    <3>1. log'[i] = row
      BY <1>12, <2>3
    <3>2. \A j \in 1 .. Len(log') : ~ log'[j].done /\ log'[j].writer = w => j = i
      BY <1>12, <2>1, <2>3
    <3> QED
      BY <1>3, <1>4, <1>8, <3>1, <3>2
  <2>4. CASE i \in 1 .. Len(log)
    <3>1. log'[i] = log[i] /\ log[i].writer # w
      BY <1>12, <2>1, <2>4
    <3>2. /\ program[log[i].writer] # <<>> /\ log[i].event = Head(program[log[i].writer])
          /\ \A j \in 1 .. Len(log) :
                ~ log[j].done /\ log[j].writer = log[i].writer => j = i
      BY <1>1, <2>4, <3>1 DEF OpenIsNext
    <3>3. \A j \in 1 .. Len(log') : ~ log'[j].done /\ log'[j].writer = log[i].writer => j = i
      BY <1>8, <1>12, <3>1, <3>2
    <3> QED
      BY <3>1, <3>2, <3>3
  <2> QED
    BY <1>12, <2>3, <2>4
<1>14. /\ FinishedIsSeen' /\ GraphFits(live, Seen')
       /\ \A v \in Runs : \A n \in 1 .. Len(program[v]) :
             program[v][n].op = "create_edge" =>
                \A key \in Needs(program[v][n]) :
                   key \in KeysOf(Seen') \/ \E k \in 1 .. n - 1 : program[v][k].key = key
  BY <1>1, <1>2, <1>3, <1>10, KeptLogKeeps
<1>15. ProgramsPrepare'
  BY <1>3, <1>14 DEF ProgramsPrepare
<1>16. GraphFits(live', Seen') /\ OpenIsNext(log', program')
  BY <1>3, <1>13, <1>14
<1> QED
  BY <1>10, <1>11, <1>14, <1>15, <1>16 DEF LedgerInv

(* Whether the row stays or not, its key is seen afterwards.               *)
LEMMA EndedKeeps ==
    ASSUME log \in Seq(Rows), KeysAreUnique(log), NodesComeFirst(log),
           NEW i \in 1 .. Len(log), ~ log[i].done, Ended(i)
    PROVE  /\ LogIsKept(log, log') /\ KeysAreUnique(log') /\ NodesComeFirst(log')
           /\ OpenRowsAreLeft(log, log', i)
           /\ log[i].event.key \in KeysOf(Seen')
<1>1. log[i] \in Rows
  OBVIOUS
<1>2. Keys(Visible) = KeysOf(Seen)
  BY SeenEvents
<1>3. CASE log[i].event.key \in Keys(Visible)
  <2>1. log' = RemoveAt(log, i)
    BY <1>3 DEF Ended
  <2>2. /\ LogIsKept(log, log') /\ KeysAreUnique(log') /\ NodesComeFirst(log')
        /\ OpenRowsAreLeft(log, log', i)
    BY <2>1, RemovalKeeps, RemovalLeaves
  <2>3. Seen \subseteq Seen'
    BY <2>2 DEF LogIsKept, Seen
  <2>4. log[i].event.key \in KeysOf(Seen')
    BY <1>2, <1>3, <2>3 DEF KeysOf
  <2> QED
    BY <2>2, <2>4
<1>4. CASE log[i].event.key \notin Keys(Visible)
  <2>1. PICK row : row = [log[i] EXCEPT !.done = TRUE]
    OBVIOUS
  <2>2. log' = [log EXCEPT ![i] = row]
    BY <1>4, <2>1 DEF Ended
  <2>3. row \in Rows /\ row.event = log[i].event /\ row.done
    BY <1>1, <2>1 DEF Rows
  <2>4. LogIsKept(log, log') /\ KeysAreUnique(log') /\ NodesComeFirst(log')
    BY <1>2, <1>4, <2>2, <2>3, RowInPlaceKeeps DEF Seen
  <2>5. OpenRowsAreLeft(log, log', i)
    BY <2>2, <2>3, RowInPlaceLeaves
  <2>6. Len(log') = Len(log) /\ log'[i] = row
    BY <2>2
  <2>7. row.event \in Seen'
    BY <2>3, <2>6 DEF Seen, SeenIn
  <2> QED
    BY <2>3, <2>4, <2>5, <2>7 DEF KeysOf
<1> QED
  BY <1>3, <1>4

(* A statement ends: its key is seen, and its run goes on.                 *)
LEMMA InsertKeeps ==
    ASSUME LedgerInv, NEW w \in Writers, Insert(w)
    PROVE  LedgerInv' /\ LogIsKept(log, log')
<1>1. /\ StateIsTyped /\ KeysAreUnique(log) /\ NodesComeFirst(log)
      /\ ProgramsPrepare /\ OpenIsNext(log, program) /\ FinishedIsSeen /\ GraphFits(live, Seen)
  BY DEF LedgerInv
<1>2. log \in Seq(Rows) /\ program \in [Runs -> Seq(RunEvents)]
  BY <1>1 DEF StateIsTyped
<1>3. PICK i \in 1 .. Len(log) :
         /\ log[i].writer = w /\ ~ log[i].done
         /\ Ended(i)
         /\ IF w \in Runs
            THEN /\ program' = [program EXCEPT ![w] = Tail(@)]
                 /\ finished' = IF Len(program[w]) = 1
                                THEN finished \cup {Head(program[w])}
                                ELSE finished
            ELSE UNCHANGED <<program, finished>>
         /\ UNCHANGED <<live, counters>>
  <2>1. DOMAIN log = 1 .. Len(log)
    BY <1>2
  <2> QED
    BY <2>1 DEF Insert
<1>4. /\ LogIsKept(log, log') /\ KeysAreUnique(log') /\ NodesComeFirst(log')
      /\ OpenRowsAreLeft(log, log', i)
      /\ log[i].event.key \in KeysOf(Seen')
  BY <1>1, <1>2, <1>3, EndedKeeps
<1>5. UNCHANGED <<live, taken, edited, refreshed, faults>>
  BY <1>3 DEF counters
<1>6. log' \in Seq(Rows)
  BY <1>4 DEF LogIsKept
<1>7. /\ Seen \subseteq Seen' /\ KeysOf(Seen) \subseteq KeysOf(Seen')
      /\ FinishedIsSeen /\ UNCHANGED finished => FinishedIsSeen'
      /\ GraphFits(live, Seen')
      /\ \A v \in Runs : \A n \in 1 .. Len(program[v]) :
            program[v][n].op = "create_edge" =>
               \A key \in Needs(program[v][n]) :
                  key \in KeysOf(Seen') \/ \E k \in 1 .. n - 1 : program[v][k].key = key
  BY <1>1, <1>2, <1>4, KeptLogKeeps
<1>8. \A v \in Runs : v # w => program'[v] = program[v]
  BY <1>2, <1>3
<1>9. OpenIsNext(log', program')
  BY <1>1, <1>3, <1>4, <1>8, OthersAreNext
<1>10. GraphFits(live', Seen')
  BY <1>5, <1>7
<1>11. CASE w \notin Runs
  <2>1. UNCHANGED <<program, finished>>
    BY <1>3, <1>11
  <2>2. StateIsTyped'
    BY <1>1, <1>5, <1>6, <2>1 DEF StateIsTyped
  <2>3. ProgramsPrepare'
    BY <1>7, <2>1 DEF ProgramsPrepare
  <2> QED
    BY <1>1, <1>4, <1>7, <1>9, <1>10, <2>1, <2>2, <2>3 DEF LedgerInv
<1>12. CASE w \in Runs
  <2>1. PICK p \in Seq(RunEvents) : p = program[w]
    BY <1>2, <1>12
  <2>2. PICK rest : rest = Tail(p)
    OBVIOUS
  <2>3. p # <<>> /\ log[i].event = Head(p)
    BY <1>1, <1>3, <1>12, <2>1 DEF OpenIsNext
  <2>4. /\ Head(p) = p[1] /\ Head(p) \in RunEvents /\ Len(p) \in Nat /\ Len(p) >= 1
        /\ rest \in Seq(RunEvents) /\ Len(rest) = Len(p) - 1
        /\ \A n \in 1 .. Len(rest) : rest[n] = p[n + 1]
    BY <2>2, <2>3, HeadTailProperties
  <2>5. program' = [program EXCEPT ![w] = rest] /\ program'[w] = rest
    BY <1>2, <1>3, <1>12, <2>1, <2>2
  <2>6. StateIsTyped'
    <3>1. program' \in [Runs -> Seq(RunEvents)]
      BY <1>2, <2>4, <2>5
    <3>2. ASSUME NEW v \in Runs PROVE Len(program'[v]) <= 4
      <4>1. CASE v = w
        <5>1. Len(p) <= 4
          BY <1>1, <2>1, <4>1 DEF StateIsTyped
        <5> QED
          BY <2>4, <2>5, <4>1, <5>1
      <4>2. CASE v # w
        BY <1>1, <1>8, <4>2 DEF StateIsTyped
      <4> QED
        BY <4>1, <4>2
    <3> QED
      BY <1>1, <1>5, <1>6, <3>1, <3>2 DEF StateIsTyped
  <2>7. ProgramsPrepare'
    <3> SUFFICES ASSUME NEW v \in Runs, NEW n \in 1 .. Len(program'[v]),
                        program'[v][n].op = "create_edge", NEW key \in Needs(program'[v][n])
                 PROVE  \/ key \in KeysOf(Seen')
                        \/ \E k \in 1 .. n - 1 : program'[v][k].key = key
      BY DEF ProgramsPrepare
    <3>1. CASE v # w
      <4>1. program'[v] = program[v]
        BY <1>8, <3>1
      <4>2. /\ n \in 1 .. Len(program[v]) /\ program[v][n].op = "create_edge"
            /\ key \in Needs(program[v][n])
        BY <4>1
      <4>3. key \in KeysOf(Seen') \/ \E k \in 1 .. n - 1 : program[v][k].key = key
        BY <1>7, <4>2
      <4> QED
        BY <4>1, <4>3
    <3>2. CASE v = w
      <4>1. program'[v] = rest
        BY <2>5, <3>2
      <4>2. n \in 1 .. Len(rest) /\ rest[n].op = "create_edge" /\ key \in Needs(rest[n])
        BY <4>1
      <4>3. rest[n] = p[n + 1] /\ n + 1 \in 1 .. Len(p) /\ n \in Nat
        BY <2>4, <4>2
      <4>4. /\ n + 1 \in 1 .. Len(program[w]) /\ program[w][n + 1].op = "create_edge"
            /\ key \in Needs(program[w][n + 1])
        BY <2>1, <4>2, <4>3
      <4>5. key \in KeysOf(Seen') \/ \E k \in 1 .. (n + 1) - 1 : program[w][k].key = key
        BY <1>7, <1>12, <4>4, ZenonT(60)
      <4>6. CASE \E k \in 1 .. (n + 1) - 1 : program[w][k].key = key
        <5>1. PICK k \in 1 .. n : p[k].key = key
          BY <2>1, <4>3, <4>6
        <5>2. CASE k = 1
          BY <1>4, <2>3, <2>4, <5>1, <5>2
        <5>3. CASE k # 1
          <6>1. k - 1 \in 1 .. n - 1 /\ k - 1 \in 1 .. Len(rest) /\ (k - 1) + 1 = k
            BY <2>4, <4>2, <5>1, <5>3
          <6>2. rest[k - 1] = p[k]
            BY <2>4, <6>1
          <6> QED
            BY <4>1, <5>1, <6>1, <6>2
        <5> QED
          BY <5>2, <5>3
      <4> QED
        BY <4>5, <4>6
    <3> QED
      BY <3>1, <3>2
  <2>8. FinishedIsSeen'
    <3>1. CASE Len(p) # 1
      <4>1. UNCHANGED finished
        BY <1>3, <1>12, <2>1, <3>1
      <4> QED
        BY <1>1, <1>7, <4>1
    <3>2. CASE Len(p) = 1
      <4>1. finished' = finished \cup {Head(p)}
        BY <1>3, <1>12, <2>1, <3>2
      <4>2. Head(p) \in RunEvents /\ Head(p).key \in KeysOf(Seen')
        BY <1>4, <2>3, <2>4
      <4>3. ASSUME Head(p).op = "create_edge"
            PROVE  <<"create_node", Head(p).ref>> \in KeysOf(Seen')
        <5>1. PICK key : key = <<"create_node", Head(p).ref>>
          OBVIOUS
        <5>2. key \in Needs(Head(p))
          BY <5>1 DEF Needs
        <5>3. /\ 1 \in 1 .. Len(program[w]) /\ program[w][1].op = "create_edge"
              /\ key \in Needs(program[w][1])
          BY <2>1, <2>4, <4>3, <5>2
        <5>4. key \in KeysOf(Seen') \/ \E k \in 1 .. 1 - 1 : program[w][k].key = key
          BY <1>7, <1>12, <5>3
        <5> QED
          BY <5>1, <5>4
      <4>4. ASSUME NEW last \in finished
            PROVE  /\ last \in RunEvents /\ last.key \in KeysOf(Seen')
                   /\ last.op = "create_edge" => <<"create_node", last.ref>> \in KeysOf(Seen')
        BY <1>1, <1>7 DEF FinishedIsSeen
      <4> QED
        BY <4>1, <4>2, <4>3, <4>4 DEF FinishedIsSeen
    <3> QED
      BY <3>1, <3>2
  <2> QED
    BY <1>4, <1>9, <1>10, <2>6, <2>7, <2>8 DEF LedgerInv
<1> QED
  BY <1>4, <1>11, <1>12

(* Its open row goes, or is no longer its own; it has nothing to log.      *)
LEMMA DieKeeps ==
    ASSUME LedgerInv, NEW w \in Runs, Die(w)
    PROVE  LedgerInv' /\ (log' # log => LogIsKept(log, log'))
<1>1. /\ StateIsTyped /\ KeysAreUnique(log) /\ NodesComeFirst(log)
      /\ ProgramsPrepare /\ OpenIsNext(log, program) /\ FinishedIsSeen /\ GraphFits(live, Seen)
  BY DEF LedgerInv
<1>2. log \in Seq(Rows) /\ program \in [Runs -> Seq(RunEvents)] /\ DOMAIN log = 1 .. Len(log)
  BY <1>1 DEF StateIsTyped
<1>3. /\ faults < MaxFaults /\ faults' = faults + 1
      /\ program' = [program EXCEPT ![w] = <<>>]
      /\ UNCHANGED <<finished, live, taken, edited, refreshed>>
  BY DEF Die
<1>4. program'[w] = <<>> /\ \A v \in Runs : v # w => program'[v] = program[v]
  BY <1>2, <1>3
<1>5. ASSUME log' \in Seq(Rows) PROVE StateIsTyped'
  <2>1. program' \in [Runs -> Seq(RunEvents)]
    BY <1>2, <1>3
  <2>2. \A v \in Runs : Len(program'[v]) <= 4
    BY <1>1, <1>4 DEF StateIsTyped
  <2>3. faults' \in 0 .. MaxFaults
    BY <1>1, <1>3, LedgerAssumption DEF StateIsTyped
  <2> QED
    BY <1>1, <1>3, <1>5, <2>1, <2>2, <2>3 DEF StateIsTyped
<1>6. ASSUME \A v \in Runs : \A n \in 1 .. Len(program[v]) :
                program[v][n].op = "create_edge" =>
                   \A key \in Needs(program[v][n]) :
                      key \in KeysOf(Seen') \/ \E k \in 1 .. n - 1 : program[v][k].key = key
      PROVE  ProgramsPrepare'
  <2> SUFFICES ASSUME NEW v \in Runs, NEW n \in 1 .. Len(program'[v]),
                      program'[v][n].op = "create_edge", NEW key \in Needs(program'[v][n])
               PROVE  \/ key \in KeysOf(Seen')
                      \/ \E k \in 1 .. n - 1 : program'[v][k].key = key
    BY DEF ProgramsPrepare
  <2>1. v # w
    <3>1. Len(program'[w]) = 0
      BY <1>4
    <3> QED
      BY <3>1
  <2> QED
    BY <1>4, <1>6, <2>1
<1>7. CASE Open(w)
  <2>1. PICK i \in 1 .. Len(log) :
           /\ log[i].writer = w /\ ~ log[i].done
           /\ log' = RemoveAt(log, i) \/ log' = [log EXCEPT ![i].writer = Gone]
    BY <1>2, <1>7 DEF Die
  <2>2. log[i] \in Rows
    BY <1>2
  <2>3. /\ LogIsKept(log, log') /\ KeysAreUnique(log') /\ NodesComeFirst(log')
        /\ OpenRowsAreLeft(log, log', i)
    <3>1. CASE log' = RemoveAt(log, i)
      BY <1>1, <1>2, <2>1, <3>1, RemovalKeeps, RemovalLeaves
    <3>2. CASE log' = [log EXCEPT ![i].writer = Gone]
      <4>1. PICK row : row = [log[i] EXCEPT !.writer = Gone]
        OBVIOUS
      <4>2. log' = [log EXCEPT ![i] = row]
        BY <3>2, <4>1
      <4>3. row \in Rows /\ row.event = log[i].event /\ ~ row.done /\ row.writer \notin Runs
        BY <2>1, <2>2, <4>1, LedgerAssumption DEF Rows, Writers
      <4> QED
        BY <1>1, <1>2, <2>1, <4>2, <4>3, RowInPlaceKeeps, RowInPlaceLeaves
    <3> QED
      BY <2>1, <3>1, <3>2
  <2>4. log' \in Seq(Rows)
    BY <2>3 DEF LogIsKept
  <2>5. OpenIsNext(log', program')
    BY <1>1, <1>4, <2>1, <2>3, OthersAreNext
  <2>6. FinishedIsSeen' /\ GraphFits(live, Seen') /\ ProgramsPrepare'
    BY <1>1, <1>2, <1>3, <1>6, <2>3, KeptLogKeeps
  <2>7. GraphFits(live', Seen')
    BY <1>3, <2>6
  <2> QED
    BY <1>5, <2>3, <2>4, <2>5, <2>6, <2>7 DEF LedgerInv
<1>8. CASE ~ Open(w)
  <2>1. log' = log
    BY <1>8 DEF Die
  <2>2. Seen' = Seen
    BY <2>1 DEF Seen
  <2>3. KeysAreUnique(log') /\ NodesComeFirst(log') /\ StateIsTyped'
    BY <1>1, <1>2, <1>5, <2>1
  <2>4. FinishedIsSeen' /\ GraphFits(live', Seen')
    BY <1>1, <1>3, <2>2 DEF FinishedIsSeen
  <2>5. ProgramsPrepare'
    BY <1>1, <1>6, <2>2 DEF ProgramsPrepare
  <2>6. \A i \in 1 .. Len(log) : log[i].done \/ log[i].writer # w
    <3>1. \A row \in ToSet(log) : row.writer # w \/ row.done
      BY <1>8 DEF Open
    <3>2. ToSet(log) = {log[i] : i \in 1 .. Len(log)}
      BY <1>2, ElementsOfASequence
    <3> QED
      BY <3>1, <3>2
  <2>7. OpenIsNext(log', program')
    BY <1>1, <1>4, <2>1, <2>6 DEF OpenIsNext
  <2> QED
    BY <2>1, <2>3, <2>4, <2>5, <2>7 DEF LedgerInv
<1> QED
  BY <1>7, <1>8

(* The editor's statements are for nobody's program.                       *)
LEMMA EditKeeps ==
    ASSUME LedgerInv, NEW op, NEW subject, NEW object, NEW ref,
           edited < MaxEdits, Edit(op, subject, object, ref),
           NEW e, e = Event(<<op, edited + 1>>, op, subject, object, ref), e \in Events,
           NeedsNodes(e) =>
             \A id \in {e.subject, e.object} : \E a \in Seen : a.op = "create_node" /\ a.subject = id
    PROVE  LedgerInv' /\ LogIsKept(log, log')
<1>1. /\ StateIsTyped /\ KeysAreUnique(log) /\ NodesComeFirst(log)
      /\ ProgramsPrepare /\ OpenIsNext(log, program) /\ FinishedIsSeen /\ GraphFits(live, Seen)
  BY DEF LedgerInv
<1>2. log \in Seq(Rows) /\ program \in [Runs -> Seq(RunEvents)]
  BY <1>1 DEF StateIsTyped
<1>3. edited' = edited + 1 /\ UNCHANGED <<program, finished, live, taken, refreshed, faults>>
  BY DEF Edit
<1>4. PICK row : row = [writer |-> Editor, event |-> e, done |-> FALSE]
  OBVIOUS
<1>5. log' = Append(log, row)
  BY <1>4 DEF Edit, Start
<1>6. /\ row \in Rows /\ ~ row.done /\ row.writer = Editor /\ row.event = e
      /\ Editor \notin Runs
  <2>1. Editor \in Writers /\ Editor \notin Runs
    BY LedgerAssumption DEF Writers
  <2> QED
    BY <1>4, <2>1 DEF Rows
<1>7. LogIsKept(log, log') /\ KeysAreUnique(log') /\ NodesComeFirst(log')
  BY <1>1, <1>2, <1>5, <1>6, StartKeeps DEF Seen
<1>8. StateIsTyped'
  <2>1. log' \in Seq(Rows)
    BY <1>7 DEF LogIsKept
  <2>2. edited' \in 0 .. MaxEdits
    BY <1>1, <1>3, LedgerAssumption DEF StateIsTyped
  <2> QED
    BY <1>1, <1>3, <2>1, <2>2 DEF StateIsTyped
<1>9. /\ \A i \in 1 .. Len(log) : log'[i] = log[i]
      /\ log'[Len(log) + 1] = row /\ Len(log') = Len(log) + 1 /\ Len(log) \in Nat
  BY <1>2, <1>5, <1>6, AppendProperties
<1>10. OpenIsNext(log', program)
  <2> SUFFICES ASSUME NEW i \in 1 .. Len(log'), ~ log'[i].done, log'[i].writer \in Runs
               PROVE  /\ program[log'[i].writer] # <<>>
                      /\ log'[i].event = Head(program[log'[i].writer])
                      /\ \A j \in 1 .. Len(log') :
                            ~ log'[j].done /\ log'[j].writer = log'[i].writer => j = i
    BY DEF OpenIsNext
  <2>1. i \in 1 .. Len(log) /\ log'[i] = log[i]
    BY <1>6, <1>9
  <2>2. /\ program[log[i].writer] # <<>> /\ log[i].event = Head(program[log[i].writer])
        /\ \A j \in 1 .. Len(log) :
              ~ log[j].done /\ log[j].writer = log[i].writer => j = i
    BY <1>1, <2>1 DEF OpenIsNext
  <2>3. \A j \in 1 .. Len(log') : ~ log'[j].done /\ log'[j].writer = log[i].writer => j = i
    BY <1>6, <1>9, <2>1, <2>2
  <2> QED
    BY <2>1, <2>2, <2>3
<1>11. /\ FinishedIsSeen' /\ GraphFits(live, Seen')
       /\ \A v \in Runs : \A n \in 1 .. Len(program[v]) :
             program[v][n].op = "create_edge" =>
                \A key \in Needs(program[v][n]) :
                   key \in KeysOf(Seen') \/ \E k \in 1 .. n - 1 : program[v][k].key = key
  BY <1>1, <1>2, <1>3, <1>7, KeptLogKeeps
<1>12. ProgramsPrepare'
  BY <1>3, <1>11 DEF ProgramsPrepare
<1>13. GraphFits(live', Seen') /\ OpenIsNext(log', program')
  BY <1>3, <1>10, <1>11
<1> QED
  BY <1>7, <1>8, <1>11, <1>12, <1>13 DEF LedgerInv

(* What the editor finds in the graph is on the log.                       *)
LEMMA ListedIsSeen ==
    ASSUME LedgerInv
    PROVE  /\ Listed \subseteq Ids
           /\ \A id \in Listed : \E a \in Seen : a.op = "create_node" /\ a.subject = id
           /\ \A x \in ToSet(Current.edges) : x.ref \in Ids \cup Nat \cup {NoId}
           /\ \A x \in ToSet(Current.edges) : x.type = "SAME_AS" => <<x.from, x.to>> \in Pairs
<1>1. GraphFits(Current, Seen)
  BY CurrentFits DEF LedgerInv, StateIsTyped
<1>2. Listed \subseteq DOMAIN Current.nodes
  BY DEF Listed
<1>3. ToSet(Current.edges) \subseteq EdgeRecords
  BY <1>1, ElementsOfASequence DEF GraphFits, GraphIsTyped
<1>4. DOMAIN Current.nodes \subseteq Ids
  BY <1>1 DEF GraphFits, GraphIsTyped
<1>5. \A id \in DOMAIN Current.nodes : \E a \in Seen : a.op = "create_node" /\ a.subject = id
  BY <1>1 DEF GraphFits, NodesFit
<1>6. \A x \in ToSet(Current.edges) : x.type = "SAME_AS" => <<x.from, x.to>> \in Pairs
  BY <1>1 DEF GraphFits, RelationsFit
<1> QED
  BY <1>2, <1>3, <1>4, <1>5, <1>6 DEF EdgeRecords

(* The editor's events are events.                                         *)
LEMMA EventIsTyped ==
    ASSUME NEW op \in {"merge_entity", "unmerge", "supersede", "delete"},
           NEW n \in Nat, NEW subject \in Ids, NEW object \in Ids \cup {NoId},
           NEW ref \in Ids \cup Nat \cup {NoId},
           op # "delete" => <<subject, object>> \in Pairs,
           NEW e, e = Event(<<op, n>>, op, subject, object, ref)
    PROVE  e \in Events /\ e.op = op /\ e.subject = subject /\ e.object = object
<1>1. e = [key |-> <<op, n>>, op |-> op, subject |-> subject, object |-> object, ref |-> ref]
  BY DEF Event
<1>2. op \in Ops
  BY DEF Ops
<1>3. e \in EventRecords
  BY <1>1, <1>2 DEF EventRecords
<1>4. e \in EditEvents
  BY <1>1, <1>3 DEF EditEvents
<1> QED
  BY <1>1, <1>4 DEF Events

(* Pairs are of nodes.                                                     *)
LEMMA PairFields ==
    ASSUME NEW pair \in Pairs
    PROVE  pair[1] \in Ids /\ pair[2] \in Ids /\ <<pair[1], pair[2]>> \in Pairs
  BY LedgerAssumption

(* Each of the editor's mutations starts a statement for nodes that are    *)
(* seen.                                                                   *)
LEMMA EditorKeeps ==
    ASSUME LedgerInv, EditMerge \/ EditUnmerge \/ EditSupersede \/ EditDelete
    PROVE  LedgerInv' /\ LogIsKept(log, log')
<1>1. PICK n : n = edited + 1
  OBVIOUS
<1>2. n \in Nat
  BY <1>1, LedgerAssumption DEF LedgerInv, StateIsTyped
<1>3. CASE EditMerge
  <2>1. PICK pair \in Pairs :
           {pair[1], pair[2]} \subseteq Listed /\ Edit("merge_entity", pair[1], pair[2], n)
    BY <1>1, <1>3 DEF EditMerge
  <2>2. PICK e : e = Event(<<"merge_entity", n>>, "merge_entity", pair[1], pair[2], n)
    OBVIOUS
  <2>3. e \in Events /\ e.subject = pair[1] /\ e.object = pair[2]
    <3>1. pair[1] \in Ids /\ pair[2] \in Ids \cup {NoId} /\ <<pair[1], pair[2]>> \in Pairs
      BY PairFields
    <3>2. n \in Ids \cup Nat \cup {NoId}
      BY <1>2
    <3> QED
      BY <1>2, <2>2, <3>1, <3>2, EventIsTyped
  <2>4. \A id \in {e.subject, e.object} : \E a \in Seen : a.op = "create_node" /\ a.subject = id
    BY <2>1, <2>3, ListedIsSeen
  <2>5. edited < MaxEdits
    BY <1>3 DEF EditMerge, Idle
  <2> QED
    BY <1>1, <2>1, <2>2, <2>3, <2>4, <2>5, EditKeeps
<1>4. CASE EditUnmerge
  <2>1. PICK x \in ToSet(Current.edges) :
           x.type = "SAME_AS" /\ Edit("unmerge", x.from, x.to, x.ref)
    BY <1>4 DEF EditUnmerge
  <2>2. PICK e : e = Event(<<"unmerge", n>>, "unmerge", x.from, x.to, x.ref)
    OBVIOUS
  <2>3. PICK pair \in Pairs : pair = <<x.from, x.to>>
    BY <2>1, ListedIsSeen
  <2>4. x.from \in Ids /\ x.to \in Ids
    BY <2>3, PairFields
  <2>5. e \in Events /\ e.op = "unmerge"
    BY <1>2, <2>1, <2>2, <2>3, <2>4, ListedIsSeen, EventIsTyped
  <2>6. edited < MaxEdits /\ ~ NeedsNodes(e)
    BY <1>4, <2>5 DEF EditUnmerge, Idle, NeedsNodes
  <2> QED
    BY <1>1, <2>1, <2>2, <2>5, <2>6, EditKeeps
<1>5. CASE EditSupersede
  <2>1. PICK pair \in Pairs : Edit("supersede", pair[1], pair[2], NoId)
    BY <1>5 DEF EditSupersede
  <2>2. PICK e : e = Event(<<"supersede", n>>, "supersede", pair[1], pair[2], NoId)
    OBVIOUS
  <2>3. e \in Events /\ e.op = "supersede"
    <3>1. pair[1] \in Ids /\ pair[2] \in Ids \cup {NoId} /\ <<pair[1], pair[2]>> \in Pairs
      BY PairFields
    <3>2. NoId \in Ids \cup Nat \cup {NoId}
      OBVIOUS
    <3> QED
      BY <1>2, <2>2, <3>1, <3>2, EventIsTyped
  <2>4. edited < MaxEdits /\ ~ NeedsNodes(e)
    BY <1>5, <2>3 DEF EditSupersede, Idle, NeedsNodes
  <2> QED
    BY <1>1, <2>1, <2>2, <2>3, <2>4, EditKeeps
<1>6. CASE EditDelete
  <2>1. PICK id \in Listed : Edit("delete", id, NoId, NoId)
    BY <1>6 DEF EditDelete
  <2>2. PICK e : e = Event(<<"delete", n>>, "delete", id, NoId, NoId)
    OBVIOUS
  <2>3. id \in Ids
    BY <2>1, ListedIsSeen
  <2>4. e \in Events /\ e.op = "delete"
    BY <1>2, <2>2, <2>3, EventIsTyped
  <2>5. edited < MaxEdits /\ ~ NeedsNodes(e)
    BY <1>6, <2>4 DEF EditDelete, Idle, NeedsNodes
  <2> QED
    BY <1>1, <2>1, <2>2, <2>4, <2>5, EditKeeps
<1> QED
  BY <1>3, <1>4, <1>5, <1>6

(* A graph that applies the log, or what an exception leaves of it, fits.  *)
LEMMA RefreshKeeps ==
    ASSUME LedgerInv, Refresh \/ RefreshFails
    PROVE  LedgerInv' /\ log' = log
<1>1. /\ StateIsTyped /\ KeysAreUnique(log) /\ NodesComeFirst(log)
      /\ ProgramsPrepare /\ OpenIsNext(log, program) /\ FinishedIsSeen /\ GraphFits(live, Seen)
  BY DEF LedgerInv
<1>2. log \in Seq(Rows)
  BY <1>1 DEF StateIsTyped
<1>3. /\ Seen \subseteq Events /\ KeysTellApart(Seen)
      /\ AllMutations \in Seq(Seen) /\ Len(AllMutations) = Len(Visible)
      /\ IsOrdered(AllMutations)
  BY <1>1, <1>2, SeenEvents
<1>4. UNCHANGED <<log, program, finished, taken, edited>>
  BY DEF Refresh, RefreshFails
<1>5. StateIsTyped'
  <2>1. refreshed' \in 0 .. MaxRefreshes /\ faults' \in 0 .. MaxFaults
    BY <1>1, LedgerAssumption, SMTT(60) DEF StateIsTyped, Refresh, RefreshFails
  <2> QED
    BY <1>1, <1>4, <2>1 DEF StateIsTyped
<1>6. GraphFits(live', Seen)
  <2>1. CASE Refresh
    <3>1. live' = Apply(live, AllMutations)
      BY <2>1 DEF Refresh
    <3> QED
      BY <1>1, <1>3, <3>1, ApplyFits
  <2>2. CASE RefreshFails
    <3>1. PICK n \in 1 .. Len(Visible) - 1 : live' = Apply(live, SubSeq(AllMutations, 1, n))
      BY <2>2 DEF RefreshFails
    <3>2. PICK all \in Seq(Seen) : all = AllMutations
      BY <1>3
    <3>3. n \in 1 .. Len(all)
      BY <1>3, <3>2
    <3>4. PICK part : part = SubSeq(all, 1, n)
      OBVIOUS
    <3>5. part \in Seq(Seen) /\ Len(part) = n /\ \A k \in 1 .. n : part[k] = all[k]
      BY <3>3, <3>4, SubSeqProperties
    <3>6. IsOrdered(part)
      BY <1>3, <3>2, <3>3, <3>5, SMTT(60) DEF IsOrdered
    <3> QED
      BY <1>1, <1>3, <3>1, <3>2, <3>4, <3>5, <3>6, ApplyFits
  <2> QED
    BY <2>1, <2>2
<1>7. Seen' = Seen
  BY <1>4 DEF Seen
<1>8. /\ KeysAreUnique(log') /\ NodesComeFirst(log') /\ OpenIsNext(log', program')
      /\ GraphFits(live', Seen')
  BY <1>1, <1>4, <1>6, <1>7
<1>9. FinishedIsSeen'
  BY <1>1, <1>4, <1>7 DEF FinishedIsSeen
<1>10. ProgramsPrepare'
  BY <1>1, <1>4, <1>7 DEF ProgramsPrepare
<1> QED
  BY <1>4, <1>5, <1>8, <1>9, <1>10 DEF LedgerInv

(* Nothing changes.                                                        *)
LEMMA StutterKeeps ==
    ASSUME LedgerInv, UNCHANGED vars
    PROVE  LedgerInv' /\ log' = log
<1>1. UNCHANGED <<log, program, finished, live, taken, edited, refreshed, faults>>
  BY DEF vars, counters
<1>2. Seen' = Seen
  BY <1>1 DEF Seen
<1>3. StateIsTyped'
  BY <1>1 DEF LedgerInv, StateIsTyped
<1>4. /\ KeysAreUnique(log') /\ NodesComeFirst(log') /\ OpenIsNext(log', program')
      /\ GraphFits(live', Seen')
  BY <1>1, <1>2 DEF LedgerInv
<1>5. FinishedIsSeen'
  BY <1>1, <1>2 DEF LedgerInv, FinishedIsSeen
<1>6. ProgramsPrepare'
  BY <1>1, <1>2 DEF LedgerInv, ProgramsPrepare
<1> QED
  BY <1>1, <1>3, <1>4, <1>5, <1>6 DEF LedgerInv

(* Every step keeps the invariant, and a log that changes is kept.         *)
LEMMA StepKeeps ==
    ASSUME LedgerInv, [Next]_vars
    PROVE  LedgerInv' /\ (log' # log => LogIsKept(log, log'))
<1>1. CASE \E w \in Runs : Promote(w) \/ LogNext(w) \/ Die(w)
  BY <1>1, PromoteKeeps, LogNextKeeps, DieKeeps
<1>2. CASE \E w \in Writers : Insert(w)
  BY <1>2, InsertKeeps
<1>3. CASE EditMerge \/ EditUnmerge \/ EditSupersede \/ EditDelete
  BY <1>3, EditorKeeps
<1>4. CASE Refresh \/ RefreshFails
  BY <1>4, RefreshKeeps
<1>5. CASE UNCHANGED vars
  BY <1>5, StutterKeeps
<1> QED
  BY <1>1, <1>2, <1>3, <1>4, <1>5 DEF Next

(* The inductive invariant, in every behaviour.                            *)
THEOREM LedgerInvariance == Spec => []LedgerInv
<1>1. Init => LedgerInv
  BY InitHolds
<1>2. LedgerInv /\ [Next]_vars => LedgerInv'
  BY StepKeeps
<1> QED
  BY <1>1, <1>2, PTL DEF Spec

-------------------------------------------------------------------------------
(* What is replayed for a past tx_time.                                    *)

(* What replay_graph_at_tx applies for a tx_time that no open statement    *)
(* has: no later step, of any run or of the editor, changes it.            *)
THEOREM AsOfStays == Spec => AsOfIsStable
<1>1. ASSUME LedgerInv, [Next]_vars, log' # log, NEW i \in DOMAIN log,
             \A j \in 1 .. i : log[j].done
      PROVE  EventsAtTx(i)' = EventsAtTx(i)
  <2>1. log \in Seq(Rows) /\ DOMAIN log = 1 .. Len(log)
    BY <1>1 DEF LedgerInv, StateIsTyped
  <2>2. LogIsKept(log, log')
    BY <1>1, StepKeeps
  <2>3. SubSeq(log', 1, i) = SubSeq(log, 1, i)
    BY <1>1, <2>1, <2>2 DEF LogIsKept
  <2> QED
    BY <2>3 DEF EventsAtTx
<1>2. LedgerInv /\ [Next]_vars =>
        [\A i \in DOMAIN log :
           (\A j \in 1 .. i : log[j].done) /\ SubSeq(log', 1, i) # SubSeq(log, 1, i)
              => EventsAtTx(i)' = EventsAtTx(i)]_vars
  BY <1>1
<1> QED
  BY <1>2, LedgerInvariance, PTL DEF Spec, AsOfIsStable

-------------------------------------------------------------------------------
(* What the graphs hold.                                                   *)

(* Types.                                                                  *)
LEMMA TypeHolds == LedgerInv => TypeOK
<1> SUFFICES ASSUME LedgerInv PROVE TypeOK
  OBVIOUS
<1>1. log \in Seq(Rows) /\ KeysAreUnique(log) /\ GraphFits(live, Seen)
  BY DEF LedgerInv, StateIsTyped
<1>2. \A row \in ToSet(log) :
         /\ row.writer \in Writers
         /\ row.event.op \in Ops
         /\ row.event.subject \in Ids /\ row.event.object \in Ids \cup {NoId}
  <2>1. ToSet(log) \subseteq Rows
    BY <1>1, ElementsOfASequence
  <2>2. \A row \in Rows : row.writer \in Writers /\ row.event \in Events
    BY DEF Rows
  <2> QED
    BY <2>1, <2>2, EventFields
<1>3. DOMAIN live.nodes \subseteq Ids
  BY <1>1 DEF GraphFits, GraphIsTyped
<1>4. live.applied \subseteq Keys(Visible)
  BY <1>1, SeenEvents DEF GraphFits, NodesFit
<1>5. /\ \A w \in Runs : Len(program[w]) <= 4
      /\ taken <= MaxClaims /\ edited <= MaxEdits
      /\ refreshed <= MaxRefreshes /\ faults <= MaxFaults
  BY LedgerAssumption DEF LedgerInv, StateIsTyped
<1> QED
  BY <1>2, <1>3, <1>4, <1>5 DEF TypeOK

(* The kept graph and the replayed one quarantined nothing.                *)
LEMMA NothingIsQuarantined == LedgerInv => NoneQuarantined(Current)
  BY CurrentFits DEF LedgerInv, StateIsTyped, GraphFits, NoneQuarantined

(* A node or relation whose key is on the log is in the replayed graph.    *)
LEMMA SeenNodesAreThere ==
    ASSUME LedgerInv, NEW id, NEW kind \in {"create_node", "create_entity"},
           <<kind, id>> \in KeysOf(Seen)
    PROVE  HasNode(Current, id)
<1>1. log \in Seq(Rows) /\ KeysAreUnique(log) /\ NodesComeFirst(log)
  BY DEF LedgerInv, StateIsTyped
<1>2. GraphFits(Current, Seen) /\ KeysOf(Seen) \subseteq Current.applied
  BY <1>1, CurrentFits
<1>3. PICK e \in Seen : e.key = <<kind, id>>
  BY DEF KeysOf
<1>4. e \in Events
  BY <1>1, SeenEvents
<1>5. e.op = "create_node" /\ e.subject = id
  BY <1>3, <1>4, NodeKeys
<1>6. e.key \in Current.applied
  BY <1>2, <1>3
<1> QED
  BY <1>2, <1>5, <1>6 DEF GraphFits, NodesFit, HasNode

(* A claim's relation is in the graph once, or has lost a node, or its     *)
(* nodes were unmerged.                                                    *)
LEMMA RelationIsWired ==
    ASSUME NEW g, NEW events, GraphFits(g, events),
           NEW e \in events, e.op = "create_edge", e.key \in g.applied, e.ref \in Claims,
           NEW relations, relations = {x \in ToSet(g.edges) : x.type = e.ref}
    PROVE  IF relations = {}
           THEN \/ \E id \in {e.subject, e.object} : g.nodes[id].deleted
                \/ PairOf(e) \in UnmergedIn(events)
           ELSE Cardinality(relations) = 1
<1>1. WiringFits(g.nodes, ToSet(g.edges), g.applied, events)
  BY DEF GraphFits
<1>2. RelationsFit(ToSet(g.edges), g.applied, events)
  BY DEF GraphFits
<1>3. CASE relations = {}
  <2>1. ~ \E x \in ToSet(g.edges) : x.type = e.ref
    BY <1>3
  <2> QED
    BY <1>1, <1>3, <2>1 DEF WiringFits
<1>4. CASE relations # {}
  <2>1. PICK x : x \in relations
    BY <1>4
  <2>2. relations = {x}
    BY <1>2, <2>1 DEF RelationsFit
  <2>3. Cardinality({x}) = 1
    BY FS_Singleton
  <2> QED
    BY <1>4, <2>2, <2>3
<1> QED
  BY <1>3, <1>4

(* What a run has logged to the end is in the graph.                       *)
LEMMA FinishedIsThere ==
    ASSUME LedgerInv
    PROVE  FinishedIsWired(Current)
<1>1. log \in Seq(Rows) /\ KeysAreUnique(log) /\ NodesComeFirst(log) /\ FinishedIsSeen
  BY DEF LedgerInv, StateIsTyped
<1>2. GraphFits(Current, Seen) /\ KeysOf(Seen) \subseteq Current.applied
  BY <1>1, CurrentFits
<1>3. Seen \subseteq Events /\ ToSet(AllMutations) = Seen
  BY <1>1, SeenEvents
<1>4. PICK now : now = Current
  OBVIOUS
<1>5. ASSUME NEW last \in finished, last.op = "create_node"
      PROVE  HasNode(now, last.subject)
  <2>1. last \in RunEvents /\ last.key \in KeysOf(Seen)
    BY <1>1 DEF FinishedIsSeen
  <2>2. PICK a \in Seen : a.key = last.key
    BY <2>1 DEF KeysOf
  <2>3. last \in NodeEvents
    BY <1>5, <2>1, RunEventKinds, EventFields
  <2>4. PICK kind \in {"create_node", "create_entity"}, id \in Ids : last = Node(kind, id)
    BY <2>3 DEF NodeEvents
  <2>5. last.key = <<kind, id>> /\ last.subject = id
    BY <2>4 DEF Node, Event
  <2> QED
    BY <1>4, <2>1, <2>5, SeenNodesAreThere
<1>6. ASSUME NEW last \in finished, last.op # "create_node"
      PROVE  /\ HasNode(now, last.ref)
             /\ \E e \in Seen :
                   /\ e.op = "create_edge" /\ e.ref = last.ref
                   /\ e.ref \in Claims /\ e.key \in now.applied
  <2>1. /\ last \in RunEvents /\ last.key \in KeysOf(Seen)
        /\ last.op = "create_edge" => <<"create_node", last.ref>> \in KeysOf(Seen)
    BY <1>1 DEF FinishedIsSeen
  <2>2. last \in Events /\ last.op = "create_edge"
    BY <1>6, <2>1, RunEventKinds
  <2>3. last.key = <<"create_edge", last.ref>>
    BY <2>2, EventFields
  <2>4. PICK e \in Seen : e.key = last.key
    BY <2>1 DEF KeysOf
  <2>5. e \in Events
    BY <1>3
  <2>6. e.op = "create_edge" /\ e.ref = last.ref
    BY <2>3, <2>4, <2>5, RelationKeys
  <2>7. e.ref \in Claims
    BY <2>5, <2>6, EventFields
  <2>8. e.key \in now.applied
    BY <1>2, <1>4, <2>1, <2>4
  <2>9. HasNode(now, last.ref)
    BY <1>4, <2>1, <2>2, SeenNodesAreThere
  <2> QED
    BY <2>6, <2>7, <2>8, <2>9
<1>7. ASSUME NEW e \in Seen, e.op = "create_edge", e.ref \in Claims, e.key \in now.applied,
             NEW relations, relations = {x \in ToSet(now.edges) : x.type = e.ref}
      PROVE  IF relations = {}
             THEN \/ \E id \in {e.subject, e.object} : now.nodes[id].deleted
                  \/ PairOf(e) \in Unmerged
             ELSE Cardinality(relations) = 1
  <2>1. UnmergedIn(Seen) = Unmerged
    BY <1>3 DEF UnmergedIn, Unmerged, EventsWith
  <2> QED
    BY <1>2, <1>4, <1>7, <2>1, RelationIsWired
<1> QED
  BY <1>4, <1>5, <1>6, <1>7, <1>3 DEF FinishedIsWired

(* Whatever runs overlap, die and start over, and whatever is edited: no   *)
(* relation on the log is ever missing an entity, in a replay or in the    *)
(* kept graph.                                                             *)
THEOREM NoRelationIsQuarantined == Spec => [](TypeOK /\ NoneQuarantined(Current))
<1>1. LedgerInv => TypeOK /\ NoneQuarantined(Current)
  BY TypeHolds, NothingIsQuarantined
<1> QED
  BY <1>1, LedgerInvariance, PTL

(* And each claim a run has logged to the end is a node with its relation  *)
(* in the graph once, or a deletion has taken one of its entities, or an   *)
(* unmerge the relations of the two.                                       *)
THEOREM ReferencesAreHeld == Spec => []ReferencesHold
<1>1. LedgerInv => ReferencesHold
  BY TypeHolds, NothingIsQuarantined, FinishedIsThere DEF ReferencesHold
<1> QED
  BY <1>1, LedgerInvariance, PTL

-------------------------------------------------------------------------------
(* Applying a log in parts.                                                *)

(* Two functions that apply the same first events agree on them.           *)
LEMMA ApplyingIsUnique ==
    ASSUME NEW g, NEW s, NEW t, NEW n \in Nat, NEW m \in Nat, NEW f, NEW h,
           Applying(g, s, n, f), Applying(g, t, m, h),
           NEW k \in Nat, k <= n, k <= m, \A i \in 1 .. k : s[i] = t[i]
    PROVE  f[k] = h[k]
<1> DEFINE Bad == {i \in 0 .. k : f[i] # h[i]}
<1>1. SUFFICES ASSUME Bad # {} PROVE FALSE
  OBVIOUS
<1>2. Bad \subseteq Nat
  OBVIOUS
<1>3. PICK i \in Bad : \A j \in Bad : i <= j
  BY <1>1, <1>2, LeastNatural
<1>4. i \in 0 .. k /\ f[i] # h[i]
  BY <1>3
<1>5. i # 0
  BY <1>4 DEF Applying
<1>6. i - 1 \in 0 .. k /\ i - 1 \notin Bad
  BY <1>3, <1>4, <1>5
<1>7. f[i - 1] = h[i - 1]
  BY <1>6
<1>8. f[i] = ApplyEvent(f[i - 1], s[i]) /\ h[i] = ApplyEvent(h[i - 1], t[i])
  BY <1>4, <1>5 DEF Applying
<1>9. s[i] = t[i]
  BY <1>4, <1>5
<1> QED
  BY <1>4, <1>7, <1>8, <1>9

(* The first n of a list of events, applied to a graph.                    *)
After(g, events, n) == Apply(g, SubSeq(events, 1, n))

(* Events are applied one by one.                                          *)
LEMMA AppliedOneByOne ==
    ASSUME NEW T, NEW events \in Seq(T), NEW g
    PROVE  /\ After(g, events, 0) = g
           /\ \A n \in 1 .. Len(events) :
                 After(g, events, n) = ApplyEvent(After(g, events, n - 1), events[n])
           /\ After(g, events, Len(events)) = Apply(g, events)
<1> DEFINE f == CHOOSE h : Applying(g, events, Len(events), h)
<1>1. Len(events) \in Nat
  OBVIOUS
<1>2. Applying(g, events, Len(events), f)
  BY <1>1, ApplyingIsDefined
<1>3. Apply(g, events) = f[Len(events)]
  BY DEF Apply, Applying
<1> HIDE DEF f
<1>4. ASSUME NEW n \in 0 .. Len(events) PROVE After(g, events, n) = f[n]
  <2> DEFINE part == SubSeq(events, 1, n)
             h == CHOOSE x : Applying(g, part, Len(part), x)
  <2>1. /\ part \in Seq(T) /\ Len(part) = n
        /\ \A i \in 1 .. n : part[i] = events[i]
    BY <1>1
  <2> HIDE DEF part
  <2>2. Applying(g, part, Len(part), h)
    <3>1. Len(part) \in Nat
      BY <1>1, <2>1
    <3> QED
      BY <3>1, ApplyingIsDefined
  <2>3. Apply(g, part) = h[Len(part)]
    BY DEF Apply, Applying
  <2> HIDE DEF h
  <2>4. h[n] = f[n]
    <3>1. n \in Nat /\ n <= Len(events) /\ Applying(g, part, n, h)
      BY <1>1, <2>1, <2>2
    <3>2. n <= n /\ \A i \in 1 .. n : part[i] = events[i]
      BY <2>1, <3>1
    <3> HIDE DEF part
    <3> QED
      BY <1>1, <1>2, <3>1, <3>2, ApplyingIsUnique
  <2> QED
    BY <2>1, <2>3, <2>4 DEF After, part
<1>5. f[0] = g
  BY <1>1, <1>2 DEF Applying
<1>6. ASSUME NEW n \in 1 .. Len(events)
      PROVE  f[n] = ApplyEvent(f[n - 1], events[n])
  BY <1>1, <1>2 DEF Applying
<1> QED
  BY <1>1, <1>3, <1>4, <1>5, <1>6

(* One more event.                                                         *)
LEMMA ApplyAppend ==
    ASSUME NEW T, NEW s \in Seq(T), NEW e \in T, NEW g
    PROVE  Apply(g, Append(s, e)) = ApplyEvent(Apply(g, s), e)
<1> DEFINE t == Append(s, e)
<1>1. /\ t \in Seq(T) /\ Len(t) = Len(s) + 1 /\ Len(s) \in Nat
      /\ \A i \in 1 .. Len(s) : t[i] = s[i]
      /\ t[Len(s) + 1] = e
  BY AppendProperties
<1> HIDE DEF t
<1>2. SubSeq(t, 1, Len(s)) = s
  <2>1. SubSeq(t, 1, Len(s)) \in Seq(T) /\ Len(SubSeq(t, 1, Len(s))) = Len(s)
        /\ \A i \in 1 .. Len(s) : SubSeq(t, 1, Len(s))[i] = t[i]
    BY <1>1
  <2> QED
    BY <1>1, <2>1, SeqEqual
<1>3. /\ After(g, t, Len(s) + 1) = ApplyEvent(After(g, t, Len(s)), e)
      /\ After(g, t, Len(s) + 1) = Apply(g, t)
  BY <1>1, AppliedOneByOne
<1> QED
  BY <1>2, <1>3 DEF After, t

(* Events after other events.                                              *)
LEMMA ApplyConcat ==
    ASSUME NEW T, NEW s \in Seq(T), NEW t \in Seq(T), NEW g
    PROVE  Apply(g, s \o t) = Apply(Apply(g, s), t)
<1> DEFINE first(n) == s \o SubSeq(t, 1, n)
           Bad == {n \in 0 .. Len(t) : Apply(g, first(n)) # After(Apply(g, s), t, n)}
<1>1. Len(t) \in Nat /\ Len(s) \in Nat
  OBVIOUS
<1>2. Bad = {}
  <2> SUFFICES ASSUME Bad # {} PROVE FALSE
    OBVIOUS
  <2>1. Bad \subseteq Nat
    BY <1>1
  <2>2. PICK m \in Bad : \A k \in Bad : m <= k
    BY <2>1, LeastNatural
  <2>3. m \in 0 .. Len(t) /\ Apply(g, first(m)) # After(Apply(g, s), t, m)
    BY <2>2
  <2>4. m # 0
    <3>1. SubSeq(t, 1, 0) = <<>>
      OBVIOUS
    <3>2. s \o <<>> = s
      OBVIOUS
    <3>3. After(Apply(g, s), t, 0) = Apply(g, s)
      BY AppliedOneByOne
    <3> QED
      BY <2>3, <3>1, <3>2, <3>3
  <2>5. m - 1 \in 0 .. Len(t) /\ m - 1 \notin Bad /\ m \in 1 .. Len(t)
    BY <1>1, <2>2, <2>3, <2>4
  <2>6. Apply(g, first(m - 1)) = After(Apply(g, s), t, m - 1)
    BY <2>5
  <2>7. first(m) = Append(first(m - 1), t[m]) /\ first(m - 1) \in Seq(T) /\ t[m] \in T
    <3>1. /\ SubSeq(t, 1, m) = Append(SubSeq(t, 1, m - 1), t[m])
          /\ SubSeq(t, 1, m - 1) \in Seq(T) /\ t[m] \in T
      <4>1. /\ SubSeq(t, 1, m - 1) \in Seq(T) /\ t[m] \in T
            /\ Len(SubSeq(t, 1, m - 1)) = m - 1
            /\ \A i \in 1 .. m - 1 : SubSeq(t, 1, m - 1)[i] = t[i]
        BY <2>5
      <4>2. /\ SubSeq(t, 1, m) \in Seq(T)
            /\ Len(SubSeq(t, 1, m)) = m
            /\ \A i \in 1 .. m : SubSeq(t, 1, m)[i] = t[i]
        BY <2>5
      <4> DEFINE a == Append(SubSeq(t, 1, m - 1), t[m])
      <4>3. /\ a \in Seq(T) /\ Len(a) = m - 1 + 1 /\ a[m - 1 + 1] = t[m]
            /\ \A i \in 1 .. m - 1 : a[i] = SubSeq(t, 1, m - 1)[i]
        BY <4>1, AppendProperties
      <4> HIDE DEF a
      <4>4. Len(a) = m /\ \A i \in 1 .. m : a[i] = t[i]
        BY <2>5, <4>1, <4>3
      <4>5. SubSeq(t, 1, m) = a
        BY <4>2, <4>3, <4>4, SeqEqual
      <4> QED
        BY <4>1, <4>5 DEF a
    <3>2. \A u \in Seq(T), x \in T : s \o Append(u, x) = Append(s \o u, x) /\ s \o u \in Seq(T)
      OBVIOUS
    <3> QED
      BY <3>1, <3>2
  <2>8. Apply(g, first(m)) = ApplyEvent(Apply(g, first(m - 1)), t[m])
    <3> HIDE DEF first
    <3> QED
      BY <2>7, ApplyAppend
  <2>9. After(Apply(g, s), t, m) = ApplyEvent(After(Apply(g, s), t, m - 1), t[m])
    BY <2>5, AppliedOneByOne
  <2> QED
    BY <2>3, <2>6, <2>8, <2>9
<1>3. Apply(g, first(Len(t))) = After(Apply(g, s), t, Len(t))
  BY <1>1, <1>2
<1>4. SubSeq(t, 1, Len(t)) = t
  OBVIOUS
<1> QED
  BY <1>3, <1>4, AppliedOneByOne

-------------------------------------------------------------------------------
(* Creations, which apply alike to graphs that show the same.              *)

IsGraph(g) == DOMAIN g = {"nodes", "edges", "applied", "edgeSeq", "quarantined"}
IsCreation(e) == e.op \in {"create_node", "create_edge"}

(* Two graphs in which the same events do the same.                        *)
Alike(g, h) ==
    /\ IsGraph(g) /\ IsGraph(h)
    /\ g.nodes = h.nodes /\ g.edges = h.edges /\ g.edgeSeq = h.edgeSeq

(* What creations do to a graph, field by field.                           *)
NewRelation(g, e) ==
    [id |-> g.edgeSeq + 1, type |-> e.ref, from |-> e.subject, to |-> e.object, ref |-> NoId]
Fits(g, e) == e.op = "create_edge" /\ {e.subject, e.object} \subseteq DOMAIN g.nodes

Created(g, e, h) ==
    /\ IsGraph(h) /\ h.applied = g.applied \cup {e.key}
    /\ h.nodes = IF e.op = "create_node" /\ e.subject \notin DOMAIN g.nodes
                 THEN [i \in DOMAIN g.nodes \cup {e.subject} |->
                         IF i = e.subject THEN NewNode ELSE g.nodes[i]]
                 ELSE g.nodes
    /\ h.edgeSeq = IF Fits(g, e) THEN g.edgeSeq + 1 ELSE g.edgeSeq
    /\ h.edges = IF Fits(g, e) THEN Append(g.edges, NewRelation(g, e)) ELSE g.edges

(* A creation that was not applied does what Created says.                 *)
LEMMA CreationEffect ==
    ASSUME NEW g, IsGraph(g), NEW e, IsCreation(e), e.key \notin g.applied,
           NEW h, h = ApplyEvent(g, e)
    PROVE  Created(g, e, h)
<1>1. h = [Effect(g, e) EXCEPT !.applied = @ \cup {e.key}]
  BY DEF ApplyEvent
<1>2. CASE e.op = "create_node"
  <2>1. Effect(g, e) = CreateNode(g, e)
    BY <1>2 DEF Effect
  <2>2. CASE e.subject \in DOMAIN g.nodes
    <3>1. Effect(g, e) = g
      BY <2>1, <2>2 DEF CreateNode, HasNode
    <3> QED
      BY <1>1, <1>2, <2>2, <3>1 DEF IsGraph, Created, Fits
  <2>3. CASE e.subject \notin DOMAIN g.nodes
    <3>1. Effect(g, e) = SetNode(g, e.subject, NewNode)
      BY <2>1, <2>3 DEF CreateNode, HasNode
    <3> QED
      BY <1>1, <1>2, <2>3, <3>1 DEF IsGraph, SetNode, Created, Fits
  <2> QED
    BY <2>2, <2>3
<1>3. CASE e.op = "create_edge"
  <2>1. Effect(g, e) = CreateEdge(g, e)
    BY <1>3 DEF Effect
  <2>2. CASE {e.subject, e.object} \subseteq DOMAIN g.nodes
    <3>1. Effect(g, e) = AddEdge(g, e.ref, e.subject, e.object, NoId)
      BY <2>1, <2>2 DEF CreateEdge, HasNode
    <3> QED
      BY <1>1, <1>3, <2>2, <3>1 DEF IsGraph, AddEdge, Created, Fits, NewRelation
  <2>3. CASE ~ ({e.subject, e.object} \subseteq DOMAIN g.nodes)
    <3>1. Effect(g, e) = Quarantine(g, e.ref, e)
      BY <2>1, <2>3 DEF CreateEdge, HasNode
    <3> QED
      BY <1>1, <1>3, <2>3, <3>1 DEF IsGraph, Quarantine, Created, Fits
  <2> QED
    BY <2>2, <2>3
<1> QED
  BY <1>2, <1>3 DEF IsCreation

(* An event applied before does nothing.                                   *)
LEMMA AppliedBefore ==
    ASSUME NEW g, NEW e, e.key \in g.applied
    PROVE  ApplyEvent(g, e) = g
BY DEF ApplyEvent

(* The same creations, applied to graphs that are alike, of which neither  *)
(* or both have applied each of them.                                      *)
LEMMA ApplyAlike ==
    ASSUME NEW T, NEW events \in Seq(T), \A i \in 1 .. Len(events) : IsCreation(events[i]),
           NEW g, NEW h, Alike(g, h),
           \A i \in 1 .. Len(events) : events[i].key \in g.applied <=> events[i].key \in h.applied
    PROVE  Alike(Apply(g, events), Apply(h, events))
<1> DEFINE a(n) == After(g, events, n)
           b(n) == After(h, events, n)
           Good(n) ==
              /\ Alike(a(n), b(n))
              /\ \A i \in 1 .. Len(events) :
                    events[i].key \in a(n).applied <=> events[i].key \in b(n).applied
           Bad == {n \in 0 .. Len(events) : ~ Good(n)}
<1>1. /\ a(0) = g /\ b(0) = h
      /\ \A n \in 1 .. Len(events) : /\ a(n) = ApplyEvent(a(n - 1), events[n])
                                     /\ b(n) = ApplyEvent(b(n - 1), events[n])
      /\ a(Len(events)) = Apply(g, events) /\ b(Len(events)) = Apply(h, events)
  BY AppliedOneByOne
<1> HIDE DEF a, b
<1>2. Len(events) \in Nat
  OBVIOUS
<1>3. Bad = {}
  <2> SUFFICES ASSUME Bad # {} PROVE FALSE
    OBVIOUS
  <2>1. Bad \subseteq Nat
    BY <1>2
  <2> HIDE DEF Bad
  <2>2. PICK m \in Bad : \A k \in Bad : m <= k
    BY <2>1, LeastNatural
  <2>3. m \in 0 .. Len(events) /\ ~ Good(m)
    BY <2>2 DEF Bad
  <2>4. m # 0
    BY <1>1, <2>3
  <2>5. m - 1 \in 0 .. Len(events) /\ m - 1 \notin Bad /\ m \in 1 .. Len(events)
    BY <1>2, <2>2, <2>3, <2>4
  <2>6. Good(m - 1)
    BY <2>5 DEF Bad
  <2>7. a(m) = ApplyEvent(a(m - 1), events[m]) /\ b(m) = ApplyEvent(b(m - 1), events[m])
    BY <1>1, <2>5
  <2>8. CASE events[m].key \in a(m - 1).applied
    <3>1. a(m) = a(m - 1) /\ b(m) = b(m - 1)
      BY <2>5, <2>6, <2>7, <2>8, AppliedBefore
    <3> QED
      BY <2>3, <2>6, <3>1
  <2>9. CASE events[m].key \notin a(m - 1).applied
    <3>1. events[m].key \notin b(m - 1).applied /\ IsCreation(events[m])
      BY <2>5, <2>6, <2>9
    <3>2. Alike(a(m - 1), b(m - 1))
      BY <2>6
    <3>3. /\ Alike(a(m), b(m))
          /\ a(m).applied = a(m - 1).applied \cup {events[m].key}
          /\ b(m).applied = b(m - 1).applied \cup {events[m].key}
      <4>1. /\ Created(a(m - 1), events[m], a(m))
            /\ Created(b(m - 1), events[m], b(m))
        BY <2>7, <2>9, <3>1, <3>2, CreationEffect DEF Alike
      <4> QED
        BY <3>2, <4>1 DEF Alike, Created, Fits, NewRelation
    <3> QED
      BY <2>3, <2>6, <3>3
  <2> QED
    BY <2>8, <2>9
<1>4. Good(Len(events))
  BY <1>2, <1>3
<1> QED
  BY <1>1, <1>4

(* A graph of creations only: nodes as they were created, relations        *)
(* numbered in their order.                                                *)
IsPlain(g) ==
    /\ \A id \in DOMAIN g.nodes : g.nodes[id] = NewNode
    /\ IsFiniteSet(DOMAIN g.nodes)
    /\ g.edgeSeq = Len(g.edges)
    /\ \A i \in 1 .. Len(g.edges) :
          /\ g.edges[i].id = i /\ g.edges[i].ref = NoId
          /\ g.edges[i].from \in DOMAIN g.nodes /\ g.edges[i].to \in DOMAIN g.nodes

(* A creation leaves a graph of creations.                                 *)
LEMMA CreationLeavesPlain ==
    ASSUME NEW g, GraphIsTyped(g), IsPlain(g), NEW e \in Events, IsCreation(e)
    PROVE  IsPlain(ApplyEvent(g, e))
<1> SUFFICES ASSUME NEW h, h = ApplyEvent(g, e) PROVE IsPlain(h)
  OBVIOUS
<1>1. CASE e.key \in g.applied
  BY <1>1, AppliedBefore
<1>2. CASE e.key \notin g.applied
  <2>1. IsGraph(g) /\ g.edges \in Seq(EdgeRecords) /\ Len(g.edges) \in Nat /\ g.edgeSeq \in Nat
    BY DEF GraphIsTyped, IsGraph
  <2>2. Created(g, e, h)
    BY <1>2, <2>1, CreationEffect
  <2>3. /\ DOMAIN g.nodes \subseteq DOMAIN h.nodes
        /\ \A id \in DOMAIN h.nodes : h.nodes[id] = NewNode
        /\ IsFiniteSet(DOMAIN h.nodes)
    <3>1. IsFiniteSet(DOMAIN g.nodes \cup {e.subject})
      BY FS_AddElement DEF IsPlain
    <3> QED
      BY <2>2, <3>1 DEF IsPlain, Created
  <2>4. CASE ~ Fits(g, e)
    BY <2>2, <2>3, <2>4 DEF IsPlain, Created
  <2>5. CASE Fits(g, e)
    <3>1. PICK x : x = NewRelation(g, e)
      OBVIOUS
    <3>2. /\ x.id = g.edgeSeq + 1 /\ x.ref = NoId /\ x.from = e.subject /\ x.to = e.object
          /\ {e.subject, e.object} \subseteq DOMAIN g.nodes
      BY <2>5, <3>1 DEF NewRelation, Fits
    <3>3. x \in EdgeRecords
      <4>1. e.op = "create_edge"
        BY <2>5 DEF Fits
      <4>2. e.subject \in Ids /\ e.object \in Ids /\ e.ref \in RelationTypes
        BY <4>1, EventFields DEF RelationTypes
      <4>3. g.edgeSeq + 1 \in Nat
        BY <2>1
      <4> QED
        BY <3>1, <4>2, <4>3 DEF EdgeRecords, NewRelation
    <3>4. h.edges = Append(g.edges, x) /\ h.edgeSeq = g.edgeSeq + 1
      BY <2>2, <2>5, <3>1 DEF Created
    <3>5. /\ Len(h.edges) = Len(g.edges) + 1
          /\ \A i \in 1 .. Len(g.edges) : h.edges[i] = g.edges[i]
          /\ h.edges[Len(g.edges) + 1] = x
      BY <2>1, <3>3, <3>4, AppendProperties
    <3>6. \A i \in 1 .. Len(h.edges) : i \in 1 .. Len(g.edges) \/ i = Len(g.edges) + 1
      BY <2>1, <3>5
    <3>7. h.edgeSeq = Len(h.edges)
      BY <3>4, <3>5 DEF IsPlain
    <3>8. ASSUME NEW i \in 1 .. Len(h.edges)
          PROVE  /\ h.edges[i].id = i /\ h.edges[i].ref = NoId
                 /\ h.edges[i].from \in DOMAIN h.nodes /\ h.edges[i].to \in DOMAIN h.nodes
      <4>1. CASE i \in 1 .. Len(g.edges)
        BY <2>3, <3>5, <4>1 DEF IsPlain
      <4>2. CASE i = Len(g.edges) + 1
        BY <2>3, <3>2, <3>5, <4>2 DEF IsPlain
      <4> QED
        BY <3>6, <4>1, <4>2
    <3> QED
      BY <2>3, <3>7, <3>8 DEF IsPlain
  <2> QED
    BY <2>4, <2>5
<1> QED
  BY <1>1, <1>2

-------------------------------------------------------------------------------
(* A log of creations alone makes a plain graph.                           *)

(* The list of a finite set has each of its elements once.                 *)
LEMMA ListOfASet ==
    ASSUME NEW S, IsFiniteSet(S)
    PROVE  /\ SetToSeq(S) \in Seq(S) /\ Len(SetToSeq(S)) = Cardinality(S)
           /\ \A x \in S : \E i \in 1 .. Len(SetToSeq(S)) : SetToSeq(S)[i] = x
           /\ \A i, j \in 1 .. Len(SetToSeq(S)) : SetToSeq(S)[i] = SetToSeq(S)[j] => i = j
<1> DEFINE n == Cardinality(S)
           f == SetToSeq(S)
<1>1. n \in Nat /\ ExistsBijection(1 .. n, S)
  BY FS_CardinalityType
<1>2. \E h \in [1 .. n -> S] : IsInjective(h)
  BY <1>1 DEF ExistsBijection, Bijection, Injection
<1>3. f \in [1 .. n -> S] /\ IsInjective(f)
  BY <1>2 DEF SetToSeq
<1> HIDE DEF f
<1>4. f \in Injection(1 .. n, S)
  BY <1>3 DEF Injection
<1>5. Cardinality(1 .. n) = n
  BY <1>1, FS_Interval
<1>6. f \in Surjection(1 .. n, S)
  BY <1>4, <1>5, FS_Injection
<1>7. \A x \in S : \E i \in 1 .. n : f[i] = x
  BY <1>6 DEF Surjection
<1>8. f \in Seq(S) /\ Len(f) = n
  BY <1>1, <1>3
<1> QED
  BY <1>3, <1>7, <1>8 DEF IsInjective, f

(* Some of the first rows are in order too.                                *)
LEMMA FirstRows ==
    ASSUME NEW T, NEW rows \in Seq(T), NEW n \in 0 .. Len(rows)
    PROVE  /\ SubSeq(rows, 1, n) \in Seq(T) /\ Len(SubSeq(rows, 1, n)) = n
           /\ \A i \in 1 .. n : SubSeq(rows, 1, n)[i] = rows[i]
           /\ SubSeq(rows, 1, n) \in Seq({rows[i] : i \in 1 .. n})
           /\ IsOrdered(rows) => IsOrdered(SubSeq(rows, 1, n))
<1> DEFINE part == SubSeq(rows, 1, n)
<1>1. Len(rows) \in Nat /\ n \in Nat /\ n <= Len(rows)
  OBVIOUS
<1>2. part \in Seq(T) /\ Len(part) = n /\ \A i \in 1 .. n : part[i] = rows[i]
  BY <1>1
<1> HIDE DEF part
<1>3. part \in Seq({rows[i] : i \in 1 .. n})
  <2>1. PICK S : S = {rows[i] : i \in 1 .. n}
    OBVIOUS
  <2>2. part \in [1 .. n -> S]
    BY <1>2, <2>1
  <2>3. part \in Seq(S)
    BY <1>1, <2>2
  <2> QED
    BY <2>1, <2>3
<1>4. ASSUME IsOrdered(rows) PROVE IsOrdered(part)
  <2> SUFFICES ASSUME NEW k \in 1 .. Len(part), NeedsNodes(part[k]),
                      NEW id \in {part[k].subject, part[k].object}
               PROVE  \E l \in 1 .. k - 1 : part[l].op = "create_node" /\ part[l].subject = id
    BY DEF IsOrdered
  <2>1. k \in 1 .. n /\ part[k] = rows[k] /\ k \in 1 .. Len(rows)
    BY <1>1, <1>2
  <2>2. PICK l \in 1 .. k - 1 : rows[l].op = "create_node" /\ rows[l].subject = id
    BY <1>4, <2>1 DEF IsOrdered
  <2>3. part[l] = rows[l]
    BY <1>1, <1>2, <2>1
  <2> QED
    BY <2>2, <2>3
<1> QED
  BY <1>2, <1>3, <1>4 DEF part

(* What a log of creations makes.                                          *)
LEMMA CreationsMakePlain ==
    ASSUME NEW events, events \subseteq Events, KeysTellApart(events),
           NEW rows \in Seq(events), IsOrdered(rows),
           \A i \in 1 .. Len(rows) : IsCreation(rows[i])
    PROVE  IsPlain(Replay(rows)) /\ GraphIsTyped(Replay(rows))
<1> DEFINE a(n) == After(EmptyGraph, rows, n)
           Bad == {n \in 0 .. Len(rows) : ~ IsPlain(a(n))}
<1>1. /\ a(0) = EmptyGraph
      /\ \A n \in 1 .. Len(rows) : a(n) = ApplyEvent(a(n - 1), rows[n])
      /\ a(Len(rows)) = Replay(rows)
  BY AppliedOneByOne DEF Replay
<1>2. Len(rows) \in Nat
  OBVIOUS
<1>3. ASSUME NEW n \in 0 .. Len(rows) PROVE GraphIsTyped(a(n))
  <2>1. SubSeq(rows, 1, n) \in Seq(events) /\ IsOrdered(SubSeq(rows, 1, n))
    BY FirstRows
  <2>2. GraphFits(EmptyGraph, events)
    BY EmptyGraphFits
  <2>3. GraphFits(Apply(EmptyGraph, SubSeq(rows, 1, n)), events)
    BY <2>1, <2>2, ApplyFits
  <2> QED
    BY <2>3 DEF After, GraphFits
<1> HIDE DEF a
<1>4. Bad = {}
  <2> SUFFICES ASSUME Bad # {} PROVE FALSE
    OBVIOUS
  <2>1. Bad \subseteq Nat
    BY <1>2
  <2> HIDE DEF Bad
  <2>2. PICK m \in Bad : \A k \in Bad : m <= k
    BY <2>1, LeastNatural
  <2>3. m \in 0 .. Len(rows) /\ ~ IsPlain(a(m))
    BY <2>2 DEF Bad
  <2>4. m # 0
    <3>1. EmptyGraph.nodes = <<>> /\ EmptyGraph.edges = <<>> /\ EmptyGraph.edgeSeq = 0
      BY DEF EmptyGraph
    <3>2. DOMAIN <<>> = {} /\ Len(<<>>) = 0 /\ IsFiniteSet({})
      BY FS_EmptySet
    <3>3. IsPlain(EmptyGraph)
      BY <3>1, <3>2 DEF IsPlain
    <3> QED
      BY <1>1, <2>3, <3>3
  <2>5. m - 1 \in 0 .. Len(rows) /\ m - 1 \notin Bad /\ m \in 1 .. Len(rows)
    BY <1>2, <2>2, <2>3, <2>4
  <2>6. IsPlain(a(m - 1)) /\ GraphIsTyped(a(m - 1))
    BY <1>3, <2>5 DEF Bad
  <2>7. rows[m] \in Events /\ IsCreation(rows[m]) /\ a(m) = ApplyEvent(a(m - 1), rows[m])
    BY <1>1, <2>5
  <2> QED
    BY <2>3, <2>6, <2>7, CreationLeavesPlain
<1>5. IsPlain(a(Len(rows))) /\ GraphIsTyped(a(Len(rows)))
  BY <1>2, <1>3, <1>4
<1> QED
  BY <1>1, <1>5

-------------------------------------------------------------------------------
(* A graph turned back into events: nodes first, then relations.           *)

ExtractNode(id) == Event(<<"extract", id>>, "create_node", id, NoId, NoId)
ExtractEdge(x) == Event(<<"extract", x.id>>, "create_edge", x.from, x.to, x.type)

(* Creations of distinct nodes, applied to the empty graph.                *)
LEMMA ExtractedNodes ==
    ASSUME NEW S, NEW ids \in Seq(S),
           \A i, j \in 1 .. Len(ids) : ids[i] = ids[j] => i = j,
           \A x \in S : \E i \in 1 .. Len(ids) : ids[i] = x,
           NEW T, NEW events \in Seq(T), Len(events) = Len(ids),
           \A i \in 1 .. Len(ids) : events[i] = ExtractNode(ids[i]),
           NEW h, h = Apply(EmptyGraph, events)
    PROVE  /\ IsGraph(h) /\ h.edges = <<>> /\ h.edgeSeq = 0
           /\ h.nodes = [id \in S |-> NewNode]
           /\ h.applied = {<<"extract", id>> : id \in S}
<1> DEFINE first(n) == {ids[i] : i \in 1 .. n}
           keys(n) == {<<"extract", id>> : id \in first(n)}
           a(n) == After(EmptyGraph, events, n)
           Good(n) == /\ IsGraph(a(n)) /\ a(n).edges = <<>> /\ a(n).edgeSeq = 0
                      /\ a(n).nodes = [id \in first(n) |-> NewNode]
                      /\ a(n).applied = keys(n)
           Bad == {n \in 0 .. Len(ids) : ~ Good(n)}
<1>1. /\ Len(ids) \in Nat /\ DOMAIN ids = 1 .. Len(ids)
      /\ \A i \in 1 .. Len(ids) : ids[i] \in S
  OBVIOUS
<1>2. \A i \in 1 .. Len(ids) : events[i] = ExtractNode(ids[i])
  OBVIOUS
<1>3. /\ a(0) = EmptyGraph
      /\ \A n \in 1 .. Len(ids) : a(n) = ApplyEvent(a(n - 1), events[n])
      /\ a(Len(ids)) = h
  BY AppliedOneByOne
<1> HIDE DEF a
<1>4. Bad = {}
  <2> SUFFICES ASSUME Bad # {} PROVE FALSE
    OBVIOUS
  <2>1. Bad \subseteq Nat
    BY <1>1
  <2> HIDE DEF Bad
  <2>2. PICK m \in Bad : \A k \in Bad : m <= k
    BY <2>1, LeastNatural
  <2>3. m \in 0 .. Len(ids) /\ ~ Good(m)
    BY <2>2 DEF Bad
  <2>4. m # 0
    <3>1. first(0) = {}
      OBVIOUS
    <3>2. keys(0) = {}
      BY <3>1
    <3>3. [id \in first(0) |-> NewNode] = <<>>
      BY <3>1
    <3>4. /\ IsGraph(EmptyGraph) /\ EmptyGraph.edges = <<>> /\ EmptyGraph.edgeSeq = 0
          /\ EmptyGraph.nodes = <<>> /\ EmptyGraph.applied = {}
      BY DEF EmptyGraph, IsGraph
    <3> HIDE DEF first, keys
    <3>5. Good(0)
      BY <1>3, <3>2, <3>3, <3>4
    <3> QED
      BY <2>3, <3>5
  <2>5. m - 1 \in 0 .. Len(ids) /\ m - 1 \notin Bad /\ m \in 1 .. Len(ids)
    BY <1>1, <2>2, <2>3, <2>4
  <2>6. Good(m - 1)
    BY <2>5 DEF Bad
  <2>7. a(m) = ApplyEvent(a(m - 1), events[m]) /\ events[m] = ExtractNode(ids[m])
    BY <1>2, <1>3, <2>5
  <2>8. /\ events[m].key = <<"extract", ids[m]>> /\ events[m].op = "create_node"
        /\ events[m].subject = ids[m] /\ IsCreation(events[m])
    <3>1. PICK e : e = ExtractNode(ids[m])
      OBVIOUS
    <3>2. e.key = <<"extract", ids[m]>> /\ e.op = "create_node" /\ e.subject = ids[m]
      BY <3>1 DEF ExtractNode, Event
    <3> QED
      BY <2>7, <3>1, <3>2 DEF IsCreation
  <2>9. /\ ids[m] \notin first(m - 1) /\ first(m) = first(m - 1) \cup {ids[m]}
        /\ keys(m) = keys(m - 1) \cup {<<"extract", ids[m]>>}
        /\ <<"extract", ids[m]>> \notin keys(m - 1)
    <3>1. ids[m] \notin first(m - 1) /\ first(m) = first(m - 1) \cup {ids[m]}
      BY <1>1, <2>5
    <3> HIDE DEF first
    <3>2. keys(m) = keys(m - 1) \cup {<<"extract", ids[m]>>}
      BY <3>1
    <3>3. <<"extract", ids[m]>> \notin keys(m - 1)
      BY <3>1
    <3> QED
      BY <3>1, <3>2, <3>3
  <2> HIDE DEF first, keys
  <2>10. events[m].key \notin a(m - 1).applied
    BY <2>6, <2>8, <2>9
  <2>11. Created(a(m - 1), events[m], a(m))
    BY <2>6, <2>7, <2>8, <2>10, CreationEffect
  <2>12. /\ IsGraph(a(m)) /\ a(m).edges = <<>> /\ a(m).edgeSeq = 0
         /\ a(m).applied = keys(m)
    BY <2>6, <2>8, <2>9, <2>11 DEF Created, Fits
  <2>13. a(m).nodes = [id \in first(m) |-> NewNode]
    <3>1. a(m - 1).nodes = [id \in first(m - 1) |-> NewNode]
      BY <2>6
    <3>2. DOMAIN a(m - 1).nodes = first(m - 1)
      BY <3>1
    <3>3. a(m).nodes = [i \in first(m - 1) \cup {ids[m]} |->
                          IF i = ids[m] THEN NewNode ELSE a(m - 1).nodes[i]]
      BY <2>8, <2>9, <2>11, <3>2 DEF Created
    <3> QED
      BY <2>9, <3>1, <3>3
  <2> QED
    BY <2>3, <2>12, <2>13
<1>5. Good(Len(ids))
  BY <1>1, <1>4
<1>6. first(Len(ids)) = S
  BY <1>1
<1> QED
  BY <1>3, <1>5, <1>6

(* Relations between nodes that are there, not extracted yet.              *)
MayBeExtracted(edges, g) ==
    \A i \in 1 .. Len(edges) :
       /\ edges[i].id = i /\ edges[i].ref = NoId
       /\ {edges[i].from, edges[i].to} \subseteq DOMAIN g.nodes
       /\ <<"extract", i>> \notin g.applied

(* The events of relations.                                                *)
ExtractRelations(events, edges) ==
    /\ Len(events) = Len(edges)
    /\ \A i \in 1 .. Len(edges) : events[i] = ExtractEdge(edges[i])

(* Creations of relations between nodes that are there.                    *)
LEMMA ExtractedRelations ==
    ASSUME NEW edges \in Seq(EdgeRecords),
           NEW g, IsGraph(g), g.edges = <<>>, g.edgeSeq = 0, MayBeExtracted(edges, g),
           NEW T, NEW events \in Seq(T), ExtractRelations(events, edges),
           NEW h, h = Apply(g, events)
    PROVE  /\ IsGraph(h) /\ h.edges = edges /\ h.edgeSeq = Len(edges)
           /\ h.nodes = g.nodes
           /\ h.applied \subseteq g.applied \cup {<<"extract", i>> : i \in Nat}
<1> DEFINE keys(n) == {<<"extract", i>> : i \in 1 .. n}
           a(n) == After(g, events, n)
           Good(n) == /\ IsGraph(a(n)) /\ a(n).edges = SubSeq(edges, 1, n) /\ a(n).edgeSeq = n
                      /\ a(n).nodes = g.nodes /\ a(n).applied = g.applied \cup keys(n)
           Bad == {n \in 0 .. Len(edges) : ~ Good(n)}
<1>1. /\ Len(edges) \in Nat /\ DOMAIN edges = 1 .. Len(edges)
      /\ \A i \in 1 .. Len(edges) : edges[i] \in EdgeRecords
  OBVIOUS
<1>2. \A i \in 1 .. Len(edges) :
        /\ events[i] = ExtractEdge(edges[i])
        /\ edges[i].id = i /\ edges[i].ref = NoId
        /\ {edges[i].from, edges[i].to} \subseteq DOMAIN g.nodes
        /\ <<"extract", i>> \notin g.applied
  BY DEF MayBeExtracted, ExtractRelations
<1>3. /\ a(0) = g
      /\ \A n \in 1 .. Len(edges) : a(n) = ApplyEvent(a(n - 1), events[n])
      /\ a(Len(edges)) = h
  <2>1. Len(events) = Len(edges)
    BY DEF ExtractRelations
  <2> QED
    BY <2>1, AppliedOneByOne
<1> HIDE DEF a
<1>4. Bad = {}
  <2> SUFFICES ASSUME Bad # {} PROVE FALSE
    OBVIOUS
  <2>1. Bad \subseteq Nat
    BY <1>1
  <2> HIDE DEF Bad
  <2>2. PICK m \in Bad : \A k \in Bad : m <= k
    BY <2>1, LeastNatural
  <2>3. m \in 0 .. Len(edges) /\ ~ Good(m)
    BY <2>2 DEF Bad
  <2>4. m # 0
    <3>1. SubSeq(edges, 1, 0) = <<>> /\ keys(0) = {}
      OBVIOUS
    <3> HIDE DEF keys
    <3>2. Good(0)
      BY <1>3, <3>1
    <3> QED
      BY <2>3, <3>2
  <2>5. m - 1 \in 0 .. Len(edges) /\ m - 1 \notin Bad /\ m \in 1 .. Len(edges)
    BY <1>1, <2>2, <2>3, <2>4
  <2>6. Good(m - 1)
    BY <2>5 DEF Bad
  <2>7. a(m) = ApplyEvent(a(m - 1), events[m]) /\ events[m] = ExtractEdge(edges[m])
    BY <1>2, <1>3, <2>5
  <2>8. /\ events[m].key = <<"extract", m>> /\ events[m].op = "create_edge"
        /\ events[m].subject = edges[m].from /\ events[m].object = edges[m].to
        /\ events[m].ref = edges[m].type /\ IsCreation(events[m])
    <3>1. PICK e : e = ExtractEdge(edges[m])
      OBVIOUS
    <3>2. /\ e.key = <<"extract", edges[m].id>> /\ e.op = "create_edge"
          /\ e.subject = edges[m].from /\ e.object = edges[m].to /\ e.ref = edges[m].type
      BY <3>1 DEF ExtractEdge, Event
    <3>3. edges[m].id = m
      BY <1>2, <2>5
    <3> QED
      BY <2>7, <3>1, <3>2, <3>3 DEF IsCreation
  <2>9. events[m].key \notin a(m - 1).applied
    <3>1. <<"extract", m>> \notin g.applied
      BY <1>2, <2>5
    <3>2. <<"extract", m>> \notin keys(m - 1)
      BY <2>5
    <3> HIDE DEF keys
    <3> QED
      BY <2>6, <2>8, <3>1, <3>2
  <2>10. Created(a(m - 1), events[m], a(m))
    BY <2>6, <2>7, <2>8, <2>9, CreationEffect
  <2>11. NewRelation(a(m - 1), events[m]) = edges[m]
    <3>1. edges[m] = [id |-> edges[m].id, type |-> edges[m].type, from |-> edges[m].from,
                      to |-> edges[m].to, ref |-> edges[m].ref]
      BY <1>1, <2>5 DEF EdgeRecords
    <3>2. edges[m].id = m /\ edges[m].ref = NoId
      BY <1>2, <2>5
    <3>3. a(m - 1).edgeSeq + 1 = m
      <4>1. a(m - 1).edgeSeq = m - 1
        BY <2>6
      <4> QED
        BY <1>1, <2>5, <4>1
    <3> QED
      BY <2>8, <3>1, <3>2, <3>3 DEF NewRelation
  <2>12. Fits(a(m - 1), events[m])
    <3>1. {edges[m].from, edges[m].to} \subseteq DOMAIN g.nodes
      BY <1>2, <2>5
    <3>2. a(m - 1).nodes = g.nodes
      BY <2>6
    <3> QED
      BY <2>8, <3>1, <3>2 DEF Fits
  <2>13. a(m).edges = Append(SubSeq(edges, 1, m - 1), edges[m])
    BY <2>6, <2>10, <2>11, <2>12 DEF Created
  <2>14. Append(SubSeq(edges, 1, m - 1), edges[m]) = SubSeq(edges, 1, m)
    <3> DEFINE p == SubSeq(edges, 1, m - 1)
               b == Append(p, edges[m])
    <3>1. p \in Seq(EdgeRecords) /\ Len(p) = m - 1 /\ \A i \in 1 .. m - 1 : p[i] = edges[i]
      BY <1>1, <2>5
    <3>2. /\ b \in Seq(EdgeRecords) /\ Len(b) = Len(p) + 1 /\ b[Len(p) + 1] = edges[m]
          /\ \A i \in 1 .. Len(p) : b[i] = p[i]
      BY <1>1, <2>5, <3>1, AppendProperties
    <3>3. /\ SubSeq(edges, 1, m) \in Seq(EdgeRecords) /\ Len(SubSeq(edges, 1, m)) = m
          /\ \A i \in 1 .. m : SubSeq(edges, 1, m)[i] = edges[i]
      BY <1>1, <2>5
    <3> HIDE DEF b, p
    <3>4. Len(b) = m /\ \A i \in 1 .. m : b[i] = edges[i]
      BY <2>5, <3>1, <3>2
    <3>5. b = SubSeq(edges, 1, m)
      BY <3>2, <3>3, <3>4, SeqEqual
    <3> QED
      BY <3>5 DEF b, p
  <2>15. /\ IsGraph(a(m)) /\ a(m).edgeSeq = m /\ a(m).nodes = g.nodes
    BY <2>5, <2>6, <2>8, <2>10, <2>12 DEF Created
  <2>16. a(m).applied = g.applied \cup keys(m)
    <3>1. keys(m) = keys(m - 1) \cup {<<"extract", m>>}
      BY <2>5
    <3> HIDE DEF keys
    <3> QED
      BY <2>6, <2>8, <2>10, <3>1 DEF Created
  <2> QED
    BY <2>3, <2>13, <2>14, <2>15, <2>16
<1>5. Good(Len(edges))
  BY <1>1, <1>4
<1>6. SubSeq(edges, 1, Len(edges)) = edges
  OBVIOUS
<1>7. {<<"extract", i>> : i \in 1 .. Len(edges)} \subseteq {<<"extract", i>> : i \in Nat}
  OBVIOUS
<1> QED
  BY <1>3, <1>5, <1>6, <1>7

-------------------------------------------------------------------------------
(* A log of creations cut anywhere.                                        *)

(* The events a graph of creations is turned into make that graph again.   *)
LEMMA ExtractedAgain ==
    ASSUME NEW g, GraphIsTyped(g), IsPlain(g),
           NEW h, h = Apply(EmptyGraph, ExtractEvents(g))
    PROVE  /\ Alike(g, h)
           /\ \A key \in h.applied : key[1] = "extract"
<1> DEFINE nodes == DOMAIN g.nodes
           ids == SetToSeq(nodes)
           first == [i \in DOMAIN ids |-> ExtractNode(ids[i])]
           second == [i \in DOMAIN g.edges |-> ExtractEdge(g.edges[i])]
           T == {ExtractNode(id) : id \in nodes} \cup {ExtractEdge(x) : x \in EdgeRecords}
<1>1. /\ g.edges \in Seq(EdgeRecords) /\ Len(g.edges) \in Nat /\ DOMAIN g.edges = 1 .. Len(g.edges)
      /\ g.nodes = [id \in nodes |-> NewNode]
      /\ IsFiniteSet(nodes) /\ nodes \subseteq Ids
      /\ g.edgeSeq = Len(g.edges)
  <2>1. g.edges \in Seq(EdgeRecords) /\ Len(g.edges) \in Nat /\ DOMAIN g.edges = 1 .. Len(g.edges)
    BY DEF GraphIsTyped
  <2>2. g.nodes = [id \in nodes |-> NewNode]
    BY DEF GraphIsTyped, IsPlain
  <2> QED
    BY <2>1, <2>2 DEF GraphIsTyped, IsPlain
<1>2. {id \in nodes : ~ g.nodes[id].deleted} = nodes
  BY DEF IsPlain, NewNode
<1>3. ExtractEvents(g) = first \o second
  BY <1>2 DEF ExtractEvents, ExtractNode, ExtractEdge
<1>4. /\ ids \in Seq(nodes) /\ DOMAIN ids = 1 .. Len(ids) /\ Len(ids) \in Nat
      /\ \A x \in nodes : \E i \in 1 .. Len(ids) : ids[i] = x
      /\ \A i, j \in 1 .. Len(ids) : ids[i] = ids[j] => i = j
  <2> HIDE DEF nodes
  <2>1. /\ ids \in Seq(nodes)
        /\ \A x \in nodes : \E i \in 1 .. Len(ids) : ids[i] = x
        /\ \A i, j \in 1 .. Len(ids) : ids[i] = ids[j] => i = j
    BY <1>1, ListOfASet
  <2> HIDE DEF ids
  <2> QED
    BY <2>1
<1> HIDE DEF ids, nodes
<1>5. /\ first \in Seq(T) /\ Len(first) = Len(ids)
      /\ \A i \in 1 .. Len(ids) : first[i] = ExtractNode(ids[i])
  <2>1. \A i \in 1 .. Len(ids) : ExtractNode(ids[i]) \in T
    BY <1>4
  <2>2. first \in [1 .. Len(ids) -> T]
    <3> HIDE DEF T
    <3> QED
      BY <1>4, <2>1
  <2> HIDE DEF T
  <2>3. \A i \in 1 .. Len(ids) : first[i] = ExtractNode(ids[i])
    BY <1>4
  <2> HIDE DEF first
  <2> QED
    BY <1>4, <2>2, <2>3
<1>6. /\ second \in Seq(T) /\ Len(second) = Len(g.edges)
      /\ \A i \in 1 .. Len(g.edges) : second[i] = ExtractEdge(g.edges[i])
  <2>1. \A i \in 1 .. Len(g.edges) : ExtractEdge(g.edges[i]) \in T
    BY <1>1
  <2>2. second \in [1 .. Len(g.edges) -> T]
    <3> HIDE DEF T
    <3> QED
      BY <1>1, <2>1
  <2> HIDE DEF T
  <2>3. \A i \in 1 .. Len(g.edges) : second[i] = ExtractEdge(g.edges[i])
    BY <1>1
  <2> HIDE DEF second
  <2> QED
    BY <1>1, <2>2, <2>3
<1> HIDE DEF first, second, T
<1>7. PICK m : m = Apply(EmptyGraph, first)
  OBVIOUS
<1>8. h = Apply(m, second)
  <2>1. Apply(EmptyGraph, first \o second) = Apply(Apply(EmptyGraph, first), second)
    BY <1>5, <1>6, ApplyConcat
  <2> QED
    BY <1>3, <1>7, <2>1
<1>9. /\ IsGraph(m) /\ m.edges = <<>> /\ m.edgeSeq = 0
      /\ m.nodes = [id \in nodes |-> NewNode]
      /\ m.applied = {<<"extract", id>> : id \in nodes}
  <2>1. /\ ids \in Seq(nodes)
        /\ \A i, j \in 1 .. Len(ids) : ids[i] = ids[j] => i = j
        /\ \A x \in nodes : \E i \in 1 .. Len(ids) : ids[i] = x
    BY <1>4
  <2>2. /\ first \in Seq(T) /\ Len(first) = Len(ids)
        /\ \A i \in 1 .. Len(ids) : first[i] = ExtractNode(ids[i])
    BY <1>5
  <2>3. /\ IsGraph(m) /\ m.edges = <<>> /\ m.edgeSeq = 0
        /\ m.nodes = [id \in nodes |-> NewNode]
        /\ m.applied = {<<"extract", id>> : id \in nodes}
    BY <1>7, <2>1, <2>2, ExtractedNodes, SMTT(60)
  <2> QED
    BY <2>3
<1>10. \A i \in 1 .. Len(g.edges) :
          /\ g.edges[i].id = i /\ g.edges[i].ref = NoId
          /\ {g.edges[i].from, g.edges[i].to} \subseteq DOMAIN m.nodes
          /\ <<"extract", i>> \notin m.applied
  <2>1. DOMAIN m.nodes = nodes
    BY <1>9
  <2>2. \A i \in 1 .. Len(g.edges) : <<"extract", i>> \notin m.applied
    <3>1. nodes \cap Nat = {}
      BY <1>1, LedgerAssumption DEF LedgerAssumption
    <3> QED
      BY <1>1, <1>9, <3>1
  <2> QED
    BY <2>1, <2>2 DEF IsPlain, nodes
<1>11. /\ IsGraph(h) /\ h.edges = g.edges /\ h.edgeSeq = Len(g.edges) /\ h.nodes = m.nodes
       /\ h.applied \subseteq m.applied \cup {<<"extract", i>> : i \in Nat}
  <2>1. PICK edges \in Seq(EdgeRecords) : edges = g.edges
    BY <1>1
  <2>2. MayBeExtracted(edges, m)
    BY <1>10, <2>1 DEF MayBeExtracted
  <2>3. second \in Seq(T) /\ ExtractRelations(second, edges)
    BY <1>6, <2>1 DEF ExtractRelations
  <2>4. IsGraph(m) /\ m.edges = <<>> /\ m.edgeSeq = 0
    BY <1>9
  <2> QED
    BY <1>8, <2>1, <2>2, <2>3, <2>4, ExtractedRelations
<1>12. Alike(g, h)
  BY <1>1, <1>9, <1>11 DEF Alike, GraphIsTyped, IsGraph
<1>13. ASSUME NEW key \in h.applied PROVE key[1] = "extract"
  BY <1>9, <1>11
<1> QED
  BY <1>12, <1>13

(* A log of pipeline events can be cut anywhere.                           *)
LEMMA CutAnywhere ==
    ASSUME NEW events, events \subseteq Events, KeysTellApart(events),
           NEW rows \in Seq(events), IsOrdered(rows),
           \A i, j \in 1 .. Len(rows) : rows[i].key = rows[j].key => i = j,
           \A i \in 1 .. Len(rows) : IsCreation(rows[i]),
           NEW n \in 0 .. Len(rows)
    PROVE  Alike(Replay(rows),
                 ApplyIncremental(Replay(SubSeq(rows, 1, n)), SubSeq(rows, n + 1, Len(rows))))
<1> DEFINE first == SubSeq(rows, 1, n)
           rest == SubSeq(rows, n + 1, Len(rows))
<1>1. Len(rows) \in Nat /\ n \in Nat /\ n <= Len(rows)
  OBVIOUS
<1>2. /\ first \in Seq(events) /\ Len(first) = n /\ IsOrdered(first)
      /\ \A i \in 1 .. n : first[i] = rows[i]
      /\ first \in Seq({rows[i] : i \in 1 .. n})
  BY FirstRows
<1>3. /\ rest \in Seq(events) /\ Len(rest) = Len(rows) - n
      /\ \A i \in 1 .. Len(rest) : rest[i] = rows[n + i]
  BY <1>1
<1>4. first \o rest = rows
  <2> HIDE DEF first, rest
  <2>1. /\ first \o rest \in Seq(events) /\ Len(first \o rest) = Len(rows)
        /\ \A i \in 1 .. Len(rows) :
              (first \o rest)[i] = IF i <= n THEN first[i] ELSE rest[i - n]
    BY <1>1, <1>2, <1>3
  <2>2. ASSUME NEW i \in 1 .. Len(rows) PROVE (first \o rest)[i] = rows[i]
    <3>1. CASE i <= n
      BY <1>1, <1>2, <2>1, <3>1
    <3>2. CASE ~ (i <= n)
      <4>1. i - n \in 1 .. Len(rest) /\ n + (i - n) = i
        BY <1>1, <1>3, <3>2
      <4> QED
        BY <1>3, <2>1, <3>2, <4>1
    <3> QED
      BY <3>1, <3>2
  <2> QED
    BY <2>1, <2>2, SeqEqual
<1> HIDE DEF first, rest
<1>5. PICK g : g = Replay(first)
  OBVIOUS
<1>6. PICK h : h = Apply(EmptyGraph, ExtractEvents(g))
  OBVIOUS
<1>7. IsPlain(g) /\ GraphIsTyped(g)
  <2>1. \A i \in 1 .. Len(first) : IsCreation(first[i])
    BY <1>1, <1>2
  <2> QED
    BY <1>2, <1>5, <2>1, CreationsMakePlain
<1>8. Alike(g, h) /\ \A key \in h.applied : key[1] = "extract"
  BY <1>6, <1>7, ExtractedAgain
<1>9. g.applied \subseteq {rows[i].key : i \in 1 .. n}
  <2>1. PICK S : S = {rows[i] : i \in 1 .. n}
    OBVIOUS
  <2>2. S \subseteq Events /\ KeysTellApart(S) /\ first \in Seq(S)
    <3>1. \A i \in 1 .. n : rows[i] \in events
      BY <1>1
    <3>2. S \subseteq events
      BY <2>1, <3>1
    <3> QED
      BY <1>2, <2>1, <3>2 DEF KeysTellApart
  <2>3. GraphFits(g, S)
    <3>1. GraphFits(EmptyGraph, S)
      BY <2>2, EmptyGraphFits
    <3> QED
      BY <1>2, <1>5, <2>2, <3>1, ApplyFits DEF Replay
  <2> QED
    BY <2>1, <2>3 DEF GraphFits, NodesFit, KeysOf
<1>10. \A i \in 1 .. Len(rest) :
          /\ IsCreation(rest[i]) /\ rest[i].key \notin g.applied /\ rest[i].key \notin h.applied
  <2> SUFFICES ASSUME NEW i \in 1 .. Len(rest)
               PROVE  /\ IsCreation(rest[i]) /\ rest[i].key \notin g.applied
                      /\ rest[i].key \notin h.applied
    OBVIOUS
  <2>1. rest[i] = rows[n + i] /\ n + i \in 1 .. Len(rows) /\ n + i \notin 1 .. n
    BY <1>1, <1>3
  <2>2. rows[n + i] \in Events
    BY <2>1
  <2>3. rows[n + i].key[1] # "extract"
    <3>1. PICK e \in Events : e = rows[n + i]
      BY <2>2
    <3>2. IsCreation(e)
      BY <2>1, <3>1
    <3>3. CASE e.op = "create_edge"
      <4>1. e.key = <<"create_edge", e.ref>>
        BY <3>3, EventFields
      <4> QED
        BY <3>1, <4>1
    <3>4. CASE e.op = "create_node"
      <4>1. e \in NodeEvents
        BY <3>4, EventFields
      <4>2. PICK kind \in {"create_node", "create_entity"}, id \in Ids :
              e = [key |-> <<kind, id>>, op |-> "create_node", subject |-> id, object |-> NoId, ref |-> NoId]
        BY <4>1 DEF NodeEvents, Node, Event
      <4>3. e.key = <<kind, id>>
        BY <4>2
      <4> QED
        BY <3>1, <4>3
    <3> QED
      BY <3>2, <3>3, <3>4 DEF IsCreation
  <2>4. \A j \in 1 .. n : j \in 1 .. Len(rows)
    BY <1>1
  <2> QED
    BY <1>8, <1>9, <2>1, <2>3, <2>4
<1>11. Alike(Apply(g, rest), Apply(h, rest))
  <2>1. \A i \in 1 .. Len(rest) : IsCreation(rest[i])
    BY <1>10
  <2>2. \A i \in 1 .. Len(rest) : rest[i].key \in g.applied <=> rest[i].key \in h.applied
    BY <1>10
  <2> QED
    BY <1>3, <1>8, <2>1, <2>2, ApplyAlike
<1>12. Replay(rows) = Apply(g, rest)
  <2>1. Apply(EmptyGraph, first \o rest) = Apply(Apply(EmptyGraph, first), rest)
    BY <1>2, <1>3, ApplyConcat
  <2> QED
    BY <1>4, <1>5, <2>1 DEF Replay
<1>13. ApplyIncremental(g, rest) = Apply(h, rest)
  BY <1>6 DEF ApplyIncremental
<1> QED
  BY <1>5, <1>11, <1>12, <1>13 DEF first, rest

-------------------------------------------------------------------------------
(* What is picked from a list, and its places.                             *)

(* What is picked from a list keeps its order: the k-th of them is the     *)
(* element at place at[k].                                                 *)
PicksAt(s, S, n, picked, at) ==
    /\ Len(picked) \in Nat /\ picked \in Seq({s[i] : i \in 1 .. n})
    /\ at \in [1 .. Len(picked) -> 1 .. n]
    /\ \A k \in 1 .. Len(picked) : picked[k] = s[at[k]] /\ s[at[k]] \in S
    /\ \A k, l \in 1 .. Len(picked) : k < l => at[k] < at[l]
    /\ \A i \in 1 .. n : s[i] \in S => \E k \in 1 .. Len(picked) : at[k] = i

(* The next element is picked, or left out.                                *)
LEMMA PickingGoesOn ==
    ASSUME NEW s, NEW S, NEW m \in Nat, m # 0, NEW picked, NEW at,
           PicksAt(s, S, m - 1, picked, at),
           NEW now, now = IF s[m] \in S THEN Append(picked, s[m]) ELSE picked
    PROVE  \E b : PicksAt(s, S, m, now, b)
<1> DEFINE T == {s[i] : i \in 1 .. m}
<1>1. picked \in Seq(T) /\ Len(picked) \in Nat /\ s[m] \in T
  <2>1. PICK U : U = {s[i] : i \in 1 .. m - 1}
    OBVIOUS
  <2>2. picked \in Seq(U) /\ Len(picked) \in Nat
    BY <2>1 DEF PicksAt
  <2>3. U \subseteq T /\ s[m] \in T
    BY <2>1
  <2> HIDE DEF T
  <2> QED
    BY <2>2, <2>3
<1>2. CASE s[m] \notin S
  <2>1. now = picked
    BY <1>2
  <2>2. at \in [1 .. Len(picked) -> 1 .. m]
    <3>1. at \in [1 .. Len(picked) -> 1 .. m - 1]
      BY DEF PicksAt
    <3> QED
      BY <3>1
  <2>3. ASSUME NEW i \in 1 .. m, s[i] \in S PROVE \E k \in 1 .. Len(picked) : at[k] = i
    <3>1. i \in 1 .. m - 1
      BY <1>2, <2>3
    <3> QED
      BY <2>3, <3>1 DEF PicksAt
  <2>4. PicksAt(s, S, m, picked, at)
    BY <1>1, <2>2, <2>3 DEF PicksAt
  <2> QED
    BY <2>1, <2>4
<1>3. CASE s[m] \in S
  <2> DEFINE last == Len(picked) + 1
             b == [k \in 1 .. last |-> IF k = last THEN m ELSE at[k]]
  <2>1. /\ now \in Seq(T) /\ Len(now) = last
        /\ \A k \in 1 .. Len(picked) : now[k] = picked[k]
        /\ now[last] = s[m]
    <3> HIDE DEF T
    <3> QED
      BY <1>1, <1>3, AppendProperties
  <2>2. at \in [1 .. Len(picked) -> 1 .. m - 1]
    BY DEF PicksAt
  <2>3. b \in [1 .. last -> 1 .. m]
    BY <1>1, <2>2
  <2>4. b[last] = m /\ \A k \in 1 .. Len(picked) : b[k] = at[k] /\ k # last /\ at[k] \in 1 .. m - 1
    BY <1>1, <2>2
  <2>5. \A k \in 1 .. last : k \in 1 .. Len(picked) \/ k = last
    BY <1>1
  <2> HIDE DEF b
  <2>6. ASSUME NEW k \in 1 .. last PROVE now[k] = s[b[k]] /\ s[b[k]] \in S
    <3>1. CASE k = last
      BY <1>3, <2>1, <2>4, <3>1
    <3>2. CASE k \in 1 .. Len(picked)
      BY <2>1, <2>4, <3>2 DEF PicksAt
    <3> QED
      BY <2>5, <3>1, <3>2
  <2>7. ASSUME NEW k \in 1 .. last, NEW l \in 1 .. last, k < l PROVE b[k] < b[l]
    <3>1. k \in 1 .. Len(picked)
      BY <1>1, <2>7
    <3>2. CASE l = last
      BY <2>4, <3>1, <3>2
    <3>3. CASE l \in 1 .. Len(picked)
      BY <2>4, <2>7, <3>1, <3>3 DEF PicksAt
    <3> QED
      BY <2>5, <3>2, <3>3
  <2>8. ASSUME NEW i \in 1 .. m, s[i] \in S PROVE \E k \in 1 .. last : b[k] = i
    <3>1. CASE i = m
      BY <1>1, <2>4, <3>1
    <3>2. CASE i # m
      <4>1. i \in 1 .. m - 1
        BY <3>2
      <4>2. PICK k \in 1 .. Len(picked) : at[k] = i
        BY <2>8, <4>1 DEF PicksAt
      <4> QED
        <5>1. k \in 1 .. last /\ k # last
          BY <1>1
        <5>2. b[k] = at[k]
          BY <2>4, <5>1
        <5> QED
          BY <4>2, <5>1, <5>2
    <3> QED
      BY <3>1, <3>2
  <2>9. PicksAt(s, S, m, now, b)
    BY <1>1, <2>1, <2>3, <2>6, <2>7, <2>8, SMTT(60) DEF PicksAt
  <2> QED
    BY <2>9
<1> QED
  BY <1>2, <1>3

(* So it goes on to the last.                                              *)
LEMMA PickingKeepsOrder ==
    ASSUME NEW s, NEW S, NEW n \in Nat, NEW f, Picking(s, S, n, f)
    PROVE  \E at : PicksAt(s, S, n, f[n], at)
<1> DEFINE Bad == {m \in 0 .. n : ~ \E at : PicksAt(s, S, m, f[m], at)}
<1>1. SUFFICES ASSUME Bad # {} PROVE FALSE
  OBVIOUS
<1>2. Bad \subseteq Nat
  OBVIOUS
<1> HIDE DEF Bad
<1>3. PICK m \in Bad : \A k \in Bad : m <= k
  BY <1>1, <1>2, LeastNatural
<1>4. m \in 0 .. n /\ ~ \E at : PicksAt(s, S, m, f[m], at)
  BY <1>3 DEF Bad
<1>5. m # 0
  <2>1. f[0] = <<>>
    BY DEF Picking
  <2>2. PicksAt(s, S, 0, <<>>, <<>>)
    BY DEF PicksAt
  <2> QED
    BY <1>4, <2>1, <2>2
<1>6. m - 1 \in 0 .. n /\ m - 1 \notin Bad /\ m \in Nat
  BY <1>3, <1>4, <1>5
<1>7. PICK at : PicksAt(s, S, m - 1, f[m - 1], at)
  BY <1>6 DEF Bad
<1>8. f[m] = IF s[m] \in S THEN Append(f[m - 1], s[m]) ELSE f[m - 1]
  BY <1>4, <1>5 DEF Picking
<1> QED
  BY <1>4, <1>5, <1>6, <1>7, <1>8, PickingGoesOn

(* What is picked from a list.                                             *)
LEMMA PickedInOrder ==
    ASSUME NEW T, NEW s \in Seq(T), NEW S
    PROVE  \E at : PicksAt(s, S, Len(s), Picked(s, S), at)
<1> DEFINE f == CHOOSE g : Picking(s, S, Len(s), g)
<1>1. Len(s) \in Nat
  OBVIOUS
<1>2. Picking(s, S, Len(s), f)
  BY <1>1, PickingIsDefined
<1>3. Picked(s, S) = f[Len(s)]
  BY DEF Picked, Picking
<1> HIDE DEF f
<1> QED
  BY <1>1, <1>2, <1>3, PickingKeepsOrder

(* What is read of the log.                                                *)
LEMMA VisibleInOrder ==
    ASSUME NEW rows \in Seq(Rows)
    PROVE  \E at : PicksAt(rows, {row \in Rows : row.done}, Len(rows), VisibleOf(rows), at)
<1> DEFINE f == CHOOSE g : Reading(rows, Len(rows), g)
           D == {row \in Rows : row.done}
<1>1. Len(rows) \in Nat /\ \A k \in 1 .. Len(rows) : rows[k].done <=> rows[k] \in D
  OBVIOUS
<1>2. Reading(rows, Len(rows), f)
  BY <1>1, ReadingIsDefined
<1>3. VisibleOf(rows) = f[Len(rows)]
  BY DEF VisibleOf, Reading
<1> HIDE DEF f, D
<1>4. Picking(rows, D, Len(rows), f)
  <2>1. /\ f = [k \in 0 .. Len(rows) |-> f[k]]
        /\ \A k \in 0 .. Len(rows) :
              f[k] = IF k = 0 THEN <<>>
                     ELSE IF rows[k].done THEN Append(f[k - 1], rows[k]) ELSE f[k - 1]
    BY <1>2 DEF Reading
  <2>2. ASSUME NEW k \in 0 .. Len(rows)
        PROVE  f[k] = IF k = 0 THEN <<>>
                      ELSE IF rows[k] \in D THEN Append(f[k - 1], rows[k]) ELSE f[k - 1]
    <3>1. f[k] = IF k = 0 THEN <<>>
                 ELSE IF rows[k].done THEN Append(f[k - 1], rows[k]) ELSE f[k - 1]
      BY <2>1
    <3>2. k # 0 => (rows[k].done <=> rows[k] \in D)
      BY <1>1
    <3> QED
      BY <3>1, <3>2
  <2> QED
    BY <2>1, <2>2 DEF Picking
<1> QED
  BY <1>1, <1>3, <1>4, PickingKeepsOrder DEF D

-------------------------------------------------------------------------------
(* The incremental rebuild.                                                *)

(* Rows are read once each: no key comes twice.                            *)
LEMMA SeenOnce ==
    ASSUME log \in Seq(Rows), KeysAreUnique(log)
    PROVE  \A k, l \in 1 .. Len(AllMutations) :
              AllMutations[k].key = AllMutations[l].key => k = l
<1>1. PICK at : PicksAt(log, {row \in Rows : row.done}, Len(log), Visible, at)
  BY VisibleInOrder DEF Visible
<1>2. /\ Len(Visible) \in Nat /\ Visible \in Seq({log[i] : i \in 1 .. Len(log)})
      /\ \A k \in 1 .. Len(Visible) :
            at[k] \in 1 .. Len(log) /\ Visible[k] = log[at[k]] /\ log[at[k]].done
      /\ \A k, l \in 1 .. Len(Visible) : k < l => at[k] < at[l]
  BY <1>1 DEF PicksAt
<1>3. DOMAIN Visible = 1 .. Len(Visible)
  <2>1. PICK S : S = {log[i] : i \in 1 .. Len(log)}
    OBVIOUS
  <2>2. Visible \in Seq(S)
    BY <1>2, <2>1
  <2> QED
    BY <2>2
<1>4. AllMutations = [k \in 1 .. Len(Visible) |-> Visible[k].event]
  BY <1>3 DEF AllMutations, EventsOf
<1>5. Len(AllMutations) = Len(Visible)
  BY SeenEvents
<1> SUFFICES ASSUME NEW k \in 1 .. Len(AllMutations), NEW l \in 1 .. Len(AllMutations),
                    AllMutations[k].key = AllMutations[l].key
             PROVE  k = l
  OBVIOUS
<1>6. AllMutations[k] = log[at[k]].event /\ AllMutations[l] = log[at[l]].event
  BY <1>2, <1>4, <1>5
<1>7. at[k] = at[l]
  <2>1. /\ at[k] \in 1 .. Len(log) /\ log[at[k]].done
        /\ at[l] \in 1 .. Len(log) /\ log[at[l]].done
    BY <1>2, <1>5
  <2>2. log[at[k]].event.key = log[at[l]].event.key
    BY <1>6
  <2>3. \A i, j \in 1 .. Len(log) :
           log[i].done /\ log[j].done /\ log[i].event.key = log[j].event.key => i = j
    BY DEF KeysAreUnique
  <2> QED
    BY <2>1, <2>2, <2>3
<1>8. ~ (k < l) /\ ~ (l < k)
  <2>1. at[k] \in Nat /\ at[l] \in Nat
    BY <1>2, <1>5
  <2> QED
    BY <1>2, <1>5, <1>7, <2>1
<1> QED
  BY <1>2, <1>5, <1>8

(* The log cut anywhere.                                                   *)
LEMMA IncrementalAgrees == LedgerInv => IncrementalIsReplay(Current)
<1> SUFFICES ASSUME LedgerInv PROVE IncrementalIsReplay(Current)
  OBVIOUS
<1>1. log \in Seq(Rows) /\ KeysAreUnique(log) /\ NodesComeFirst(log)
  BY DEF LedgerInv, StateIsTyped
<1>2. PICK rows : rows = AllMutations
  OBVIOUS
<1>3. /\ Seen \subseteq Events /\ KeysTellApart(Seen)
      /\ rows \in Seq(Seen) /\ ToSet(rows) = Seen /\ IsOrdered(rows)
  BY <1>1, <1>2, SeenEvents
<1>4. \A k, l \in 1 .. Len(rows) : rows[k].key = rows[l].key => k = l
  BY <1>1, <1>2, SeenOnce
<1> SUFFICES ASSUME \A e \in ToSet(rows) : e.op \in {"create_node", "create_edge"},
                    NEW n \in 0 .. Len(rows),
                    NEW g, g = ApplyIncremental(Replay(SubSeq(rows, 1, n)),
                                                SubSeq(rows, n + 1, Len(rows)))
             PROVE  g.nodes = Current.nodes /\ g.edges = Current.edges
  BY <1>2 DEF IncrementalIsReplay
<1>5. \A i \in 1 .. Len(rows) : IsCreation(rows[i])
  <2>1. \A i \in 1 .. Len(rows) : rows[i] \in ToSet(rows)
    BY <1>3
  <2> QED
    BY <2>1 DEF IsCreation
<1>6. Alike(Replay(rows), g)
  BY <1>3, <1>4, <1>5, CutAnywhere
<1> QED
  BY <1>2, <1>6 DEF Alike, Current

(* A log of pipeline events cut anywhere and rebuilt from the graph of its *)
(* first part gives the graph of the whole log, edge ids included.         *)
THEOREM CutsAgree == Spec => []IncrementalIsReplay(Current)
<1>1. LedgerInv => IncrementalIsReplay(Current)
  BY IncrementalAgrees
<1> QED
  BY <1>1, LedgerInvariance, PTL

-------------------------------------------------------------------------------
(* Relations are numbered.                                                 *)

(* Relations have rising numbers, none above the counter.                  *)
Rising(g) ==
    /\ \A i \in 1 .. Len(g.edges) : g.edges[i].id \in 1 .. g.edgeSeq
    /\ \A i, j \in 1 .. Len(g.edges) : i < j => g.edges[i].id < g.edges[j].id

(* A sequence without repetition is as long as its elements are many.      *)
LEMMA LengthOfDistinct ==
    ASSUME NEW T, NEW s \in Seq(T), \A i, j \in 1 .. Len(s) : i < j => s[i] # s[j]
    PROVE  /\ IsFiniteSet(ToSet(s)) /\ Cardinality(ToSet(s)) = Len(s)
<1> DEFINE S == {s[i] : i \in 1 .. Len(s)}
<1>1. ToSet(s) = S /\ Len(s) \in Nat
  BY ElementsOfASequence
<1>2. IsFiniteSet(1 .. Len(s)) /\ Cardinality(1 .. Len(s)) = Len(s)
  <2>1. PICK n \in Nat : n = Len(s)
    BY <1>1
  <2>2. IsFiniteSet(1 .. n) /\ Cardinality(1 .. n) = n
    BY FS_Interval
  <2> QED
    BY <2>1, <2>2
<1> DEFINE f == [i \in 1 .. Len(s) |-> s[i]]
<1>3. f \in [1 .. Len(s) -> S] /\ \A y \in S : \E i \in 1 .. Len(s) : f[i] = y
  OBVIOUS
<1>4. \A i, j \in 1 .. Len(s) : f[i] = f[j] => i = j
  <2> SUFFICES ASSUME NEW i \in 1 .. Len(s), NEW j \in 1 .. Len(s), i # j PROVE s[i] # s[j]
    OBVIOUS
  <2>1. i < j \/ j < i
    BY <1>1
  <2> QED
    BY <2>1
<1> HIDE DEF f, S
<1>5. f \in Bijection(1 .. Len(s), S)
  <2>1. f \in Injection(1 .. Len(s), S)
    BY <1>3, <1>4 DEF Injection, IsInjective
  <2>2. f \in Surjection(1 .. Len(s), S)
    BY <1>3 DEF Surjection
  <2> QED
    BY <2>1, <2>2 DEF Bijection
<1>6. ExistsBijection(1 .. Len(s), S)
  BY <1>5 DEF ExistsBijection
<1>7. IsFiniteSet(S) /\ Cardinality(S) = Cardinality(1 .. Len(s))
  BY <1>2, <1>6, FS_Bijection
<1> QED
  BY <1>1, <1>2, <1>7

(* What is picked of rising numbers rises.                                 *)
LEMMA RisingRelations ==
    ASSUME NEW g, GraphIsTyped(g), Rising(g)
    PROVE  /\ IsFiniteSet(ToSet(g.edges)) /\ Cardinality(ToSet(g.edges)) = Len(g.edges)
           /\ \A x, y \in ToSet(g.edges) : x.id = y.id => x = y
           /\ \A x \in ToSet(g.edges) : x.id \in 1 .. g.edgeSeq
<1>1. g.edges \in Seq(EdgeRecords) /\ Len(g.edges) \in Nat /\ g.edgeSeq \in Nat
  BY DEF GraphIsTyped
<1>2. ToSet(g.edges) = {g.edges[i] : i \in 1 .. Len(g.edges)}
  BY <1>1, ElementsOfASequence
<1>3. ASSUME NEW i \in 1 .. Len(g.edges), NEW j \in 1 .. Len(g.edges), i < j
      PROVE  g.edges[i] # g.edges[j] /\ g.edges[i].id # g.edges[j].id
  <2>1. g.edges[i].id < g.edges[j].id
    BY <1>3 DEF Rising
  <2>2. g.edges[i].id \in Nat /\ g.edges[j].id \in Nat
    BY <1>1 DEF Rising
  <2> QED
    BY <2>1, <2>2
<1>4. ASSUME NEW x \in ToSet(g.edges), NEW y \in ToSet(g.edges), x.id = y.id PROVE x = y
  <2>1. PICK i \in 1 .. Len(g.edges) : x = g.edges[i]
    BY <1>2
  <2>2. PICK j \in 1 .. Len(g.edges) : y = g.edges[j]
    BY <1>2
  <2>3. ~ (i < j) /\ ~ (j < i)
    BY <1>3, <1>4, <2>1, <2>2
  <2> QED
    BY <1>1, <2>1, <2>2, <2>3
<1>5. IsFiniteSet(ToSet(g.edges)) /\ Cardinality(ToSet(g.edges)) = Len(g.edges)
  BY <1>1, <1>3, LengthOfDistinct
<1>6. \A x \in ToSet(g.edges) : x.id \in 1 .. g.edgeSeq
  BY <1>2 DEF Rising
<1> QED
  BY <1>4, <1>5, <1>6

(* A graph that has come of another: its relations are of the other or     *)
(* have later numbers, and no node is forgotten.                           *)
Later(g, h) ==
    /\ GraphIsTyped(h) /\ Rising(h)
    /\ g.edgeSeq <= h.edgeSeq
    /\ DOMAIN g.nodes \subseteq DOMAIN h.nodes
    /\ \A x \in ToSet(h.edges) : x \in ToSet(g.edges) \/ x.id > g.edgeSeq

Gains(g, h) == Later(g, h) /\ ToSet(g.edges) \subseteq ToSet(h.edges)

(* Coming of a graph goes on.                                              *)
LEMMA LaterStill ==
    ASSUME NEW f, NEW g, NEW h, GraphIsTyped(f), Later(f, g), Later(g, h)
    PROVE  /\ Later(f, h)
           /\ Gains(f, g) /\ Gains(g, h) => Gains(f, h)
<1>1. f.edgeSeq \in Nat /\ g.edgeSeq \in Nat /\ h.edgeSeq \in Nat
  BY DEF Later, GraphIsTyped
<1>2. \A x \in ToSet(h.edges) : x.id \in Nat
  <2>1. GraphIsTyped(h) /\ Rising(h)
    BY DEF Later
  <2> QED
    BY <1>1, <2>1, RisingRelations
<1>3. f.edgeSeq <= h.edgeSeq
  BY <1>1 DEF Later
<1>4. ASSUME NEW x \in ToSet(h.edges) PROVE x \in ToSet(f.edges) \/ x.id > f.edgeSeq
  <2>1. CASE x \in ToSet(g.edges)
    BY <2>1 DEF Later
  <2>2. CASE x.id > g.edgeSeq
    <3>1. f.edgeSeq <= g.edgeSeq
      BY DEF Later
    <3> QED
      BY <1>1, <1>2, <2>2, <3>1
  <2> QED
    BY <2>1, <2>2 DEF Later
<1>5. Later(f, h)
  BY <1>3, <1>4 DEF Later
<1> QED
  BY <1>5 DEF Gains

(* A node set leaves the relations.                                        *)
LEMMA SetNodeGains ==
    ASSUME NEW g, GraphIsTyped(g), Rising(g), NEW id \in Ids, NEW node \in NodeRecords,
           NEW h, h = SetNode(g, id, node)
    PROVE  Gains(g, h) /\ h.edges = g.edges /\ h.edgeSeq = g.edgeSeq
<1> DEFINE nodes == [i \in DOMAIN g.nodes \cup {id} |-> IF i = id THEN node ELSE g.nodes[i]]
<1>1. /\ DOMAIN h = DOMAIN g
      /\ h.nodes = nodes /\ h.edges = g.edges /\ h.edgeSeq = g.edgeSeq
  BY DEF SetNode, GraphIsTyped
<1>2. /\ DOMAIN nodes = DOMAIN g.nodes \cup {id} /\ nodes \in [DOMAIN nodes -> NodeRecords]
  BY DEF GraphIsTyped
<1> HIDE DEF nodes
<1>3. GraphIsTyped(h) /\ Rising(h)
  BY <1>1, <1>2 DEF GraphIsTyped, Rising
<1>4. g.edgeSeq \in Nat
  BY DEF GraphIsTyped
<1> QED
  BY <1>1, <1>2, <1>3, <1>4 DEF Gains, Later

(* A relation more has the next number.                                    *)
LEMMA AddEdgeGains ==
    ASSUME NEW g, GraphIsTyped(g), Rising(g), NEW type \in RelationTypes,
           NEW from \in Ids, NEW to \in Ids, NEW ref \in Ids \cup Nat \cup {NoId},
           NEW h, h = AddEdge(g, type, from, to, ref)
    PROVE  /\ Gains(g, h) /\ h.nodes = g.nodes
           /\ ToSet(h.edges) = ToSet(g.edges)
                \cup {[id |-> g.edgeSeq + 1, type |-> type, from |-> from, to |-> to, ref |-> ref]}
<1>1. PICK x : x = [id |-> g.edgeSeq + 1, type |-> type, from |-> from, to |-> to, ref |-> ref]
  OBVIOUS
<1>2. /\ DOMAIN h = DOMAIN g
      /\ h.edges = Append(g.edges, x) /\ h.edgeSeq = g.edgeSeq + 1 /\ h.nodes = g.nodes
  BY <1>1 DEF AddEdge, GraphIsTyped
<1>3. g.edges \in Seq(EdgeRecords) /\ g.edgeSeq \in Nat /\ Len(g.edges) \in Nat
  BY DEF GraphIsTyped
<1>4. x \in EdgeRecords /\ x.id = g.edgeSeq + 1
  BY <1>1, <1>3 DEF EdgeRecords
<1>5. /\ h.edges \in Seq(EdgeRecords) /\ ToSet(h.edges) = ToSet(g.edges) \cup {x}
  BY <1>2, <1>3, <1>4, ElementsOfAppend
<1>6. /\ Len(h.edges) = Len(g.edges) + 1
      /\ \A i \in 1 .. Len(g.edges) : h.edges[i] = g.edges[i]
      /\ h.edges[Len(g.edges) + 1] = x
  BY <1>2, <1>3, <1>4, AppendProperties
<1>7. GraphIsTyped(h)
  BY <1>2, <1>3, <1>5 DEF GraphIsTyped
<1>8. Rising(h)
  <2>1. ASSUME NEW i \in 1 .. Len(h.edges) PROVE h.edges[i].id \in 1 .. h.edgeSeq
    <3>1. CASE i \in 1 .. Len(g.edges)
      <4>1. g.edges[i].id \in 1 .. g.edgeSeq
        BY <3>1 DEF Rising
      <4> QED
        BY <1>2, <1>3, <1>6, <3>1, <4>1
    <3>2. CASE i = Len(g.edges) + 1
      BY <1>2, <1>3, <1>4, <1>6, <3>2
    <3> QED
      BY <1>3, <1>6, <3>1, <3>2
  <2>2. ASSUME NEW i \in 1 .. Len(h.edges), NEW j \in 1 .. Len(h.edges), i < j
        PROVE  h.edges[i].id < h.edges[j].id
    <3>1. i \in 1 .. Len(g.edges)
      BY <1>3, <1>6, <2>2
    <3>2. g.edges[i].id \in 1 .. g.edgeSeq
      BY <3>1 DEF Rising
    <3>3. CASE j \in 1 .. Len(g.edges)
      BY <1>6, <2>2, <3>1, <3>3 DEF Rising
    <3>4. CASE j = Len(g.edges) + 1
      <4>1. h.edges[i].id \in 1 .. g.edgeSeq /\ h.edges[j].id = g.edgeSeq + 1
        BY <1>4, <1>6, <3>1, <3>2, <3>4
      <4> QED
        BY <1>3, <4>1
    <3> QED
      BY <1>3, <1>6, <3>3, <3>4
  <2> QED
    BY <2>1, <2>2 DEF Rising
<1>9. Gains(g, h)
  <2>1. x.id > g.edgeSeq
    BY <1>3, <1>4
  <2> QED
    BY <1>2, <1>3, <1>5, <1>7, <1>8, <2>1 DEF Gains, Later
<1> QED
  BY <1>1, <1>2, <1>5, <1>9

(* Relations less keep their order.                                        *)
LEMMA DropEdgesLater ==
    ASSUME NEW g, GraphIsTyped(g), Rising(g), NEW dropped, NEW h, h = DropEdges(g, dropped)
    PROVE  Later(g, h) /\ ToSet(h.edges) = ToSet(g.edges) \ dropped /\ h.nodes = g.nodes
<1>1. PICK S : S = ToSet(g.edges) \ dropped
  OBVIOUS
<1>2. /\ h.edges = Picked(g.edges, S) /\ h.edgeSeq = g.edgeSeq /\ h.nodes = g.nodes
  BY <1>1 DEF DropEdges, GraphIsTyped
<1>3. GraphIsTyped(h) /\ ToSet(h.edges) = ToSet(g.edges) \ dropped
  BY DropEdgesFits
<1>4. g.edges \in Seq(EdgeRecords) /\ g.edgeSeq \in Nat /\ Len(g.edges) \in Nat
  BY DEF GraphIsTyped
<1>5. PICK at : PicksAt(g.edges, S, Len(g.edges), h.edges, at)
  BY <1>2, <1>4, PickedInOrder
<1>6. /\ \A k \in 1 .. Len(h.edges) : h.edges[k] = g.edges[at[k]] /\ at[k] \in 1 .. Len(g.edges)
      /\ \A k, l \in 1 .. Len(h.edges) : k < l => at[k] < at[l]
  BY <1>5 DEF PicksAt
<1>7. Rising(h)
  BY <1>2, <1>6 DEF Rising
<1> QED
  BY <1>2, <1>3, <1>4, <1>7 DEF Later

(* What an event leaves of the relations there are.                        *)
LEMMA SameGains ==
    ASSUME NEW g, GraphIsTyped(g), Rising(g), NEW h, GraphIsTyped(h),
           h.edges = g.edges, h.edgeSeq = g.edgeSeq, h.nodes = g.nodes
    PROVE  Gains(g, h)
<1>1. g.edgeSeq \in Nat
  BY DEF GraphIsTyped
<1>2. Rising(h)
  BY DEF Rising
<1> QED
  BY <1>1, <1>2 DEF Gains, Later

(* A quarantined relation changes neither.                                 *)
LEMMA QuarantineGains ==
    ASSUME NEW g, GraphIsTyped(g), Rising(g), NEW type, NEW e
    PROVE  Gains(g, Quarantine(g, type, e))
<1>1. PICK h : h = Quarantine(g, type, e)
  OBVIOUS
<1>2. GraphIsTyped(h) /\ h.edges = g.edges /\ h.edgeSeq = g.edgeSeq /\ h.nodes = g.nodes
  BY <1>1 DEF Quarantine, GraphIsTyped
<1> QED
  BY <1>1, <1>2, SameGains

(* An event takes relations out, or adds one: only an unmerge or a         *)
(* deletion takes out.                                                     *)
LEMMA EffectLater ==
    ASSUME NEW g, GraphIsTyped(g), Rising(g), NEW e \in Events
    PROVE  /\ Later(g, Effect(g, e))
           /\ e.op \notin {"unmerge", "delete"} => Gains(g, Effect(g, e))
<1>1. /\ e.op \in Ops /\ e.subject \in Ids
      /\ e.ref \in Ids \cup Nat \cup {NoId}
      /\ e.op = "create_edge" => e.ref \in Claims /\ e.object \in Ids
      /\ e.op \in {"merge_entity", "unmerge", "supersede"} => e.object \in Ids
  BY EventFields
<1>2. /\ \A id \in DOMAIN g.nodes : g.nodes[id] \in NodeRecords /\ id \in Ids
      /\ NewNode \in NodeRecords
  BY DEF GraphIsTyped, NewNode, NodeRecords
<1>3. /\ "SAME_AS" \in RelationTypes /\ "SUPERSEDES" \in RelationTypes /\ Claims \subseteq RelationTypes
      /\ NoId \in Ids \cup Nat \cup {NoId} /\ NoId \in Ids \cup {NoId}
  BY DEF RelationTypes
<1>4. Gains(g, g)
  BY SameGains
<1>5. CASE e.op = "create_node"
  <2>1. Effect(g, e) = CreateNode(g, e)
    BY <1>5 DEF Effect
  <2>2. CASE e.subject \in DOMAIN g.nodes
    BY <1>4, <2>1, <2>2 DEF CreateNode, HasNode, Gains
  <2>3. CASE e.subject \notin DOMAIN g.nodes
    <3>1. Effect(g, e) = SetNode(g, e.subject, NewNode)
      BY <2>1, <2>3 DEF CreateNode, HasNode
    <3>2. Gains(g, Effect(g, e))
      BY <1>1, <1>2, <3>1, SetNodeGains
    <3> QED
      BY <3>2 DEF Gains
  <2> QED
    BY <2>2, <2>3
<1>6. CASE e.op = "create_edge"
  <2>1. Effect(g, e) = CreateEdge(g, e)
    BY <1>6 DEF Effect
  <2>2. CASE HasNode(g, e.subject) /\ HasNode(g, e.object)
    <3>1. Effect(g, e) = AddEdge(g, e.ref, e.subject, e.object, NoId)
      BY <2>1, <2>2 DEF CreateEdge
    <3>2. e.ref \in RelationTypes /\ e.object \in Ids
      BY <1>1, <1>3, <1>6
    <3>3. Gains(g, Effect(g, e))
      BY <1>1, <1>3, <3>1, <3>2, AddEdgeGains
    <3> QED
      BY <3>3 DEF Gains
  <2>3. CASE ~ (HasNode(g, e.subject) /\ HasNode(g, e.object))
    <3>1. Effect(g, e) = Quarantine(g, e.ref, e)
      BY <2>1, <2>3 DEF CreateEdge
    <3> QED
      BY <3>1, QuarantineGains DEF Gains
  <2> QED
    BY <2>2, <2>3
<1>7. CASE e.op = "merge_entity"
  <2>1. Effect(g, e) = Merge(g, e)
    BY <1>7 DEF Effect
  <2>2. CASE HasNode(g, e.subject) /\ HasNode(g, e.object)
    <3>1. PICK node : node = [g.nodes[e.subject] EXCEPT !.canonical = e.object, !.merged = TRUE]
      OBVIOUS
    <3>2. e.object \in Ids /\ g.nodes[e.subject] \in NodeRecords
      BY <1>1, <1>2, <1>7, <2>2 DEF HasNode
    <3>3. node \in NodeRecords
      BY <3>1, <3>2, NodeUpdates
    <3>4. PICK f : f = SetNode(g, e.subject, node)
      OBVIOUS
    <3>5. Gains(g, f)
      BY <1>1, <3>3, <3>4, SetNodeGains
    <3>6. Effect(g, e) = AddEdge(f, "SAME_AS", e.subject, e.object, e.ref)
      BY <2>1, <2>2, <3>1, <3>4 DEF Merge
    <3>7. GraphIsTyped(f) /\ Rising(f)
      BY <3>5 DEF Gains, Later
    <3>8. Gains(f, Effect(g, e))
      BY <1>1, <1>3, <3>2, <3>6, <3>7, AddEdgeGains
    <3>9. Gains(g, Effect(g, e))
      BY <3>5, <3>8, LaterStill DEF Gains
    <3> QED
      BY <3>9 DEF Gains
  <2>3. CASE ~ (HasNode(g, e.subject) /\ HasNode(g, e.object))
    <3>1. Effect(g, e) = Quarantine(g, "SAME_AS", e)
      BY <2>1, <2>3 DEF Merge
    <3> QED
      BY <3>1, QuarantineGains DEF Gains
  <2> QED
    BY <2>2, <2>3
<1>8. CASE e.op = "unmerge"
  <2>1. Effect(g, e) = Unmerge(g, e)
    BY <1>8 DEF Effect
  <2>2. CASE ~ HasNode(g, e.subject)
    <3>1. Effect(g, e) = g
      BY <2>1, <2>2 DEF Unmerge
    <3> QED
      BY <1>4, <1>8, <3>1 DEF Gains
  <2>3. CASE HasNode(g, e.subject)
    <3>1. PICK left, node :
             /\ left = DropEdges(g, Undone(g, e))
             /\ node = [g.nodes[e.subject] EXCEPT !.canonical = NoId, !.merged = FALSE]
      OBVIOUS
    <3>2. Later(g, left)
      BY <3>1, DropEdgesLater
    <3>3. node \in NodeRecords
      BY <1>2, <1>3, <2>3, <3>1, NodeUpdates DEF HasNode
    <3>4. GraphIsTyped(left) /\ Rising(left)
      BY <3>2 DEF Later
    <3>5. Effect(g, e) = left \/ Effect(g, e) = SetNode(left, e.subject, node)
      BY <2>1, <2>3, <3>1 DEF Unmerge
    <3>6. CASE Effect(g, e) = left
      BY <1>8, <3>2, <3>6
    <3>7. CASE Effect(g, e) = SetNode(left, e.subject, node)
      <4>1. Later(left, Effect(g, e))
        BY <1>1, <3>3, <3>4, <3>7, SetNodeGains DEF Gains
      <4> QED
        BY <1>8, <3>2, <4>1, LaterStill
    <3> QED
      BY <3>5, <3>6, <3>7
  <2> QED
    BY <2>2, <2>3
<1>9. CASE e.op = "supersede"
  <2>1. Effect(g, e) = Supersede(g, e)
    BY <1>9 DEF Effect
  <2>2. CASE HasNode(g, e.subject) /\ HasNode(g, e.object)
    <3>1. PICK node, f :
             /\ node = [g.nodes[e.object] EXCEPT !.closed = TRUE]
             /\ f = AddEdge(g, "SUPERSEDES", e.subject, e.object, NoId)
      OBVIOUS
    <3>2. e.object \in Ids /\ g.nodes[e.object] \in NodeRecords
      BY <1>1, <1>2, <1>9, <2>2 DEF HasNode
    <3>3. node \in NodeRecords
      BY <1>3, <3>1, <3>2, NodeUpdates
    <3>4. Gains(g, f)
      BY <1>1, <1>3, <3>1, <3>2, AddEdgeGains
    <3>5. Effect(g, e) = SetNode(f, e.object, node)
      BY <2>1, <2>2, <3>1 DEF Supersede
    <3>6. GraphIsTyped(f) /\ Rising(f)
      BY <3>4 DEF Gains, Later
    <3>7. Gains(f, Effect(g, e))
      BY <3>2, <3>3, <3>5, <3>6, SetNodeGains
    <3>8. Gains(g, Effect(g, e))
      BY <3>4, <3>7, LaterStill DEF Gains
    <3> QED
      BY <3>8 DEF Gains
  <2>3. CASE ~ (HasNode(g, e.subject) /\ HasNode(g, e.object))
    BY <1>4, <2>1, <2>3 DEF Supersede, Gains
  <2> QED
    BY <2>2, <2>3
<1>10. CASE e.op = "delete"
  <2>1. Effect(g, e) = Delete(g, e)
    BY <1>10 DEF Effect
  <2>2. CASE HasNode(g, e.subject)
    <3>1. PICK node, f, dropped :
             /\ node = [g.nodes[e.subject] EXCEPT !.deleted = TRUE]
             /\ f = SetNode(g, e.subject, node)
             /\ dropped = {x \in ToSet(g.edges) : e.subject \in {x.from, x.to}}
      OBVIOUS
    <3>2. g.nodes[e.subject] \in NodeRecords
      BY <1>2, <2>2 DEF HasNode
    <3>3. node \in NodeRecords
      BY <1>3, <3>1, <3>2, NodeUpdates
    <3>4. Later(g, f) /\ GraphIsTyped(f) /\ Rising(f)
      <4>1. Gains(g, f)
        BY <1>1, <3>1, <3>3, SetNodeGains
      <4> QED
        BY <4>1 DEF Gains, Later
    <3>5. Effect(g, e) = DropEdges(f, dropped)
      BY <2>1, <2>2, <3>1 DEF Delete
    <3>6. Later(f, Effect(g, e))
      BY <3>4, <3>5, DropEdgesLater
    <3> QED
      BY <1>10, <3>4, <3>6, LaterStill
  <2>3. CASE ~ HasNode(g, e.subject)
    <3>1. Effect(g, e) = g
      BY <2>1, <2>3 DEF Delete
    <3> QED
      BY <1>4, <1>10, <3>1 DEF Gains
  <2> QED
    BY <2>2, <2>3
<1> QED
  BY <1>1, <1>5, <1>6, <1>7, <1>8, <1>9, <1>10 DEF Ops

(* Also when it is noted as applied, or was applied before.                *)
LEMMA ApplyEventLater ==
    ASSUME NEW g, GraphIsTyped(g), Rising(g), NEW e \in Events
    PROVE  /\ Later(g, ApplyEvent(g, e))
           /\ e.op \notin {"unmerge", "delete"} => Gains(g, ApplyEvent(g, e))
<1>1. CASE e.key \in g.applied
  <2>1. ApplyEvent(g, e) = g
    BY <1>1, AppliedBefore
  <2>2. Gains(g, g)
    BY SameGains
  <2> QED
    BY <2>1, <2>2 DEF Gains
<1>2. CASE e.key \notin g.applied
  <2>1. PICK f : f = Effect(g, e)
    OBVIOUS
  <2>2. Later(g, f) /\ (e.op \notin {"unmerge", "delete"} => Gains(g, f))
    BY <2>1, EffectLater
  <2>3. GraphIsTyped(f) /\ Rising(f)
    BY <2>2 DEF Later
  <2>4. PICK h : h = Marked(f, e)
    OBVIOUS
  <2>5. ApplyEvent(g, e) = h
    BY <1>2, <2>1, <2>4 DEF ApplyEvent, Marked
  <2>6. GraphIsTyped(h) /\ h.nodes = f.nodes /\ h.edges = f.edges /\ h.edgeSeq = f.edgeSeq
    BY <2>3, <2>4 DEF Marked, GraphIsTyped
  <2>7. Gains(f, h)
    BY <2>3, <2>6, SameGains
  <2>8. Later(g, h) /\ (Gains(g, f) => Gains(g, h))
    BY <2>2, <2>7, LaterStill DEF Gains
  <2> QED
    BY <2>2, <2>5, <2>8
<1> QED
  BY <1>1, <1>2

(* So do many.                                                             *)
LEMMA ApplyLater ==
    ASSUME NEW g, GraphIsTyped(g), Rising(g), NEW rows \in Seq(Events)
    PROVE  /\ Later(g, Apply(g, rows))
           /\ (\A i \in 1 .. Len(rows) : rows[i].op \notin {"unmerge", "delete"})
                => Gains(g, Apply(g, rows))
<1> DEFINE a(n) == After(g, rows, n)
           Keeps == \A i \in 1 .. Len(rows) : rows[i].op \notin {"unmerge", "delete"}
           Good(n) == Later(g, a(n)) /\ (Keeps => Gains(g, a(n)))
           Bad == {n \in 0 .. Len(rows) : ~ Good(n)}
<1>1. /\ a(0) = g
      /\ \A n \in 1 .. Len(rows) : a(n) = ApplyEvent(a(n - 1), rows[n])
      /\ a(Len(rows)) = Apply(g, rows)
  BY AppliedOneByOne
<1> HIDE DEF a
<1>2. Len(rows) \in Nat
  OBVIOUS
<1>3. Bad = {}
  <2> SUFFICES ASSUME Bad # {} PROVE FALSE
    OBVIOUS
  <2>1. Bad \subseteq Nat
    BY <1>2
  <2> HIDE DEF Bad
  <2>2. PICK m \in Bad : \A k \in Bad : m <= k
    BY <2>1, LeastNatural
  <2>3. m \in 0 .. Len(rows) /\ ~ Good(m)
    BY <2>2 DEF Bad
  <2>4. m # 0
    <3>1. Gains(g, g)
      BY SameGains
    <3> QED
      BY <1>1, <2>3, <3>1 DEF Gains
  <2>5. m - 1 \in 0 .. Len(rows) /\ m - 1 \notin Bad /\ m \in 1 .. Len(rows)
    BY <1>2, <2>2, <2>3, <2>4
  <2>6. Good(m - 1)
    BY <2>5 DEF Bad
  <2>7. PICK f, h : f = a(m - 1) /\ h = a(m)
    OBVIOUS
  <2>8. h = ApplyEvent(f, rows[m]) /\ rows[m] \in Events
    BY <1>1, <2>5, <2>7
  <2>9. Later(g, f) /\ GraphIsTyped(f) /\ Rising(f) /\ (Keeps => Gains(g, f))
    BY <2>6, <2>7 DEF Later
  <2>10. Later(f, h) /\ (rows[m].op \notin {"unmerge", "delete"} => Gains(f, h))
    BY <2>8, <2>9, ApplyEventLater
  <2>11. Later(g, h) /\ (Gains(g, f) /\ Gains(f, h) => Gains(g, h))
    BY <2>9, <2>10, LaterStill
  <2>12. Keeps => Gains(f, h)
    BY <2>5, <2>10
  <2> QED
    BY <2>3, <2>7, <2>9, <2>11, <2>12
<1>4. Good(Len(rows))
  BY <1>2, <1>3
<1> QED
  BY <1>1, <1>4

-------------------------------------------------------------------------------
(* The copy in the graph store.                                            *)

(* A set of numbers up to N has a greatest.                                *)
LEMMA GreatestNumber ==
    ASSUME NEW N \in Nat, NEW S, S \subseteq 1 .. N, S # {}
    PROVE  \E n \in S : \A m \in S : m <= n
<1> DEFINE Bounds == {k \in 0 .. N : \A m \in S : m <= k}
<1>1. N \in Bounds /\ Bounds \subseteq Nat
  OBVIOUS
<1> HIDE DEF Bounds
<1>2. PICK n \in Bounds : \A k \in Bounds : n <= k
  BY <1>1, LeastNatural
<1>3. n \in 0 .. N /\ \A m \in S : m <= n
  BY <1>2 DEF Bounds
<1>4. n # 0
  <2>1. PICK x : x \in S
    OBVIOUS
  <2> QED
    BY <1>3, <2>1
<1>5. n - 1 \notin Bounds /\ n - 1 \in 0 .. N
  BY <1>2, <1>3, <1>4
<1>6. PICK m \in S : ~ (m <= n - 1)
  BY <1>5 DEF Bounds
<1>7. m = n
  BY <1>3, <1>6
<1> QED
  BY <1>3, <1>7

(* The list of a set of numbers has each of them once.                     *)
LEMMA InOrderLists ==
    ASSUME NEW N \in Nat, NEW S, S \subseteq 1 .. N
    PROVE  /\ InOrder(S) \in Seq(S) /\ ToSet(InOrder(S)) = S
           /\ \A k, l \in 1 .. Len(InOrder(S)) : k < l => InOrder(S)[k] # InOrder(S)[l]
<1>1. CASE S = {}
  <2>1. InOrder(S) = <<>>
    BY <1>1 DEF InOrder
  <2> QED
    <3>1. <<>> \in Seq(S) /\ Len(<<>>) = 0
      OBVIOUS
    <3>2. ToSet(<<>>) = {}
      BY DEF ToSet
    <3>3. InOrder(S) \in Seq(S) /\ ToSet(InOrder(S)) = S
      BY <1>1, <2>1, <3>1, <3>2
    <3>4. \A k, l \in 1 .. Len(InOrder(S)) : FALSE
      BY <2>1, <3>1
    <3> QED
      BY <3>3, <3>4
<1>2. CASE S # {}
  <2>1. PICK last : last = CHOOSE n \in S : \A m \in S : m <= n
    OBVIOUS
  <2>2. last \in S /\ \A m \in S : m <= last
    BY <1>2, <2>1, GreatestNumber
  <2>3. last \in Nat /\ S \subseteq 1 .. last
    BY <2>2
  <2>4. PICK numbers : numbers = [i \in 1 .. last |-> i]
    OBVIOUS
  <2>5. numbers \in Seq(1 .. last) /\ Len(numbers) = last /\ \A i \in 1 .. last : numbers[i] = i
    BY <2>3, <2>4
  <2>6. InOrder(S) = Picked(numbers, S)
    BY <1>2, <2>1, <2>4 DEF InOrder
  <2>7. ToSet(numbers) = 1 .. last
    <3>1. ToSet(numbers) = {numbers[i] : i \in 1 .. Len(numbers)}
      BY <2>5, ElementsOfASequence
    <3> QED
      BY <2>3, <2>5, <3>1
  <2>8. Picked(numbers, S) \in Seq(1 .. last) /\ ToSet(Picked(numbers, S)) = S
    <3>1. PICK T : T = 1 .. last
      OBVIOUS
    <3>2. numbers \in Seq(T) /\ ToSet(numbers) = T /\ S \subseteq T
      BY <2>3, <2>5, <2>7, <3>1
    <3>3. Picked(numbers, S) \in Seq(T) /\ ToSet(Picked(numbers, S)) = T \cap S
      BY <3>2, ElementsOfPicked
    <3> QED
      BY <3>1, <3>2, <3>3
  <2>9. PICK at : PicksAt(numbers, S, last, Picked(numbers, S), at)
    BY <2>5, PickedInOrder
  <2>10. /\ \A k \in 1 .. Len(InOrder(S)) :
               at[k] \in 1 .. last /\ InOrder(S)[k] = numbers[at[k]] /\ numbers[at[k]] \in S
         /\ \A k, l \in 1 .. Len(InOrder(S)) : k < l => at[k] < at[l]
    BY <2>6, <2>9 DEF PicksAt
  <2>11. \A k \in 1 .. Len(InOrder(S)) : at[k] \in Nat /\ InOrder(S)[k] = at[k] /\ InOrder(S)[k] \in S
    BY <2>5, <2>10
  <2>12. InOrder(S) \in Seq(S)
    <3>1. InOrder(S) \in Seq(1 .. last) /\ Len(InOrder(S)) \in Nat
      BY <2>6, <2>8
    <3> QED
      BY <2>11, <3>1
  <2>13. ASSUME NEW k \in 1 .. Len(InOrder(S)), NEW l \in 1 .. Len(InOrder(S)), k < l
         PROVE  InOrder(S)[k] # InOrder(S)[l]
    <3>1. at[k] < at[l]
      BY <2>10, <2>13
    <3> QED
      BY <2>11, <3>1
  <2> QED
    BY <2>6, <2>8, <2>12, <2>13
<1> QED
  BY <1>1, <1>2

(* What is on file by number is a set of relations.                        *)
Numbered(S, N) ==
    /\ S \subseteq EdgeRecords
    /\ \A x \in S : x.id \in 1 .. N
    /\ \A x, y \in S : x.id = y.id => x = y

Files(edges, S) ==
    /\ DOMAIN edges = {x.id : x \in S}
    /\ \A x \in S : edges[x.id] = x

(* A graph copied over an earlier one of it: its nodes are on file, and    *)
(* its relations, and those of the earlier one.                            *)
LEMMA PersistFiles ==
    ASSUME NEW g, GraphIsTyped(g), NEW copy, NEW S, Files(copy.edges, S),
           DOMAIN copy.nodes \subseteq DOMAIN g.nodes,
           NEW N \in Nat, Numbered(S \cup ToSet(g.edges), N),
           NEW c, c = PersistGraph(copy, g)
    PROVE  c.nodes = g.nodes /\ Files(c.edges, S \cup ToSet(g.edges))
<1> DEFINE E == ToSet(g.edges)
           rows == [id \in {x.id : x \in E} |-> CHOOSE x \in E : x.id = id]
<1>1. c.nodes = Filed(g.nodes, copy.nodes) /\ c.edges = Filed(copy.edges, rows)
  BY DEF PersistGraph
<1>2. c.nodes = g.nodes
  <2>1. PICK nodes, old, new : old = g.nodes /\ new = copy.nodes /\ nodes = Filed(old, new)
    OBVIOUS
  <2>2. DOMAIN old \cup DOMAIN new = DOMAIN old
    BY <2>1
  <2>3. nodes = [k \in DOMAIN old |-> IF k \in DOMAIN old THEN old[k] ELSE new[k]]
    BY <2>1, <2>2 DEF Filed
  <2>4. old = [k \in DOMAIN old |-> old[k]]
    BY <2>1 DEF GraphIsTyped
  <2> QED
    BY <1>1, <2>1, <2>3, <2>4
<1>3. DOMAIN rows = {x.id : x \in E} /\ \A x \in E : rows[x.id] = x
  <2>1. ASSUME NEW x \in E PROVE rows[x.id] = x
    <3>1. rows[x.id] = CHOOSE y \in E : y.id = x.id
      OBVIOUS
    <3>2. \A y \in E : y.id = x.id => y = x
      BY DEF Numbered
    <3> QED
      BY <3>1, <3>2
  <2> QED
    BY <2>1
<1> HIDE DEF rows
<1>4. /\ DOMAIN c.edges = DOMAIN copy.edges \cup DOMAIN rows
      /\ \A i \in DOMAIN copy.edges : c.edges[i] = copy.edges[i]
      /\ \A i \in DOMAIN rows \ DOMAIN copy.edges : c.edges[i] = rows[i]
  <2>1. PICK old, new, filed : old = copy.edges /\ new = rows /\ filed = Filed(old, new)
    OBVIOUS
  <2>2. c.edges = filed
    BY <1>1, <2>1
  <2>3. /\ DOMAIN filed = DOMAIN old \cup DOMAIN new
        /\ \A i \in DOMAIN old : filed[i] = old[i]
        /\ \A i \in DOMAIN new \ DOMAIN old : filed[i] = new[i]
    BY <2>1 DEF Filed
  <2> QED
    BY <2>1, <2>2, <2>3
<1>5. DOMAIN copy.edges = {x.id : x \in S} /\ \A x \in S : copy.edges[x.id] = x
  BY DEF Files
<1>6. DOMAIN c.edges = {x.id : x \in S \cup E}
  BY <1>3, <1>4, <1>5
<1>7. ASSUME NEW x \in S \cup E PROVE c.edges[x.id] = x
  <2>1. CASE x \in S
    BY <1>4, <1>5, <2>1
  <2>2. CASE x \in E /\ x.id \notin DOMAIN copy.edges
    BY <1>3, <1>4, <2>2
  <2>3. CASE x \in E /\ x.id \in DOMAIN copy.edges
    <3>1. PICK y \in S : y.id = x.id
      BY <1>5, <2>3
    <3>2. y = x
      BY <2>3, <3>1 DEF Numbered
    <3> QED
      BY <2>1, <3>1, <3>2
  <2> QED
    BY <2>1, <2>2, <2>3
<1> QED
  BY <1>2, <1>6, <1>7 DEF Files

(* What is loaded from a copy.                                             *)
LEMMA LoadsFiled ==
    ASSUME NEW copy, NEW S, NEW N \in Nat, Numbered(S, N), Files(copy.edges, S),
           NEW h, h = LoadStored(copy)
    PROVE  /\ h.nodes = copy.nodes /\ ToSet(h.edges) = S
           /\ IsFiniteSet(S) /\ Len(h.edges) = Cardinality(S)
<1> DEFINE D == {x.id : x \in S}
           ids == InOrder(D)
           list == [i \in DOMAIN ids |-> copy.edges[ids[i]]]
<1>1. DOMAIN copy.edges = D /\ \A x \in S : copy.edges[x.id] = x
  BY DEF Files
<1>2. h.nodes = copy.nodes /\ h.edges = list
  BY <1>1 DEF LoadStored, Restored, EmptyGraph
<1>3. D \subseteq 1 .. N
  BY DEF Numbered
<1> HIDE DEF D
<1>4. /\ ids \in Seq(D) /\ ToSet(ids) = D
      /\ \A k, l \in 1 .. Len(ids) : k < l => ids[k] # ids[l]
  BY <1>3, InOrderLists
<1> HIDE DEF ids
<1>5. Len(ids) \in Nat /\ DOMAIN ids = 1 .. Len(ids)
  BY <1>4
<1>6. ASSUME NEW i \in 1 .. Len(ids)
      PROVE  list[i] \in S /\ list[i].id = ids[i]
  <2>1. ids[i] \in D /\ list[i] = copy.edges[ids[i]]
    BY <1>4, <1>5
  <2>2. PICK x \in S : x.id = ids[i]
    BY <2>1 DEF D
  <2> QED
    BY <1>1, <2>1, <2>2
<1>7. DOMAIN list = 1 .. Len(ids)
  BY <1>5
<1>8. list \in Seq(S) /\ Len(list) = Len(ids)
  <2>1. list = [i \in 1 .. Len(ids) |-> list[i]]
    BY <1>5
  <2> HIDE DEF list
  <2> QED
    BY <1>5, <1>6, <2>1
<1> HIDE DEF list
<1>9. \A i, j \in 1 .. Len(list) : i < j => list[i] # list[j]
  <2> SUFFICES ASSUME NEW i \in 1 .. Len(list), NEW j \in 1 .. Len(list), i < j
               PROVE  list[i] # list[j]
    OBVIOUS
  <2>1. ids[i] # ids[j]
    BY <1>4, <1>8
  <2> QED
    BY <1>6, <1>8, <2>1
<1>10. ToSet(list) = S
  <2>1. ToSet(list) = {list[i] : i \in 1 .. Len(list)} /\ ToSet(ids) = {ids[i] : i \in 1 .. Len(ids)}
    BY <1>4, <1>8, ElementsOfASequence
  <2>2. ToSet(list) \subseteq S
    BY <1>6, <1>8, <2>1
  <2>3. ASSUME NEW x \in S PROVE x \in ToSet(list)
    <3>1. x.id \in D
      BY DEF D
    <3>2. PICK i \in 1 .. Len(ids) : ids[i] = x.id
      BY <1>4, <2>1, <3>1
    <3>3. list[i] \in S /\ list[i].id = x.id
      BY <1>6, <3>2
    <3>4. list[i] = x
      BY <3>3 DEF Numbered
    <3> QED
      BY <1>8, <2>1, <3>2, <3>4
  <2> QED
    BY <2>2, <2>3
<1>11. IsFiniteSet(S) /\ Cardinality(S) = Len(list)
  BY <1>8, <1>9, <1>10, LengthOfDistinct
<1> QED
  BY <1>2, <1>10, <1>11

(* A list is its first elements and the rest.                              *)
LEMMA CutInTwo ==
    ASSUME NEW T, NEW s \in Seq(T), NEW n \in 0 .. Len(s)
    PROVE  /\ SubSeq(s, 1, n) \in Seq(T) /\ SubSeq(s, n + 1, Len(s)) \in Seq(T)
           /\ SubSeq(s, 1, n) \o SubSeq(s, n + 1, Len(s)) = s
<1> DEFINE first == SubSeq(s, 1, n)
           rest == SubSeq(s, n + 1, Len(s))
<1>1. Len(s) \in Nat /\ n \in Nat /\ n <= Len(s)
  OBVIOUS
<1>2. first \in Seq(T) /\ Len(first) = n /\ \A i \in 1 .. n : first[i] = s[i]
  BY <1>1
<1>3. /\ rest \in Seq(T) /\ Len(rest) = Len(s) - n
      /\ \A i \in 1 .. Len(rest) : rest[i] = s[n + i]
  BY <1>1
<1>4. first \o rest = s
  <2> HIDE DEF first, rest
  <2>1. /\ first \o rest \in Seq(T) /\ Len(first \o rest) = Len(s)
        /\ \A i \in 1 .. Len(s) :
              (first \o rest)[i] = IF i <= n THEN first[i] ELSE rest[i - n]
    BY <1>1, <1>2, <1>3
  <2>2. ASSUME NEW i \in 1 .. Len(s) PROVE (first \o rest)[i] = s[i]
    <3>1. CASE i <= n
      BY <1>1, <1>2, <2>1, <3>1
    <3>2. CASE ~ (i <= n)
      <4>1. i - n \in 1 .. Len(rest) /\ n + (i - n) = i
        BY <1>1, <1>3, <3>2
      <4> QED
        BY <1>3, <2>1, <3>2, <4>1
    <3> QED
      BY <3>1, <3>2
  <2> QED
    BY <2>1, <2>2, SeqEqual
<1> QED
  BY <1>2, <1>3, <1>4

(* A copy taken on the way and again at the end, and one taken at the end  *)
(* only.                                                                   *)
LEMMA CopyOfALog ==
    ASSUME NEW rows \in Seq(Events), NEW n \in 0 .. Len(rows),
           NEW now, now = Replay(rows),
           NEW first, first = PersistGraph(NoCopy, Replay(SubSeq(rows, 1, n))),
           NEW again, again = LoadStored(PersistGraph(first, now)),
           NEW fresh, fresh = LoadStored(PersistGraph(NoCopy, now))
    PROVE  /\ Same(fresh, now)
           /\ again.nodes = now.nodes /\ ToSet(now.edges) \subseteq ToSet(again.edges)
           /\ Len(again.edges) # Len(now.edges) =>
                \E e \in ToSet(SubSeq(rows, n + 1, Len(rows))) : e.op \in {"unmerge", "delete"}
<1>1. PICK past, rest, g :
         /\ past = SubSeq(rows, 1, n) /\ rest = SubSeq(rows, n + 1, Len(rows))
         /\ g = Replay(past)
  OBVIOUS
<1>2. past \in Seq(Events) /\ rest \in Seq(Events) /\ rows = past \o rest
  <2>1. /\ SubSeq(rows, 1, n) \in Seq(Events) /\ SubSeq(rows, n + 1, Len(rows)) \in Seq(Events)
        /\ SubSeq(rows, 1, n) \o SubSeq(rows, n + 1, Len(rows)) = rows
    BY CutInTwo
  <2> QED
    BY <1>1, <2>1
<1>3. GraphIsTyped(EmptyGraph) /\ Rising(EmptyGraph)
  <2>1. GraphFits(EmptyGraph, {})
    BY EmptyGraphFits
  <2>2. EmptyGraph.edges = <<>> /\ Len(<<>>) = 0
    BY DEF EmptyGraph
  <2> QED
    BY <2>1, <2>2 DEF GraphFits, Rising
<1>4. GraphIsTyped(g) /\ Rising(g)
  BY <1>1, <1>2, <1>3, ApplyLater DEF Replay, Later
<1>5. now = Apply(g, rest)
  <2>1. Apply(EmptyGraph, past \o rest) = Apply(Apply(EmptyGraph, past), rest)
    BY <1>2, ApplyConcat
  <2> QED
    BY <1>1, <1>2, <2>1 DEF Replay
<1>6. /\ Later(g, now) /\ GraphIsTyped(now) /\ Rising(now)
      /\ (\A i \in 1 .. Len(rest) : rest[i].op \notin {"unmerge", "delete"}) => Gains(g, now)
  <2>1. Later(g, now)
    BY <1>2, <1>4, <1>5, ApplyLater
  <2> QED
    BY <1>2, <1>4, <1>5, <2>1, ApplyLater DEF Later
<1>7. PICK S, E, N : S = ToSet(g.edges) /\ E = ToSet(now.edges) /\ N = now.edgeSeq
  OBVIOUS
<1>8. N \in Nat /\ g.edgeSeq \in Nat /\ g.edgeSeq <= N
  BY <1>4, <1>6, <1>7 DEF GraphIsTyped, Later
<1>9. S \subseteq EdgeRecords /\ E \subseteq EdgeRecords
  <2>1. g.edges \in Seq(EdgeRecords) /\ now.edges \in Seq(EdgeRecords)
    BY <1>4, <1>6 DEF GraphIsTyped
  <2> QED
    BY <1>7, <2>1, ElementsOfASequence
<1>10. /\ \A x, y \in S : x.id = y.id => x = y
       /\ \A x \in S : x.id \in 1 .. g.edgeSeq
  BY <1>4, <1>7, RisingRelations
<1>11. /\ \A x, y \in E : x.id = y.id => x = y
       /\ \A x \in E : x.id \in 1 .. N
       /\ Cardinality(E) = Len(now.edges)
  BY <1>6, <1>7, RisingRelations
<1>12. ASSUME NEW x \in S, NEW y \in E, x.id = y.id PROVE x = y
  <2>1. y \in S \/ y.id > g.edgeSeq
    BY <1>6, <1>7 DEF Later
  <2>2. x.id \in 1 .. g.edgeSeq
    BY <1>10
  <2> QED
    BY <1>8, <1>10, <1>12, <2>1, <2>2
<1>13. Numbered(S \cup E, N)
  <2>1. S \cup E \subseteq EdgeRecords
    BY <1>9
  <2>2. \A x \in S \cup E : x.id \in 1 .. N
    BY <1>8, <1>10, <1>11
  <2>3. \A x, y \in S \cup E : x.id = y.id => x = y
    BY <1>10, <1>11, <1>12
  <2> QED
    BY <2>1, <2>2, <2>3 DEF Numbered
<1>14. Numbered({} \cup S, N) /\ Numbered({} \cup E, N)
  BY <1>13 DEF Numbered
<1>15. Files(NoCopy.edges, {}) /\ DOMAIN NoCopy.nodes = {}
  <2>1. NoCopy.edges = <<>> /\ NoCopy.nodes = <<>> /\ DOMAIN <<>> = {}
    BY DEF NoCopy
  <2> QED
    BY <2>1 DEF Files
<1>16. first.nodes = g.nodes /\ Files(first.edges, {} \cup S)
  BY <1>1, <1>4, <1>7, <1>8, <1>14, <1>15, PersistFiles
<1>17. PICK latest : latest = PersistGraph(NoCopy, now)
  OBVIOUS
<1>18. latest.nodes = now.nodes /\ Files(latest.edges, {} \cup E)
  BY <1>6, <1>7, <1>8, <1>14, <1>15, <1>17, PersistFiles
<1>19. PICK both : both = PersistGraph(first, now)
  OBVIOUS
<1>20. both.nodes = now.nodes /\ Files(both.edges, S \cup E)
  <2>1. DOMAIN first.nodes \subseteq DOMAIN now.nodes
    BY <1>6, <1>16 DEF Later
  <2>2. Files(first.edges, S)
    BY <1>16
  <2> QED
    BY <1>6, <1>7, <1>8, <1>13, <1>19, <2>1, <2>2, PersistFiles
<1>21. /\ fresh.nodes = now.nodes /\ ToSet(fresh.edges) = E
       /\ Len(fresh.edges) = Len(now.edges)
  <2>1. Numbered(E, N) /\ Files(latest.edges, E)
    BY <1>14, <1>18
  <2> QED
    BY <1>8, <1>11, <1>17, <1>18, <2>1, LoadsFiled
<1>22. /\ again.nodes = now.nodes /\ ToSet(again.edges) = S \cup E
       /\ Len(again.edges) = Cardinality(S \cup E)
  BY <1>8, <1>13, <1>19, <1>20, LoadsFiled
<1>23. Same(fresh, now)
  BY <1>7, <1>21 DEF Same, Relations
<1>24. ASSUME Len(again.edges) # Len(now.edges)
       PROVE  \E e \in ToSet(rest) : e.op \in {"unmerge", "delete"}
  <2>1. ~ (S \subseteq E)
    <3>1. S \subseteq E => S \cup E = E
      OBVIOUS
    <3> QED
      BY <1>11, <1>22, <1>24, <3>1
  <2>2. ~ Gains(g, now)
    BY <1>7, <2>1 DEF Gains
  <2>3. PICK i \in 1 .. Len(rest) : rest[i].op \in {"unmerge", "delete"}
    BY <1>6, <2>2
  <2>4. rest[i] \in ToSet(rest)
    BY <1>2, ElementsOfASequence
  <2> QED
    BY <2>3, <2>4
<1> QED
  BY <1>1, <1>7, <1>22, <1>23, <1>24

(* The copy in the graph store, wherever the log is cut.                   *)
LEMMA StoredIsThere == LedgerInv => StoredIsCurrent(Current)
<1> SUFFICES ASSUME LedgerInv PROVE StoredIsCurrent(Current)
  OBVIOUS
<1>1. log \in Seq(Rows)
  BY DEF LedgerInv, StateIsTyped
<1>2. PICK rows, now : rows = AllMutations /\ now = Current
  OBVIOUS
<1>3. rows \in Seq(Events) /\ now = Replay(rows) /\ Len(rows) \in Nat
  <2>1. Seen \subseteq Events /\ rows \in Seq(Seen)
    BY <1>1, <1>2, SeenEvents
  <2> QED
    BY <1>2, <2>1 DEF Current
<1>4. Same(LoadStored(PersistGraph(NoCopy, now)), now)
  BY <1>3, CopyOfALog
<1>5. ASSUME NEW n \in 0 .. Len(rows) - 1,
             NEW again,
             again = LoadStored(PersistGraph(PersistGraph(NoCopy, Replay(SubSeq(rows, 1, n))), now))
      PROVE  /\ again.nodes = now.nodes
             /\ ToSet(now.edges) \subseteq ToSet(again.edges)
             /\ Len(again.edges) # Len(now.edges) =>
                   \E e \in ToSet(SubSeq(rows, n + 1, Len(rows))) : e.op \in {"unmerge", "delete"}
  <2>1. n \in 0 .. Len(rows)
    BY <1>3
  <2>2. PICK first : first = PersistGraph(NoCopy, Replay(SubSeq(rows, 1, n)))
    OBVIOUS
  <2> QED
    BY <1>3, <1>5, <2>1, <2>2, CopyOfALog
<1> QED
  BY <1>2, <1>4, <1>5 DEF StoredIsCurrent

-------------------------------------------------------------------------------
(* What an event does, as sets: to one node, and to the relations.         *)

Touched(node, id, e, edges) ==
    CASE e.op = "merge_entity" /\ id = e.subject
           -> [node EXCEPT !.canonical = e.object, !.merged = TRUE]
      [] /\ e.op = "unmerge" /\ id = e.subject
         /\ ~ \E x \in edges : x.from = e.subject /\ x.type = "SAME_AS"
           -> [node EXCEPT !.canonical = NoId, !.merged = FALSE]
      [] e.op = "supersede" /\ id = e.object -> [node EXCEPT !.closed = TRUE]
      [] e.op = "delete" /\ id = e.subject   -> [node EXCEPT !.deleted = TRUE]
      [] OTHER                               -> node

Edge(g, type, from, to, ref) ==
    [id |-> g.edgeSeq + 1, type |-> type, from |-> from, to |-> to, ref |-> ref]

Left(edges, e) ==
    IF e.op = "unmerge"
    THEN {x \in edges : ~ (/\ x.from = e.subject /\ x.to = e.object
                           /\ x.type = "SAME_AS" => x.ref = e.ref)}
    ELSE IF e.op = "delete" THEN {x \in edges : e.subject \notin {x.from, x.to}}
    ELSE edges

Added(g, e) ==
    CASE e.op = "create_edge"  -> {Edge(g, e.ref, e.subject, e.object, NoId)}
      [] e.op = "merge_entity" -> {Edge(g, "SAME_AS", e.subject, e.object, e.ref)}
      [] e.op = "supersede"    -> {Edge(g, "SUPERSEDES", e.subject, e.object, NoId)}
      [] OTHER                 -> {}

(* The nodes an event needs are there.                                     *)
NeedsOf(e) ==
    CASE e.op \in {"create_edge", "merge_entity", "supersede"} -> {e.subject, e.object}
      [] e.op \in {"unmerge", "delete"}                        -> {e.subject}
      [] OTHER                                                 -> {}
Ready(nodes, e) == NeedsOf(e) \subseteq DOMAIN nodes

NodesDone(old, e, edges, new) ==
    /\ DOMAIN new = DOMAIN old \cup (IF e.op = "create_node" THEN {e.subject} ELSE {})
    /\ \A id \in DOMAIN old : new[id] = Touched(old[id], id, e, edges)
    /\ \A id \in DOMAIN new \ DOMAIN old : new[id] = NewNode

(* A node set to a value, one relation more, and some less.                *)
LEMMA SetNodeSets ==
    ASSUME NEW g, GraphIsTyped(g), NEW id \in Ids, NEW node, NEW h, h = SetNode(g, id, node)
    PROVE  /\ DOMAIN h.nodes = DOMAIN g.nodes \cup {id}
           /\ h.nodes[id] = node
           /\ \A i \in DOMAIN g.nodes : i # id => h.nodes[i] = g.nodes[i]
           /\ h.edges = g.edges /\ h.edgeSeq = g.edgeSeq
           /\ node \in NodeRecords => GraphIsTyped(h)
<1> DEFINE nodes == [i \in DOMAIN g.nodes \cup {id} |-> IF i = id THEN node ELSE g.nodes[i]]
<1>1. /\ DOMAIN h = DOMAIN g
      /\ h.nodes = nodes /\ h.edges = g.edges /\ h.edgeSeq = g.edgeSeq
  BY DEF SetNode, GraphIsTyped
<1>2. /\ DOMAIN nodes = DOMAIN g.nodes \cup {id} /\ nodes[id] = node
      /\ \A i \in DOMAIN g.nodes : i # id => nodes[i] = g.nodes[i]
  OBVIOUS
<1>3. node \in NodeRecords => nodes \in [DOMAIN nodes -> NodeRecords]
  BY DEF GraphIsTyped
<1> HIDE DEF nodes
<1>4. node \in NodeRecords => GraphIsTyped(h)
  BY <1>1, <1>2, <1>3 DEF GraphIsTyped
<1> QED
  BY <1>1, <1>2, <1>4

HasNow(h, g, x) ==
    /\ h.nodes = g.nodes /\ GraphIsTyped(h)
    /\ ToSet(h.edges) = ToSet(g.edges) \cup {x}

(* One relation more.                                                      *)
LEMMA AddEdgeSets ==
    ASSUME NEW g, GraphIsTyped(g), NEW type \in RelationTypes,
           NEW from \in Ids, NEW to \in Ids, NEW ref \in Ids \cup Nat \cup {NoId},
           NEW h, h = AddEdge(g, type, from, to, ref)
    PROVE  HasNow(h, g, Edge(g, type, from, to, ref))
<1>1. PICK x : x = Edge(g, type, from, to, ref)
  OBVIOUS
<1>2. g.edges \in Seq(EdgeRecords) /\ g.edgeSeq \in Nat
  BY DEF GraphIsTyped
<1>3. x \in EdgeRecords
  BY <1>1, <1>2 DEF Edge, EdgeRecords
<1>4. h.edges = Append(g.edges, x) /\ h.nodes = g.nodes
  BY <1>1 DEF AddEdge, GraphIsTyped, Edge
<1>5. ToSet(h.edges) = ToSet(g.edges) \cup {x}
  BY <1>2, <1>3, <1>4, ElementsOfAppend
<1>6. GraphIsTyped(h)
  BY AddEdgeFits DEF HasAlso
<1> QED
  BY <1>1, <1>4, <1>5, <1>6 DEF HasNow

(* And some less.                                                          *)
LEMMA DropEdgesSets ==
    ASSUME NEW g, GraphIsTyped(g), NEW dropped, NEW h, h = DropEdges(g, dropped)
    PROVE  h.nodes = g.nodes /\ ToSet(h.edges) = ToSet(g.edges) \ dropped /\ GraphIsTyped(h)
BY DropEdgesFits

-------------------------------------------------------------------------------
(* What an event does whose nodes are there.                               *)
LEMMA EffectSets ==
    ASSUME NEW g, GraphIsTyped(g), NEW e \in Events, Ready(g.nodes, e),
           NEW h, h = Effect(g, e)
    PROVE  /\ ToSet(h.edges) = Left(ToSet(g.edges), e) \cup Added(g, e)
           /\ NodesDone(g.nodes, e, ToSet(h.edges), h.nodes)
<1>1. /\ e.op \in Ops /\ e.subject \in Ids
      /\ e.ref \in Ids \cup Nat \cup {NoId}
      /\ e.op = "create_edge" => e.ref \in Claims /\ e.object \in Ids
      /\ e.op \in {"merge_entity", "unmerge", "supersede"} => e.object \in Ids
  BY EventFields
<1>2. /\ "SAME_AS" \in RelationTypes /\ "SUPERSEDES" \in RelationTypes /\ Claims \subseteq RelationTypes
      /\ NoId \in Ids \cup Nat \cup {NoId} /\ NoId \in Ids \cup {NoId}
  BY DEF RelationTypes
<1>3. \A id \in DOMAIN g.nodes : g.nodes[id] \in NodeRecords /\ id \in Ids
  BY DEF GraphIsTyped
<1>4. CASE e.op = "create_node"
  <2>1. h = CreateNode(g, e)
    BY <1>4 DEF Effect
  <2>2. Left(ToSet(g.edges), e) = ToSet(g.edges) /\ Added(g, e) = {}
    BY <1>4 DEF Left, Added
  <2>3. \A id, edges : Touched(g.nodes[id], id, e, edges) = g.nodes[id]
    BY <1>4 DEF Touched
  <2>4. CASE e.subject \in DOMAIN g.nodes
    <3>1. h = g
      BY <2>1, <2>4 DEF CreateNode, HasNode
    <3> QED
      BY <1>4, <2>2, <2>3, <2>4, <3>1 DEF NodesDone
  <2>5. CASE e.subject \notin DOMAIN g.nodes
    <3>1. h = SetNode(g, e.subject, NewNode)
      BY <2>1, <2>5 DEF CreateNode, HasNode
    <3>2. /\ DOMAIN h.nodes = DOMAIN g.nodes \cup {e.subject}
          /\ h.nodes[e.subject] = NewNode
          /\ \A i \in DOMAIN g.nodes : i # e.subject => h.nodes[i] = g.nodes[i]
          /\ h.edges = g.edges
      BY <1>1, <3>1, SetNodeSets
    <3> QED
      BY <1>4, <2>2, <2>3, <2>5, <3>2 DEF NodesDone
  <2> QED
    BY <2>4, <2>5
<1>5. CASE e.op = "create_edge"
  <2>1. h = AddEdge(g, e.ref, e.subject, e.object, NoId)
    BY <1>5 DEF Effect, CreateEdge, HasNode, Ready, NeedsOf
  <2>2. e.ref \in RelationTypes /\ e.object \in Ids
    BY <1>1, <1>2, <1>5
  <2>3. /\ h.nodes = g.nodes
        /\ ToSet(h.edges) = ToSet(g.edges) \cup {Edge(g, e.ref, e.subject, e.object, NoId)}
    <3>2. NoId \in Ids \cup Nat \cup {NoId}
      BY <1>2
    <3>3. HasNow(h, g, Edge(g, e.ref, e.subject, e.object, NoId))
      BY <1>1, <2>1, <2>2, <3>2, AddEdgeSets
    <3> QED
      BY <3>3 DEF HasNow
  <2>4. /\ Left(ToSet(g.edges), e) = ToSet(g.edges)
        /\ Added(g, e) = {Edge(g, e.ref, e.subject, e.object, NoId)}
    BY <1>5 DEF Left, Added
  <2>5. \A id, edges : Touched(g.nodes[id], id, e, edges) = g.nodes[id]
    BY <1>5 DEF Touched
  <2> QED
    BY <1>5, <2>3, <2>4, <2>5 DEF NodesDone
<1>6. CASE e.op = "merge_entity"
  <2>1. HasNode(g, e.subject) /\ HasNode(g, e.object) /\ e.object \in Ids
    BY <1>1, <1>6 DEF HasNode, Ready, NeedsOf
  <2>2. PICK node, f :
          /\ node = [g.nodes[e.subject] EXCEPT !.canonical = e.object, !.merged = TRUE]
          /\ f = SetNode(g, e.subject, node)
    OBVIOUS
  <2>3. h = AddEdge(f, "SAME_AS", e.subject, e.object, e.ref)
    BY <1>6, <2>1, <2>2 DEF Effect, Merge
  <2>4. /\ DOMAIN f.nodes = DOMAIN g.nodes \cup {e.subject} /\ f.nodes[e.subject] = node
        /\ \A i \in DOMAIN g.nodes : i # e.subject => f.nodes[i] = g.nodes[i]
        /\ f.edges = g.edges /\ f.edgeSeq = g.edgeSeq
        /\ node \in NodeRecords => GraphIsTyped(f)
    <3>1. f = SetNode(g, e.subject, node)
      BY <2>2
    <3> QED
      BY <1>1, <3>1, SetNodeSets
  <2>5. GraphIsTyped(f)
    <3>1. node \in NodeRecords
      BY <1>3, <2>1, <2>2, NodeUpdates DEF HasNode
    <3> QED
      BY <2>4, <3>1
  <2>6. /\ h.nodes = f.nodes
        /\ ToSet(h.edges) = ToSet(g.edges) \cup {Edge(g, "SAME_AS", e.subject, e.object, e.ref)}
    <3>2. HasNow(h, f, Edge(f, "SAME_AS", e.subject, e.object, e.ref))
      BY <1>1, <1>2, <2>1, <2>3, <2>5, AddEdgeSets
    <3>3. Edge(f, "SAME_AS", e.subject, e.object, e.ref) = Edge(g, "SAME_AS", e.subject, e.object, e.ref)
      BY <2>4 DEF Edge
    <3> QED
      BY <2>4, <3>2, <3>3 DEF HasNow
  <2>7. /\ Left(ToSet(g.edges), e) = ToSet(g.edges)
        /\ Added(g, e) = {Edge(g, "SAME_AS", e.subject, e.object, e.ref)}
    BY <1>6 DEF Left, Added
  <2>8. \A id, edges : Touched(g.nodes[id], id, e, edges) = IF id = e.subject THEN node ELSE g.nodes[id]
    BY <1>6, <2>2 DEF Touched
  <2>9. DOMAIN h.nodes = DOMAIN g.nodes
    BY <2>1, <2>4, <2>6 DEF HasNode
  <2>10. \A id \in DOMAIN g.nodes : h.nodes[id] = Touched(g.nodes[id], id, e, ToSet(h.edges))
    BY <2>4, <2>6, <2>8
  <2> QED
    BY <1>6, <2>6, <2>7, <2>9, <2>10 DEF NodesDone
<1>7. CASE e.op = "unmerge"
  <2>1. HasNode(g, e.subject)
    BY <1>7 DEF HasNode, Ready, NeedsOf
  <2>2. PICK left, node :
          /\ left = DropEdges(g, Undone(g, e))
          /\ node = [g.nodes[e.subject] EXCEPT !.canonical = NoId, !.merged = FALSE]
    OBVIOUS
  <2>3. left.nodes = g.nodes /\ ToSet(left.edges) = ToSet(g.edges) \ Undone(g, e) /\ GraphIsTyped(left)
    BY <2>2, DropEdgesSets
  <2>4. ToSet(left.edges) = Left(ToSet(g.edges), e) /\ Added(g, e) = {}
    BY <1>7, <2>3 DEF Left, Added, Undone
  <2>5. CASE \E x \in ToSet(left.edges) : x.from = e.subject /\ x.type = "SAME_AS"
    <3>1. h = left
      BY <1>7, <2>1, <2>2, <2>5 DEF Effect, Unmerge
    <3>2. \A id : Touched(g.nodes[id], id, e, ToSet(h.edges)) = g.nodes[id]
      BY <1>7, <2>5, <3>1 DEF Touched
    <3> QED
      BY <1>7, <2>3, <2>4, <3>1, <3>2 DEF NodesDone
  <2>6. CASE ~ \E x \in ToSet(left.edges) : x.from = e.subject /\ x.type = "SAME_AS"
    <3>1. h = SetNode(left, e.subject, node)
      BY <1>7, <2>1, <2>2, <2>6 DEF Effect, Unmerge
    <3>2. /\ DOMAIN h.nodes = DOMAIN g.nodes \cup {e.subject} /\ h.nodes[e.subject] = node
          /\ \A i \in DOMAIN g.nodes : i # e.subject => h.nodes[i] = g.nodes[i]
          /\ h.edges = left.edges
      BY <1>1, <2>3, <3>1, SetNodeSets
    <3>3. \A id : Touched(g.nodes[id], id, e, ToSet(h.edges)) = IF id = e.subject THEN node ELSE g.nodes[id]
      BY <1>7, <2>2, <2>6, <3>2 DEF Touched
    <3>4. DOMAIN h.nodes = DOMAIN g.nodes
      BY <2>1, <3>2 DEF HasNode
    <3>5. \A id \in DOMAIN g.nodes : h.nodes[id] = Touched(g.nodes[id], id, e, ToSet(h.edges))
      BY <3>2, <3>3
    <3> QED
      BY <1>7, <2>4, <3>2, <3>4, <3>5 DEF NodesDone
  <2> QED
    BY <2>5, <2>6
<1>8. CASE e.op = "supersede"
  <2>1. HasNode(g, e.subject) /\ HasNode(g, e.object) /\ e.object \in Ids
    BY <1>1, <1>8 DEF HasNode, Ready, NeedsOf
  <2>2. PICK node, f :
          /\ node = [g.nodes[e.object] EXCEPT !.closed = TRUE]
          /\ f = AddEdge(g, "SUPERSEDES", e.subject, e.object, NoId)
    OBVIOUS
  <2>3. h = SetNode(f, e.object, node)
    BY <1>8, <2>1, <2>2 DEF Effect, Supersede
  <2>4. /\ f.nodes = g.nodes /\ GraphIsTyped(f)
        /\ ToSet(f.edges) = ToSet(g.edges) \cup {Edge(g, "SUPERSEDES", e.subject, e.object, NoId)}
    <3>1. f = AddEdge(g, "SUPERSEDES", e.subject, e.object, NoId)
      BY <2>2
    <3>3. "SUPERSEDES" \in RelationTypes /\ NoId \in Ids \cup Nat \cup {NoId}
      BY <1>2
    <3>4. HasNow(f, g, Edge(g, "SUPERSEDES", e.subject, e.object, NoId))
      BY <1>1, <2>1, <3>1, <3>3, AddEdgeSets
    <3> QED
      BY <3>4 DEF HasNow
  <2>5. /\ DOMAIN h.nodes = DOMAIN g.nodes \cup {e.object} /\ h.nodes[e.object] = node
        /\ \A i \in DOMAIN g.nodes : i # e.object => h.nodes[i] = g.nodes[i]
        /\ h.edges = f.edges
    BY <2>1, <2>3, <2>4, SetNodeSets
  <2>6. /\ Left(ToSet(g.edges), e) = ToSet(g.edges)
        /\ Added(g, e) = {Edge(g, "SUPERSEDES", e.subject, e.object, NoId)}
    BY <1>8 DEF Left, Added
  <2>7. \A id, edges : Touched(g.nodes[id], id, e, edges) = IF id = e.object THEN node ELSE g.nodes[id]
    BY <1>8, <2>2 DEF Touched
  <2>8. DOMAIN h.nodes = DOMAIN g.nodes
    BY <2>1, <2>5 DEF HasNode
  <2>9. \A id \in DOMAIN g.nodes : h.nodes[id] = Touched(g.nodes[id], id, e, ToSet(h.edges))
    BY <2>5, <2>7
  <2> QED
    BY <1>8, <2>4, <2>5, <2>6, <2>8, <2>9 DEF NodesDone
<1>9. CASE e.op = "delete"
  <2>1. HasNode(g, e.subject)
    BY <1>9 DEF HasNode, Ready, NeedsOf
  <2>2. PICK node, f, dropped :
          /\ node = [g.nodes[e.subject] EXCEPT !.deleted = TRUE]
          /\ f = SetNode(g, e.subject, node)
          /\ dropped = {x \in ToSet(g.edges) : e.subject \in {x.from, x.to}}
    OBVIOUS
  <2>3. h = DropEdges(f, dropped)
    BY <1>9, <2>1, <2>2 DEF Effect, Delete
  <2>4. /\ DOMAIN f.nodes = DOMAIN g.nodes \cup {e.subject} /\ f.nodes[e.subject] = node
        /\ \A i \in DOMAIN g.nodes : i # e.subject => f.nodes[i] = g.nodes[i]
        /\ f.edges = g.edges
        /\ node \in NodeRecords => GraphIsTyped(f)
    <3>1. f = SetNode(g, e.subject, node)
      BY <2>2
    <3> QED
      BY <1>1, <3>1, SetNodeSets
  <2>5. GraphIsTyped(f)
    <3>1. node \in NodeRecords
      BY <1>3, <2>1, <2>2, NodeUpdates DEF HasNode
    <3> QED
      BY <2>4, <3>1
  <2>6. h.nodes = f.nodes /\ ToSet(h.edges) = ToSet(g.edges) \ dropped
    BY <2>3, <2>4, <2>5, DropEdgesSets
  <2>7. ToSet(h.edges) = Left(ToSet(g.edges), e) /\ Added(g, e) = {}
    BY <1>9, <2>2, <2>6 DEF Left, Added
  <2>8. \A id, edges : Touched(g.nodes[id], id, e, edges) = IF id = e.subject THEN node ELSE g.nodes[id]
    BY <1>9, <2>2 DEF Touched
  <2>9. DOMAIN h.nodes = DOMAIN g.nodes
    BY <2>1, <2>4, <2>6 DEF HasNode
  <2>10. \A id \in DOMAIN g.nodes : h.nodes[id] = Touched(g.nodes[id], id, e, ToSet(h.edges))
    BY <2>4, <2>6, <2>8
  <2> QED
    BY <1>9, <2>7, <2>9, <2>10 DEF NodesDone
<1> QED
  BY <1>1, <1>4, <1>5, <1>6, <1>7, <1>8, <1>9 DEF Ops

(* An event whose nodes are missing does nothing to either.                *)
LEMMA NothingIsDone ==
    ASSUME NEW g, GraphIsTyped(g), NEW e \in Events, ~ Ready(g.nodes, e),
           NEW h, h = Effect(g, e)
    PROVE  h.nodes = g.nodes /\ h.edges = g.edges
<1>1. e.op \in Ops
  BY EventFields
<1>2. \A type : LET q == Quarantine(g, type, e) IN q.nodes = g.nodes /\ q.edges = g.edges
  BY DEF Quarantine, GraphIsTyped
<1>3. e.op # "create_node"
  BY DEF Ready, NeedsOf
<1>4. CASE e.op \in {"create_edge", "merge_entity", "supersede"}
  <2>1. ~ (HasNode(g, e.subject) /\ HasNode(g, e.object))
    BY <1>4 DEF HasNode, Ready, NeedsOf
  <2>2. CASE e.op = "create_edge"
    BY <1>2, <2>1, <2>2 DEF Effect, CreateEdge
  <2>3. CASE e.op = "merge_entity"
    BY <1>2, <2>1, <2>3 DEF Effect, Merge
  <2>4. CASE e.op = "supersede"
    BY <2>1, <2>4 DEF Effect, Supersede
  <2> QED
    BY <1>4, <2>2, <2>3, <2>4
<1>5. CASE e.op \in {"unmerge", "delete"}
  <2>1. ~ HasNode(g, e.subject)
    BY <1>5 DEF HasNode, Ready, NeedsOf
  <2>2. CASE e.op = "unmerge"
    BY <2>1, <2>2 DEF Effect, Unmerge
  <2>3. CASE e.op = "delete"
    BY <2>1, <2>3 DEF Effect, Delete
  <2> QED
    BY <1>5, <2>2, <2>3
<1> QED
  BY <1>1, <1>3, <1>4, <1>5 DEF Ops

(* What is there has come of an event: a relation's nodes, a claim's       *)
(* relation without a reference, and a node of an event that was applied.  *)
Rooted(g) ==
    /\ \A x \in ToSet(g.edges) : x.from \in DOMAIN g.nodes /\ x.to \in DOMAIN g.nodes
    /\ \A x \in ToSet(g.edges) : x.type \in Claims => x.ref = NoId
    /\ \A id \in DOMAIN g.nodes :
          <<"create_node", id>> \in g.applied \/ <<"create_entity", id>> \in g.applied

(* An event leaves a graph in which everything has come of an event.       *)
LEMMA ApplyEventRoots ==
    ASSUME NEW g, GraphIsTyped(g), Rising(g), Rooted(g), NEW e \in Events, NEW h, h = ApplyEvent(g, e)
    PROVE  Rooted(h) /\ h.applied = g.applied \cup {e.key}
<1>1. CASE e.key \in g.applied
  BY <1>1, AppliedBefore
<1>2. CASE e.key \notin g.applied
  <2>1. PICK f : f = Effect(g, e)
    OBVIOUS
  <2>2. h = Marked(f, e)
    BY <1>2, <2>1 DEF ApplyEvent, Marked
  <2>3. e.op \in Ops
    BY EventFields
  <2>4. GraphIsTyped(f)
    BY <2>1, EffectLater DEF Later
  <2>5. f.applied = g.applied
    BY <2>1, <2>3, EffectMarksNothing
  <2>6. h.applied = g.applied \cup {e.key} /\ h.nodes = f.nodes /\ h.edges = f.edges
    <3>1. /\ h.applied = f.applied \cup {e.key}
          /\ h.nodes = f.nodes /\ h.edges = f.edges
      BY <2>2, <2>4 DEF Marked, GraphIsTyped
    <3> QED
      BY <2>5, <3>1
  <2>7. CASE ~ Ready(g.nodes, e)
    <3>1. f.nodes = g.nodes /\ f.edges = g.edges
      BY <2>1, <2>7, NothingIsDone
    <3> QED
      BY <2>6, <3>1 DEF Rooted
  <2>8. CASE Ready(g.nodes, e)
    <3>1. PICK E, D : E = ToSet(g.edges) /\ D = ToSet(f.edges)
      OBVIOUS
    <3>2. D = Left(E, e) \cup Added(g, e) /\ NodesDone(g.nodes, e, D, f.nodes)
      BY <2>1, <2>8, <3>1, EffectSets
    <3>3. Left(E, e) \subseteq E
      BY DEF Left
    <3>4. \A x \in Added(g, e) :
             /\ x.from \in DOMAIN g.nodes /\ x.to \in DOMAIN g.nodes
             /\ x.type \in Claims => x.ref = NoId
      BY <2>8, LedgerAssumption DEF Added, Edge, Ready, NeedsOf
    <3>5. DOMAIN g.nodes \subseteq DOMAIN f.nodes
      BY <3>2 DEF NodesDone
    <3>6. ASSUME NEW id \in DOMAIN f.nodes, id \notin DOMAIN g.nodes
          PROVE  e.key = <<"create_node", id>> \/ e.key = <<"create_entity", id>>
      <4>1. e.op = "create_node" /\ id = e.subject
        BY <3>2, <3>6 DEF NodesDone
      <4>2. e \in NodeEvents
        BY <4>1, EventFields
      <4> QED
        BY <4>1, <4>2 DEF NodeEvents, Node, Event
    <3>7. \A x \in D : /\ x.from \in DOMAIN f.nodes /\ x.to \in DOMAIN f.nodes
                       /\ x.type \in Claims => x.ref = NoId
      <4>1. \A x \in E : /\ x.from \in DOMAIN g.nodes /\ x.to \in DOMAIN g.nodes
                         /\ x.type \in Claims => x.ref = NoId
        BY <3>1 DEF Rooted
      <4> QED
        BY <3>2, <3>3, <3>4, <3>5, <4>1
    <3>8. \A id \in DOMAIN f.nodes :
             <<"create_node", id>> \in h.applied \/ <<"create_entity", id>> \in h.applied
      <4>1. \A id \in DOMAIN g.nodes :
               <<"create_node", id>> \in g.applied \/ <<"create_entity", id>> \in g.applied
        BY DEF Rooted
      <4> QED
        BY <2>6, <3>6, <4>1
    <3> QED
      BY <2>6, <3>1, <3>7, <3>8 DEF Rooted
  <2> QED
    BY <2>6, <2>7, <2>8
<1> QED
  BY <1>1, <1>2

(* So do many.                                                             *)
LEMMA ApplyRoots ==
    ASSUME NEW g, GraphIsTyped(g), Rising(g), Rooted(g), NEW rows \in Seq(Events)
    PROVE  Rooted(Apply(g, rows))
<1> DEFINE a(n) == After(g, rows, n)
           Good(n) == GraphIsTyped(a(n)) /\ Rising(a(n)) /\ Rooted(a(n))
           Bad == {n \in 0 .. Len(rows) : ~ Good(n)}
<1>1. /\ a(0) = g
      /\ \A n \in 1 .. Len(rows) : a(n) = ApplyEvent(a(n - 1), rows[n])
      /\ a(Len(rows)) = Apply(g, rows)
  BY AppliedOneByOne
<1> HIDE DEF a
<1>2. Len(rows) \in Nat
  OBVIOUS
<1>3. Bad = {}
  <2> SUFFICES ASSUME Bad # {} PROVE FALSE
    OBVIOUS
  <2>1. Bad \subseteq Nat
    BY <1>2
  <2> HIDE DEF Bad
  <2>2. PICK m \in Bad : \A k \in Bad : m <= k
    BY <2>1, LeastNatural
  <2>3. m \in 0 .. Len(rows) /\ ~ Good(m)
    BY <2>2 DEF Bad
  <2>4. m # 0
    BY <1>1, <2>3
  <2>5. m - 1 \in 0 .. Len(rows) /\ m - 1 \notin Bad /\ m \in 1 .. Len(rows)
    BY <1>2, <2>2, <2>3, <2>4
  <2>6. Good(m - 1)
    BY <2>5 DEF Bad
  <2>7. PICK f, h : f = a(m - 1) /\ h = a(m)
    OBVIOUS
  <2>8. h = ApplyEvent(f, rows[m]) /\ rows[m] \in Events
    BY <1>1, <2>5, <2>7
  <2>9. GraphIsTyped(f) /\ Rising(f) /\ Rooted(f)
    BY <2>6, <2>7
  <2>10. GraphIsTyped(h) /\ Rising(h)
    BY <2>8, <2>9, ApplyEventLater DEF Later
  <2>11. Rooted(h)
    BY <2>8, <2>9, ApplyEventRoots
  <2> QED
    BY <2>3, <2>7, <2>10, <2>11
<1>4. Good(Len(rows))
  BY <1>2, <1>3
<1> QED
  BY <1>1, <1>4

-------------------------------------------------------------------------------
(* The explorer: a relation of two nodes for each pair of nodes that has   *)
(* one.                                                                    *)
EndsOf(edges) == {Ends(x) : x \in edges}

Joined(nodes, g, events) ==
    /\ GraphIsTyped(g) /\ g.nodes = nodes
    /\ \A x \in ToSet(g.edges) : \E e \in events : PairOf(e) = Ends(x)
    /\ \A key \in g.applied : \E x \in ToSet(g.edges) : key = <<"re", x.from, x.to>>

AreRelations(events, nodes) ==
    \A e \in events :
       /\ e.op = "create_edge" /\ e.key = <<"re", e.subject, e.object>>
       /\ e.ref \in RelationTypes
       /\ e.subject \in DOMAIN nodes /\ e.object \in DOMAIN nodes

(* A relation read back joins its nodes, unless they are joined in that    *)
(* direction.                                                              *)
LEMMA RelationJoins ==
    ASSUME NEW nodes, NEW events,
           AreRelations(events, nodes),
           NEW g, Joined(nodes, g, events), NEW e \in events, NEW h, h = ApplyEvent(g, e)
    PROVE  /\ Joined(nodes, h, events)
           /\ h.applied = g.applied \cup {e.key}
<1>0. /\ e.op = "create_edge" /\ e.key = <<"re", e.subject, e.object>>
      /\ e.ref \in RelationTypes
      /\ e.subject \in DOMAIN nodes /\ e.object \in DOMAIN nodes
  BY DEF AreRelations
<1>1. CASE e.key \in g.applied
  BY <1>1, AppliedBefore
<1>2. CASE e.key \notin g.applied
  <2>1. PICK f : f = Effect(g, e)
    OBVIOUS
  <2>2. h = Marked(f, e)
    BY <1>2, <2>1 DEF ApplyEvent, Marked
  <2>3. e.op \in Ops /\ GraphIsTyped(g) /\ g.nodes = nodes
    BY <1>0 DEF Ops, Joined
  <2>4. f.applied = g.applied
    BY <2>1, <2>3, EffectMarksNothing
  <2>5. f = AddEdge(g, e.ref, e.subject, e.object, NoId)
    <3>1. f = CreateEdge(g, e)
      BY <1>0, <2>1 DEF Effect
    <3> QED
      BY <1>0, <2>3, <3>1 DEF CreateEdge, HasNode
  <2>6. HasNow(f, g, Edge(g, e.ref, e.subject, e.object, NoId))
    <3>1. e.subject \in Ids /\ e.object \in Ids /\ e.ref \in RelationTypes
      BY <1>0, <2>3 DEF GraphIsTyped
    <3>2. NoId \in Ids \cup Nat \cup {NoId}
      OBVIOUS
    <3> QED
      BY <2>3, <2>5, <3>1, <3>2, AddEdgeSets
  <2>7. /\ h.applied = g.applied \cup {e.key} /\ GraphIsTyped(h)
        /\ h.nodes = f.nodes /\ h.edges = f.edges
    <3>1. GraphIsTyped(f)
      BY <2>6 DEF HasNow
    <3>2. /\ h.applied = f.applied \cup {e.key} /\ GraphIsTyped(h)
          /\ h.nodes = f.nodes /\ h.edges = f.edges
      BY <2>2, <3>1 DEF Marked, GraphIsTyped
    <3> QED
      BY <2>4, <3>2
  <2>8. PICK x, E, D : /\ x = Edge(g, e.ref, e.subject, e.object, NoId)
                       /\ E = ToSet(g.edges) /\ D = ToSet(h.edges)
    OBVIOUS
  <2>9. D = E \cup {x} /\ h.nodes = nodes
    BY <2>3, <2>6, <2>7, <2>8 DEF HasNow
  <2>10. x.from = e.subject /\ x.to = e.object
    BY <2>8 DEF Edge
  <2>11. \A y \in D : \E a \in events : PairOf(a) = Ends(y)
    <3>1. PairOf(e) = Ends(x)
      BY <2>10 DEF PairOf, Ends
    <3>2. \A y \in E : \E a \in events : PairOf(a) = Ends(y)
      BY <2>8 DEF Joined
    <3> QED
      BY <2>9, <3>1, <3>2
  <2>12. \A key \in h.applied : \E y \in D : key = <<"re", y.from, y.to>>
    <3>1. e.key = <<"re", x.from, x.to>>
      BY <1>0, <2>10
    <3>2. \A key \in g.applied : \E y \in E : key = <<"re", y.from, y.to>>
      BY <2>8 DEF Joined
    <3> QED
      BY <2>7, <2>9, <3>1, <3>2
  <2> QED
    BY <2>7, <2>8, <2>9, <2>11, <2>12 DEF Joined
<1> QED
  BY <1>1, <1>2

(* So do many.                                                             *)
LEMMA RelationsJoin ==
    ASSUME NEW nodes, NEW events,
           AreRelations(events, nodes),
           NEW g, Joined(nodes, g, events), NEW rows \in Seq(events)
    PROVE  /\ Joined(nodes, Apply(g, rows), events)
           /\ \A i \in 1 .. Len(rows) : rows[i].key \in Apply(g, rows).applied
<1> DEFINE a(n) == After(g, rows, n)
           Good(n) == /\ Joined(nodes, a(n), events)
                      /\ \A i \in 1 .. n : rows[i].key \in a(n).applied
           Bad == {n \in 0 .. Len(rows) : ~ Good(n)}
<1>1. /\ a(0) = g
      /\ \A n \in 1 .. Len(rows) : a(n) = ApplyEvent(a(n - 1), rows[n])
      /\ a(Len(rows)) = Apply(g, rows)
  BY AppliedOneByOne
<1> HIDE DEF a
<1>2. Len(rows) \in Nat
  OBVIOUS
<1>3. Bad = {}
  <2> SUFFICES ASSUME Bad # {} PROVE FALSE
    OBVIOUS
  <2>1. Bad \subseteq Nat
    BY <1>2
  <2> HIDE DEF Bad
  <2>2. PICK m \in Bad : \A k \in Bad : m <= k
    BY <2>1, LeastNatural
  <2>3. m \in 0 .. Len(rows) /\ ~ Good(m)
    BY <2>2 DEF Bad
  <2>4. m # 0
    BY <1>1, <2>3
  <2>5. m - 1 \in 0 .. Len(rows) /\ m - 1 \notin Bad /\ m \in 1 .. Len(rows)
    BY <1>2, <2>2, <2>3, <2>4
  <2>6. Good(m - 1)
    BY <2>5 DEF Bad
  <2>7. PICK f, h : f = a(m - 1) /\ h = a(m)
    OBVIOUS
  <2>8. h = ApplyEvent(f, rows[m]) /\ rows[m] \in events
    BY <1>1, <2>5, <2>7
  <2>9. Joined(nodes, f, events) /\ \A i \in 1 .. m - 1 : rows[i].key \in f.applied
    BY <2>6, <2>7
  <2>10. Joined(nodes, h, events) /\ h.applied = f.applied \cup {rows[m].key}
    BY <2>8, <2>9, RelationJoins
  <2>11. \A i \in 1 .. m : i \in 1 .. m - 1 \/ i = m
    BY <2>5
  <2>12. \A i \in 1 .. m : rows[i].key \in h.applied
    BY <2>9, <2>10, <2>11
  <2> QED
    BY <2>3, <2>7, <2>10, <2>12
<1>4. Good(Len(rows))
  BY <1>2, <1>3
<1> QED
  BY <1>1, <1>4

(* What is read back has the nodes, and joins the same of them.            *)
LEMMA ExplorerJoins ==
    ASSUME NEW g, GraphIsTyped(g), Rising(g), Rooted(g), NEW back,
           back = ReconstructGraph(LoadExplorer(NoExplorer, g))
    PROVE  /\ back.nodes = g.nodes
           /\ EndsOf(ToSet(back.edges)) = EndsOf(ToSet(g.edges))
<1> DEFINE E == ToSet(g.edges)
           Shown(x) == [type |-> x.type, from |-> x.from, to |-> x.to]
           R == {Shown(x) : x \in E}
           s == SetToSeq(R)
           RelationEvent(r) == Event(<<"re", r.from, r.to>>, "create_edge", r.from, r.to, r.type)
           events == {RelationEvent(r) : r \in R}
           rows == [i \in DOMAIN s |-> RelationEvent(s[i])]
           start == [EmptyGraph EXCEPT !.nodes = g.nodes]
<1>1. IsFiniteSet(E) /\ E \subseteq EdgeRecords
  <2>1. g.edges \in Seq(EdgeRecords)
    BY DEF GraphIsTyped
  <2> QED
    BY <2>1, RisingRelations, ElementsOfASequence
<1>2. \A x \in E : /\ x.from \in DOMAIN g.nodes /\ x.to \in DOMAIN g.nodes
                   /\ x.type \in RelationTypes
  BY <1>1 DEF Rooted, EdgeRecords
<1>3. back = Apply(start, rows)
  <2>1. PICK x : x = LoadExplorer(NoExplorer, g)
    OBVIOUS
  <2>2. x.nodes = g.nodes
    <3>1. NoExplorer.nodes = <<>> /\ DOMAIN <<>> = {}
      BY DEF NoExplorer
    <3>2. g.nodes = [id \in DOMAIN g.nodes |-> g.nodes[id]]
      BY DEF GraphIsTyped
    <3> QED
      BY <2>1, <3>1, <3>2 DEF LoadExplorer, Filed
  <2>3. x.relations = R
    <3>1. NoExplorer.relations = {}
      BY DEF NoExplorer
    <3>2. {y \in ToSet(g.edges) : HasNode(g, y.from) /\ HasNode(g, y.to)} = E
      BY <1>2 DEF HasNode
    <3> QED
      BY <2>1, <3>1, <3>2 DEF LoadExplorer
  <2>4. back = ReconstructGraph(x)
    BY <2>1
  <2> QED
    BY <2>2, <2>3, <2>4 DEF ReconstructGraph
<1>4. IsFiniteSet(R)
  <2> HIDE DEF E, Shown
  <2>1. PICK f : f = [x \in E |-> Shown(x)]
    OBVIOUS
  <2>2. f \in Surjection(E, R)
    BY <2>1 DEF Surjection
  <2> HIDE DEF R
  <2> QED
    BY <1>1, <2>2, FS_Surjection
<1>5. /\ s \in Seq(R)
      /\ \A r \in R : \E i \in 1 .. Len(s) : s[i] = r
  <2> HIDE DEF R
  <2> QED
    BY <1>4, ListOfASet
<1>6. AreRelations(events, g.nodes)
  BY <1>2 DEF AreRelations, Event
<1>7. /\ rows \in Seq(events) /\ Len(rows) = Len(s)
      /\ \A i \in 1 .. Len(s) : rows[i] = RelationEvent(s[i])
  <2> HIDE DEF R, s, RelationEvent
  <2>1. Len(s) \in Nat /\ DOMAIN s = 1 .. Len(s)
    BY <1>5
  <2>2. rows = [i \in 1 .. Len(s) |-> RelationEvent(s[i])]
    BY <2>1
  <2>3. \A i \in 1 .. Len(s) : RelationEvent(s[i]) \in events
    BY <1>5
  <2> HIDE DEF rows, events
  <2> QED
    BY <2>1, <2>2, <2>3
<1>8. Joined(g.nodes, start, events)
  <2>1. GraphIsTyped(start) /\ start.nodes = g.nodes /\ start.edges = <<>> /\ start.applied = {}
    <3>1. GraphFits(EmptyGraph, {})
      BY EmptyGraphFits
    <3> QED
      BY <3>1 DEF GraphFits, GraphIsTyped, EmptyGraph
  <2>2. ToSet(<<>>) = {}
    BY DEF ToSet
  <2> QED
    BY <2>1, <2>2 DEF Joined
<1> HIDE DEF E, R, s, events, rows, start
<1>9. /\ Joined(g.nodes, back, events)
      /\ \A i \in 1 .. Len(rows) : rows[i].key \in back.applied
  BY <1>3, <1>6, <1>7, <1>8, RelationsJoin
<1>10. \A e \in events : \E x \in E : PairOf(e) = Ends(x)
  BY DEF events, R, PairOf, Ends, Event
<1>11. \A x \in E : \E y \in ToSet(back.edges) : Ends(y) = Ends(x)
  <2> TAKE x \in E
  <2>1. PICK r : r = Shown(x)
    OBVIOUS
  <2>2. r \in R /\ r.from = x.from /\ r.to = x.to
    BY <2>1 DEF R
  <2>3. PICK i \in 1 .. Len(s) : s[i] = r
    BY <1>5, <2>2
  <2>4. rows[i].key = <<"re", x.from, x.to>> /\ i \in 1 .. Len(rows)
    <3>1. rows[i] = RelationEvent(r) /\ i \in 1 .. Len(rows)
      BY <1>7, <2>3
    <3>2. RelationEvent(r).key = <<"re", r.from, r.to>>
      BY DEF Event
    <3> QED
      BY <2>2, <3>1, <3>2
  <2>5. PICK y \in ToSet(back.edges) : rows[i].key = <<"re", y.from, y.to>>
    BY <1>9, <2>4 DEF Joined
  <2> QED
    BY <2>4, <2>5 DEF Ends
<1>12. \A y \in ToSet(back.edges) : \E x \in E : Ends(y) = Ends(x)
  BY <1>9, <1>10 DEF Joined
<1> QED
  BY <1>9, <1>11, <1>12 DEF Joined, EndsOf, E

(* Neighbours depend on which nodes are joined only.                       *)
LEMMA NeighborsAreEnds ==
    ASSUME NEW g, NEW h, EndsOf(ToSet(g.edges)) = EndsOf(ToSet(h.edges)), NEW id
    PROVE  QueryNeighbors(g, id) = QueryNeighbors(h, id)
<1>1. \A f : QueryNeighbors(f, id) = {n[2] : n \in {m \in EndsOf(ToSet(f.edges)) : m[1] = id}}
                                       \cup {n[1] : n \in {m \in EndsOf(ToSet(f.edges)) : m[2] = id}}
  <2> TAKE f
  <2>1. PICK E, N : E = ToSet(f.edges) /\ N = EndsOf(E)
    OBVIOUS
  <2>2. /\ \A x \in E : <<x.from, x.to>> \in N
        /\ \A n \in N : \E x \in E : n = <<x.from, x.to>>
    BY <2>1 DEF EndsOf, Ends
  <2>3. {x.to : x \in {y \in E : y.from = id}} = {n[2] : n \in {m \in N : m[1] = id}}
    <3>1. ASSUME NEW x \in E, x.from = id
          PROVE  \E n \in N : n[1] = id /\ n[2] = x.to
      <4>1. <<x.from, x.to>> \in N /\ <<x.from, x.to>>[1] = id /\ <<x.from, x.to>>[2] = x.to
        BY <2>2, <3>1
      <4> QED
        BY <4>1
    <3>2. ASSUME NEW n \in N, n[1] = id
          PROVE  \E x \in E : x.from = id /\ x.to = n[2]
      BY <2>2, <3>2
    <3> QED
      BY <3>1, <3>2
  <2>4. {x.from : x \in {y \in E : y.to = id}} = {n[1] : n \in {m \in N : m[2] = id}}
    <3>1. ASSUME NEW x \in E, x.to = id
          PROVE  \E n \in N : n[2] = id /\ n[1] = x.from
      <4>1. <<x.from, x.to>> \in N /\ <<x.from, x.to>>[2] = id /\ <<x.from, x.to>>[1] = x.from
        BY <2>2, <3>1
      <4> QED
        BY <4>1
    <3>2. ASSUME NEW n \in N, n[2] = id
          PROVE  \E x \in E : x.to = id /\ x.from = n[1]
      BY <2>2, <3>2
    <3> QED
      BY <3>1, <3>2
  <2> QED
    BY <2>1, <2>3, <2>4 DEF QueryNeighbors
<1> QED
  BY <1>1

(* What is replayed is typed, numbered and has come of events.             *)
LEMMA ReplayIsRooted ==
    ASSUME NEW rows \in Seq(Events)
    PROVE  GraphIsTyped(Replay(rows)) /\ Rising(Replay(rows)) /\ Rooted(Replay(rows))
<1>1. GraphIsTyped(EmptyGraph) /\ Rising(EmptyGraph) /\ Rooted(EmptyGraph)
  <2>1. GraphFits(EmptyGraph, {})
    BY EmptyGraphFits
  <2>2. /\ EmptyGraph.edges = <<>> /\ Len(<<>>) = 0 /\ ToSet(<<>>) = {}
        /\ EmptyGraph.nodes = <<>> /\ DOMAIN <<>> = {}
    BY DEF EmptyGraph, ToSet
  <2> QED
    BY <2>1, <2>2 DEF GraphFits, Rising, Rooted
<1> QED
  BY <1>1, ApplyLater, ApplyRoots DEF Replay, Later

(* The copy in the explorer.                                               *)
LEMMA ExplorerAgrees == LedgerInv => ExplorerJoinsTheSame(Current)
<1> SUFFICES ASSUME LedgerInv PROVE ExplorerJoinsTheSame(Current)
  OBVIOUS
<1>1. log \in Seq(Rows)
  BY DEF LedgerInv, StateIsTyped
<1>2. AllMutations \in Seq(Events)
  <2>1. Seen \subseteq Events /\ AllMutations \in Seq(Seen)
    BY <1>1, SeenEvents
  <2> QED
    BY <2>1
<1>3. PICK now, back : now = Current /\ back = ReconstructGraph(LoadExplorer(NoExplorer, now))
  OBVIOUS
<1>4. GraphIsTyped(now) /\ Rising(now) /\ Rooted(now)
  BY <1>2, <1>3, ReplayIsRooted DEF Current
<1>5. back.nodes = now.nodes /\ EndsOf(ToSet(back.edges)) = EndsOf(ToSet(now.edges))
  BY <1>3, <1>4, ExplorerJoins
<1>6. \A id : QueryNeighbors(back, id) = QueryNeighbors(now, id)
  BY <1>5, NeighborsAreEnds
<1> QED
  BY <1>3, <1>5, <1>6 DEF ExplorerJoinsTheSame

-------------------------------------------------------------------------------
(* Relations that show the same, one for one: edge ids may differ.         *)
ShowSame(x, y) == x.type = y.type /\ x.from = y.from /\ x.to = y.to /\ x.ref = y.ref

Pairing(f, S, T) ==
    /\ f \in [S -> T]
    /\ \A x, y \in S : f[x] = f[y] => x = y
    /\ \A y \in T : \E x \in S : f[x] = y
    /\ \A x \in S : ShowSame(x, f[x])

Paired(S, T) == \E f : Pairing(f, S, T)

(* No relations at all.                                                    *)
LEMMA NothingIsPaired == Paired({}, {})
<1>1. Pairing([x \in {} |-> x], {}, {})
  BY DEF Pairing
<1> QED
  BY <1>1 DEF Paired

(* One more on either side.                                                *)
LEMMA PairedMore ==
    ASSUME NEW S, NEW T, Paired(S, T), NEW x, NEW y, x \notin S, y \notin T, ShowSame(x, y)
    PROVE  Paired(S \cup {x}, T \cup {y})
<1>1. PICK f : Pairing(f, S, T)
  BY DEF Paired
<1>2. /\ f \in [S -> T]
      /\ \A a, b \in S : f[a] = f[b] => a = b
      /\ \A b \in T : \E a \in S : f[a] = b
      /\ \A a \in S : ShowSame(a, f[a])
  BY <1>1 DEF Pairing
<1>3. PICK h : h = [a \in S \cup {x} |-> IF a = x THEN y ELSE f[a]]
  OBVIOUS
<1>4. h \in [S \cup {x} -> T \cup {y}] /\ h[x] = y /\ \A a \in S : h[a] = f[a]
  BY <1>2, <1>3
<1>5. \A a, b \in S \cup {x} : h[a] = h[b] => a = b
  BY <1>2, <1>4
<1>6. \A b \in T \cup {y} : \E a \in S \cup {x} : h[a] = b
  BY <1>2, <1>4
<1>7. \A a \in S \cup {x} : ShowSame(a, h[a])
  BY <1>2, <1>4
<1>8. Pairing(h, S \cup {x}, T \cup {y})
  BY <1>4, <1>5, <1>6, <1>7 DEF Pairing
<1> QED
  BY <1>8 DEF Paired

(* Parts that are told apart by what they show.                            *)
LEMMA PairedLess ==
    ASSUME NEW S, NEW T, Paired(S, T), NEW C, C \subseteq S, NEW D, D \subseteq T,
           \A x \in S, y \in T : ShowSame(x, y) => (x \in C <=> y \in D)
    PROVE  Paired(C, D)
<1>1. PICK f : Pairing(f, S, T)
  BY DEF Paired
<1>2. /\ f \in [S -> T]
      /\ \A a, b \in S : f[a] = f[b] => a = b
      /\ \A b \in T : \E a \in S : f[a] = b
      /\ \A a \in S : ShowSame(a, f[a])
  BY <1>1 DEF Pairing
<1>3. \A a \in S : a \in C <=> f[a] \in D
  BY <1>2
<1>4. PICK h : h = [a \in C |-> f[a]]
  OBVIOUS
<1>5. h \in [C -> D] /\ \A a \in C : h[a] = f[a]
  BY <1>3, <1>4
<1>6. \A b \in D : \E a \in C : h[a] = b
  BY <1>2, <1>3, <1>5
<1>7. \A a, b \in C : h[a] = h[b] => a = b
  BY <1>2, <1>5
<1>8. \A a \in C : ShowSame(a, h[a])
  BY <1>2, <1>5
<1>9. Pairing(h, C, D)
  BY <1>5, <1>6, <1>7, <1>8 DEF Pairing
<1> QED
  BY <1>9 DEF Paired

(* Two sets paired with the same set are paired.                           *)
LEMMA PairedTwice ==
    ASSUME NEW S, NEW T, NEW U, Paired(S, U), Paired(T, U)
    PROVE  Paired(S, T)
<1>1. PICK f : Pairing(f, S, U)
  BY DEF Paired
<1>2. PICK g : Pairing(g, T, U)
  BY DEF Paired
<1>3. /\ f \in [S -> U]
      /\ \A a, b \in S : f[a] = f[b] => a = b
      /\ \A b \in U : \E a \in S : f[a] = b
      /\ \A a \in S : ShowSame(a, f[a])
  BY <1>1 DEF Pairing
<1>4. /\ g \in [T -> U]
      /\ \A a, b \in T : g[a] = g[b] => a = b
      /\ \A b \in U : \E a \in T : g[a] = b
      /\ \A a \in T : ShowSame(a, g[a])
  BY <1>2 DEF Pairing
<1>5. PICK h : h = [a \in S |-> CHOOSE b \in T : g[b] = f[a]]
  OBVIOUS
<1>6. \A a \in S : h[a] \in T /\ g[h[a]] = f[a]
  BY <1>3, <1>4, <1>5
<1>7. h \in [S -> T]
  BY <1>5, <1>6
<1>8. \A a, b \in S : h[a] = h[b] => a = b
  BY <1>3, <1>6
<1>9. \A b \in T : \E a \in S : h[a] = b
  BY <1>3, <1>4, <1>6
<1>10. \A a \in S : ShowSame(a, h[a])
  BY <1>3, <1>4, <1>6 DEF ShowSame
<1>11. Pairing(h, S, T)
  BY <1>7, <1>8, <1>9, <1>10 DEF Pairing
<1> QED
  BY <1>11 DEF Paired

(* As many, and of the same.                                               *)
LEMMA PairedShow ==
    ASSUME NEW S, NEW T, Paired(S, T), IsFiniteSet(S)
    PROVE  /\ Cardinality(S) = Cardinality(T)
           /\ \A x \in S : \E y \in T : ShowSame(x, y)
           /\ \A y \in T : \E x \in S : ShowSame(x, y)
<1>1. PICK f : Pairing(f, S, T)
  BY DEF Paired
<1>2. /\ f \in [S -> T]
      /\ \A a, b \in S : f[a] = f[b] => a = b
      /\ \A b \in T : \E a \in S : f[a] = b
      /\ \A a \in S : ShowSame(a, f[a])
  BY <1>1 DEF Pairing
<1>3. f \in Bijection(S, T)
  BY <1>2 DEF Bijection, Injection, Surjection, IsInjective
<1>4. Cardinality(S) = Cardinality(T)
  BY <1>3, FS_Bijection DEF ExistsBijection
<1> QED
  BY <1>2, <1>4

-------------------------------------------------------------------------------
(* Two graphs in which the events of the editor have left the same: on the *)
(* second, which has every node from the beginning, nothing else was done. *)
Others(edges) == {x \in edges : x.type \notin Claims}

Ghost(h) ==
    /\ GraphIsTyped(h) /\ Rising(h) /\ DOMAIN h.nodes = Ids
    /\ \A x \in ToSet(h.edges) : x.type \notin Claims

Follows(g, h) ==
    /\ Paired(Others(ToSet(g.edges)), ToSet(h.edges))
    /\ \A id \in DOMAIN g.nodes : h.nodes[id] = g.nodes[id]
    /\ \A id \in Ids \ DOMAIN g.nodes : h.nodes[id] = NewNode

IsEdit(e) == e.op \in {"merge_entity", "unmerge", "supersede", "delete"}

(* A new relation has a new number.                                        *)
LEMMA NewEdgeIsNew ==
    ASSUME NEW g, GraphIsTyped(g), Rising(g), NEW type, NEW from, NEW to, NEW ref
    PROVE  Edge(g, type, from, to, ref) \notin ToSet(g.edges)
<1>1. g.edgeSeq \in Nat
  BY DEF GraphIsTyped
<1>2. \A x \in ToSet(g.edges) : x.id \in 1 .. g.edgeSeq
  BY RisingRelations
<1>3. Edge(g, type, from, to, ref).id = g.edgeSeq + 1
  BY DEF Edge
<1> QED
  BY <1>1, <1>2, <1>3

(* An event of the editor, on the relations that are no claim's.           *)
LEMMA OthersFollow ==
    ASSUME NEW g, GraphIsTyped(g), Rising(g), NEW h, Ghost(h), Follows(g, h),
           NEW e \in Events, IsEdit(e), Ready(g.nodes, e)
    PROVE  Paired(Others(ToSet(Effect(g, e).edges)), ToSet(Effect(h, e).edges))
<1>1. e.op \in Ops /\ Ready(h.nodes, e)
  BY EventFields DEF Ready, Ghost, GraphIsTyped
<1>2. PICK E, F, D, C : /\ E = ToSet(g.edges) /\ F = ToSet(h.edges)
                        /\ D = ToSet(Effect(g, e).edges) /\ C = ToSet(Effect(h, e).edges)
  OBVIOUS
<1>3. D = Left(E, e) \cup Added(g, e)
  BY <1>2, EffectSets
<1>4. C = Left(F, e) \cup Added(h, e)
  BY <1>1, <1>2, EffectSets DEF Ghost
<1>5. Paired(Others(E), F)
  BY <1>2 DEF Follows
<1>6. Paired(Left(Others(E), e), Left(F, e))
  <2>1. \A S : Left(S, e) \subseteq S
    BY DEF Left
  <2>2. \A x \in Others(E), y \in F :
           ShowSame(x, y) => (x \in Left(Others(E), e) <=> y \in Left(F, e))
    BY DEF ShowSame, Left
  <2> QED
    BY <1>5, <2>1, <2>2, PairedLess
<1>7. Others(D) = Left(Others(E), e) \cup Added(g, e)
  <2>1. Others(Left(E, e)) = Left(Others(E), e)
    BY DEF Others, Left
  <2>2. \A x \in Added(g, e) : x.type \notin Claims
    BY LedgerAssumption DEF Added, Edge, IsEdit
  <2> QED
    BY <1>3, <2>1, <2>2 DEF Others
<1>8. CASE e.op \in {"unmerge", "delete"}
  <2>1. Added(g, e) = {} /\ Added(h, e) = {}
    BY <1>8 DEF Added
  <2> QED
    BY <1>2, <1>4, <1>6, <1>7, <2>1
<1>9. CASE e.op \in {"merge_entity", "supersede"}
  <2>1. PICK type, ref : /\ Added(g, e) = {Edge(g, type, e.subject, e.object, ref)}
                         /\ Added(h, e) = {Edge(h, type, e.subject, e.object, ref)}
    BY <1>9 DEF Added
  <2>2. PICK x, y : /\ x = Edge(g, type, e.subject, e.object, ref)
                    /\ y = Edge(h, type, e.subject, e.object, ref)
    OBVIOUS
  <2>3. x \notin E /\ y \notin F
    BY <1>2, <2>2, NewEdgeIsNew DEF Ghost
  <2>4. x \notin Left(Others(E), e) /\ y \notin Left(F, e)
    BY <2>3 DEF Left, Others
  <2>5. ShowSame(x, y)
    BY <2>2 DEF ShowSame, Edge
  <2>6. Paired(Left(Others(E), e) \cup {x}, Left(F, e) \cup {y})
    BY <1>6, <2>4, <2>5, PairedMore
  <2> QED
    BY <1>2, <1>4, <1>7, <2>1, <2>2, <2>6
<1> QED
  BY <1>8, <1>9 DEF IsEdit

(* It leaves a graph with every node and no claim's relation.              *)
LEMMA EditGhost ==
    ASSUME NEW h, Ghost(h), NEW e \in Events, IsEdit(e)
    PROVE  Ghost(Effect(h, e)) /\ Effect(h, e).applied = h.applied
<1>1. GraphIsTyped(h) /\ Rising(h) /\ DOMAIN h.nodes = Ids /\ e.op \in Ops
  BY EventFields DEF Ghost
<1>2. Ready(h.nodes, e)
  BY <1>1, EventFields DEF Ready, NeedsOf
<1>3. PICK F, C : F = ToSet(h.edges) /\ C = ToSet(Effect(h, e).edges)
  OBVIOUS
<1>4. C = Left(F, e) \cup Added(h, e) /\ NodesDone(h.nodes, e, C, Effect(h, e).nodes)
  BY <1>1, <1>2, <1>3, EffectSets
<1>5. Later(h, Effect(h, e)) /\ Effect(h, e).applied = h.applied
  BY <1>1, EffectLater, EffectMarksNothing
<1>6. \A x \in C : x.type \notin Claims
  <2>1. \A x \in F : x.type \notin Claims
    BY <1>3 DEF Ghost
  <2>2. \A x \in Left(F, e) : x \in F
    BY DEF Left
  <2>3. \A x \in Added(h, e) : x.type \notin Claims
    BY LedgerAssumption DEF Added, Edge, IsEdit
  <2> QED
    BY <1>4, <2>1, <2>2, <2>3
<1>7. DOMAIN Effect(h, e).nodes = Ids
  BY <1>1, <1>4 DEF NodesDone, IsEdit
<1> QED
  BY <1>3, <1>5, <1>6, <1>7 DEF Ghost, Later

(* An event of the editor, on both.                                        *)
LEMMA EditFollows ==
    ASSUME NEW g, GraphIsTyped(g), Rising(g), NEW h, Ghost(h), Follows(g, h),
           NEW e \in Events, IsEdit(e), Ready(g.nodes, e)
    PROVE  Follows(Effect(g, e), Effect(h, e)) /\ Ghost(Effect(h, e))
<1>1. Paired(Others(ToSet(Effect(g, e).edges)), ToSet(Effect(h, e).edges))
  BY OthersFollow
<1>2. PICK E, F, D, C : /\ E = ToSet(g.edges) /\ F = ToSet(h.edges)
                        /\ D = ToSet(Effect(g, e).edges) /\ C = ToSet(Effect(h, e).edges)
  OBVIOUS
<1>3. PICK old, new, other, later :
         /\ old = g.nodes /\ new = Effect(g, e).nodes
         /\ other = h.nodes /\ later = Effect(h, e).nodes
  OBVIOUS
<1>4. Ready(h.nodes, e) /\ GraphIsTyped(h) /\ Rising(h) /\ DOMAIN h.nodes = Ids
  BY EventFields DEF Ready, Ghost, GraphIsTyped
<1>5. /\ D = Left(E, e) \cup Added(g, e) /\ NodesDone(old, e, D, new)
      /\ C = Left(F, e) \cup Added(h, e) /\ NodesDone(other, e, C, later)
  BY <1>2, <1>3, <1>4, EffectSets
<1>6. e.op # "create_node"
  BY DEF IsEdit
<1>7. /\ DOMAIN new = DOMAIN old /\ DOMAIN later = Ids
      /\ \A id \in DOMAIN old : new[id] = Touched(old[id], id, e, D)
      /\ \A id \in Ids : later[id] = Touched(other[id], id, e, C)
  BY <1>3, <1>4, <1>5, <1>6 DEF NodesDone
<1>8. (\E x \in D : x.from = e.subject /\ x.type = "SAME_AS")
        <=> (\E x \in C : x.from = e.subject /\ x.type = "SAME_AS")
  <2>1. PICK f : Pairing(f, Others(D), C)
    BY <1>1, <1>2 DEF Paired
  <2>2. /\ \A y \in C : \E x \in Others(D) : f[x] = y
        /\ \A x \in Others(D) : f[x] \in C /\ ShowSame(x, f[x])
    BY <2>1 DEF Pairing
  <2>3. \A x \in D : x.type = "SAME_AS" => x \in Others(D)
    BY LedgerAssumption DEF Others
  <2>4. Others(D) \subseteq D
    BY DEF Others
  <2> QED
    BY <2>2, <2>3, <2>4 DEF ShowSame
<1>9. \A node, id : Touched(node, id, e, D) = Touched(node, id, e, C)
  BY <1>8 DEF Touched
<1>10. \A id \in DOMAIN new : later[id] = new[id]
  <2>1. DOMAIN old \subseteq Ids
    BY <1>3 DEF GraphIsTyped
  <2>2. \A id \in DOMAIN old : other[id] = old[id]
    BY <1>3 DEF Follows
  <2> QED
    BY <1>7, <1>9, <2>1, <2>2
<1>11. \A id \in Ids \ DOMAIN new : later[id] = NewNode
  <2>1. \A id \in Ids \ DOMAIN old : other[id] = NewNode
    BY <1>3 DEF Follows
  <2>2. \A id \in Ids \ DOMAIN old : id \notin NeedsOf(e)
    BY <1>3 DEF Ready
  <2>3. e.subject \in NeedsOf(e) /\ (e.op = "supersede" => e.object \in NeedsOf(e))
    BY DEF NeedsOf, IsEdit
  <2>4. \A node, id : id \notin NeedsOf(e) => Touched(node, id, e, C) = node
    BY <2>3 DEF Touched
  <2> QED
    BY <1>7, <2>1, <2>2, <2>4
<1>12. Follows(Effect(g, e), Effect(h, e))
  BY <1>1, <1>3, <1>10, <1>11 DEF Follows
<1>13. Ghost(Effect(h, e))
  BY EditGhost
<1> QED
  BY <1>12, <1>13

(* An event of a run, on the first alone.                                  *)
LEMMA RunFollows ==
    ASSUME NEW g, GraphIsTyped(g), Rising(g), NEW h, Ghost(h), Follows(g, h),
           NEW e \in Events, ~ IsEdit(e)
    PROVE  Follows(Effect(g, e), h)
<1>1. CASE ~ Ready(g.nodes, e)
  <2>1. PICK f : f = Effect(g, e)
    OBVIOUS
  <2>2. f.nodes = g.nodes /\ f.edges = g.edges
    BY <1>1, <2>1, NothingIsDone
  <2> QED
    BY <2>1, <2>2 DEF Follows
<1>2. CASE Ready(g.nodes, e)
  <2>1. PICK E, D, old, new :
           /\ E = ToSet(g.edges) /\ D = ToSet(Effect(g, e).edges)
           /\ old = g.nodes /\ new = Effect(g, e).nodes
    OBVIOUS
  <2>2. D = Left(E, e) \cup Added(g, e) /\ NodesDone(old, e, D, new)
    BY <1>2, <2>1, EffectSets
  <2>3. e.op \in {"create_node", "create_edge"}
    BY EventFields DEF Ops, IsEdit
  <2>4. Left(E, e) = E
    BY <2>3 DEF Left
  <2>5. \A x \in Added(g, e) : x.type \in Claims
    <3>1. CASE e.op = "create_node"
      BY <3>1 DEF Added
    <3>2. CASE e.op = "create_edge"
      <4>1. e.ref \in Claims
        BY <3>2, EventFields
      <4> QED
        BY <3>2, <4>1 DEF Added, Edge
    <3> QED
      BY <2>3, <3>1, <3>2
  <2>6. Others(D) = Others(E)
    BY <2>2, <2>4, <2>5 DEF Others
  <2>7. \A node, id : Touched(node, id, e, D) = node
    BY <2>3 DEF Touched
  <2>8. /\ DOMAIN old \subseteq DOMAIN new
        /\ \A id \in DOMAIN old : new[id] = old[id]
        /\ \A id \in DOMAIN new \ DOMAIN old : new[id] = NewNode /\ id \in Ids
    BY <2>2, <2>7, EventFields DEF NodesDone
  <2>9. /\ \A id \in DOMAIN old : h.nodes[id] = old[id]
        /\ \A id \in Ids \ DOMAIN old : h.nodes[id] = NewNode
    BY <2>1 DEF Follows
  <2>10. \A id \in DOMAIN new : h.nodes[id] = new[id]
    BY <2>8, <2>9
  <2>11. \A id \in Ids \ DOMAIN new : h.nodes[id] = NewNode
    BY <2>8, <2>9
  <2>12. Paired(Others(D), ToSet(h.edges))
    BY <2>1, <2>6 DEF Follows
  <2> QED
    BY <2>1, <2>10, <2>11, <2>12 DEF Follows
<1> QED
  BY <1>1, <1>2

(* An event noted as applied changes nothing that shows.                   *)
LEMMA MarkedFollows ==
    ASSUME NEW g, GraphIsTyped(g), NEW h, Follows(g, h), NEW e
    PROVE  Follows(Marked(g, e), h)
<1>1. PICK f : f = Marked(g, e)
  OBVIOUS
<1>2. f.nodes = g.nodes /\ f.edges = g.edges
  BY <1>1 DEF Marked, GraphIsTyped
<1> QED
  BY <1>1, <1>2 DEF Follows

(* Nor on the graph that has every node.                                   *)
LEMMA MarkedGhost ==
    ASSUME NEW h, Ghost(h), NEW e, NEW f, f = Marked(h, e)
    PROVE  /\ Ghost(f) /\ f.nodes = h.nodes /\ f.edges = h.edges
           /\ f.applied = h.applied \cup {e.key}
<1>1. GraphIsTyped(h)
  BY DEF Ghost
<1>2. /\ f.nodes = h.nodes /\ f.edges = h.edges /\ f.edgeSeq = h.edgeSeq
      /\ f.applied = h.applied \cup {e.key} /\ DOMAIN f = DOMAIN h
  BY <1>1 DEF Marked, GraphIsTyped
<1>3. GraphIsTyped(f)
  BY <1>1, <1>2 DEF GraphIsTyped
<1>4. Rising(f)
  BY <1>2 DEF Ghost, Rising
<1> QED
  BY <1>2, <1>3, <1>4 DEF Ghost

-------------------------------------------------------------------------------
(* The editor's events in their order, on a graph that has every node.     *)
AllNodes == [EmptyGraph EXCEPT !.nodes = [id \in Ids |-> NewNode]]

AreEdits(edits) ==
    /\ edits \in Seq(Events)
    /\ \A i \in 1 .. Len(edits) : IsEdit(edits[i]) /\ edits[i].key = <<edits[i].op, i>>

(* A key tells an edit from an event of a run.                             *)
LEMMA KeyTells ==
    ASSUME NEW e \in Events
    PROVE  /\ IsEdit(e) => e.key[1] = e.op
           /\ ~ IsEdit(e) => e.key[1] \in {"create_node", "create_entity", "create_edge"}
<1>1. CASE e \in NodeEvents
  BY <1>1 DEF NodeEvents, Node, Event, IsEdit
<1>2. CASE e \in RelationEvents
  BY <1>2 DEF RelationEvents, IsEdit
<1>3. CASE e \in EditEvents
  BY <1>3 DEF EditEvents, IsEdit
<1> QED
  BY <1>1, <1>2, <1>3 DEF Events, RunEvents

(* The graph with every node, before any edit.                             *)
LEMMA AllNodesIsGhost == Ghost(AllNodes) /\ AllNodes.applied = {}
<1>1. GraphIsTyped(EmptyGraph)
  BY EmptyGraphFits DEF GraphFits
<1>2. /\ AllNodes.edges = <<>> /\ AllNodes.edgeSeq = 0 /\ AllNodes.applied = {}
      /\ AllNodes.nodes = [id \in Ids |-> NewNode]
      /\ DOMAIN AllNodes = {"nodes", "edges", "applied", "edgeSeq", "quarantined"}
  BY DEF AllNodes, EmptyGraph
<1>3. NewNode \in NodeRecords
  BY DEF NewNode, NodeRecords
<1>4. GraphIsTyped(AllNodes)
  BY <1>2, <1>3 DEF GraphIsTyped
<1>5. Rising(AllNodes) /\ ToSet(<<>>) = {}
  BY <1>2 DEF Rising, ToSet
<1> QED
  BY <1>2, <1>4, <1>5 DEF Ghost

(* The next edit, on that graph.                                           *)
LEMMA GhostStep ==
    ASSUME NEW edits, AreEdits(edits), NEW k \in 1 .. Len(edits), NEW h, Ghost(h),
           h.applied = {edits[i].key : i \in 1 .. k - 1},
           NEW f, f = ApplyEvent(h, edits[k])
    PROVE  /\ Ghost(f) /\ f.applied = {edits[i].key : i \in 1 .. k}
           /\ f = Marked(Effect(h, edits[k]), edits[k])
<1>1. PICK e \in Events : e = edits[k]
  BY DEF AreEdits
<1>2. IsEdit(e) /\ e.key = <<e.op, k>> /\ k \in Nat
  BY <1>1 DEF AreEdits
<1>3. e.key \notin h.applied
  <2>1. ASSUME NEW i \in 1 .. k - 1 PROVE edits[i].key # e.key
    <3>1. edits[i].key = <<edits[i].op, i>> /\ i # k
      BY <1>2 DEF AreEdits
    <3> QED
      BY <1>2, <3>1
  <2> QED
    BY <2>1
<1>4. f = Marked(Effect(h, e), e)
  BY <1>1, <1>3 DEF ApplyEvent, Marked
<1>5. Ghost(Effect(h, e)) /\ Effect(h, e).applied = h.applied
  BY <1>2, EditGhost
<1>6. Ghost(f) /\ f.applied = h.applied \cup {e.key}
  <2>1. PICK j : j = Effect(h, e)
    OBVIOUS
  <2>2. Ghost(j) /\ f = Marked(j, e) /\ j.applied = h.applied
    BY <1>4, <1>5, <2>1
  <2>3. Ghost(f) /\ f.applied = j.applied \cup {e.key}
    BY <2>2, MarkedGhost, ZenonT(60)
  <2> QED
    BY <2>2, <2>3
<1>7. f.applied = {edits[i].key : i \in 1 .. k}
  <2>1. 1 .. k = 1 .. k - 1 \cup {k}
    BY <1>2
  <2> QED
    BY <1>1, <1>6, <2>1
<1> QED
  BY <1>1, <1>4, <1>6, <1>7

(* The first edits, on that graph.                                         *)
LEMMA GhostChain ==
    ASSUME NEW edits, AreEdits(edits), NEW n \in 0 .. Len(edits)
    PROVE  /\ Ghost(After(AllNodes, edits, n))
           /\ After(AllNodes, edits, n).applied = {edits[i].key : i \in 1 .. n}
<1> DEFINE a(k) == After(AllNodes, edits, k)
           Good(k) == Ghost(a(k)) /\ a(k).applied = {edits[i].key : i \in 1 .. k}
           Bad == {k \in 0 .. Len(edits) : ~ Good(k)}
<1>1. /\ a(0) = AllNodes
      /\ \A k \in 1 .. Len(edits) : a(k) = ApplyEvent(a(k - 1), edits[k])
  BY AppliedOneByOne DEF AreEdits
<1> HIDE DEF a
<1>2. Len(edits) \in Nat
  BY DEF AreEdits
<1>3. Bad = {}
  <2> SUFFICES ASSUME Bad # {} PROVE FALSE
    OBVIOUS
  <2>1. Bad \subseteq Nat
    BY <1>2
  <2> HIDE DEF Bad
  <2>2. PICK m \in Bad : \A k \in Bad : m <= k
    BY <2>1, LeastNatural
  <2>3. m \in 0 .. Len(edits) /\ ~ Good(m)
    BY <2>2 DEF Bad
  <2>4. m # 0
    <3>1. {edits[i].key : i \in 1 .. 0} = {}
      OBVIOUS
    <3> QED
      BY <1>1, <2>3, <3>1, AllNodesIsGhost
  <2>5. m - 1 \in 0 .. Len(edits) /\ m - 1 \notin Bad /\ m \in 1 .. Len(edits)
    BY <1>2, <2>2, <2>3, <2>4
  <2>6. Good(m - 1)
    BY <2>5 DEF Bad
  <2>7. PICK f, h : f = a(m) /\ h = a(m - 1)
    OBVIOUS
  <2>8. f = ApplyEvent(h, edits[m])
    BY <1>1, <2>5, <2>7
  <2>9. Ghost(h) /\ h.applied = {edits[i].key : i \in 1 .. m - 1}
    BY <2>6, <2>7
  <2>10. Ghost(f) /\ f.applied = {edits[i].key : i \in 1 .. m}
    BY <2>5, <2>8, <2>9, GhostStep
  <2> QED
    BY <2>3, <2>7, <2>10
<1> QED
  BY <1>3 DEF a

(* A graph on which the first k edits were applied, and no other.          *)
Up(g, edits, k) ==
    /\ k \in 0 .. Len(edits)
    /\ Follows(g, After(AllNodes, edits, k))
    /\ \A i \in 1 .. Len(edits) : edits[i].key \in g.applied <=> i <= k

(* An edit that is applied is the next one, or was applied before.         *)
LEMMA EditIsUp ==
    ASSUME NEW edits, AreEdits(edits), NEW g, GraphIsTyped(g), Rising(g), NEW k, Up(g, edits, k),
           NEW n \in 1 .. Len(edits), n <= k + 1, Ready(g.nodes, edits[n]),
           NEW f, f = ApplyEvent(g, edits[n])
    PROVE  \E l : Up(f, edits, l)
<1>1. k \in Nat /\ Len(edits) \in Nat /\ n \in Nat
  BY DEF Up, AreEdits
<1>2. CASE n <= k
  <2>1. edits[n].key \in g.applied
    BY <1>2 DEF Up
  <2> QED
    BY <2>1, AppliedBefore
<1>3. CASE n = k + 1
  <2>1. PICK e \in Events : e = edits[n]
    BY DEF AreEdits
  <2>2. IsEdit(e) /\ e.op \in Ops
    BY <2>1, EventFields DEF AreEdits
  <2>3. e.key \notin g.applied
    BY <1>1, <1>3, <2>1 DEF Up
  <2>4. f = Marked(Effect(g, e), e)
    BY <2>1, <2>3 DEF ApplyEvent, Marked
  <2>5. PICK h, j : h = After(AllNodes, edits, k) /\ j = After(AllNodes, edits, n)
    OBVIOUS
  <2>6. Ghost(h) /\ h.applied = {edits[i].key : i \in 1 .. k}
    BY <2>5, GhostChain DEF Up
  <2>7. j = ApplyEvent(h, e)
    <3>1. After(AllNodes, edits, n) = ApplyEvent(After(AllNodes, edits, n - 1), edits[n])
      BY AppliedOneByOne DEF AreEdits
    <3>2. n - 1 = k
      BY <1>1, <1>3
    <3> QED
      BY <2>1, <2>5, <3>1, <3>2
  <2>8. j = Marked(Effect(h, e), e)
    <3>1. 1 .. n - 1 = 1 .. k
      BY <1>1, <1>3
    <3>2. h.applied = {edits[i].key : i \in 1 .. n - 1}
      BY <2>6, <3>1
    <3> QED
      BY <2>1, <2>6, <2>7, <3>2, GhostStep
  <2>9. Follows(g, h)
    BY <2>5 DEF Up
  <2>10. Follows(Effect(g, e), Effect(h, e)) /\ Ghost(Effect(h, e))
    BY <2>1, <2>2, <2>6, <2>9, EditFollows
  <2>11. GraphIsTyped(Effect(g, e)) /\ Effect(g, e).applied = g.applied
    BY <2>2, EffectLater, EffectMarksNothing DEF Later
  <2>12. Follows(f, Effect(h, e))
    BY <2>4, <2>10, <2>11, MarkedFollows
  <2>13. j.nodes = Effect(h, e).nodes /\ j.edges = Effect(h, e).edges
    <3>1. PICK c : c = Effect(h, e)
      OBVIOUS
    <3>2. Ghost(c) /\ j = Marked(c, e)
      BY <2>8, <2>10, <3>1
    <3>3. j.nodes = c.nodes /\ j.edges = c.edges
      BY <3>2, MarkedGhost, ZenonT(60)
    <3> QED
      BY <3>1, <3>3
  <2>14. Follows(f, j)
    BY <2>12, <2>13 DEF Follows
  <2>15. f.applied = g.applied \cup {e.key}
    BY <2>4, <2>11 DEF Marked, GraphIsTyped
  <2>16. ASSUME NEW i \in 1 .. Len(edits) PROVE edits[i].key \in f.applied <=> i <= n
    <3>1. edits[i].key \in g.applied <=> i <= k
      BY DEF Up
    <3>2. edits[i].key = e.key <=> i = n
      BY <2>1 DEF AreEdits
    <3> QED
      BY <1>1, <1>3, <2>15, <3>1, <3>2
  <2>17. Up(f, edits, n)
    BY <2>5, <2>14, <2>16 DEF Up
  <2> QED
    BY <2>17
<1> QED
  BY <1>1, <1>2, <1>3

(* An event of a run is no edit.                                           *)
LEMMA RunIsUp ==
    ASSUME NEW edits, AreEdits(edits), NEW g, GraphIsTyped(g), Rising(g), NEW k, Up(g, edits, k),
           NEW e \in Events, ~ IsEdit(e), NEW f, f = ApplyEvent(g, e)
    PROVE  Up(f, edits, k)
<1>1. CASE e.key \in g.applied
  BY <1>1, AppliedBefore
<1>2. CASE e.key \notin g.applied
  <2>1. f = Marked(Effect(g, e), e)
    BY <1>2 DEF ApplyEvent, Marked
  <2>2. PICK h : h = After(AllNodes, edits, k)
    OBVIOUS
  <2>3. Ghost(h) /\ Follows(g, h)
    BY <2>2, GhostChain DEF Up
  <2>4. Follows(Effect(g, e), h)
    BY <2>3, RunFollows
  <2>5. GraphIsTyped(Effect(g, e)) /\ Effect(g, e).applied = g.applied
    BY EventFields, EffectLater, EffectMarksNothing DEF Later
  <2>6. Follows(f, h)
    BY <2>1, <2>4, <2>5, MarkedFollows
  <2>7. f.applied = g.applied \cup {e.key}
    BY <2>1, <2>5 DEF Marked, GraphIsTyped
  <2>8. ASSUME NEW i \in 1 .. Len(edits) PROVE edits[i].key # e.key
    <3>1. IsEdit(edits[i]) /\ edits[i].key = <<edits[i].op, i>>
      BY DEF AreEdits
    <3>2. e.key[1] \in {"create_node", "create_entity", "create_edge"}
      BY KeyTells
    <3>3. edits[i].key[1] \notin {"create_node", "create_entity", "create_edge"}
      BY <3>1 DEF IsEdit
    <3> QED
      BY <3>2, <3>3
  <2>9. \A i \in 1 .. Len(edits) : edits[i].key \in f.applied <=> i <= k
    BY <2>7, <2>8 DEF Up
  <2> QED
    BY <2>2, <2>6, <2>9 DEF Up
<1> QED
  BY <1>1, <1>2

(* The edits in a list of events follow each other, and their nodes.       *)
EditsInOrder(rows, edits) ==
    \A n \in 1 .. Len(rows) :
       IsEdit(rows[n]) =>
          /\ \E i \in 1 .. Len(edits) :
                /\ rows[n] = edits[i]
                /\ i > 1 => \E m \in 1 .. n - 1 : rows[m] = edits[i - 1]
          /\ \A id \in NeedsOf(rows[n]) :
                \E m \in 1 .. n - 1 : rows[m].op = "create_node" /\ rows[m].subject = id

(* However often and however far a list in which the edits follow each     *)
(* other is applied, the graph has applied the first edits and no others.  *)
LEMMA ApplyUp ==
    ASSUME NEW events, events \subseteq Events, KeysTellApart(events),
           NEW g, GraphFits(g, events), Rising(g), NEW edits, AreEdits(edits),
           NEW rows \in Seq(events), IsOrdered(rows), EditsInOrder(rows, edits),
           \E k : Up(g, edits, k)
    PROVE  \E k : Up(Apply(g, rows), edits, k)
<1> DEFINE a(n) == After(g, rows, n)
           Good(n) == \E k : Up(a(n), edits, k)
           Bad == {n \in 0 .. Len(rows) : ~ Good(n)}
<1>1. /\ a(0) = g
      /\ \A n \in 1 .. Len(rows) : a(n) = ApplyEvent(a(n - 1), rows[n])
      /\ a(Len(rows)) = Apply(g, rows)
  BY AppliedOneByOne
<1>2. Len(rows) \in Nat
  OBVIOUS
<1>3. ASSUME NEW n \in 1 .. Len(rows), Good(n - 1)
      PROVE  Good(n)
  <2>1. PICK part : part = SubSeq(rows, 1, n - 1)
    OBVIOUS
  <2>2. n - 1 \in 0 .. Len(rows)
    BY <1>2
  <2>3. /\ part \in Seq(events) /\ IsOrdered(part) /\ Len(part) = n - 1
        /\ \A m \in 1 .. n - 1 : part[m] = rows[m]
    BY <2>1, <2>2, FirstRows
  <2>4. PICK f : f = Apply(g, part)
    OBVIOUS
  <2>5. a(n - 1) = f
    BY <2>1, <2>4 DEF After
  <2>6. GraphFits(f, events) /\ \A m \in 1 .. n - 1 : rows[m].key \in f.applied
    BY <2>3, <2>4, ApplyFits
  <2>7. part \in Seq(Events)
    BY <2>3
  <2>8. GraphIsTyped(g) /\ GraphIsTyped(f)
    BY <2>6 DEF GraphFits
  <2>9. Rising(f)
    BY <2>4, <2>7, <2>8, ApplyLater DEF Later
  <2>10. PICK k : Up(f, edits, k)
    BY <1>3, <2>5
  <2>11. PICK e \in events : e = rows[n]
    BY <1>2
  <2>12. PICK h : h = ApplyEvent(f, e)
    OBVIOUS
  <2>13. a(n) = h
    BY <1>1, <2>5, <2>11, <2>12
  <2>14. CASE IsEdit(e)
    <3>1. PICK i \in 1 .. Len(edits) :
             e = edits[i] /\ (i > 1 => \E m \in 1 .. n - 1 : rows[m] = edits[i - 1])
      BY <2>11, <2>14 DEF EditsInOrder
    <3>2. Ready(f.nodes, e)
      <4>1. ASSUME NEW id \in NeedsOf(e) PROVE id \in DOMAIN f.nodes
        <5>1. PICK m \in 1 .. n - 1 : rows[m].op = "create_node" /\ rows[m].subject = id
          BY <2>11, <2>14 DEF EditsInOrder
        <5>2. rows[m] \in events /\ rows[m].key \in f.applied
          BY <1>2, <2>6
        <5> QED
          BY <2>6, <5>1, <5>2 DEF GraphFits, NodesFit
      <4> QED
        BY <4>1 DEF Ready
    <3>3. k \in Nat /\ i \in Nat
      BY <2>10 DEF Up, AreEdits
    <3>4. i <= k + 1
      <4>1. CASE i > 1
        <5>1. edits[i - 1].key \in f.applied
          BY <2>6, <3>1, <4>1
        <5>2. i - 1 \in 1 .. Len(edits)
          BY <3>3, <4>1 DEF AreEdits
        <5>3. i - 1 <= k
          BY <2>10, <5>1, <5>2 DEF Up
        <5> QED
          BY <3>3, <5>3
      <4> QED
        BY <3>3, <4>1
    <3>5. Ready(f.nodes, edits[i]) /\ h = ApplyEvent(f, edits[i])
      BY <2>12, <3>1, <3>2
    <3>6. \E l : Up(h, edits, l)
      BY <2>8, <2>9, <2>10, <3>4, <3>5, EditIsUp
    <3> QED
      BY <2>13, <3>6
  <2>15. CASE ~ IsEdit(e)
    <3>1. e \in Events
      OBVIOUS
    <3>2. Up(h, edits, k)
      BY <2>8, <2>9, <2>10, <2>12, <2>15, <3>1, RunIsUp
    <3> QED
      BY <2>13, <3>2
  <2> QED
    BY <2>14, <2>15
<1> HIDE DEF a
<1>4. Bad = {}
  <2> SUFFICES ASSUME Bad # {} PROVE FALSE
    OBVIOUS
  <2>1. Bad \subseteq Nat
    BY <1>2
  <2> HIDE DEF Bad
  <2>2. PICK m \in Bad : \A k \in Bad : m <= k
    BY <2>1, LeastNatural
  <2>3. m \in 0 .. Len(rows) /\ ~ Good(m)
    BY <2>2 DEF Bad
  <2>4. m # 0
    BY <1>1, <2>3
  <2>5. m - 1 \in 0 .. Len(rows) /\ m - 1 \notin Bad /\ m \in 1 .. Len(rows)
    BY <1>2, <2>2, <2>3, <2>4
  <2>6. Good(m - 1)
    BY <2>5 DEF Bad
  <2> QED
    BY <1>3, <2>3, <2>5, <2>6
<1> QED
  BY <1>1, <1>2, <1>4

-------------------------------------------------------------------------------
(* The editor's rows: one statement at a time, numbered, on nodes that are *)
(* seen when it starts.                                                    *)
OfEditor(row) == row.writer = Editor
Number(row) == row.event.key[2]
EditsAreTheirs(rows, n) ==
    \A i \in 1 .. Len(rows) :
       /\ IsEdit(rows[i].event) <=> OfEditor(rows[i])
       /\ OfEditor(rows[i]) =>
            /\ Number(rows[i]) \in 1 .. n
            /\ rows[i].event.key = <<rows[i].event.op, Number(rows[i])>>
            /\ ~ rows[i].done => Number(rows[i]) = n
EditsAreNumbered(rows, n) ==
    /\ \A i, j \in 1 .. Len(rows) :
          i < j /\ OfEditor(rows[i]) /\ OfEditor(rows[j]) => Number(rows[i]) < Number(rows[j])
    /\ \A m \in 1 .. n : \E i \in 1 .. Len(rows) : OfEditor(rows[i]) /\ Number(rows[i]) = m
EditsFindNodes(rows) ==
    \A i \in 1 .. Len(rows) :
       OfEditor(rows[i]) =>
          \A id \in NeedsOf(rows[i].event) :
             \E j \in 1 .. i - 1 :
                /\ rows[j].done
                /\ rows[j].event.op = "create_node" /\ rows[j].event.subject = id
EditorRows(rows, n) ==
    EditsAreTheirs(rows, n) /\ EditsAreNumbered(rows, n) /\ EditsFindNodes(rows)

(* Rows in their order, without some that were open and not the editor's.  *)
Thins(old, new, at) ==
    /\ at \in [1 .. Len(new) -> 1 .. Len(old)]
    /\ \A k, l \in 1 .. Len(new) : k < l => at[k] < at[l]
    /\ \A k \in 1 .. Len(new) :
          /\ new[k].event = old[at[k]].event
          /\ OfEditor(new[k]) <=> OfEditor(old[at[k]])
          /\ old[at[k]].done => new[k].done
    /\ \A i \in 1 .. Len(old) :
          old[i].done \/ OfEditor(old[i]) => \E k \in 1 .. Len(new) : at[k] = i

(* The editor's rows are as they were.                                     *)
LEMMA ThinnedEdits ==
    ASSUME NEW n \in Nat, NEW old \in Seq(Rows), NEW new \in Seq(Rows), EditorRows(old, n),
           NEW at, Thins(old, new, at)
    PROVE  EditorRows(new, n)
<1>1. EditsAreTheirs(new, n)
  <2> SUFFICES ASSUME NEW k \in 1 .. Len(new)
               PROVE  /\ IsEdit(new[k].event) <=> OfEditor(new[k])
                      /\ OfEditor(new[k]) =>
                            /\ Number(new[k]) \in 1 .. n
                            /\ new[k].event.key = <<new[k].event.op, Number(new[k])>>
                            /\ ~ new[k].done => Number(new[k]) = n
    BY DEF EditsAreTheirs
  <2>1. PICK i \in 1 .. Len(old) : i = at[k]
    BY DEF Thins
  <2>2. /\ new[k].event = old[i].event
        /\ OfEditor(new[k]) <=> OfEditor(old[i])
        /\ old[i].done => new[k].done
    BY <2>1 DEF Thins
  <2>3. Number(new[k]) = Number(old[i])
    BY <2>2 DEF Number
  <2>4. /\ IsEdit(old[i].event) <=> OfEditor(old[i])
        /\ OfEditor(old[i]) =>
             /\ Number(old[i]) \in 1 .. n
             /\ old[i].event.key = <<old[i].event.op, Number(old[i])>>
             /\ ~ old[i].done => Number(old[i]) = n
    BY DEF EditorRows, EditsAreTheirs
  <2> QED
    BY <2>2, <2>3, <2>4
<1>2. EditsAreNumbered(new, n)
  <2>1. ASSUME NEW k \in 1 .. Len(new), NEW l \in 1 .. Len(new), k < l,
               OfEditor(new[k]), OfEditor(new[l])
        PROVE  Number(new[k]) < Number(new[l])
    <3>1. at[k] \in 1 .. Len(old) /\ at[l] \in 1 .. Len(old) /\ at[k] < at[l]
      BY <2>1 DEF Thins
    <3>2. OfEditor(old[at[k]]) /\ OfEditor(old[at[l]])
      BY <2>1 DEF Thins
    <3>3. new[k].event = old[at[k]].event /\ new[l].event = old[at[l]].event
      BY DEF Thins
    <3>4. Number(old[at[k]]) < Number(old[at[l]])
      BY <3>1, <3>2 DEF EditorRows, EditsAreNumbered
    <3> QED
      BY <3>3, <3>4 DEF Number
  <2>2. ASSUME NEW m \in 1 .. n
        PROVE  \E k \in 1 .. Len(new) : OfEditor(new[k]) /\ Number(new[k]) = m
    <3>1. PICK i \in 1 .. Len(old) : OfEditor(old[i]) /\ Number(old[i]) = m
      BY DEF EditorRows, EditsAreNumbered
    <3>2. PICK k \in 1 .. Len(new) : at[k] = i
      BY <3>1 DEF Thins
    <3>3. new[k].event = old[i].event /\ OfEditor(new[k])
      BY <3>1, <3>2 DEF Thins
    <3> QED
      BY <3>1, <3>3 DEF Number
  <2> QED
    BY <2>1, <2>2 DEF EditsAreNumbered
<1>3. EditsFindNodes(new)
  <2> SUFFICES ASSUME NEW k \in 1 .. Len(new), OfEditor(new[k]), NEW id \in NeedsOf(new[k].event)
               PROVE  \E l \in 1 .. k - 1 :
                         /\ new[l].done
                         /\ new[l].event.op = "create_node" /\ new[l].event.subject = id
    BY DEF EditsFindNodes
  <2>1. PICK i \in 1 .. Len(old) : i = at[k]
    BY DEF Thins
  <2>2. new[k].event = old[i].event /\ OfEditor(old[i])
    BY <2>1 DEF Thins
  <2>3. PICK j \in 1 .. i - 1 :
           old[j].done /\ old[j].event.op = "create_node" /\ old[j].event.subject = id
    BY <2>2 DEF EditorRows, EditsFindNodes
  <2>4. j \in 1 .. Len(old) /\ j < i
    OBVIOUS
  <2>5. PICK l \in 1 .. Len(new) : at[l] = j
    BY <2>3, <2>4 DEF Thins
  <2>6. ~ k <= l
    <3>1. k < l => i < j
      BY <2>1, <2>5 DEF Thins
    <3>2. k = l => i = j
      BY <2>1, <2>5
    <3> QED
      BY <2>4, <3>1, <3>2
  <2>7. l \in 1 .. k - 1
    BY <2>6
  <2>8. new[l].event = old[j].event /\ new[l].done
    BY <2>3, <2>5 DEF Thins
  <2> QED
    BY <2>3, <2>7, <2>8
<1> QED
  BY <1>1, <1>2, <1>3 DEF EditorRows

(* A row that keeps its place, and one that goes.                          *)
LEMMA RowInPlaceThins ==
    ASSUME NEW old \in Seq(Rows), NEW i \in 1 .. Len(old), ~ old[i].done, NEW row \in Rows,
           row.event = old[i].event, OfEditor(row) <=> OfEditor(old[i]),
           NEW new, new = [old EXCEPT ![i] = row]
    PROVE  new \in Seq(Rows) /\ \E at : Thins(old, new, at)
<1>1. new \in Seq(Rows) /\ Len(new) = Len(old)
  OBVIOUS
<1>2. \A k \in 1 .. Len(old) : new[k] = IF k = i THEN row ELSE old[k]
  OBVIOUS
<1>3. Thins(old, new, [k \in 1 .. Len(old) |-> k])
  BY <1>1, <1>2 DEF Thins
<1> QED
  BY <1>1, <1>3

(* So does a row that goes.                                                *)
LEMMA RemovalThins ==
    ASSUME NEW old \in Seq(Rows), NEW i \in 1 .. Len(old), ~ old[i].done, ~ OfEditor(old[i]),
           NEW new, new = RemoveAt(old, i)
    PROVE  new \in Seq(Rows) /\ \E at : Thins(old, new, at)
<1>1. /\ new \in Seq(Rows) /\ Len(new) = Len(old) - 1
      /\ \A k \in 1 .. Len(old) - 1 : new[k] = IF k < i THEN old[k] ELSE old[k + 1]
  BY RemoveAtProperties
<1>2. Len(old) \in Nat /\ i \in Nat
  OBVIOUS
<1> DEFINE at == [k \in 1 .. Len(old) - 1 |-> IF k < i THEN k ELSE k + 1]
<1>3. at \in [1 .. Len(new) -> 1 .. Len(old)]
  BY <1>1, <1>2
<1>4. \A k, l \in 1 .. Len(new) : k < l => at[k] < at[l]
  BY <1>1, <1>2
<1>5. \A k \in 1 .. Len(new) : new[k] = old[at[k]]
  BY <1>1, <1>2
<1>6. ASSUME NEW j \in 1 .. Len(old), j # i
      PROVE  \E k \in 1 .. Len(new) : at[k] = j
  <2>1. CASE j < i
    <3>1. j \in 1 .. Len(new) /\ at[j] = j
      BY <1>1, <1>2, <2>1
    <3> QED
      BY <3>1
  <2>2. CASE j > i
    <3>1. j - 1 \in 1 .. Len(new) /\ at[j - 1] = j
      BY <1>1, <1>2, <2>2
    <3> QED
      BY <3>1
  <2>3. j < i \/ j > i
    BY <1>2, <1>6
  <2> QED
    BY <2>1, <2>2, <2>3
<1> HIDE DEF at
<1>7. Thins(old, new, at)
  BY <1>3, <1>4, <1>5, <1>6 DEF Thins
<1> QED
  BY <1>1, <1>7

(* A run's statement starts.                                               *)
LEMMA RunRowKeepsEdits ==
    ASSUME NEW n \in Nat, NEW old \in Seq(Rows), EditorRows(old, n),
           NEW row \in Rows, ~ IsEdit(row.event), ~ OfEditor(row), NEW new, new = Append(old, row)
    PROVE  EditorRows(new, n)
<1>1. /\ Len(new) = Len(old) + 1 /\ Len(old) \in Nat
      /\ \A i \in 1 .. Len(old) : new[i] = old[i]
      /\ new[Len(old) + 1] = row
  OBVIOUS
<1>2. EditsAreTheirs(new, n)
  BY <1>1 DEF EditorRows, EditsAreTheirs
<1>3. EditsAreNumbered(new, n)
  <2>1. \A i \in 1 .. Len(new) : OfEditor(new[i]) => i \in 1 .. Len(old)
    BY <1>1
  <2>2. \A i, j \in 1 .. Len(new) :
          i < j /\ OfEditor(new[i]) /\ OfEditor(new[j]) => Number(new[i]) < Number(new[j])
    BY <1>1, <2>1 DEF EditorRows, EditsAreNumbered
  <2>3. \A m \in 1 .. n : \E i \in 1 .. Len(new) : OfEditor(new[i]) /\ Number(new[i]) = m
    BY <1>1 DEF EditorRows, EditsAreNumbered
  <2> QED
    BY <2>2, <2>3 DEF EditsAreNumbered
<1>4. EditsFindNodes(new)
  <2>1. ASSUME NEW i \in 1 .. Len(new), OfEditor(new[i]), NEW id \in NeedsOf(new[i].event)
        PROVE  \E j \in 1 .. i - 1 :
                  /\ new[j].done
                  /\ new[j].event.op = "create_node" /\ new[j].event.subject = id
    <3>1. i \in 1 .. Len(old) /\ new[i] = old[i]
      BY <1>1, <2>1
    <3>2. PICK j \in 1 .. i - 1 :
             old[j].done /\ old[j].event.op = "create_node" /\ old[j].event.subject = id
      BY <2>1, <3>1 DEF EditorRows, EditsFindNodes
    <3>3. new[j] = old[j]
      BY <1>1, <3>1
    <3> QED
      BY <3>2, <3>3
  <2> QED
    BY <2>1 DEF EditsFindNodes
<1> QED
  BY <1>2, <1>3, <1>4 DEF EditorRows

(* The editor's statement starts, and it has no other.                     *)
LEMMA EditRowIsNext ==
    ASSUME NEW n \in Nat, NEW old \in Seq(Rows), EditorRows(old, n),
           \A i \in 1 .. Len(old) : OfEditor(old[i]) => old[i].done,
           NEW row \in Rows, IsEdit(row.event), OfEditor(row), ~ row.done,
           row.event.key = <<row.event.op, n + 1>>,
           \A id \in NeedsOf(row.event) :
              \E e \in SeenIn(old) : e.op = "create_node" /\ e.subject = id,
           NEW new, new = Append(old, row)
    PROVE  EditorRows(new, n + 1)
<1>1. /\ Len(new) = Len(old) + 1 /\ Len(old) \in Nat
      /\ \A i \in 1 .. Len(old) : new[i] = old[i]
      /\ new[Len(old) + 1] = row
  OBVIOUS
<1>2. Number(row) = n + 1
  BY DEF Number
<1>3. ASSUME NEW i \in 1 .. Len(new)
      PROVE  (i \in 1 .. Len(old) /\ new[i] = old[i]) \/ (i = Len(old) + 1 /\ new[i] = row)
  BY <1>1
<1>4. EditsAreTheirs(new, n + 1)
  <2>1. ASSUME NEW i \in 1 .. Len(old)
        PROVE  /\ IsEdit(old[i].event) <=> OfEditor(old[i])
               /\ OfEditor(old[i]) =>
                    /\ Number(old[i]) \in 1 .. n + 1 /\ old[i].done
                    /\ old[i].event.key = <<old[i].event.op, Number(old[i])>>
    BY DEF EditorRows, EditsAreTheirs
  <2>2. n + 1 \in 1 .. n + 1
    OBVIOUS
  <2> QED
    BY <1>2, <1>3, <2>1, <2>2 DEF EditsAreTheirs
<1>5. EditsAreNumbered(new, n + 1)
  <2>1. ASSUME NEW i \in 1 .. Len(new), NEW j \in 1 .. Len(new), i < j,
               OfEditor(new[i]), OfEditor(new[j])
        PROVE  Number(new[i]) < Number(new[j])
    <3>1. i \in 1 .. Len(old) /\ new[i] = old[i]
      BY <1>1, <1>3, <2>1
    <3>2. CASE j \in 1 .. Len(old) /\ new[j] = old[j]
      BY <2>1, <3>1, <3>2 DEF EditorRows, EditsAreNumbered
    <3>3. CASE new[j] = row
      <4>1. Number(old[i]) \in 1 .. n
        BY <2>1, <3>1 DEF EditorRows, EditsAreTheirs
      <4> QED
        BY <1>2, <3>1, <3>3, <4>1
    <3> QED
      BY <1>3, <3>2, <3>3
  <2>2. ASSUME NEW m \in 1 .. n + 1
        PROVE  \E i \in 1 .. Len(new) : OfEditor(new[i]) /\ Number(new[i]) = m
    <3>1. CASE m = n + 1
      BY <1>1, <1>2, <3>1
    <3>2. CASE m # n + 1
      <4>1. m \in 1 .. n
        BY <3>2
      <4>2. PICK i \in 1 .. Len(old) : OfEditor(old[i]) /\ Number(old[i]) = m
        BY <4>1 DEF EditorRows, EditsAreNumbered
      <4>3. i \in 1 .. Len(new) /\ new[i] = old[i]
        BY <1>1
      <4> QED
        BY <4>2, <4>3
    <3> QED
      BY <3>1, <3>2
  <2> QED
    BY <2>1, <2>2 DEF EditsAreNumbered
<1>6. EditsFindNodes(new)
  <2>1. ASSUME NEW i \in 1 .. Len(new), OfEditor(new[i]), NEW id \in NeedsOf(new[i].event)
        PROVE  \E j \in 1 .. i - 1 :
                  /\ new[j].done
                  /\ new[j].event.op = "create_node" /\ new[j].event.subject = id
    <3>1. CASE i \in 1 .. Len(old) /\ new[i] = old[i]
      <4>0. EditsFindNodes(old) /\ OfEditor(old[i]) /\ id \in NeedsOf(old[i].event)
        BY <2>1, <3>1 DEF EditorRows
      <4>1. PICK j \in 1 .. i - 1 :
               old[j].done /\ old[j].event.op = "create_node" /\ old[j].event.subject = id
        BY <3>1, <4>0, ZenonT(60) DEF EditsFindNodes
      <4>2. new[j] = old[j]
        BY <1>1, <3>1
      <4> QED
        BY <4>1, <4>2
    <3>2. CASE i = Len(old) + 1 /\ new[i] = row
      <4>1. PICK e \in SeenIn(old) : e.op = "create_node" /\ e.subject = id
        BY <2>1, <3>2
      <4>2. PICK j \in 1 .. Len(old) : old[j].done /\ e = old[j].event
        BY DEF SeenIn
      <4>3. new[j] = old[j] /\ j \in 1 .. i - 1
        BY <1>1, <3>2
      <4> QED
        BY <4>1, <4>2, <4>3
    <3> QED
      BY <1>3, <3>1, <3>2
  <2> QED
    BY <2>1 DEF EditsFindNodes
<1> QED
  BY <1>4, <1>5, <1>6 DEF EditorRows

(* The edits that are seen, by their numbers.                              *)
EditsAre(edits, rows) ==
    /\ edits \in Seq(SeenIn(rows)) /\ AreEdits(edits)
    /\ \A e \in SeenIn(rows) : IsEdit(e) => \E i \in 1 .. Len(edits) : edits[i] = e

(* The number tells the editor's rows apart.                               *)
LEMMA EditorTells ==
    ASSUME NEW rows \in Seq(Rows), NEW n \in Nat, EditorRows(rows, n),
           NEW i \in 1 .. Len(rows), NEW j \in 1 .. Len(rows),
           OfEditor(rows[i]), OfEditor(rows[j]), Number(rows[i]) = Number(rows[j])
    PROVE  i = j
<1>1. Number(rows[i]) \in Nat /\ Number(rows[j]) \in Nat
  BY DEF EditorRows, EditsAreTheirs
<1>2. ~ (i < j) /\ ~ (j < i)
  BY <1>1 DEF EditorRows, EditsAreNumbered
<1> QED
  BY <1>2

(* An edit that is seen is the editor's, and done.                         *)
LEMMA SeenEdit ==
    ASSUME NEW rows \in Seq(Rows), NEW n \in Nat, EditorRows(rows, n),
           NEW e \in SeenIn(rows), IsEdit(e)
    PROVE  \E i \in 1 .. Len(rows) :
              /\ OfEditor(rows[i]) /\ rows[i].done /\ rows[i].event = e
              /\ Number(rows[i]) \in 1 .. n /\ e.key = <<e.op, Number(rows[i])>>
<1>1. PICK i \in 1 .. Len(rows) : rows[i].done /\ rows[i].event = e
  BY DEF SeenIn
<1> QED
  BY <1>1 DEF EditorRows, EditsAreTheirs

(* It is at its number among the edits.                                    *)
LEMMA EditAt ==
    ASSUME NEW rows \in Seq(Rows), NEW n \in Nat, EditorRows(rows, n),
           NEW edits, EditsAre(edits, rows),
           NEW i \in 1 .. Len(rows), OfEditor(rows[i]), rows[i].done
    PROVE  Number(rows[i]) \in 1 .. Len(edits) /\ edits[Number(rows[i])] = rows[i].event
<1>1. PICK e : e = rows[i].event
  OBVIOUS
<1>2. IsEdit(e) /\ e.key = <<e.op, Number(rows[i])>>
  BY <1>1 DEF EditorRows, EditsAreTheirs
<1>3. e \in SeenIn(rows)
  BY <1>1 DEF SeenIn
<1>4. PICK p \in 1 .. Len(edits) : edits[p] = e
  BY <1>2, <1>3 DEF EditsAre
<1>5. e.key = <<e.op, p>>
  BY <1>4 DEF EditsAre, AreEdits
<1>6. p = Number(rows[i])
  BY <1>2, <1>5
<1> QED
  BY <1>1, <1>4, <1>6

(* What a replay reads, row by row.                                        *)
LEMMA MutationsAt ==
    ASSUME log \in Seq(Rows)
    PROVE  /\ Len(AllMutations) \in Nat
           /\ \E at \in [1 .. Len(AllMutations) -> 1 .. Len(log)] :
                /\ \A k \in 1 .. Len(AllMutations) :
                      AllMutations[k] = log[at[k]].event /\ log[at[k]].done
                /\ \A k, l \in 1 .. Len(AllMutations) : k < l => at[k] < at[l]
                /\ \A i \in 1 .. Len(log) :
                      log[i].done => \E k \in 1 .. Len(AllMutations) : at[k] = i
<1>1. PICK at : PicksAt(log, {row \in Rows : row.done}, Len(log), Visible, at)
  BY VisibleInOrder DEF Visible
<1>2. /\ Len(Visible) \in Nat /\ Visible \in Seq({log[i] : i \in 1 .. Len(log)})
      /\ at \in [1 .. Len(Visible) -> 1 .. Len(log)]
      /\ \A k \in 1 .. Len(Visible) : Visible[k] = log[at[k]] /\ log[at[k]].done
      /\ \A k, l \in 1 .. Len(Visible) : k < l => at[k] < at[l]
      /\ \A i \in 1 .. Len(log) :
            log[i] \in {row \in Rows : row.done} => \E k \in 1 .. Len(Visible) : at[k] = i
  BY <1>1 DEF PicksAt
<1>3. DOMAIN Visible = 1 .. Len(Visible)
  <2>1. PICK S : S = {log[i] : i \in 1 .. Len(log)}
    OBVIOUS
  <2>2. Visible \in Seq(S)
    BY <1>2, <2>1
  <2> QED
    BY <2>2
<1>4. AllMutations = [k \in 1 .. Len(Visible) |-> Visible[k].event]
  BY <1>3 DEF AllMutations, EventsOf
<1>5. Len(AllMutations) = Len(Visible)
  BY SeenEvents
<1>6. \A i \in 1 .. Len(log) : log[i].done => \E k \in 1 .. Len(Visible) : at[k] = i
  BY <1>2
<1>7. \A k \in 1 .. Len(Visible) : AllMutations[k] = log[at[k]].event
  BY <1>2, <1>4
<1>8. /\ \A k \in 1 .. Len(AllMutations) : AllMutations[k] = log[at[k]].event /\ log[at[k]].done
      /\ \A k, l \in 1 .. Len(AllMutations) : k < l => at[k] < at[l]
      /\ \A i \in 1 .. Len(log) : log[i].done => \E k \in 1 .. Len(AllMutations) : at[k] = i
  BY <1>2, <1>5, <1>6, <1>7
<1>9. at \in [1 .. Len(AllMutations) -> 1 .. Len(log)] /\ Len(AllMutations) \in Nat
  BY <1>2, <1>5
<1> QED
  BY <1>8, <1>9

(* A replay reads each edit after the one before it, and after its nodes.  *)
LEMMA EditsFollow ==
    ASSUME log \in Seq(Rows), edited \in Nat, EditorRows(log, edited),
           NEW edits, EditsAre(edits, log)
    PROVE  EditsInOrder(AllMutations, edits)
<1>1. PICK at \in [1 .. Len(AllMutations) -> 1 .. Len(log)] :
         /\ \A k \in 1 .. Len(AllMutations) :
               AllMutations[k] = log[at[k]].event /\ log[at[k]].done
         /\ \A k, l \in 1 .. Len(AllMutations) : k < l => at[k] < at[l]
         /\ \A i \in 1 .. Len(log) :
               log[i].done => \E k \in 1 .. Len(AllMutations) : at[k] = i
  BY MutationsAt
<1>2. Len(AllMutations) \in Nat
  BY MutationsAt
<1>3. ASSUME NEW n \in 1 .. Len(AllMutations), NEW j \in 1 .. Len(log), log[j].done, j < at[n]
      PROVE  \E m \in 1 .. n - 1 : AllMutations[m] = log[j].event
  <2>1. PICK m \in 1 .. Len(AllMutations) : at[m] = j
    BY <1>1, <1>3
  <2>2. ~ (n <= m)
    <3>1. at[n] \in Nat
      <4>1. at \in [1 .. Len(AllMutations) -> 1 .. Len(log)]
        BY <1>1
      <4>2. at[n] \in 1 .. Len(log)
        BY <4>1
      <4> QED
        BY <4>2
    <3>2. n < m => at[n] < at[m]
      BY <1>1
    <3>3. n = m => at[n] = at[m]
      OBVIOUS
    <3> QED
      BY <1>2, <1>3, <2>1, <3>1, <3>2, <3>3
  <2>3. m \in 1 .. n - 1
    BY <1>2, <2>2
  <2> QED
    BY <1>1, <2>1, <2>3
<1> SUFFICES ASSUME NEW n \in 1 .. Len(AllMutations), IsEdit(AllMutations[n])
             PROVE  /\ \E i \in 1 .. Len(edits) :
                          /\ AllMutations[n] = edits[i]
                          /\ i > 1 => \E m \in 1 .. n - 1 : AllMutations[m] = edits[i - 1]
                    /\ \A id \in NeedsOf(AllMutations[n]) :
                          \E m \in 1 .. n - 1 :
                             AllMutations[m].op = "create_node" /\ AllMutations[m].subject = id
  BY DEF EditsInOrder
<1>4. PICK i \in 1 .. Len(log) : i = at[n]
  OBVIOUS
<1>5. PICK e : e = log[i].event
  OBVIOUS
<1>6. AllMutations[n] = e /\ log[i].done /\ IsEdit(e)
  BY <1>1, <1>4, <1>5
<1>7. OfEditor(log[i])
  BY <1>5, <1>6 DEF EditorRows, EditsAreTheirs
<1>8. PICK p : p = Number(log[i])
  OBVIOUS
<1>9. p \in 1 .. Len(edits) /\ edits[p] = e /\ p \in 1 .. edited
  <2>1. Number(log[i]) \in 1 .. Len(edits) /\ edits[Number(log[i])] = log[i].event
    BY <1>6, <1>7, EditAt
  <2>2. Number(log[i]) \in 1 .. edited
    BY <1>7 DEF EditorRows, EditsAreTheirs
  <2> QED
    BY <1>5, <1>8, <2>1, <2>2
<1>10. ASSUME p > 1 PROVE \E m \in 1 .. n - 1 : AllMutations[m] = edits[p - 1]
  <2>1. p - 1 \in 1 .. edited /\ p - 1 # edited
    BY <1>9, <1>10
  <2>2. PICK j \in 1 .. Len(log) : OfEditor(log[j]) /\ Number(log[j]) = p - 1
    BY <2>1 DEF EditorRows, EditsAreNumbered
  <2>3. log[j].done
    BY <2>1, <2>2 DEF EditorRows, EditsAreTheirs
  <2>4. j < i
    <3>1. i < j => Number(log[i]) < Number(log[j])
      BY <1>7, <2>2 DEF EditorRows, EditsAreNumbered
    <3>2. i = j => Number(log[i]) = Number(log[j])
      OBVIOUS
    <3>3. p \in Nat
      BY <1>9
    <3> QED
      BY <1>8, <2>2, <3>1, <3>2, <3>3
  <2>5. edits[p - 1] = log[j].event
    <3>1. edits[Number(log[j])] = log[j].event
      BY <2>2, <2>3, EditAt
    <3> QED
      BY <2>2, <3>1
  <2>6. \E m \in 1 .. n - 1 : AllMutations[m] = log[j].event
    BY <1>3, <1>4, <2>3, <2>4
  <2> QED
    BY <2>5, <2>6
<1>11. ASSUME NEW id \in NeedsOf(e)
       PROVE  \E m \in 1 .. n - 1 :
                 AllMutations[m].op = "create_node" /\ AllMutations[m].subject = id
  <2>1. PICK j \in 1 .. i - 1 :
           log[j].done /\ log[j].event.op = "create_node" /\ log[j].event.subject = id
    BY <1>5, <1>7 DEF EditorRows, EditsFindNodes
  <2>2. j \in 1 .. Len(log) /\ j < at[n]
    BY <1>4
  <2>3. PICK m \in 1 .. n - 1 : AllMutations[m] = log[j].event
    BY <1>3, <2>1, <2>2
  <2> QED
    BY <2>1, <2>3
<1> QED
  BY <1>6, <1>9, <1>10, <1>11

(* The first of them follow each other too.                                *)
LEMMA FirstEditsFollow ==
    ASSUME NEW T, NEW rows \in Seq(T), NEW edits, EditsInOrder(rows, edits), NEW n \in 0 .. Len(rows),
           NEW part, part = SubSeq(rows, 1, n)
    PROVE  EditsInOrder(part, edits)
<1>1. Len(part) = n /\ \A i \in 1 .. n : part[i] = rows[i]
  BY FirstRows
<1>2. Len(rows) \in Nat
  OBVIOUS
<1> SUFFICES ASSUME NEW m \in 1 .. n, IsEdit(part[m])
             PROVE  /\ \E i \in 1 .. Len(edits) :
                          /\ part[m] = edits[i]
                          /\ i > 1 => \E l \in 1 .. m - 1 : part[l] = edits[i - 1]
                    /\ \A id \in NeedsOf(part[m]) :
                          \E l \in 1 .. m - 1 : part[l].op = "create_node" /\ part[l].subject = id
  BY <1>1 DEF EditsInOrder
<1>3. m \in 1 .. Len(rows) /\ part[m] = rows[m] /\ \A l \in 1 .. m - 1 : part[l] = rows[l]
  BY <1>1, <1>2
<1>4. PICK i \in 1 .. Len(edits) :
         rows[m] = edits[i] /\ (i > 1 => \E l \in 1 .. m - 1 : rows[l] = edits[i - 1])
  BY <1>3 DEF EditsInOrder
<1>5. \A id \in NeedsOf(rows[m]) :
         \E l \in 1 .. m - 1 : rows[l].op = "create_node" /\ rows[l].subject = id
  BY <1>3 DEF EditsInOrder
<1> QED
  BY <1>3, <1>4, <1>5

(* What is seen of a log with a row more, in place, or less.               *)
LEMMA SeenAppended ==
    ASSUME NEW old \in Seq(Rows), NEW row \in Rows, ~ row.done, NEW new, new = Append(old, row)
    PROVE  SeenIn(new) \subseteq SeenIn(old)
<1>1. /\ Len(new) = Len(old) + 1 /\ Len(old) \in Nat
      /\ \A i \in 1 .. Len(old) : new[i] = old[i]
      /\ new[Len(old) + 1] = row
  OBVIOUS
<1>2. ASSUME NEW i \in 1 .. Len(new), new[i].done
      PROVE  new[i].event \in SeenIn(old)
  <2>1. i \in 1 .. Len(old) /\ new[i] = old[i]
    BY <1>1, <1>2
  <2> QED
    BY <1>2, <2>1 DEF SeenIn
<1> QED
  BY <1>2 DEF SeenIn

(* A row that keeps its place shows its own event at most.                 *)
LEMMA SeenInPlace ==
    ASSUME NEW old \in Seq(Rows), NEW i \in 1 .. Len(old), NEW row \in Rows,
           row.event = old[i].event, NEW new, new = [old EXCEPT ![i] = row]
    PROVE  SeenIn(new) \subseteq SeenIn(old) \cup {row.event}
<1>1. Len(new) = Len(old) /\ \A k \in 1 .. Len(old) : new[k] = IF k = i THEN row ELSE old[k]
  OBVIOUS
<1>2. ASSUME NEW k \in 1 .. Len(new), new[k].done
      PROVE  new[k].event \in SeenIn(old) \cup {row.event}
  <2>1. CASE k = i
    BY <1>1, <2>1
  <2>2. CASE k # i
    <3>1. k \in 1 .. Len(old) /\ new[k] = old[k]
      BY <1>1, <2>2
    <3> QED
      BY <1>2, <3>1 DEF SeenIn
  <2> QED
    BY <2>1, <2>2
<1> QED
  BY <1>2 DEF SeenIn

(* A row that goes shows nothing.                                          *)
LEMMA SeenRemoved ==
    ASSUME NEW old \in Seq(Rows), NEW i \in 1 .. Len(old), NEW new, new = RemoveAt(old, i)
    PROVE  SeenIn(new) \subseteq SeenIn(old)
<1>1. /\ Len(new) = Len(old) - 1 /\ Len(old) \in Nat
      /\ \A k \in 1 .. Len(old) - 1 : new[k] = IF k < i THEN old[k] ELSE old[k + 1]
  <2>1. Len(old) \in Nat
    OBVIOUS
  <2>2. PICK gone : gone = RemoveAt(old, i)
    OBVIOUS
  <2>3. Len(gone) = Len(old) - 1
    BY <2>2, RemoveAtProperties
  <2>4. \A k \in 1 .. Len(old) - 1 : gone[k] = IF k < i THEN old[k] ELSE old[k + 1]
    BY <2>2, RemoveAtProperties
  <2>5. new = gone
    BY <2>2
  <2> QED
    BY <2>1, <2>3, <2>4, <2>5
<1>2. ASSUME NEW k \in 1 .. Len(new), new[k].done
      PROVE  new[k].event \in SeenIn(old)
  <2>1. CASE k < i
    <3>1. k \in 1 .. Len(old) /\ new[k] = old[k]
      BY <1>1, <2>1
    <3> QED
      BY <1>2, <3>1 DEF SeenIn
  <2>2. CASE ~ (k < i)
    <3>1. k + 1 \in 1 .. Len(old) /\ new[k] = old[k + 1]
      BY <1>1, <2>2
    <3> QED
      BY <1>2, <3>1 DEF SeenIn
  <2> QED
    BY <2>1, <2>2
<1> QED
  BY <1>2 DEF SeenIn

(* What the kept graph has come of: the editor's events, applied in their  *)
(* order, have left on it what they leave on a graph with every node.      *)
KeptInv ==
    /\ EditorRows(log, edited)
    /\ Rising(live) /\ Rooted(live)
    /\ \E edits : EditsAre(edits, log) /\ \E k : Up(live, edits, k)

(* A step that shows no new edit and leaves the graph.                     *)
LEMMA QuietStep ==
    ASSUME KeptInv, EditorRows(log', edited'), Seen \subseteq Seen',
           \A e \in Seen' : IsEdit(e) => e \in Seen, live' = live
    PROVE  KeptInv'
<1>1. PICK edits : EditsAre(edits, log) /\ \E k : Up(live, edits, k)
  BY DEF KeptInv
<1>2. EditsAre(edits, log')
  <2>1. edits \in Seq(Seen')
    BY <1>1 DEF EditsAre, Seen
  <2>2. AreEdits(edits) /\ \A e \in Seen : IsEdit(e) => \E i \in 1 .. Len(edits) : edits[i] = e
    BY <1>1 DEF EditsAre, Seen
  <2>3. \A e \in Seen' : IsEdit(e) => \E i \in 1 .. Len(edits) : edits[i] = e
    BY <2>2
  <2> QED
    BY <2>1, <2>2, <2>3 DEF EditsAre, Seen
<1>3. \E k : Up(live', edits, k)
  BY <1>1
<1>4. Rising(live') /\ Rooted(live')
  BY DEF KeptInv
<1> QED
  BY <1>2, <1>3, <1>4 DEF KeptInv

(* A run starts with a node.                                               *)
LEMMA PromoteKept ==
    ASSUME LedgerInv, KeptInv, NEW w \in Runs, Promote(w)
    PROVE  KeptInv'
<1>1. log \in Seq(Rows) /\ edited \in Nat
  BY LedgerAssumption DEF LedgerInv, StateIsTyped
<1>2. UNCHANGED <<live, edited>> /\ LogIsKept(log, log')
  BY PromoteKeeps DEF Promote
<1>3. PICK triple \in Triples : Start(w, Head(Mutations(triple[1], triple[2], triple[3])))
  BY DEF Promote
<1>4. PICK m : m = Mutations(triple[1], triple[2], triple[3])
  OBVIOUS
<1>5. m \in Seq(RunEvents) /\ m # <<>> /\ Head(m) = m[1] /\ m[1].op = "create_node"
  BY <1>4, MutationsPrepare
<1>6. PICK row : row = [writer |-> w, event |-> m[1], done |-> FALSE]
  OBVIOUS
<1>7. log' = Append(log, row)
  BY <1>3, <1>4, <1>5, <1>6 DEF Start
<1>8. row \in Rows /\ ~ row.done /\ ~ OfEditor(row) /\ ~ IsEdit(row.event)
  <2>1. m[1] \in RunEvents
    BY <1>5
  <2>2. m[1] \in Events /\ w \in Writers /\ w # Editor
    BY <2>1, RunEventKinds, LedgerAssumption DEF Writers
  <2> QED
    BY <1>5, <1>6, <2>2 DEF Rows, OfEditor, IsEdit
<1>9. EditorRows(log', edited)
  BY <1>1, <1>7, <1>8, RunRowKeepsEdits DEF KeptInv
<1>10. SeenIn(log') \subseteq SeenIn(log)
  BY <1>1, <1>7, <1>8, SeenAppended
<1> QED
  BY <1>2, <1>9, <1>10, QuietStep DEF LogIsKept, Seen

(* Its next statement is no edit.                                          *)
LEMMA LogNextKept ==
    ASSUME LedgerInv, KeptInv, NEW w \in Runs, LogNext(w)
    PROVE  KeptInv'
<1>1. log \in Seq(Rows) /\ edited \in Nat /\ program \in [Runs -> Seq(RunEvents)]
  BY LedgerAssumption DEF LedgerInv, StateIsTyped
<1>2. UNCHANGED <<live, edited>> /\ LogIsKept(log, log') /\ program[w] # <<>>
  BY LogNextKeeps DEF LogNext, counters
<1>3. PICK e : e = Head(program[w])
  OBVIOUS
<1>4. PICK row : row = [writer |-> w, event |-> e, done |-> FALSE]
  OBVIOUS
<1>5. log' = Append(log, row)
  BY <1>3, <1>4 DEF LogNext, Start
<1>6. e \in RunEvents
  BY <1>1, <1>2, <1>3
<1>7. row \in Rows /\ ~ row.done /\ ~ OfEditor(row) /\ ~ IsEdit(row.event)
  <2>1. e \in Events /\ w \in Writers /\ w # Editor /\ e.op \in {"create_node", "create_edge"}
    BY <1>6, RunEventKinds, LedgerAssumption DEF Writers
  <2> QED
    BY <1>4, <2>1 DEF Rows, OfEditor, IsEdit
<1>8. EditorRows(log', edited)
  BY <1>1, <1>5, <1>7, RunRowKeepsEdits DEF KeptInv
<1>9. SeenIn(log') \subseteq SeenIn(log)
  BY <1>1, <1>5, <1>7, SeenAppended
<1> QED
  BY <1>2, <1>8, <1>9, QuietStep DEF LogIsKept, Seen

(* A statement that is not the editor's ends.                              *)
LEMMA RunRowEnds ==
    ASSUME log \in Seq(Rows), NEW n \in Nat, EditorRows(log, n),
           NEW i \in 1 .. Len(log), ~ log[i].done, ~ OfEditor(log[i]), Ended(i)
    PROVE  /\ EditorRows(log', n)
           /\ \A e \in Seen' : IsEdit(e) => e \in Seen
<1>1. log[i] \in Rows /\ ~ IsEdit(log[i].event)
  BY DEF EditorRows, EditsAreTheirs
<1>2. CASE log' = RemoveAt(log, i)
  <2>1. log' \in Seq(Rows) /\ \E at : Thins(log, log', at)
    BY <1>2, RemovalThins
  <2>2. EditorRows(log', n)
    BY <2>1, ThinnedEdits
  <2>3. SeenIn(log') \subseteq SeenIn(log)
    BY <1>2, SeenRemoved
  <2> QED
    BY <2>2, <2>3 DEF Seen
<1>3. CASE log' = [log EXCEPT ![i].done = TRUE]
  <2>1. PICK row : row = [log[i] EXCEPT !.done = TRUE]
    OBVIOUS
  <2>2. log' = [log EXCEPT ![i] = row]
    BY <1>3, <2>1
  <2>3. row \in Rows /\ row.event = log[i].event /\ row.writer = log[i].writer
    BY <1>1, <2>1 DEF Rows
  <2>4. OfEditor(row) <=> OfEditor(log[i])
    BY <2>3 DEF OfEditor
  <2>5. log' \in Seq(Rows) /\ \E at : Thins(log, log', at)
    BY <2>2, <2>3, <2>4, RowInPlaceThins
  <2>6. EditorRows(log', n)
    BY <2>5, ThinnedEdits
  <2>7. SeenIn(log') \subseteq SeenIn(log) \cup {row.event}
    BY <2>2, <2>3, SeenInPlace
  <2> QED
    BY <1>1, <2>3, <2>6, <2>7 DEF Seen
<1> QED
  BY <1>2, <1>3 DEF Ended

(* Its open row goes, or is nobody's.                                      *)
LEMMA DieKept ==
    ASSUME LedgerInv, KeptInv, NEW w \in Runs, Die(w)
    PROVE  KeptInv'
<1>1. log \in Seq(Rows) /\ edited \in Nat /\ DOMAIN log = 1 .. Len(log)
  BY LedgerAssumption DEF LedgerInv, StateIsTyped
<1>2. UNCHANGED <<live, edited>> /\ (log' # log => LogIsKept(log, log'))
  BY DieKeeps DEF Die
<1>3. EditorRows(log, edited)
  BY DEF KeptInv
<1>4. CASE log' = log
  BY <1>2, <1>3, <1>4, QuietStep DEF Seen
<1>5. CASE log' # log
  <2>1. PICK i \in 1 .. Len(log) :
           /\ log[i].writer = w /\ ~ log[i].done
           /\ log' = RemoveAt(log, i) \/ log' = [log EXCEPT ![i].writer = Gone]
    BY <1>1, <1>5 DEF Die
  <2>2. log[i] \in Rows /\ ~ OfEditor(log[i])
    BY <1>1, <2>1, LedgerAssumption DEF OfEditor
  <2>3. ~ IsEdit(log[i].event)
    BY <1>3, <2>2 DEF EditorRows, EditsAreTheirs
  <2>4. CASE log' = RemoveAt(log, i)
    <3>1. log' \in Seq(Rows) /\ \E at : Thins(log, log', at)
      BY <1>1, <2>1, <2>2, <2>4, RemovalThins
    <3>2. EditorRows(log', edited)
      BY <1>1, <1>3, <3>1, ThinnedEdits
    <3>3. SeenIn(log') \subseteq SeenIn(log)
      BY <1>1, <2>4, SeenRemoved
    <3> QED
      BY <1>2, <1>5, <3>2, <3>3, QuietStep DEF LogIsKept, Seen
  <2>5. CASE log' = [log EXCEPT ![i].writer = Gone]
    <3>1. PICK row : row = [log[i] EXCEPT !.writer = Gone]
      OBVIOUS
    <3>2. log' = [log EXCEPT ![i] = row]
      BY <2>5, <3>1
    <3>3. row \in Rows /\ row.event = log[i].event /\ ~ OfEditor(row)
      BY <2>2, <3>1, LedgerAssumption DEF Rows, Writers, OfEditor
    <3>4. log' \in Seq(Rows) /\ \E at : Thins(log, log', at)
      BY <1>1, <2>1, <2>2, <3>2, <3>3, RowInPlaceThins
    <3>5. EditorRows(log', edited)
      BY <1>1, <1>3, <3>4, ThinnedEdits
    <3>6. SeenIn(log') \subseteq SeenIn(log) \cup {row.event}
      BY <1>1, <3>2, <3>3, SeenInPlace
    <3>7. \A e \in Seen' : IsEdit(e) => e \in Seen
      BY <2>3, <3>3, <3>6 DEF Seen
    <3> QED
      BY <1>2, <1>5, <3>5, <3>7, QuietStep DEF LogIsKept, Seen
  <2> QED
    BY <2>1, <2>4, <2>5
<1> QED
  BY <1>4, <1>5

(* The editor's statement ends: it is the next edit to be seen.            *)
LEMMA EditIsNext ==
    ASSUME NEW rows \in Seq(Rows), NEW n \in Nat, EditorRows(rows, n),
           NEW edits, EditsAre(edits, rows),
           NEW i \in 1 .. Len(rows), OfEditor(rows[i]), ~ rows[i].done,
           NEW e, e = rows[i].event
    PROVE  /\ IsEdit(e) /\ e.key = <<e.op, Len(edits) + 1>>
           /\ e.key \notin KeysOf(SeenIn(rows))
<1>1. /\ IsEdit(e) /\ Number(rows[i]) = n /\ n \in 1 .. n
      /\ e.key = <<e.op, n>>
  BY DEF EditorRows, EditsAreTheirs
<1>2. Len(edits) \in Nat
  BY DEF AreEdits, EditsAre
<1>3. ASSUME NEW j \in 1 .. Len(rows), rows[j].done, OfEditor(rows[j])
      PROVE  Number(rows[j]) \in 1 .. n /\ Number(rows[j]) # n
  <2>1. j # i
    BY <1>3
  <2>2. Number(rows[j]) # n
    BY <1>1, <1>3, <2>1, EditorTells
  <2> QED
    BY <1>3, <2>2 DEF EditorRows, EditsAreTheirs
<1>4. Len(edits) < n
  <2>1. CASE Len(edits) = 0
    BY <1>1, <2>1
  <2>2. CASE Len(edits) # 0
    <3>1. PICK m : m = Len(edits)
      OBVIOUS
    <3>2. m \in 1 .. Len(edits)
      BY <1>2, <2>2, <3>1
    <3>3. PICK a : a = edits[m]
      OBVIOUS
    <3>4. a \in SeenIn(rows) /\ IsEdit(a) /\ a.key = <<a.op, m>>
      BY <3>2, <3>3 DEF EditsAre, AreEdits
    <3>5. PICK j \in 1 .. Len(rows) :
             /\ OfEditor(rows[j]) /\ rows[j].done /\ rows[j].event = a
             /\ a.key = <<a.op, Number(rows[j])>>
      BY <3>4, SeenEdit
    <3>6. m = Number(rows[j])
      BY <3>4, <3>5
    <3>7. m \in 1 .. n /\ m # n
      BY <1>3, <3>5, <3>6
    <3> QED
      BY <3>1, <3>7
  <2> QED
    BY <2>1, <2>2
<1>5. n - 1 <= Len(edits)
  <2>1. CASE n = 1
    BY <1>2, <2>1
  <2>2. CASE n # 1
    <3>1. n - 1 \in 1 .. n /\ n - 1 # n
      BY <1>1, <2>2
    <3>2. PICK j \in 1 .. Len(rows) : OfEditor(rows[j]) /\ Number(rows[j]) = n - 1
      BY <3>1 DEF EditorRows, EditsAreNumbered
    <3>3. rows[j].done
      BY <3>1, <3>2 DEF EditorRows, EditsAreTheirs
    <3>4. Number(rows[j]) \in 1 .. Len(edits)
      BY <3>2, <3>3, EditAt
    <3> QED
      BY <3>2, <3>4
  <2> QED
    BY <2>1, <2>2
<1>6. n = Len(edits) + 1
  BY <1>2, <1>4, <1>5
<1>7. ASSUME NEW a \in SeenIn(rows), a.key = e.key
      PROVE  FALSE
  <2>1. a \in Events
    <3>1. PICK j \in 1 .. Len(rows) : a = rows[j].event
      BY DEF SeenIn
    <3>2. rows[j] \in Rows
      OBVIOUS
    <3> QED
      BY <3>1, <3>2 DEF Rows
  <2>2. IsEdit(a)
    <3>1. a.key[1] = e.op
      BY <1>1, <1>7
    <3>2. ~ IsEdit(a) => a.key[1] \in {"create_node", "create_entity", "create_edge"}
      BY <2>1, KeyTells
    <3> QED
      BY <1>1, <3>1, <3>2 DEF IsEdit
  <2>3. PICK j \in 1 .. Len(rows) :
           OfEditor(rows[j]) /\ rows[j].done /\ a.key = <<a.op, Number(rows[j])>>
    BY <2>2, SeenEdit
  <2>4. Number(rows[j]) = n
    BY <1>1, <1>7, <2>3
  <2> QED
    BY <1>3, <2>3, <2>4
<1> QED
  BY <1>1, <1>6, <1>7 DEF KeysOf

(* A graph that has not applied the next edit is as far as it was.         *)
LEMMA UpAgain ==
    ASSUME NEW edits, AreEdits(edits), NEW e \in Events, NEW more, more = Append(edits, e),
           NEW g, NEW k, Up(g, edits, k), e.key \notin g.applied
    PROVE  Up(g, more, k)
<1>1. edits \in Seq(Events) /\ Len(edits) \in Nat
  BY DEF AreEdits
<1>2. /\ more \in Seq(Events) /\ Len(more) = Len(edits) + 1 /\ more[Len(edits) + 1] = e
      /\ \A i \in 1 .. Len(edits) : more[i] = edits[i]
  BY <1>1
<1>3. k \in 0 .. Len(edits) /\ k \in 0 .. Len(more)
  BY <1>1, <1>2 DEF Up
<1>4. After(AllNodes, more, k) = After(AllNodes, edits, k)
  <2>1. SubSeq(more, 1, k) = SubSeq(edits, 1, k)
    BY <1>1, <1>2, <1>3
  <2> QED
    BY <2>1 DEF After
<1>5. ASSUME NEW i \in 1 .. Len(more)
      PROVE  more[i].key \in g.applied <=> i <= k
  <2>1. CASE i \in 1 .. Len(edits)
    BY <1>2, <2>1 DEF Up
  <2>2. CASE i = Len(edits) + 1
    BY <1>1, <1>2, <1>3, <2>2
  <2> QED
    BY <1>1, <1>2, <2>1, <2>2
<1> QED
  BY <1>3, <1>4, <1>5 DEF Up

(* The graph has not applied it.                                           *)
LEMMA EditEnds ==
    ASSUME LedgerInv, KeptInv,
           NEW i \in 1 .. Len(log), ~ log[i].done, OfEditor(log[i]), Ended(i),
           UNCHANGED <<live, edited>>
    PROVE  KeptInv'
<1>1. log \in Seq(Rows) /\ edited \in Nat
  BY LedgerAssumption DEF LedgerInv, StateIsTyped
<1>2. PICK edits : EditsAre(edits, log) /\ \E k : Up(live, edits, k)
  BY DEF KeptInv
<1>3. PICK k : Up(live, edits, k)
  BY <1>2
<1>4. PICK e : e = log[i].event
  OBVIOUS
<1>5. EditorRows(log, edited)
  BY DEF KeptInv
<1>6. IsEdit(e) /\ e.key = <<e.op, Len(edits) + 1>> /\ e.key \notin KeysOf(Seen)
  BY <1>1, <1>2, <1>4, <1>5, EditIsNext DEF Seen
<1>7. PICK row : row = [log[i] EXCEPT !.done = TRUE]
  OBVIOUS
<1>8. log' = [log EXCEPT ![i] = row]
  <2>1. log[i].event.key \notin Keys(Visible)
    BY <1>1, <1>4, <1>6, SeenEvents
  <2> QED
    BY <1>7, <2>1 DEF Ended
<1>9. log[i] \in Rows
  BY <1>1
<1>10. row \in Rows /\ row.event = e /\ row.done /\ row.writer = log[i].writer
  BY <1>4, <1>7, <1>9 DEF Rows
<1>11. EditorRows(log', edited)
  <2>1. OfEditor(row) <=> OfEditor(log[i])
    BY <1>10 DEF OfEditor
  <2>2. log' \in Seq(Rows) /\ \E at : Thins(log, log', at)
    BY <1>1, <1>4, <1>8, <1>10, <2>1, RowInPlaceThins
  <2> QED
    BY <1>1, <1>5, <2>2, ThinnedEdits
<1>12. Seen' = Seen \cup {e}
  <2>1. SeenIn(log') \subseteq SeenIn(log) \cup {e}
    BY <1>1, <1>4, <1>8, <1>10, SeenInPlace
  <2>2. /\ Len(log') = Len(log) /\ log'[i] = row
        /\ \A j \in 1 .. Len(log) : j # i => log'[j] = log[j]
    BY <1>1, <1>8
  <2>3. e \in SeenIn(log')
    BY <1>10, <2>2 DEF SeenIn
  <2>4. SeenIn(log) \subseteq SeenIn(log')
    <3>1. ASSUME NEW j \in 1 .. Len(log), log[j].done PROVE log[j].event \in SeenIn(log')
      <4>1. log'[j] = log[j]
        BY <2>2, <3>1
      <4> QED
        BY <2>2, <3>1, <4>1 DEF SeenIn
    <3> QED
      BY <3>1 DEF SeenIn
  <2> QED
    BY <2>1, <2>3, <2>4 DEF Seen
<1>13. e \in Events
  BY <1>4, <1>9 DEF Rows
<1>14. PICK more : more = Append(edits, e)
  OBVIOUS
<1>15. EditsAre(more, log')
  <2>1. edits \in Seq(Seen) /\ AreEdits(edits)
    BY <1>2 DEF EditsAre, Seen
  <2>2. edits \in Seq(Seen')
    BY <1>12, <2>1
  <2>3. /\ more \in Seq(Seen') /\ Len(more) = Len(edits) + 1 /\ more[Len(edits) + 1] = e
        /\ \A j \in 1 .. Len(edits) : more[j] = edits[j]
        /\ Len(edits) \in Nat
    BY <1>12, <1>14, <2>2
  <2>4. more \in Seq(Events)
    BY <1>13, <1>14, <2>1 DEF AreEdits
  <2>5. \A j \in 1 .. Len(more) : IsEdit(more[j]) /\ more[j].key = <<more[j].op, j>>
    <3>1. \A j \in 1 .. Len(edits) : IsEdit(edits[j]) /\ edits[j].key = <<edits[j].op, j>>
      BY <2>1 DEF AreEdits
    <3>2. \A j \in 1 .. Len(more) : j \in 1 .. Len(edits) \/ j = Len(edits) + 1
      BY <2>3
    <3> QED
      BY <1>6, <2>3, <3>1, <3>2
  <2>6. \A a \in Seen' : IsEdit(a) => \E j \in 1 .. Len(more) : more[j] = a
    <3>1. \A a \in Seen : IsEdit(a) => \E j \in 1 .. Len(edits) : edits[j] = a
      BY <1>2 DEF EditsAre, Seen
    <3>2. Len(edits) + 1 \in 1 .. Len(more) /\ 1 .. Len(edits) \subseteq 1 .. Len(more)
      BY <2>3
    <3> QED
      BY <1>12, <2>3, <3>1, <3>2
  <2> QED
    BY <2>3, <2>4, <2>5, <2>6 DEF EditsAre, AreEdits, Seen
<1>16. e.key \notin live.applied
  BY <1>6 DEF LedgerInv, GraphFits, NodesFit
<1>17. Up(live, more, k)
  BY <1>2, <1>3, <1>13, <1>14, <1>16, UpAgain DEF EditsAre
<1>18. Rising(live') /\ Rooted(live') /\ \E l : Up(live', more, l)
  BY <1>17 DEF KeptInv
<1>19. EditorRows(log', edited')
  BY <1>11
<1> QED
  BY <1>15, <1>18, <1>19 DEF KeptInv

(* A statement ends, the editor's or another.                              *)
LEMMA InsertKept ==
    ASSUME LedgerInv, KeptInv, NEW w \in Writers, Insert(w)
    PROVE  KeptInv'
<1>1. log \in Seq(Rows) /\ edited \in Nat /\ DOMAIN log = 1 .. Len(log)
  BY LedgerAssumption DEF LedgerInv, StateIsTyped
<1>2. PICK i \in 1 .. Len(log) : ~ log[i].done /\ Ended(i) /\ UNCHANGED <<live, counters>>
  BY <1>1 DEF Insert
<1>3. UNCHANGED <<live, edited>>
  BY <1>2 DEF counters
<1>4. CASE OfEditor(log[i])
  BY <1>2, <1>3, <1>4, EditEnds
<1>5. CASE ~ OfEditor(log[i])
  <2>1. EditorRows(log', edited) /\ \A e \in Seen' : IsEdit(e) => e \in Seen
    BY <1>1, <1>2, <1>5, RunRowEnds DEF KeptInv
  <2>2. Seen \subseteq Seen'
    BY InsertKeeps DEF LogIsKept, Seen
  <2> QED
    BY <1>3, <2>1, <2>2, QuietStep
<1> QED
  BY <1>4, <1>5

(* The editor's statement starts, for nodes that are seen.                 *)
LEMMA EditStarts ==
    ASSUME LedgerInv, KeptInv, Idle, NEW op \in {"merge_entity", "unmerge", "supersede", "delete"},
           NEW subject, NEW object, NEW ref, Edit(op, subject, object, ref),
           NEW e, e = Event(<<op, edited + 1>>, op, subject, object, ref), e \in Events,
           \A id \in NeedsOf(e) : \E a \in Seen : a.op = "create_node" /\ a.subject = id,
           LogIsKept(log, log')
    PROVE  KeptInv'
<1>1. log \in Seq(Rows) /\ edited \in Nat /\ DOMAIN log = 1 .. Len(log)
  BY LedgerAssumption DEF LedgerInv, StateIsTyped
<1>2. live' = live /\ edited' = edited + 1
  BY DEF Edit
<1>3. PICK row : row = [writer |-> Editor, event |-> e, done |-> FALSE]
  OBVIOUS
<1>4. log' = Append(log, row)
  BY <1>3 DEF Edit, Start
<1>5. /\ row \in Rows /\ ~ row.done /\ OfEditor(row) /\ row.event = e
      /\ IsEdit(e) /\ e.key = <<e.op, edited + 1>>
  <2>1. Editor \in Writers
    BY DEF Writers
  <2>2. e.op = op /\ e.key = <<op, edited + 1>>
    BY DEF Event
  <2> QED
    BY <1>3, <2>1, <2>2 DEF Rows, OfEditor, IsEdit
<1>6. \A i \in 1 .. Len(log) : OfEditor(log[i]) => log[i].done
  <2>1. \A other \in ToSet(log) : other.writer # Editor \/ other.done
    BY DEF Idle, Open
  <2>2. ToSet(log) = {log[i] : i \in 1 .. Len(log)}
    BY <1>1, ElementsOfASequence
  <2> QED
    BY <2>1, <2>2 DEF OfEditor
<1>7. EditorRows(log', edited + 1)
  BY <1>1, <1>4, <1>5, <1>6, EditRowIsNext DEF KeptInv, Seen
<1>8. SeenIn(log') \subseteq SeenIn(log)
  BY <1>1, <1>4, <1>5, SeenAppended
<1> QED
  BY <1>2, <1>7, <1>8, QuietStep DEF LogIsKept, Seen

(* Each of the editor's mutations.                                         *)
LEMMA EditorKept ==
    ASSUME LedgerInv, KeptInv, EditMerge \/ EditUnmerge \/ EditSupersede \/ EditDelete
    PROVE  KeptInv'
<1>1. PICK n : n = edited + 1
  OBVIOUS
<1>2. n \in Nat /\ LogIsKept(log, log')
  BY <1>1, EditorKeeps, LedgerAssumption DEF LedgerInv, StateIsTyped
<1>3. CASE EditMerge
  <2>1. PICK pair \in Pairs :
           {pair[1], pair[2]} \subseteq Listed /\ Edit("merge_entity", pair[1], pair[2], n)
    BY <1>1, <1>3 DEF EditMerge
  <2>2. PICK e : e = Event(<<"merge_entity", n>>, "merge_entity", pair[1], pair[2], n)
    OBVIOUS
  <2>3. pair[1] \in Ids /\ pair[2] \in Ids \cup {NoId} /\ <<pair[1], pair[2]>> \in Pairs
    BY PairFields
  <2>4. n \in Ids \cup Nat \cup {NoId}
    BY <1>2
  <2>5. e \in Events /\ e.op = "merge_entity" /\ e.subject = pair[1] /\ e.object = pair[2]
    BY <1>2, <2>2, <2>3, <2>4, EventIsTyped
  <2>6. \A id \in NeedsOf(e) : \E a \in Seen : a.op = "create_node" /\ a.subject = id
    BY <2>1, <2>5, ListedIsSeen DEF NeedsOf
  <2> QED
    BY <1>1, <1>2, <1>3, <2>1, <2>2, <2>5, <2>6, EditStarts DEF EditMerge
<1>4. CASE EditUnmerge
  <2>1. PICK x \in ToSet(Current.edges) :
           x.type = "SAME_AS" /\ Edit("unmerge", x.from, x.to, x.ref)
    BY <1>4 DEF EditUnmerge
  <2>2. PICK e : e = Event(<<"unmerge", n>>, "unmerge", x.from, x.to, x.ref)
    OBVIOUS
  <2>3. PICK pair \in Pairs : pair = <<x.from, x.to>>
    BY <2>1, ListedIsSeen
  <2>4. x.from \in Ids /\ x.to \in Ids
    BY <2>3, PairFields
  <2>5. x.ref \in Ids \cup Nat \cup {NoId} /\ <<x.from, x.to>> \in Pairs
    BY <2>1, <2>3, ListedIsSeen
  <2>6. e \in Events /\ e.op = "unmerge" /\ e.subject = x.from
    BY <1>2, <2>2, <2>4, <2>5, EventIsTyped
  <2>7. \E a \in Seen : a.op = "create_node" /\ a.subject = x.from
    <3>1. log \in Seq(Rows) /\ GraphFits(Current, Seen)
      BY CurrentFits DEF LedgerInv, StateIsTyped
    <3>2. AllMutations \in Seq(Events)
      BY <3>1, SeenEvents
    <3>3. x.from \in DOMAIN Current.nodes
      BY <3>2, ReplayIsRooted DEF Current, Rooted
    <3> QED
      BY <3>1, <3>3 DEF GraphFits, NodesFit
  <2>8. \A id \in NeedsOf(e) : \E a \in Seen : a.op = "create_node" /\ a.subject = id
    BY <2>6, <2>7 DEF NeedsOf
  <2> QED
    BY <1>1, <1>2, <1>4, <2>1, <2>2, <2>6, <2>8, EditStarts DEF EditUnmerge
<1>5. CASE EditSupersede
  <2>1. PICK pair \in Pairs :
           {pair[1], pair[2]} \subseteq Listed /\ Edit("supersede", pair[1], pair[2], NoId)
    BY <1>5 DEF EditSupersede
  <2>2. PICK e : e = Event(<<"supersede", n>>, "supersede", pair[1], pair[2], NoId)
    OBVIOUS
  <2>3. pair[1] \in Ids /\ pair[2] \in Ids \cup {NoId} /\ <<pair[1], pair[2]>> \in Pairs
    BY PairFields
  <2>4. NoId \in Ids \cup Nat \cup {NoId}
    OBVIOUS
  <2>5. e \in Events /\ e.op = "supersede" /\ e.subject = pair[1] /\ e.object = pair[2]
    BY <1>2, <2>2, <2>3, <2>4, EventIsTyped
  <2>6. \A id \in NeedsOf(e) : \E a \in Seen : a.op = "create_node" /\ a.subject = id
    BY <2>1, <2>5, ListedIsSeen DEF NeedsOf
  <2> QED
    BY <1>1, <1>2, <1>5, <2>1, <2>2, <2>5, <2>6, EditStarts DEF EditSupersede
<1>6. CASE EditDelete
  <2>1. PICK id \in Listed : Edit("delete", id, NoId, NoId)
    BY <1>6 DEF EditDelete
  <2>2. PICK e : e = Event(<<"delete", n>>, "delete", id, NoId, NoId)
    OBVIOUS
  <2>3. id \in Ids
    BY <2>1, ListedIsSeen
  <2>4. e \in Events /\ e.op = "delete" /\ e.subject = id
    BY <1>2, <2>2, <2>3, EventIsTyped
  <2>5. \A needed \in NeedsOf(e) : \E a \in Seen : a.op = "create_node" /\ a.subject = needed
    BY <2>1, <2>4, ListedIsSeen DEF NeedsOf
  <2> QED
    BY <1>1, <1>2, <1>6, <2>1, <2>2, <2>4, <2>5, EditStarts DEF EditDelete
<1> QED
  BY <1>3, <1>4, <1>5, <1>6

(* The kept graph applies the log, or some of it.                          *)
LEMMA RefreshKept ==
    ASSUME LedgerInv, KeptInv, Refresh \/ RefreshFails
    PROVE  KeptInv'
<1>1. /\ log \in Seq(Rows) /\ edited \in Nat /\ KeysAreUnique(log) /\ NodesComeFirst(log)
      /\ GraphFits(live, Seen)
  BY LedgerAssumption DEF LedgerInv, StateIsTyped
<1>2. /\ Seen \subseteq Events /\ KeysTellApart(Seen)
      /\ AllMutations \in Seq(Seen) /\ Len(AllMutations) = Len(Visible)
      /\ IsOrdered(AllMutations)
  BY <1>1, SeenEvents
<1>3. UNCHANGED <<log, edited>>
  BY DEF Refresh, RefreshFails
<1>4. PICK edits : EditsAre(edits, log) /\ \E k : Up(live, edits, k)
  BY DEF KeptInv
<1>5. PICK all \in Seq(Seen) : all = AllMutations
  BY <1>2
<1>6. EditsInOrder(all, edits) /\ IsOrdered(all)
  BY <1>1, <1>2, <1>4, <1>5, EditsFollow DEF KeptInv
<1>7. \E part \in Seq(Seen) :
         live' = Apply(live, part) /\ IsOrdered(part) /\ EditsInOrder(part, edits)
  <2>1. CASE Refresh
    <3>1. live' = Apply(live, all)
      BY <1>5, <2>1 DEF Refresh
    <3> QED
      BY <1>6, <3>1
  <2>2. CASE RefreshFails
    <3>1. PICK n \in 1 .. Len(Visible) - 1 : live' = Apply(live, SubSeq(AllMutations, 1, n))
      BY <2>2 DEF RefreshFails
    <3>2. n \in 0 .. Len(all)
      BY <1>2, <1>5
    <3>3. PICK part : part = SubSeq(all, 1, n)
      OBVIOUS
    <3>4. part \in Seq(Seen) /\ IsOrdered(part)
      BY <1>6, <3>2, <3>3, FirstRows
    <3>5. EditsInOrder(part, edits)
      BY <1>6, <3>2, <3>3, FirstEditsFollow
    <3> QED
      BY <1>5, <3>1, <3>3, <3>4, <3>5
  <2> QED
    BY <2>1, <2>2
<1>8. PICK part \in Seq(Seen) :
         live' = Apply(live, part) /\ IsOrdered(part) /\ EditsInOrder(part, edits)
  BY <1>7
<1>9. GraphIsTyped(live) /\ Rising(live) /\ Rooted(live) /\ part \in Seq(Events)
  BY <1>1, <1>2 DEF GraphFits, KeptInv
<1>10. Rising(live') /\ Rooted(live')
  BY <1>8, <1>9, ApplyLater, ApplyRoots DEF Later
<1>11. \E k : Up(live', edits, k)
  <2>1. AreEdits(edits)
    BY <1>4 DEF EditsAre
  <2> QED
    BY <1>1, <1>2, <1>4, <1>8, <1>9, <2>1, ApplyUp
<1>12. EditorRows(log', edited') /\ EditsAre(edits, log')
  BY <1>3, <1>4 DEF KeptInv
<1> QED
  BY <1>10, <1>11, <1>12 DEF KeptInv

(* An empty graph has applied none.                                        *)
LEMMA NothingIsUp ==
    ASSUME NEW edits, AreEdits(edits)
    PROVE  Up(EmptyGraph, edits, 0)
<1>1. AllNodes.edges = <<>> /\ AllNodes.nodes = [id \in Ids |-> NewNode]
  BY DEF AllNodes, EmptyGraph
<1>2. EmptyGraph.edges = <<>> /\ DOMAIN EmptyGraph.nodes = {} /\ EmptyGraph.applied = {}
  BY DEF EmptyGraph
<1>3. ToSet(<<>>) = {}
  BY DEF ToSet
<1>4. After(AllNodes, edits, 0) = AllNodes
  BY AppliedOneByOne DEF AreEdits
<1>5. Follows(EmptyGraph, AllNodes)
  <2>1. Others(ToSet(EmptyGraph.edges)) = {} /\ ToSet(AllNodes.edges) = {}
    BY <1>1, <1>2, <1>3 DEF Others
  <2> QED
    BY <1>1, <1>2, <2>1, NothingIsPaired DEF Follows
<1>6. Len(edits) \in Nat
  BY DEF AreEdits
<1> QED
  BY <1>2, <1>4, <1>5, <1>6 DEF Up

(* At the beginning nothing is edited and nothing applied.                 *)
LEMMA KeptAtFirst == Init => KeptInv
<1> SUFFICES ASSUME Init PROVE KeptInv
  OBVIOUS
<1>1. log = <<>> /\ live = EmptyGraph /\ edited = 0
  BY DEF Init
<1>2. EditorRows(log, edited)
  BY <1>1 DEF EditorRows, EditsAreTheirs, EditsAreNumbered, EditsFindNodes
<1>3. EmptyGraph.edges = <<>> /\ DOMAIN EmptyGraph.nodes = {} /\ EmptyGraph.applied = {}
  BY DEF EmptyGraph
<1>4. ToSet(<<>>) = {}
  BY DEF ToSet
<1>5. Rising(live) /\ Rooted(live)
  BY <1>1, <1>3, <1>4 DEF Rising, Rooted
<1>6. EditsAre(<<>>, log)
  BY <1>1 DEF EditsAre, AreEdits, SeenIn
<1>7. Up(live, <<>>, 0)
  BY <1>1, <1>6, NothingIsUp DEF EditsAre
<1> QED
  BY <1>2, <1>5, <1>6, <1>7 DEF KeptInv

(* Every step.                                                             *)
LEMMA StepKept ==
    ASSUME LedgerInv, KeptInv, [Next]_vars
    PROVE  KeptInv'
<1>1. CASE \E w \in Runs : Promote(w) \/ LogNext(w) \/ Die(w)
  BY <1>1, PromoteKept, LogNextKept, DieKept
<1>2. CASE \E w \in Writers : Insert(w)
  BY <1>2, InsertKept
<1>3. CASE EditMerge \/ EditUnmerge \/ EditSupersede \/ EditDelete
  BY <1>3, EditorKept
<1>4. CASE Refresh \/ RefreshFails
  BY <1>4, RefreshKept
<1>5. CASE UNCHANGED vars
  <2>1. UNCHANGED <<log, live, edited>>
    BY <1>5 DEF vars, counters
  <2>2. EditorRows(log', edited') /\ Seen' = Seen
    BY <2>1 DEF KeptInv, Seen
  <2> QED
    BY <2>1, <2>2, QuietStep
<1> QED
  BY <1>1, <1>2, <1>3, <1>4, <1>5 DEF Next

(* The editor's events have left on the kept graph what they leave in      *)
(* their order, in every behaviour.                                        *)
THEOREM KeptInvariance == Spec => [](LedgerInv /\ KeptInv)
<1>1. Init => LedgerInv /\ KeptInv
  BY InitHolds, KeptAtFirst
<1>2. (LedgerInv /\ KeptInv) /\ [Next]_vars => (LedgerInv /\ KeptInv)'
  BY StepKeeps, StepKept
<1> QED
  BY <1>1, <1>2, PTL DEF Spec

-------------------------------------------------------------------------------
(* The kept graph and the replayed one.                                    *)

(* Two pairings side by side.                                              *)
LEMMA PairedBeside ==
    ASSUME NEW S, NEW T, Paired(S, T), NEW A, NEW B, Paired(A, B), S \cap A = {}, T \cap B = {}
    PROVE  Paired(S \cup A, T \cup B)
<1>1. PICK f : Pairing(f, S, T)
  BY DEF Paired
<1>2. PICK h : Pairing(h, A, B)
  BY DEF Paired
<1> DEFINE both == [x \in S \cup A |-> IF x \in S THEN f[x] ELSE h[x]]
<1>3. /\ \A x \in S : both[x] = f[x] /\ f[x] \in T
      /\ \A x \in A : both[x] = h[x] /\ h[x] \in B
  BY <1>1, <1>2 DEF Pairing
<1>4. both \in [S \cup A -> T \cup B]
  BY <1>3
<1> HIDE DEF both
<1>5. \A x, y \in S \cup A : both[x] = both[y] => x = y
  BY <1>1, <1>2, <1>3 DEF Pairing
<1>6. \A y \in T \cup B : \E x \in S \cup A : both[x] = y
  BY <1>1, <1>2, <1>3 DEF Pairing
<1>7. \A x \in S \cup A : ShowSame(x, both[x])
  BY <1>1, <1>2, <1>3 DEF Pairing
<1>8. Pairing(both, S \cup A, T \cup B)
  BY <1>4, <1>5, <1>6, <1>7 DEF Pairing
<1> QED
  BY <1>8 DEF Paired

(* Sets in which each has one that shows the same.                         *)
LEMMA PairedOneByOne ==
    ASSUME NEW S, NEW T,
           \A x \in S : \E y \in T : ShowSame(x, y),
           \A y \in T : \E x \in S : ShowSame(x, y),
           \A x, y \in S : x.type = y.type => x = y,
           \A x, y \in T : x.type = y.type => x = y
    PROVE  Paired(S, T)
<1> DEFINE f == [x \in S |-> CHOOSE y \in T : ShowSame(x, y)]
<1>1. \A x \in S : f[x] \in T /\ ShowSame(x, f[x])
  OBVIOUS
<1>2. f \in [S -> T]
  BY <1>1
<1> HIDE DEF f
<1>3. \A x, y \in S : f[x] = f[y] => x = y
  BY <1>1 DEF ShowSame
<1>4. \A y \in T : \E x \in S : f[x] = y
  <2>1. ASSUME NEW y \in T PROVE \E x \in S : f[x] = y
    <3>1. PICK x \in S : ShowSame(x, y)
      OBVIOUS
    <3>2. f[x] \in T /\ f[x].type = y.type
      BY <1>1, <3>1 DEF ShowSame
    <3> QED
      BY <3>2
  <2> QED
    BY <2>1
<1>5. Pairing(f, S, T)
  BY <1>1, <1>2, <1>3, <1>4 DEF Pairing
<1> QED
  BY <1>5 DEF Paired

(* Who has applied the same has the same nodes.                            *)
LEMMA NodesOfApplied ==
    ASSUME NEW events, events \subseteq Events,
           NEW g, GraphFits(g, events), Rooted(g), NEW h, GraphFits(h, events),
           g.applied \subseteq h.applied
    PROVE  DOMAIN g.nodes \subseteq DOMAIN h.nodes
<1> SUFFICES ASSUME NEW id \in DOMAIN g.nodes PROVE id \in DOMAIN h.nodes
  OBVIOUS
<1>1. PICK key : key \in g.applied /\ (key = <<"create_node", id>> \/ key = <<"create_entity", id>>)
  BY DEF Rooted
<1>2. key \in h.applied /\ h.applied \subseteq KeysOf(events)
  BY <1>1 DEF GraphFits, NodesFit
<1>3. PICK e \in events : e.key = key
  BY <1>2 DEF KeysOf
<1>4. e \in Events
  OBVIOUS
<1>5. e.op = "create_node" /\ e.subject = id
  BY <1>1, <1>3, <1>4, NodeKeys
<1> QED
  BY <1>2, <1>3, <1>5 DEF GraphFits, NodesFit

(* The editor's events have left the same on both.                         *)
LEMMA SameEdits ==
    ASSUME NEW edits, AreEdits(edits), NEW g, NEW h, g.applied = h.applied,
           NEW k, Up(g, edits, k), NEW l, Up(h, edits, l)
    PROVE  k = l
<1>1. k \in 0 .. Len(edits) /\ l \in 0 .. Len(edits) /\ Len(edits) \in Nat
  BY DEF Up, AreEdits
<1>2. \A i \in 1 .. Len(edits) : i <= k <=> i <= l
  BY DEF Up
<1>3. k <= l
  <2>1. CASE k = 0
    BY <1>1, <2>1
  <2>2. CASE k # 0
    <3>1. k \in 1 .. Len(edits)
      BY <1>1, <2>2
    <3> QED
      BY <1>1, <1>2, <3>1
  <2> QED
    BY <2>1, <2>2
<1>4. l <= k
  <2>1. CASE l = 0
    BY <1>1, <2>1
  <2>2. CASE l # 0
    <3>1. l \in 1 .. Len(edits)
      BY <1>1, <2>2
    <3> QED
      BY <1>1, <1>2, <3>1
  <2> QED
    BY <2>1, <2>2
<1> QED
  BY <1>1, <1>3, <1>4

(* A graph without the claims' relations that an event of the editor has   *)
(* taken out or not.                                                       *)
IsLost(nodes, x, events) ==
    nodes[x.from].deleted \/ nodes[x.to].deleted \/ Ends(x) \in UnmergedIn(events)
Standing(nodes, edges, events) ==
    {x \in edges : x.type \in Claims /\ ~ IsLost(nodes, x, events)}

(* What is compared: the editor's relations, and the claims' that stand.   *)
LEMMA SettledSets ==
    ASSUME log \in Seq(Rows), NEW g, GraphIsTyped(g), Rising(g), NEW h, h = Settled(g)
    PROVE  /\ GraphIsTyped(h) /\ Rising(h) /\ h.nodes = g.nodes
           /\ ToSet(h.edges) = Others(ToSet(g.edges)) \cup Standing(g.nodes, ToSet(g.edges), Seen)
<1>1. Unmerged = UnmergedIn(Seen)
  BY SeenEvents DEF Unmerged, UnmergedIn, EventsWith
<1>2. PICK dropped : dropped = {x \in ToSet(g.edges) : x.type \in Claims /\ IsLost(g.nodes, x, Seen)}
  OBVIOUS
<1>3. h = DropEdges(g, dropped)
  BY <1>1, <1>2 DEF Settled, IsLost
<1>4. GraphIsTyped(h) /\ Rising(h) /\ h.nodes = g.nodes /\ ToSet(h.edges) = ToSet(g.edges) \ dropped
  BY <1>3, DropEdgesLater DEF Later
<1>5. ToSet(h.edges) = Others(ToSet(g.edges)) \cup Standing(g.nodes, ToSet(g.edges), Seen)
  BY <1>2, <1>4 DEF Others, Standing
<1> QED
  BY <1>4, <1>5

(* A claim's relation that stands in one graph is in another that has      *)
(* applied the same and has the same nodes.                                *)
LEMMA StandsInBoth ==
    ASSUME NEW events, events \subseteq Events, KeysTellApart(events),
           NEW g, GraphFits(g, events), Rooted(g), NEW h, GraphFits(h, events), Rooted(h),
           g.applied = h.applied, g.nodes = h.nodes,
           NEW x \in Standing(g.nodes, ToSet(g.edges), events)
    PROVE  \E y \in Standing(h.nodes, ToSet(h.edges), events) : ShowSame(x, y)
<1>1. x \in ToSet(g.edges) /\ x.type \in Claims /\ ~ IsLost(g.nodes, x, events)
  BY DEF Standing
<1>2. PICK e \in events : /\ e.op = "create_edge" /\ e.key \in g.applied
                          /\ e.ref = x.type /\ e.subject = x.from /\ e.object = x.to
  BY <1>1 DEF GraphFits, RelationsFit
<1>3. PICK y \in ToSet(h.edges) : y.type = e.ref
  <2>1. \/ \E y \in ToSet(h.edges) : y.type = e.ref
        \/ \E id \in {e.subject, e.object} \cap DOMAIN h.nodes : h.nodes[id].deleted
        \/ PairOf(e) \in UnmergedIn(events)
    BY <1>2 DEF GraphFits, WiringFits
  <2>2. ~ \E id \in {e.subject, e.object} : h.nodes[id].deleted
    BY <1>1, <1>2 DEF IsLost
  <2>3. PairOf(e) \notin UnmergedIn(events)
    BY <1>1, <1>2 DEF IsLost, PairOf, Ends
  <2> QED
    BY <2>1, <2>2, <2>3
<1>4. PICK a \in events : /\ a.op = "create_edge" /\ a.ref = y.type
                          /\ a.subject = y.from /\ a.object = y.to
  BY <1>1, <1>2, <1>3 DEF GraphFits, RelationsFit
<1>5. a = e
  <2>1. a \in Events /\ e \in Events
    OBVIOUS
  <2>2. a.key = <<"create_edge", a.ref>> /\ e.key = <<"create_edge", e.ref>>
    BY <1>2, <1>4, <2>1, EventFields
  <2> QED
    BY <1>3, <1>4, <2>2 DEF KeysTellApart
<1>6. x.ref = NoId /\ y.ref = NoId
  BY <1>1, <1>2, <1>3 DEF Rooted
<1>7. ShowSame(x, y)
  BY <1>2, <1>3, <1>4, <1>5, <1>6 DEF ShowSame
<1>8. ~ IsLost(h.nodes, y, events) /\ y.type \in Claims
  BY <1>1, <1>7 DEF IsLost, ShowSame, Ends
<1> QED
  BY <1>3, <1>7, <1>8 DEF Standing

(* Graphs of relations that are paired show the same.                      *)
LEMMA PairedIsSame ==
    ASSUME NEW g, GraphIsTyped(g), Rising(g), NEW h, GraphIsTyped(h), Rising(h),
           g.nodes = h.nodes, Paired(ToSet(g.edges), ToSet(h.edges))
    PROVE  Same(g, h)
<1>1. /\ IsFiniteSet(ToSet(g.edges)) /\ Cardinality(ToSet(g.edges)) = Len(g.edges)
      /\ Cardinality(ToSet(h.edges)) = Len(h.edges)
  BY RisingRelations
<1>2. /\ Cardinality(ToSet(g.edges)) = Cardinality(ToSet(h.edges))
      /\ \A x \in ToSet(g.edges) : \E y \in ToSet(h.edges) : ShowSame(x, y)
      /\ \A y \in ToSet(h.edges) : \E x \in ToSet(g.edges) : ShowSame(x, y)
  BY <1>1, PairedShow
<1>3. Relations(g.edges) \subseteq Relations(h.edges)
  BY <1>2 DEF Relations, ShowSame
<1>4. Relations(h.edges) \subseteq Relations(g.edges)
  BY <1>2 DEF Relations, ShowSame
<1> QED
  BY <1>1, <1>2, <1>3, <1>4 DEF Same

(* Two graphs that have applied the same, on which the editor's events     *)
(* have left what they leave in their order.                               *)
LEMMA KeptAlike ==
    ASSUME log \in Seq(Rows), KeysTellApart(Seen), Seen \subseteq Events,
           NEW edits, AreEdits(edits),
           NEW g, GraphFits(g, Seen), Rising(g), Rooted(g), NEW k, Up(g, edits, k),
           NEW h, GraphFits(h, Seen), Rising(h), Rooted(h), NEW l, Up(h, edits, l),
           g.applied = h.applied
    PROVE  Same(Settled(g), Settled(h))
<1>1. k = l
  BY SameEdits
<1>2. PICK ghost : ghost = After(AllNodes, edits, k)
  OBVIOUS
<1>3. Follows(g, ghost) /\ Follows(h, ghost)
  BY <1>1, <1>2 DEF Up
<1>4. GraphIsTyped(g) /\ GraphIsTyped(h)
  BY DEF GraphFits
<1>5. g.nodes = h.nodes
  <2>1. DOMAIN g.nodes = DOMAIN h.nodes
    BY NodesOfApplied
  <2>2. \A id \in DOMAIN g.nodes : g.nodes[id] = h.nodes[id]
    BY <1>3, <2>1 DEF Follows
  <2> QED
    BY <1>4, <2>1, <2>2 DEF GraphIsTyped
<1>6. PICK S, T, A, B : /\ S = Others(ToSet(g.edges)) /\ T = Others(ToSet(h.edges))
                        /\ A = Standing(g.nodes, ToSet(g.edges), Seen)
                        /\ B = Standing(h.nodes, ToSet(h.edges), Seen)
  OBVIOUS
<1>7. Paired(S, T)
  <2>1. Paired(S, ToSet(ghost.edges)) /\ Paired(T, ToSet(ghost.edges))
    BY <1>3, <1>6 DEF Follows
  <2> QED
    BY <2>1, PairedTwice
<1>8. Paired(A, B)
  <2>1. \A x \in A : \E y \in B : ShowSame(x, y)
    BY <1>5, <1>6, StandsInBoth
  <2>2. \A y \in B : \E x \in A : ShowSame(x, y)
    <3>1. ASSUME NEW y \in B PROVE \E x \in A : ShowSame(x, y)
      <4>1. \E x \in A : ShowSame(y, x)
        BY <1>5, <1>6, StandsInBoth
      <4> QED
        BY <4>1 DEF ShowSame
    <3> QED
      BY <3>1
  <2>3. \A x, y \in A : x.type = y.type => x = y
    BY <1>6 DEF Standing, GraphFits, RelationsFit
  <2>4. \A x, y \in B : x.type = y.type => x = y
    BY <1>6 DEF Standing, GraphFits, RelationsFit
  <2> QED
    BY <2>1, <2>2, <2>3, <2>4, PairedOneByOne
<1>9. S \cap A = {} /\ T \cap B = {}
  BY <1>6 DEF Others, Standing
<1>10. Paired(S \cup A, T \cup B)
  BY <1>7, <1>8, <1>9, PairedBeside
<1>11. PICK p, q : p = Settled(g) /\ q = Settled(h)
  OBVIOUS
<1>12. /\ GraphIsTyped(p) /\ Rising(p) /\ p.nodes = g.nodes /\ ToSet(p.edges) = S \cup A
  BY <1>4, <1>6, <1>11, SettledSets
<1>13. /\ GraphIsTyped(q) /\ Rising(q) /\ q.nodes = h.nodes /\ ToSet(q.edges) = T \cup B
  BY <1>4, <1>6, <1>11, SettledSets
<1>14. Same(p, q)
  BY <1>5, <1>10, <1>12, <1>13, PairedIsSame
<1> QED
  BY <1>11, <1>14

(* The kept graph, once it has applied every row.                          *)
LEMMA KeptAgrees == LedgerInv /\ KeptInv => KeptIsReplayed(Current)
<1> SUFFICES ASSUME LedgerInv, KeptInv, NEW now, now = Current, live.applied = now.applied
             PROVE  Same(Settled(live), Settled(now))
  BY DEF KeptIsReplayed
<1>1. /\ log \in Seq(Rows) /\ edited \in Nat /\ KeysAreUnique(log) /\ NodesComeFirst(log)
      /\ GraphFits(live, Seen)
  BY LedgerAssumption DEF LedgerInv, StateIsTyped
<1>2. /\ Seen \subseteq Events /\ KeysTellApart(Seen)
      /\ AllMutations \in Seq(Seen) /\ IsOrdered(AllMutations)
  BY <1>1, SeenEvents
<1>3. GraphFits(now, Seen)
  BY <1>1, CurrentFits
<1>4. AllMutations \in Seq(Events)
  BY <1>2
<1>5. Rising(now) /\ Rooted(now)
  BY <1>4, ReplayIsRooted DEF Current
<1>6. PICK edits : EditsAre(edits, log) /\ \E k : Up(live, edits, k)
  BY DEF KeptInv
<1>7. AreEdits(edits) /\ EditsInOrder(AllMutations, edits)
  BY <1>1, <1>6, EditsFollow DEF EditsAre, KeptInv
<1>8. \E l : Up(now, edits, l)
  <2>1. GraphFits(EmptyGraph, Seen) /\ Rising(EmptyGraph)
    BY EmptyGraphFits DEF Rising, EmptyGraph
  <2>2. \E l : Up(EmptyGraph, edits, l)
    BY <1>7, NothingIsUp
  <2>3. now = Apply(EmptyGraph, AllMutations)
    BY DEF Current, Replay
  <2> QED
    BY <1>2, <1>7, <2>1, <2>2, <2>3, ApplyUp
<1>9. Rising(live) /\ Rooted(live)
  BY DEF KeptInv
<1> QED
  BY <1>1, <1>2, <1>3, <1>5, <1>6, <1>7, <1>8, <1>9, KeptAlike

(* However a graph was come by - kept and refreshed, rebuilt               *)
(* incrementally, copied to the store or read back from the explorer - it  *)
(* is the replayed one.                                                    *)
THEOREM GraphsAreAlike == Spec => []GraphsAgree
<1>1. LedgerInv /\ KeptInv => GraphsAgree
  BY KeptAgrees, IncrementalAgrees, StoredIsThere, ExplorerAgrees DEF GraphsAgree
<1> QED
  BY <1>1, KeptInvariance, PTL

===============================================================================
