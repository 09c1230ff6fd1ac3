------------------------- MODULE GraphRollbackProofs --------------------------
(***************************************************************************)
(* Proofs about GraphLedger, continued: merges can be taken back and show  *)
(* while they stand, for any runs, entities, claims and bounds.            *)
(*                                                                         *)
(* A third inductive invariant, ChosenInv, says that what the editor saw   *)
(* when a statement of theirs started - the nodes of a merge alive, the    *)
(* merge of an unmerge in place - still holds when a replay comes to it.   *)
(* From there two replays are followed side by side, of the log and of the *)
(* log without some merges and what took them back.                        *)
(***************************************************************************)
EXTENDS GraphLedgerProofs

-------------------------------------------------------------------------------
(* What the editor saw still holds when his event is applied.              *)

(* What the editor sees when he decides: the nodes of a merge, not         *)
(* deleted; the merge that an unmerge takes back.                          *)
Sighted(g, e) ==
    /\ e.op = "merge_entity" =>
          /\ e.key = <<"merge_entity", e.ref>>
          /\ ~ g.nodes[e.subject].deleted /\ ~ g.nodes[e.object].deleted
    /\ e.op = "unmerge" =>
          \E x \in ToSet(g.edges) :
             x.type = "SAME_AS" /\ Ends(x) = PairOf(e) /\ x.ref = e.ref

EditsSighted(edits) ==
    \A n \in 1 .. Len(edits) : Sighted(After(AllNodes, edits, n - 1), edits[n])

OpenSighted(rows, edits) ==
    \A i \in 1 .. Len(rows) :
       OfEditor(rows[i]) /\ ~ rows[i].done =>
          Sighted(After(AllNodes, edits, Len(edits)), rows[i].event)

(* What the editor saw when each statement started still holds when the    *)
(* edits before it have been applied, whatever runs have logged since.     *)
ChosenInv ==
    \E edits : EditsAre(edits, log) /\ EditsSighted(edits) /\ OpenSighted(log, edits)

(* The editor's open rows are among those that were open.                  *)
OpenEditsStay(old, new) ==
    \A i \in 1 .. Len(new) :
       OfEditor(new[i]) /\ ~ new[i].done =>
          \E j \in 1 .. Len(old) :
             OfEditor(old[j]) /\ ~ old[j].done /\ old[j].event = new[i].event

(* A step that shows no new edit and starts none.                          *)
LEMMA QuietChoice ==
    ASSUME ChosenInv, Seen \subseteq Seen',
           \A e \in Seen' : IsEdit(e) => e \in Seen, OpenEditsStay(log, log')
    PROVE  ChosenInv'
<1>1. PICK edits : EditsAre(edits, log) /\ EditsSighted(edits) /\ OpenSighted(log, edits)
  BY DEF ChosenInv
<1>2. EditsAre(edits, log')
  <2>1. edits \in Seq(Seen')
    BY <1>1 DEF EditsAre, Seen
  <2>2. AreEdits(edits) /\ \A e \in Seen : IsEdit(e) => \E i \in 1 .. Len(edits) : edits[i] = e
    BY <1>1 DEF EditsAre, Seen
  <2>3. \A e \in Seen' : IsEdit(e) => \E i \in 1 .. Len(edits) : edits[i] = e
    BY <2>2
  <2> QED
    BY <2>1, <2>2, <2>3 DEF EditsAre, Seen
<1>3. OpenSighted(log', edits)
  BY <1>1 DEF OpenSighted, OpenEditsStay
<1> QED
  BY <1>1, <1>2, <1>3 DEF ChosenInv

(* A row at the end that is not the editor's, one in place, and one less.  *)
LEMMA RowStartsQuietly ==
    ASSUME NEW old \in Seq(Rows), NEW row \in Rows, ~ OfEditor(row),
           NEW new, new = Append(old, row)
    PROVE  OpenEditsStay(old, new)
<1>1. /\ Len(new) = Len(old) + 1 /\ Len(old) \in Nat /\ new[Len(old) + 1] = row
      /\ \A i \in 1 .. Len(old) : new[i] = old[i]
  OBVIOUS
<1>2. ASSUME NEW i \in 1 .. Len(new), OfEditor(new[i]), ~ new[i].done
      PROVE  \E j \in 1 .. Len(old) :
                OfEditor(old[j]) /\ ~ old[j].done /\ old[j].event = new[i].event
  <2>1. i # Len(old) + 1
    BY <1>1, <1>2
  <2>2. i \in 1 .. Len(old)
    BY <1>1, <2>1
  <2> QED
    BY <1>1, <1>2, <2>2
<1> QED
  BY <1>2 DEF OpenEditsStay

(* A row that keeps its place and its writer, or is not the editor's.      *)
LEMMA RowInPlaceQuietly ==
    ASSUME NEW old \in Seq(Rows), NEW i \in 1 .. Len(old), NEW row \in Rows,
           row.done \/ ~ OfEditor(row), NEW new, new = [old EXCEPT ![i] = row]
    PROVE  OpenEditsStay(old, new)
<1>1. /\ Len(new) = Len(old) /\ new[i] = row
      /\ \A k \in 1 .. Len(old) : k # i => new[k] = old[k]
  OBVIOUS
<1> QED
  BY <1>1 DEF OpenEditsStay

(* A row that goes.                                                        *)
LEMMA RowGoesQuietly ==
    ASSUME NEW old \in Seq(Rows), NEW i \in 1 .. Len(old), NEW new, new = RemoveAt(old, i)
    PROVE  OpenEditsStay(old, new)
<1>1. Len(old) \in Nat
  OBVIOUS
<1>2. PICK gone : gone = RemoveAt(old, i)
  OBVIOUS
<1>3. /\ Len(gone) = Len(old) - 1
      /\ \A k \in 1 .. Len(old) - 1 : gone[k] = IF k < i THEN old[k] ELSE old[k + 1]
  BY <1>2, RemoveAtProperties
<1>4. ASSUME NEW k \in 1 .. Len(gone) PROVE \E j \in 1 .. Len(old) : gone[k] = old[j]
  <2>1. k \in 1 .. Len(old) /\ k + 1 \in 1 .. Len(old) /\ k \in 1 .. Len(old) - 1
    BY <1>1, <1>3
  <2>2. gone[k] = old[k] \/ gone[k] = old[k + 1]
    BY <1>3, <2>1
  <2> QED
    BY <2>1, <2>2
<1> QED
  BY <1>2, <1>4 DEF OpenEditsStay

(* A run's statements.                                                     *)
LEMMA PromoteChosen ==
    ASSUME LedgerInv, KeptInv, ChosenInv, NEW w \in Runs, Promote(w) \/ LogNext(w)
    PROVE  ChosenInv'
<1>1. log \in Seq(Rows) /\ program \in [Runs -> Seq(RunEvents)]
  BY DEF LedgerInv, StateIsTyped
<1>2. LogIsKept(log, log')
  BY PromoteKeeps, LogNextKeeps
<1>3. \E e \in RunEvents : log' = Append(log, [writer |-> w, event |-> e, done |-> FALSE])
  <2>1. CASE Promote(w)
    <3>1. PICK triple \in Triples : Start(w, Head(Mutations(triple[1], triple[2], triple[3])))
      BY <2>1 DEF Promote
    <3>2. PICK m : m = Mutations(triple[1], triple[2], triple[3])
      OBVIOUS
    <3>3. m \in Seq(RunEvents) /\ m # <<>>
      BY <3>2, MutationsPrepare
    <3>4. Head(m) \in RunEvents
      BY <3>3
    <3> QED
      BY <3>1, <3>2, <3>4 DEF Start
  <2>2. CASE LogNext(w)
    <3>1. program[w] # <<>> /\ Start(w, Head(program[w]))
      BY <2>2 DEF LogNext
    <3>2. Head(program[w]) \in RunEvents
      BY <1>1, <3>1
    <3> QED
      BY <3>1, <3>2 DEF Start
  <2> QED
    BY <2>1, <2>2
<1>4. PICK e \in RunEvents : log' = Append(log, [writer |-> w, event |-> e, done |-> FALSE])
  BY <1>3
<1>5. PICK row : row = [writer |-> w, event |-> e, done |-> FALSE]
  OBVIOUS
<1>6. row \in Rows /\ ~ row.done /\ ~ OfEditor(row)
  <2>1. e \in Events /\ w \in Writers /\ w # Editor
    BY RunEventKinds, LedgerAssumption DEF Writers
  <2> QED
    BY <1>5, <2>1 DEF Rows, OfEditor
<1>7. log' = Append(log, row)
  BY <1>4, <1>5
<1>8. OpenEditsStay(log, log')
  BY <1>1, <1>6, <1>7, RowStartsQuietly
<1>9. SeenIn(log') \subseteq SeenIn(log)
  BY <1>1, <1>6, <1>7, SeenAppended
<1> QED
  BY <1>2, <1>8, <1>9, QuietChoice DEF LogIsKept, Seen

(* A run dies: its open row goes, or is nobody's.                          *)
LEMMA DieChosen ==
    ASSUME LedgerInv, KeptInv, ChosenInv, NEW w \in Runs, Die(w)
    PROVE  ChosenInv'
<1>1. log \in Seq(Rows) /\ DOMAIN log = 1 .. Len(log)
  BY DEF LedgerInv, StateIsTyped
<1>2. log' # log => LogIsKept(log, log')
  BY DieKeeps
<1>3. EditorRows(log, edited)
  BY DEF KeptInv
<1>4. CASE log' = log
  BY <1>4 DEF ChosenInv
<1>5. CASE log' # log
  <2>1. PICK i \in 1 .. Len(log) :
           /\ log[i].writer = w /\ ~ log[i].done
           /\ log' = RemoveAt(log, i) \/ log' = [log EXCEPT ![i].writer = Gone]
    BY <1>1, <1>5 DEF Die
  <2>2. log[i] \in Rows /\ ~ OfEditor(log[i])
    BY <1>1, <2>1, LedgerAssumption DEF OfEditor
  <2>3. ~ IsEdit(log[i].event)
    BY <1>3, <2>2 DEF EditorRows, EditsAreTheirs
  <2>4. CASE log' = RemoveAt(log, i)
    <3>1. OpenEditsStay(log, log')
      BY <1>1, <2>4, RowGoesQuietly
    <3>2. SeenIn(log') \subseteq SeenIn(log)
      BY <1>1, <2>4, SeenRemoved
    <3> QED
      BY <1>2, <1>5, <3>1, <3>2, QuietChoice DEF LogIsKept, Seen
  <2>5. CASE log' = [log EXCEPT ![i].writer = Gone]
    <3>1. PICK row : row = [log[i] EXCEPT !.writer = Gone]
      OBVIOUS
    <3>2. log' = [log EXCEPT ![i] = row]
      BY <2>5, <3>1
    <3>3. row \in Rows /\ row.event = log[i].event /\ ~ OfEditor(row)
      BY <2>2, <3>1, LedgerAssumption DEF Rows, Writers, OfEditor
    <3>4. OpenEditsStay(log, log')
      BY <1>1, <3>2, <3>3, RowInPlaceQuietly
    <3>5. SeenIn(log') \subseteq SeenIn(log) \cup {row.event}
      BY <1>1, <3>2, <3>3, SeenInPlace
    <3>6. \A e \in Seen' : IsEdit(e) => e \in Seen
      BY <2>3, <3>3, <3>5 DEF Seen
    <3> QED
      BY <1>2, <1>5, <3>4, <3>6, QuietChoice DEF LogIsKept, Seen
  <2> QED
    BY <2>1, <2>4, <2>5
<1> QED
  BY <1>4, <1>5

(* The editor's statement ends: what is seen of the edits is one more.     *)
LEMMA EditIsSeen ==
    ASSUME LedgerInv, EditorRows(log, edited),
           NEW i \in 1 .. Len(log), ~ log[i].done, OfEditor(log[i]), Ended(i),
           NEW edits, EditsAre(edits, log),
           NEW e, e = log[i].event, NEW more, more = Append(edits, e)
    PROVE  /\ e \in Events /\ e.key \notin KeysOf(Seen)
           /\ EditsAre(more, log') /\ EditorRows(log', edited)
           /\ \E row \in Rows :
                 row.event = e /\ row.done /\ OfEditor(row) /\ log' = [log EXCEPT ![i] = row]
<1>1. log \in Seq(Rows) /\ edited \in Nat
  BY LedgerAssumption DEF LedgerInv, StateIsTyped
<1>2. EditsAre(edits, log)
  OBVIOUS
<1>3. e = log[i].event
  OBVIOUS
<1>4. EditorRows(log, edited)
  OBVIOUS
<1>5. IsEdit(e) /\ e.key = <<e.op, Len(edits) + 1>> /\ e.key \notin KeysOf(Seen)
  BY <1>1, <1>2, <1>3, <1>4, EditIsNext DEF Seen
<1>6. PICK row : row = [log[i] EXCEPT !.done = TRUE]
  OBVIOUS
<1>7. log' = [log EXCEPT ![i] = row]
  <2>1. log[i].event.key \notin Keys(Visible)
    BY <1>1, <1>3, <1>5, SeenEvents
  <2> QED
    BY <1>6, <2>1 DEF Ended
<1>8. log[i] \in Rows
  BY <1>1
<1>9. row \in Rows /\ row.event = e /\ row.done /\ row.writer = log[i].writer
  BY <1>3, <1>6, <1>8 DEF Rows
<1>10. EditorRows(log', edited)
  <2>1. OfEditor(row) <=> OfEditor(log[i])
    BY <1>9 DEF OfEditor
  <2>2. log' \in Seq(Rows) /\ \E at : Thins(log, log', at)
    BY <1>1, <1>3, <1>7, <1>9, <2>1, RowInPlaceThins
  <2> QED
    BY <1>1, <1>4, <2>2, ThinnedEdits
<1>11. Seen' = Seen \cup {e}
  <2>1. SeenIn(log') \subseteq SeenIn(log) \cup {e}
    BY <1>1, <1>3, <1>7, <1>9, SeenInPlace
  <2>2. /\ Len(log') = Len(log) /\ log'[i] = row
        /\ \A j \in 1 .. Len(log) : j # i => log'[j] = log[j]
    BY <1>1, <1>7
  <2>3. e \in SeenIn(log')
    BY <1>9, <2>2 DEF SeenIn
  <2>4. SeenIn(log) \subseteq SeenIn(log')
    <3>1. ASSUME NEW j \in 1 .. Len(log), log[j].done PROVE log[j].event \in SeenIn(log')
      <4>1. log'[j] = log[j]
        BY <2>2, <3>1
      <4> QED
        BY <2>2, <3>1, <4>1 DEF SeenIn
    <3> QED
      BY <3>1 DEF SeenIn
  <2> QED
    BY <2>1, <2>3, <2>4 DEF Seen
<1>12. e \in Events
  BY <1>3, <1>8 DEF Rows
<1>13. more = Append(edits, e)
  OBVIOUS
<1>14. EditsAre(more, log')
  <2>1. edits \in Seq(Seen) /\ AreEdits(edits)
    BY <1>2 DEF EditsAre, Seen
  <2>2. edits \in Seq(Seen')
    BY <1>11, <2>1
  <2>3. /\ more \in Seq(Seen') /\ Len(more) = Len(edits) + 1 /\ more[Len(edits) + 1] = e
        /\ \A j \in 1 .. Len(edits) : more[j] = edits[j]
        /\ Len(edits) \in Nat
    BY <1>11, <1>13, <2>2
  <2>4. more \in Seq(Events)
    BY <1>12, <1>13, <2>1 DEF AreEdits
  <2>5. \A j \in 1 .. Len(more) : IsEdit(more[j]) /\ more[j].key = <<more[j].op, j>>
    <3>1. \A j \in 1 .. Len(edits) : IsEdit(edits[j]) /\ edits[j].key = <<edits[j].op, j>>
      BY <2>1 DEF AreEdits
    <3>2. \A j \in 1 .. Len(more) : j \in 1 .. Len(edits) \/ j = Len(edits) + 1
      BY <2>3
    <3> QED
      BY <1>5, <2>3, <3>1, <3>2
  <2>6. \A a \in Seen' : IsEdit(a) => \E j \in 1 .. Len(more) : more[j] = a
    <3>1. \A a \in Seen : IsEdit(a) => \E j \in 1 .. Len(edits) : edits[j] = a
      BY <1>2 DEF EditsAre, Seen
    <3>2. Len(edits) + 1 \in 1 .. Len(more) /\ 1 .. Len(edits) \subseteq 1 .. Len(more)
      BY <2>3
    <3> QED
      BY <1>11, <2>3, <3>1, <3>2
  <2> QED
    BY <2>3, <2>4, <2>5, <2>6 DEF EditsAre, AreEdits, Seen
<1>15. OfEditor(row)
  BY <1>9 DEF OfEditor
<1> QED
  BY <1>5, <1>7, <1>9, <1>10, <1>12, <1>14, <1>15

(* What is sighted in one of two graphs that the editor's events have left *)
(* alike is sighted in the other.                                          *)
LEMMA SightedAlike ==
    ASSUME NEW g, GraphIsTyped(g), Rising(g), NEW h, Follows(g, h), NEW e \in Events,
           e.op = "merge_entity" => {e.subject, e.object} \subseteq DOMAIN g.nodes
    PROVE  Sighted(g, e) <=> Sighted(h, e)
<1>1. e.op = "merge_entity" =>
         h.nodes[e.subject] = g.nodes[e.subject] /\ h.nodes[e.object] = g.nodes[e.object]
  BY DEF Follows
<1>2. PICK E, F : E = ToSet(g.edges) /\ F = ToSet(h.edges)
  OBVIOUS
<1>3. /\ \A x \in Others(E) : \E y \in F : ShowSame(x, y)
      /\ \A y \in F : \E x \in Others(E) : ShowSame(x, y)
  <2>1. Paired(Others(E), F)
    BY <1>2 DEF Follows
  <2>2. IsFiniteSet(E)
    BY <1>2, RisingRelations
  <2>3. IsFiniteSet(Others(E))
    BY <2>2, FS_Subset DEF Others
  <2> QED
    BY <2>1, <2>3, PairedShow
<1>4. (\E x \in E : x.type = "SAME_AS" /\ Ends(x) = PairOf(e) /\ x.ref = e.ref)
         <=> (\E x \in F : x.type = "SAME_AS" /\ Ends(x) = PairOf(e) /\ x.ref = e.ref)
  <2>1. ASSUME NEW x \in E, x.type = "SAME_AS", Ends(x) = PairOf(e), x.ref = e.ref
        PROVE  \E y \in F : y.type = "SAME_AS" /\ Ends(y) = PairOf(e) /\ y.ref = e.ref
    <3>1. x \in Others(E)
      BY <2>1, LedgerAssumption DEF Others
    <3>2. PICK y \in F : ShowSame(x, y)
      BY <1>3, <3>1
    <3> QED
      BY <2>1, <3>2 DEF ShowSame, Ends
  <2>2. ASSUME NEW y \in F, y.type = "SAME_AS", Ends(y) = PairOf(e), y.ref = e.ref
        PROVE  \E x \in E : x.type = "SAME_AS" /\ Ends(x) = PairOf(e) /\ x.ref = e.ref
    <3>1. PICK x \in Others(E) : ShowSame(x, y)
      BY <1>3
    <3> QED
      BY <2>2, <3>1 DEF ShowSame, Ends, Others
  <2> QED
    BY <2>1, <2>2
<1> QED
  BY <1>1, <1>2, <1>4 DEF Sighted

(* A graph that has applied what is seen has applied every edit.           *)
LEMMA CurrentIsUp ==
    ASSUME LedgerInv, EditorRows(log, edited), NEW edits, EditsAre(edits, log)
    PROVE  Up(Current, edits, Len(edits))
<1>1. log \in Seq(Rows) /\ edited \in Nat /\ KeysAreUnique(log) /\ NodesComeFirst(log)
  BY LedgerAssumption DEF LedgerInv, StateIsTyped
<1>2. /\ Seen \subseteq Events /\ KeysTellApart(Seen)
      /\ AllMutations \in Seq(Seen) /\ IsOrdered(AllMutations)
  BY <1>1, SeenEvents
<1>3. PICK all \in Seq(Seen) : all = AllMutations
  BY <1>2
<1>4. EditsInOrder(all, edits)
  BY <1>1, <1>3, EditsFollow
<1>5. AreEdits(edits) /\ edits \in Seq(Seen) /\ Len(edits) \in Nat
  BY DEF EditsAre, Seen, AreEdits
<1>6. GraphFits(EmptyGraph, Seen) /\ Rising(EmptyGraph)
  <2>1. EmptyGraph.edges = <<>>
    BY DEF EmptyGraph
  <2> QED
    BY <2>1, EmptyGraphFits DEF Rising
<1>7. \E k : Up(EmptyGraph, edits, k)
  BY <1>5, NothingIsUp
<1>8. PICK k : Up(Apply(EmptyGraph, all), edits, k)
  BY <1>2, <1>3, <1>4, <1>5, <1>6, <1>7, ApplyUp
<1>9. Up(Current, edits, k)
  BY <1>3, <1>8 DEF Current, Replay
<1>10. KeysOf(Seen) \subseteq Current.applied
  BY <1>1, CurrentFits
<1>11. k = Len(edits)
  <2>1. k \in 0 .. Len(edits)
    BY <1>9 DEF Up
  <2>2. CASE Len(edits) = 0
    BY <2>1, <2>2
  <2>3. CASE Len(edits) # 0
    <3>1. Len(edits) \in 1 .. Len(edits)
      BY <1>5, <2>3
    <3>2. edits[Len(edits)].key \in Current.applied
      BY <1>5, <1>10, <3>1 DEF KeysOf
    <3>3. Len(edits) <= k
      BY <1>9, <3>1, <3>2 DEF Up
    <3> QED
      BY <1>5, <2>1, <3>3
  <2> QED
    BY <2>2, <2>3
<1> QED
  BY <1>9, <1>11

(* The editor's statement starts, for what he has sighted.                 *)
LEMMA EditStartsChosen ==
    ASSUME LedgerInv, KeptInv, ChosenInv, Idle,
           NEW op \in {"merge_entity", "unmerge", "supersede", "delete"},
           NEW subject, NEW object, NEW ref, Edit(op, subject, object, ref),
           NEW e, e = Event(<<op, edited + 1>>, op, subject, object, ref), e \in Events,
           Sighted(Current, e),
           e.op = "merge_entity" => {e.subject, e.object} \subseteq DOMAIN Current.nodes,
           LogIsKept(log, log')
    PROVE  ChosenInv'
<1>1. log \in Seq(Rows) /\ DOMAIN log = 1 .. Len(log) /\ Len(log) \in Nat
  BY DEF LedgerInv, StateIsTyped
<1>2. PICK edits : EditsAre(edits, log) /\ EditsSighted(edits) /\ OpenSighted(log, edits)
  BY DEF ChosenInv
<1>3. PICK row : row = [writer |-> Editor, event |-> e, done |-> FALSE]
  OBVIOUS
<1>4. log' = Append(log, row)
  BY <1>3 DEF Edit, Start
<1>5. row \in Rows /\ ~ row.done /\ row.event = e
  BY <1>3 DEF Rows, Writers
<1>6. Sighted(After(AllNodes, edits, Len(edits)), e)
  <2>1. Up(Current, edits, Len(edits))
    BY <1>2, CurrentIsUp DEF KeptInv
  <2>2. GraphIsTyped(Current) /\ Rising(Current)
    <3>1. AllMutations \in Seq(Events)
      BY <1>1, SeenEvents
    <3> QED
      BY <3>1, ReplayIsRooted DEF Current
  <2>3. Follows(Current, After(AllNodes, edits, Len(edits)))
    BY <2>1 DEF Up
  <2> QED
    BY <2>2, <2>3, SightedAlike
<1>7. EditsAre(edits, log')
  <2>1. SeenIn(log') \subseteq SeenIn(log)
    BY <1>1, <1>4, <1>5, SeenAppended
  <2>2. SeenIn(log') = SeenIn(log)
    BY <2>1 DEF LogIsKept
  <2> QED
    BY <1>2, <2>2 DEF EditsAre
<1>8. OpenSighted(log', edits)
  <2>1. /\ Len(log') = Len(log) + 1 /\ log'[Len(log) + 1] = row
        /\ \A i \in 1 .. Len(log) : log'[i] = log[i]
    BY <1>1, <1>4
  <2>2. ASSUME NEW i \in 1 .. Len(log'), OfEditor(log'[i]), ~ log'[i].done
        PROVE  Sighted(After(AllNodes, edits, Len(edits)), log'[i].event)
    <3>1. CASE i = Len(log) + 1
      BY <1>5, <1>6, <2>1, <3>1
    <3>2. CASE i # Len(log) + 1
      <4>1. i \in 1 .. Len(log) /\ log'[i] = log[i]
        BY <1>1, <2>1, <3>2
      <4> QED
        BY <1>2, <2>2, <4>1 DEF OpenSighted
    <3> QED
      BY <3>1, <3>2
  <2> QED
    BY <2>2 DEF OpenSighted
<1> QED
  BY <1>2, <1>7, <1>8 DEF ChosenInv

(* Each of the editor's mutations.                                         *)
LEMMA EditorChosen ==
    ASSUME LedgerInv, KeptInv, ChosenInv,
           EditMerge \/ EditUnmerge \/ EditSupersede \/ EditDelete
    PROVE  ChosenInv'
<1>1. PICK n : n = edited + 1
  OBVIOUS
<1>2. n \in Nat /\ LogIsKept(log, log')
  BY <1>1, EditorKeeps, LedgerAssumption DEF LedgerInv, StateIsTyped
<1>3. CASE EditMerge
  <2>1. PICK pair \in Pairs :
           {pair[1], pair[2]} \subseteq Listed /\ Edit("merge_entity", pair[1], pair[2], n)
    BY <1>1, <1>3 DEF EditMerge
  <2>2. PICK e : e = Event(<<"merge_entity", n>>, "merge_entity", pair[1], pair[2], n)
    OBVIOUS
  <2>3. pair[1] \in Ids /\ pair[2] \in Ids \cup {NoId} /\ <<pair[1], pair[2]>> \in Pairs
    BY PairFields
  <2>4. n \in Ids \cup Nat \cup {NoId}
    BY <1>2
  <2>5. e \in Events
    BY <1>2, <2>2, <2>3, <2>4, EventIsTyped
  <2>6. /\ e.op = "merge_entity" /\ e.key = <<"merge_entity", e.ref>>
        /\ e.subject = pair[1] /\ e.object = pair[2]
    BY <2>2 DEF Event
  <2>7. /\ {e.subject, e.object} \subseteq DOMAIN Current.nodes
        /\ ~ Current.nodes[e.subject].deleted /\ ~ Current.nodes[e.object].deleted
    BY <2>1, <2>6 DEF Listed
  <2>8. Sighted(Current, e)
    BY <2>6, <2>7 DEF Sighted
  <2> QED
    BY <1>1, <1>2, <1>3, <2>1, <2>2, <2>5, <2>7, <2>8, EditStartsChosen DEF EditMerge
<1>4. CASE EditUnmerge
  <2>1. PICK x \in ToSet(Current.edges) :
           x.type = "SAME_AS" /\ Edit("unmerge", x.from, x.to, x.ref)
    BY <1>4 DEF EditUnmerge
  <2>2. PICK e : e = Event(<<"unmerge", n>>, "unmerge", x.from, x.to, x.ref)
    OBVIOUS
  <2>3. PICK pair \in Pairs : pair = <<x.from, x.to>>
    BY <2>1, ListedIsSeen
  <2>4. x.from \in Ids /\ x.to \in Ids
    BY <2>3, PairFields
  <2>5. x.ref \in Ids \cup Nat \cup {NoId} /\ <<x.from, x.to>> \in Pairs
    BY <2>1, <2>3, ListedIsSeen
  <2>6. e \in Events
    BY <1>2, <2>2, <2>4, <2>5, EventIsTyped
  <2>7. e.op = "unmerge" /\ e.subject = x.from /\ e.object = x.to /\ e.ref = x.ref
    BY <2>2 DEF Event
  <2>8. Sighted(Current, e)
    BY <2>1, <2>7 DEF Sighted, Ends, PairOf
  <2> QED
    BY <1>1, <1>2, <1>4, <2>1, <2>2, <2>6, <2>7, <2>8, EditStartsChosen DEF EditUnmerge
<1>5. CASE EditSupersede
  <2>1. PICK pair \in Pairs : Edit("supersede", pair[1], pair[2], NoId)
    BY <1>5 DEF EditSupersede
  <2>2. PICK e : e = Event(<<"supersede", n>>, "supersede", pair[1], pair[2], NoId)
    OBVIOUS
  <2>3. pair[1] \in Ids /\ pair[2] \in Ids \cup {NoId} /\ <<pair[1], pair[2]>> \in Pairs
    BY PairFields
  <2>4. NoId \in Ids \cup Nat \cup {NoId}
    OBVIOUS
  <2>5. e \in Events /\ e.op = "supersede"
    BY <1>2, <2>2, <2>3, <2>4, EventIsTyped
  <2>6. Sighted(Current, e)
    BY <2>5 DEF Sighted
  <2> QED
    BY <1>1, <1>2, <1>5, <2>1, <2>2, <2>5, <2>6, EditStartsChosen DEF EditSupersede
<1>6. CASE EditDelete
  <2>1. PICK id \in Listed : Edit("delete", id, NoId, NoId)
    BY <1>6 DEF EditDelete
  <2>2. PICK e : e = Event(<<"delete", n>>, "delete", id, NoId, NoId)
    OBVIOUS
  <2>3. id \in Ids
    BY <2>1, ListedIsSeen
  <2>4. e \in Events /\ e.op = "delete"
    BY <1>2, <2>2, <2>3, EventIsTyped
  <2>5. Sighted(Current, e)
    BY <2>4 DEF Sighted
  <2> QED
    BY <1>1, <1>2, <1>6, <2>1, <2>2, <2>4, <2>5, EditStartsChosen DEF EditDelete
<1> QED
  BY <1>3, <1>4, <1>5, <1>6

(* The editor's statement ends: it is the next of the edits.               *)
LEMMA EditEndsChosen ==
    ASSUME LedgerInv, KeptInv, ChosenInv,
           NEW i \in 1 .. Len(log), ~ log[i].done, OfEditor(log[i]), Ended(i)
    PROVE  ChosenInv'
<1>1. log \in Seq(Rows) /\ edited \in Nat /\ EditorRows(log, edited)
  BY LedgerAssumption DEF LedgerInv, StateIsTyped, KeptInv
<1>2. PICK edits : EditsAre(edits, log) /\ EditsSighted(edits) /\ OpenSighted(log, edits)
  BY DEF ChosenInv
<1>3. PICK e : e = log[i].event
  OBVIOUS
<1>4. PICK more : more = Append(edits, e)
  OBVIOUS
<1>5. /\ e \in Events /\ EditsAre(more, log')
      /\ \E row \in Rows :
            row.event = e /\ row.done /\ OfEditor(row) /\ log' = [log EXCEPT ![i] = row]
  BY <1>1, <1>2, <1>3, <1>4, EditIsSeen
<1>6. edits \in Seq(Events) /\ Len(edits) \in Nat
  BY <1>2 DEF EditsAre, AreEdits
<1>7. /\ Len(more) = Len(edits) + 1 /\ more[Len(edits) + 1] = e
      /\ \A n \in 1 .. Len(edits) : more[n] = edits[n]
  BY <1>4, <1>5, <1>6
<1>8. \A n \in 0 .. Len(edits) : After(AllNodes, more, n) = After(AllNodes, edits, n)
  <2>1. ASSUME NEW n \in 0 .. Len(edits) PROVE SubSeq(more, 1, n) = SubSeq(edits, 1, n)
    <3>1. more \in Seq(Events)
      BY <1>4, <1>5, <1>6
    <3> QED
      BY <1>6, <1>7, <2>1, <3>1
  <2> QED
    BY <2>1 DEF After
<1>9. Sighted(After(AllNodes, edits, Len(edits)), e)
  BY <1>2, <1>3 DEF OpenSighted
<1>10. EditsSighted(more)
  <2>1. ASSUME NEW n \in 1 .. Len(more) PROVE Sighted(After(AllNodes, more, n - 1), more[n])
    <3>1. n - 1 \in 0 .. Len(edits)
      BY <1>6, <1>7
    <3>2. CASE n = Len(edits) + 1
      <4>1. n - 1 = Len(edits) /\ more[n] = e
        BY <1>6, <1>7, <3>2
      <4> QED
        BY <1>8, <1>9, <3>1, <4>1
    <3>3. CASE n # Len(edits) + 1
      <4>1. n \in 1 .. Len(edits)
        BY <1>6, <1>7, <3>3
      <4> QED
        BY <1>2, <1>7, <1>8, <3>1, <4>1 DEF EditsSighted
    <3> QED
      BY <3>2, <3>3
  <2> QED
    BY <2>1 DEF EditsSighted
<1>11. OpenSighted(log', more)
  <2>1. PICK row \in Rows : row.done /\ log' = [log EXCEPT ![i] = row]
    BY <1>5
  <2>2. /\ Len(log') = Len(log) /\ log'[i] = row
        /\ \A j \in 1 .. Len(log) : j # i => log'[j] = log[j]
    BY <1>1, <2>1
  <2>3. ASSUME NEW j \in 1 .. Len(log'), OfEditor(log'[j]), ~ log'[j].done PROVE FALSE
    <3>1. j # i /\ j \in 1 .. Len(log) /\ log'[j] = log[j]
      BY <2>1, <2>2, <2>3
    <3>2. Number(log[j]) = edited /\ Number(log[i]) = edited
      BY <1>1, <2>3, <3>1 DEF EditorRows, EditsAreTheirs
    <3> QED
      BY <1>1, <2>3, <3>1, <3>2, EditorTells
  <2> QED
    BY <2>3 DEF OpenSighted
<1> QED
  BY <1>5, <1>10, <1>11 DEF ChosenInv

(* A statement ends, the editor's or another.                              *)
LEMMA InsertChosen ==
    ASSUME LedgerInv, KeptInv, ChosenInv, NEW w \in Writers, Insert(w)
    PROVE  ChosenInv'
<1>1. log \in Seq(Rows) /\ edited \in Nat /\ DOMAIN log = 1 .. Len(log)
  BY LedgerAssumption DEF LedgerInv, StateIsTyped
<1>2. PICK i \in 1 .. Len(log) : ~ log[i].done /\ Ended(i)
  BY <1>1 DEF Insert
<1>3. CASE OfEditor(log[i])
  BY <1>2, <1>3, EditEndsChosen
<1>4. CASE ~ OfEditor(log[i])
  <2>1. \A e \in Seen' : IsEdit(e) => e \in Seen
    BY <1>1, <1>2, <1>4, RunRowEnds DEF KeptInv
  <2>2. Seen \subseteq Seen'
    BY InsertKeeps DEF LogIsKept, Seen
  <2>3. OpenEditsStay(log, log')
    <3>1. CASE log' = RemoveAt(log, i)
      BY <1>1, <3>1, RowGoesQuietly
    <3>2. CASE log' = [log EXCEPT ![i].done = TRUE]
      <4>1. PICK row : row = [log[i] EXCEPT !.done = TRUE]
        OBVIOUS
      <4>2. log[i] \in Rows
        BY <1>1
      <4>3. row \in Rows /\ row.done
        BY <4>1, <4>2 DEF Rows
      <4>4. log' = [log EXCEPT ![i] = row]
        BY <3>2, <4>1
      <4> QED
        BY <1>1, <4>3, <4>4, RowInPlaceQuietly
    <3> QED
      BY <1>2, <3>1, <3>2 DEF Ended
  <2> QED
    BY <2>1, <2>2, <2>3, QuietChoice
<1> QED
  BY <1>3, <1>4

(* At the beginning nothing is edited.                                     *)
LEMMA ChosenAtFirst == Init => ChosenInv
<1> SUFFICES ASSUME Init PROVE ChosenInv
  OBVIOUS
<1>1. log = <<>>
  BY DEF Init
<1>2. EditsAre(<<>>, log)
  BY <1>1 DEF EditsAre, AreEdits, SeenIn
<1>3. EditsSighted(<<>>) /\ OpenSighted(log, <<>>)
  BY <1>1 DEF EditsSighted, OpenSighted
<1> QED
  BY <1>2, <1>3 DEF ChosenInv

(* Every step.                                                             *)
LEMMA StepChosen ==
    ASSUME LedgerInv, KeptInv, ChosenInv, [Next]_vars
    PROVE  ChosenInv'
<1>1. CASE \E w \in Runs : Promote(w) \/ LogNext(w) \/ Die(w)
  BY <1>1, PromoteChosen, DieChosen
<1>2. CASE \E w \in Writers : Insert(w)
  BY <1>2, InsertChosen
<1>3. CASE EditMerge \/ EditUnmerge \/ EditSupersede \/ EditDelete
  BY <1>3, EditorChosen
<1>4. CASE Refresh \/ RefreshFails \/ UNCHANGED vars
  <2>1. log' = log
    BY <1>4 DEF Refresh, RefreshFails, vars
  <2> QED
    BY <2>1 DEF ChosenInv
<1> QED
  BY <1>1, <1>2, <1>3, <1>4 DEF Next

(* What the editor decided on is what his edits meet, in every behaviour.  *)
THEOREM ChosenInvariance == Spec => [](LedgerInv /\ KeptInv /\ ChosenInv)
<1>1. Init => LedgerInv /\ KeptInv /\ ChosenInv
  BY InitHolds, KeptAtFirst, ChosenAtFirst
<1>2. (LedgerInv /\ KeptInv /\ ChosenInv) /\ [Next]_vars => (LedgerInv /\ KeptInv /\ ChosenInv)'
  BY StepKeeps, StepKept, StepChosen
<1> QED
  BY <1>1, <1>2, PTL DEF Spec

(* An event whose nodes are in the graph, and which meets in it what the   *)
(* editor saw.                                                             *)
Meets(g, e) == Ready(g.nodes, e) /\ Sighted(g, e)

(* A list of events that come once each, and each of which meets in the    *)
(* replay of those before it what it should.                               *)
Told(rows) ==
    /\ rows \in Seq(Events)
    /\ \A i, j \in 1 .. Len(rows) : rows[i].key = rows[j].key => i = j
    /\ \A n \in 1 .. Len(rows) : Meets(After(EmptyGraph, rows, n - 1), rows[n])

(* What a replay of the first rows has applied and created.                *)
LEMMA FirstOfReplay ==
    ASSUME NEW events, events \subseteq Events, KeysTellApart(events),
           NEW rows \in Seq(events), IsOrdered(rows), NEW n \in 0 .. Len(rows),
           NEW g, g = After(EmptyGraph, rows, n)
    PROVE  /\ GraphIsTyped(g) /\ Rising(g) /\ Rooted(g)
           /\ g.applied = {rows[i].key : i \in 1 .. n}
           /\ \A i \in 1 .. n : rows[i].op = "create_node" => rows[i].subject \in DOMAIN g.nodes
<1>1. PICK part : part = SubSeq(rows, 1, n)
  OBVIOUS
<1>2. PICK some : some = {rows[i] : i \in 1 .. n}
  OBVIOUS
<1>3. /\ part \in Seq(events) /\ Len(part) = n /\ part \in Seq(some)
      /\ \A i \in 1 .. n : part[i] = rows[i]
      /\ IsOrdered(part)
  BY <1>1, <1>2, FirstRows
<1>4. some \subseteq events
  <2>1. \A i \in 1 .. Len(rows) : rows[i] \in events
    OBVIOUS
  <2> QED
    BY <1>2, <2>1
<1>5. some \subseteq Events /\ KeysTellApart(some)
  BY <1>4 DEF KeysTellApart
<1>6. g = Replay(part)
  BY <1>1 DEF After, Replay
<1>7. GraphIsTyped(g) /\ Rising(g) /\ Rooted(g)
  <2>1. part \in Seq(Events)
    BY <1>3
  <2> QED
    BY <1>6, <2>1, ReplayIsRooted
<1>8. /\ GraphFits(g, some)
      /\ \A k \in 1 .. Len(part) : part[k].key \in g.applied
  <2>1. GraphFits(EmptyGraph, some)
    BY EmptyGraphFits
  <2>2. g = Apply(EmptyGraph, part)
    BY <1>6 DEF Replay
  <2> QED
    BY <1>3, <1>5, <2>1, <2>2, ApplyFits
<1>9. g.applied \subseteq KeysOf(some)
  BY <1>8 DEF GraphFits, NodesFit
<1>10. \A i \in 1 .. n : rows[i].key \in g.applied
  BY <1>3, <1>8
<1>11. g.applied = {rows[i].key : i \in 1 .. n}
  BY <1>2, <1>9, <1>10 DEF KeysOf
<1>12. ASSUME NEW i \in 1 .. n, rows[i].op = "create_node"
       PROVE  rows[i].subject \in DOMAIN g.nodes
  <2>1. rows[i] \in some
    BY <1>2
  <2> QED
    BY <1>8, <1>10, <1>12, <2>1 DEF GraphFits, NodesFit
<1> QED
  BY <1>7, <1>11, <1>12

(* The log is told as the editor saw it.                                   *)
LEMMA MutationsAreTold == LedgerInv /\ KeptInv /\ ChosenInv => Told(AllMutations)
<1> SUFFICES ASSUME LedgerInv, KeptInv, ChosenInv PROVE Told(AllMutations)
  OBVIOUS
<1>1. log \in Seq(Rows) /\ edited \in Nat /\ KeysAreUnique(log) /\ NodesComeFirst(log)
  BY LedgerAssumption DEF LedgerInv, StateIsTyped
<1>2. EditorRows(log, edited)
  BY DEF KeptInv
<1>3. PICK edits : EditsAre(edits, log) /\ EditsSighted(edits)
  BY DEF ChosenInv
<1>4. AreEdits(edits)
  BY <1>3 DEF EditsAre
<1>5. /\ Seen \subseteq Events /\ KeysTellApart(Seen)
      /\ AllMutations \in Seq(Seen) /\ IsOrdered(AllMutations)
  BY <1>1, SeenEvents
<1>6. PICK all \in Seq(Seen) : all = AllMutations
  BY <1>5
<1>7. IsOrdered(all) /\ EditsInOrder(all, edits) /\ Len(all) \in Nat
  BY <1>1, <1>2, <1>3, <1>5, <1>6, EditsFollow
<1>8. \A i, j \in 1 .. Len(all) : all[i].key = all[j].key => i = j
  BY <1>1, <1>6, SeenOnce
<1>9. ASSUME NEW n \in 1 .. Len(all) PROVE Meets(After(EmptyGraph, all, n - 1), all[n])
  <2>1. PICK g : g = After(EmptyGraph, all, n - 1)
    OBVIOUS
  <2>2. n - 1 \in 0 .. Len(all) /\ all[n] \in Seen
    BY <1>7
  <2>3. PICK e \in Events : e = all[n]
    BY <1>5, <2>2
  <2>4. /\ GraphIsTyped(g) /\ Rising(g)
        /\ g.applied = {all[i].key : i \in 1 .. n - 1}
        /\ \A i \in 1 .. n - 1 : all[i].op = "create_node" => all[i].subject \in DOMAIN g.nodes
    BY <1>5, <1>7, <2>1, <2>2, FirstOfReplay
  <2>5. Ready(g.nodes, e)
    <3>1. CASE IsEdit(e)
      <4>1. \A id \in NeedsOf(e) :
               \E m \in 1 .. n - 1 : all[m].op = "create_node" /\ all[m].subject = id
        BY <1>7, <2>3, <3>1 DEF EditsInOrder
      <4> QED
        BY <2>4, <4>1 DEF Ready
    <3>2. CASE e.op = "create_edge"
      <4>1. NeedsOf(e) = {e.subject, e.object} /\ NeedsNodes(e)
        BY <3>2 DEF NeedsOf, NeedsNodes
      <4>2. \A id \in NeedsOf(e) :
               \E m \in 1 .. n - 1 : all[m].op = "create_node" /\ all[m].subject = id
        BY <1>7, <2>3, <4>1 DEF IsOrdered
      <4> QED
        BY <2>4, <4>2 DEF Ready
    <3>3. CASE e.op = "create_node"
      BY <3>3 DEF Ready, NeedsOf
    <3>4. e.op \in Ops
      BY EventFields
    <3> QED
      BY <3>1, <3>2, <3>3, <3>4 DEF IsEdit, Ops
  <2>6. Sighted(g, e)
    <3>1. CASE IsEdit(e)
      <4>1. PICK i \in 1 .. Len(edits) :
               e = edits[i] /\ (i > 1 => \E m \in 1 .. n - 1 : all[m] = edits[i - 1])
        BY <1>7, <2>3, <3>1 DEF EditsInOrder
      <4>2. PICK k : Up(g, edits, k)
        <5>1. PICK part : part = SubSeq(all, 1, n - 1)
          OBVIOUS
        <5>2. part \in Seq(Seen) /\ IsOrdered(part)
          BY <1>7, <2>2, <5>1, FirstRows
        <5>3. EditsInOrder(part, edits)
          BY <1>7, <2>2, <5>1, FirstEditsFollow
        <5>4. \E k : Up(EmptyGraph, edits, k)
          BY <1>4, NothingIsUp
        <5>5. GraphFits(EmptyGraph, Seen)
          BY EmptyGraphFits
        <5>6. Rising(EmptyGraph)
          BY DEF Rising, EmptyGraph
        <5>7. \E k : Up(Apply(EmptyGraph, part), edits, k)
          BY <1>4, <1>5, <5>2, <5>3, <5>4, <5>5, <5>6, ApplyUp
        <5> QED
          BY <2>1, <5>1, <5>7 DEF After
      <4>3. k \in 0 .. Len(edits) /\ Len(edits) \in Nat
        BY <1>4, <4>2 DEF Up, AreEdits
      <4>4. e.key \notin g.applied
        <5>1. \A i1 \in 1 .. n - 1 : all[i1].key # all[n].key
          BY <1>7, <1>8
        <5> QED
          BY <2>3, <2>4, <5>1
      <4>5. ~ i <= k
        BY <4>1, <4>2, <4>4 DEF Up
      <4>6. i > 1 => i - 1 <= k
        <5>1. ASSUME i > 1 PROVE i - 1 <= k
          <6>1. i - 1 \in 1 .. Len(edits)
            BY <4>3, <5>1
          <6>2. edits[i - 1].key \in g.applied
            BY <2>4, <4>1, <5>1
          <6> QED
            BY <4>2, <6>1, <6>2 DEF Up
        <5> QED
          BY <5>1
      <4>7. k = i - 1
        BY <4>3, <4>5, <4>6
      <4>8. PICK h : h = After(AllNodes, edits, i - 1)
        OBVIOUS
      <4>9. Follows(g, h)
        BY <4>2, <4>7, <4>8 DEF Up
      <4>10. Sighted(h, e)
        BY <1>3, <4>1, <4>8 DEF EditsSighted
      <4>11. e.op = "merge_entity" => {e.subject, e.object} \subseteq DOMAIN g.nodes
        BY <2>5 DEF Ready, NeedsOf
      <4> QED
        BY <2>4, <4>9, <4>10, <4>11, SightedAlike
    <3>2. CASE ~ IsEdit(e)
      BY <3>2 DEF Sighted, IsEdit
    <3> QED
      BY <3>1, <3>2
  <2> QED
    BY <2>1, <2>3, <2>5, <2>6 DEF Meets
<1>10. all \in Seq(Events)
  BY <1>5
<1> QED
  BY <1>6, <1>8, <1>9, <1>10 DEF Told

(* One more event that meets what it should.                               *)
LEMMA ToldMore ==
    ASSUME NEW rows, Told(rows), NEW u \in Events,
           \A i \in 1 .. Len(rows) : rows[i].key # u.key, Meets(Replay(rows), u),
           NEW more, more = Append(rows, u)
    PROVE  /\ Told(more)
           /\ After(EmptyGraph, more, Len(rows)) = Replay(rows)
<1>1. rows \in Seq(Events) /\ Len(rows) \in Nat
  BY DEF Told
<1>2. /\ more \in Seq(Events) /\ Len(more) = Len(rows) + 1 /\ more[Len(rows) + 1] = u
      /\ \A i \in 1 .. Len(rows) : more[i] = rows[i]
  BY <1>1
<1>3. ASSUME NEW n \in 0 .. Len(rows)
      PROVE  After(EmptyGraph, more, n) = After(EmptyGraph, rows, n)
  <2>1. SubSeq(more, 1, n) = SubSeq(rows, 1, n)
    BY <1>1, <1>2, <1>3
  <2> QED
    BY <2>1 DEF After
<1>4. After(EmptyGraph, rows, Len(rows)) = Replay(rows)
  BY <1>1, AppliedOneByOne DEF Replay
<1>5. \A i, j \in 1 .. Len(more) : more[i].key = more[j].key => i = j
  <2>1. \A i \in 1 .. Len(more) : i \in 1 .. Len(rows) \/ i = Len(rows) + 1
    BY <1>1, <1>2
  <2>2. \A i, j \in 1 .. Len(rows) : rows[i].key = rows[j].key => i = j
    BY DEF Told
  <2> QED
    BY <1>2, <2>1, <2>2
<1>6. ASSUME NEW n \in 1 .. Len(more) PROVE Meets(After(EmptyGraph, more, n - 1), more[n])
  <2>1. n - 1 \in 0 .. Len(rows)
    BY <1>1, <1>2
  <2>2. After(EmptyGraph, more, n - 1) = After(EmptyGraph, rows, n - 1)
    BY <1>3, <2>1
  <2>3. CASE n \in 1 .. Len(rows)
    BY <1>2, <2>2, <2>3 DEF Told
  <2>4. CASE n = Len(rows) + 1
    BY <1>1, <1>2, <1>4, <2>2, <2>4
  <2> QED
    BY <1>1, <1>2, <2>3, <2>4
<1> QED
  BY <1>1, <1>2, <1>3, <1>4, <1>5, <1>6 DEF Told

-------------------------------------------------------------------------------
(* One event after another: which merges there are, and what shows them.   *)

(* What holds of 0 and is handed on holds up to N.                         *)
LEMMA HandedOn ==
    ASSUME NEW N \in Nat, NEW S, 0 \in S, \A n \in 1 .. N : n - 1 \in S => n \in S
    PROVE  \A n \in 0 .. N : n \in S
<1> SUFFICES ASSUME NEW k \in 0 .. N, k \notin S PROVE FALSE
  OBVIOUS
<1> DEFINE Bad == {n \in 0 .. N : n \notin S}
<1>1. Bad \subseteq Nat /\ Bad # {}
  OBVIOUS
<1> HIDE DEF Bad
<1>2. PICK m \in Bad : \A n \in Bad : m <= n
  BY <1>1, LeastNatural
<1>3. m \in 0 .. N /\ m \notin S
  BY <1>2 DEF Bad
<1>4. m \in 1 .. N /\ m - 1 \in 0 .. N
  BY <1>3
<1>5. m - 1 \in Bad
  BY <1>3, <1>4 DEF Bad
<1> QED
  BY <1>2, <1>4, <1>5

(* What applying an event makes of a graph that has its nodes.             *)
Steps(g, e, h) ==
    /\ Ready(g.nodes, e)
    /\ ToSet(h.edges) = Left(ToSet(g.edges), e) \cup Added(g, e)
    /\ NodesDone(g.nodes, e, ToSet(h.edges), h.nodes)

(* A graph made by events.                                                 *)
Made(g) == GraphIsTyped(g) /\ Rising(g) /\ Rooted(g)

(* An event that was not applied.                                          *)
LEMMA EventSteps ==
    ASSUME NEW g, Made(g), NEW e \in Events, Ready(g.nodes, e), e.key \notin g.applied,
           NEW h, h = ApplyEvent(g, e)
    PROVE  /\ Steps(g, e, h) /\ Made(h) /\ h.applied = g.applied \cup {e.key}
           /\ h.edges = Effect(g, e).edges
<1>1. Made(h) /\ h.applied = g.applied \cup {e.key}
  <2>1. GraphIsTyped(h) /\ Rising(h)
    BY ApplyEventLater DEF Later, Made
  <2> QED
    BY <2>1, ApplyEventRoots DEF Made
<1>2. PICK f : f = Effect(g, e)
  OBVIOUS
<1>3. /\ ToSet(f.edges) = Left(ToSet(g.edges), e) \cup Added(g, e)
      /\ NodesDone(g.nodes, e, ToSet(f.edges), f.nodes)
  BY <1>2, EffectSets DEF Made
<1>4. h = Marked(f, e)
  BY <1>2 DEF ApplyEvent, Marked
<1>5. GraphIsTyped(f)
  BY <1>2, EffectLater DEF Made, Later
<1>6. h.nodes = f.nodes /\ h.edges = f.edges
  BY <1>4, <1>5 DEF Marked, GraphIsTyped
<1> QED
  BY <1>1, <1>2, <1>3, <1>6 DEF Steps

(* A node after an event, field by field.                                  *)
Marks(e, id) == e.op = "merge_entity" /\ id = e.subject
SameAsFrom(edges, id) == {x \in edges : x.type = "SAME_AS" /\ x.from = id}
Unmarks(e, id, edges) == e.op = "unmerge" /\ id = e.subject /\ SameAsFrom(edges, id) = {}

(* What is touched of a node.                                              *)
LEMMA TouchedFields ==
    ASSUME NEW node \in NodeRecords, NEW id, NEW e \in Events, NEW edges,
           NEW t, t = Touched(node, id, e, edges)
    PROVE  /\ Marks(e, id) => t.merged /\ t.canonical = e.object
           /\ Unmarks(e, id, edges) => ~ t.merged /\ t.canonical = NoId
           /\ ~ Marks(e, id) /\ ~ Unmarks(e, id, edges) =>
                t.merged = node.merged /\ t.canonical = node.canonical
           /\ t.closed <=> node.closed \/ (e.op = "supersede" /\ id = e.object)
           /\ t.deleted <=> node.deleted \/ (e.op = "delete" /\ id = e.subject)
<1>1. CASE Marks(e, id)
  <2>1. t = [node EXCEPT !.canonical = e.object, !.merged = TRUE]
    BY <1>1 DEF Touched, Marks
  <2> QED
    BY <1>1, <2>1 DEF NodeRecords, Marks, Unmarks
<1>2. CASE Unmarks(e, id, edges)
  <2>1. ~ \E x \in edges : x.from = e.subject /\ x.type = "SAME_AS"
    BY <1>2 DEF Unmarks, SameAsFrom
  <2>2. t = [node EXCEPT !.canonical = NoId, !.merged = FALSE]
    BY <1>2, <2>1 DEF Touched, Unmarks
  <2> QED
    BY <1>2, <2>2 DEF NodeRecords, Marks, Unmarks
<1>3. CASE ~ Marks(e, id) /\ ~ Unmarks(e, id, edges)
  <2>1. ~ (e.op = "unmerge" /\ id = e.subject
             /\ ~ \E x \in edges : x.from = e.subject /\ x.type = "SAME_AS")
    BY <1>3 DEF Unmarks, SameAsFrom
  <2>2. CASE e.op = "supersede" /\ id = e.object
    <3>1. t = [node EXCEPT !.closed = TRUE]
      BY <2>2 DEF Touched
    <3> QED
      BY <1>3, <2>2, <3>1 DEF NodeRecords
  <2>3. CASE e.op = "delete" /\ id = e.subject
    <3>1. t = [node EXCEPT !.deleted = TRUE]
      BY <2>3 DEF Touched
    <3> QED
      BY <1>3, <2>3, <3>1 DEF NodeRecords
  <2>4. CASE ~ (e.op = "supersede" /\ id = e.object) /\ ~ (e.op = "delete" /\ id = e.subject)
    <3>1. t = node
      BY <1>3, <2>1, <2>4 DEF Touched, Marks
    <3> QED
      BY <1>3, <2>4, <3>1
  <2> QED
    BY <2>2, <2>3, <2>4
<1> QED
  BY <1>1, <1>2, <1>3

(* The nodes of a graph after an event.                                    *)
LEMMA NodesAfter ==
    ASSUME NEW g, Made(g), NEW e \in Events, NEW h, Steps(g, e, h)
    PROVE  /\ DOMAIN h.nodes = DOMAIN g.nodes \cup (IF e.op = "create_node" THEN {e.subject} ELSE {})
           /\ \A id \in DOMAIN h.nodes \ DOMAIN g.nodes : h.nodes[id] = NewNode
           /\ \A id \in DOMAIN g.nodes :
                /\ Marks(e, id) => h.nodes[id].merged /\ h.nodes[id].canonical = e.object
                /\ Unmarks(e, id, ToSet(h.edges)) =>
                     ~ h.nodes[id].merged /\ h.nodes[id].canonical = NoId
                /\ ~ Marks(e, id) /\ ~ Unmarks(e, id, ToSet(h.edges)) =>
                     /\ h.nodes[id].merged = g.nodes[id].merged
                     /\ h.nodes[id].canonical = g.nodes[id].canonical
                /\ h.nodes[id].closed <=>
                     g.nodes[id].closed \/ (e.op = "supersede" /\ id = e.object)
                /\ h.nodes[id].deleted <=>
                     g.nodes[id].deleted \/ (e.op = "delete" /\ id = e.subject)
<1>1. NodesDone(g.nodes, e, ToSet(h.edges), h.nodes)
  BY DEF Steps
<1>2. ASSUME NEW id \in DOMAIN g.nodes
      PROVE  /\ Marks(e, id) => h.nodes[id].merged /\ h.nodes[id].canonical = e.object
             /\ Unmarks(e, id, ToSet(h.edges)) =>
                  ~ h.nodes[id].merged /\ h.nodes[id].canonical = NoId
             /\ ~ Marks(e, id) /\ ~ Unmarks(e, id, ToSet(h.edges)) =>
                  /\ h.nodes[id].merged = g.nodes[id].merged
                  /\ h.nodes[id].canonical = g.nodes[id].canonical
             /\ h.nodes[id].closed <=>
                  g.nodes[id].closed \/ (e.op = "supersede" /\ id = e.object)
             /\ h.nodes[id].deleted <=>
                  g.nodes[id].deleted \/ (e.op = "delete" /\ id = e.subject)
  <2>1. PICK node \in NodeRecords : node = g.nodes[id]
    BY DEF Made, GraphIsTyped
  <2>2. PICK edges : edges = ToSet(h.edges)
    OBVIOUS
  <2>3. PICK t : t = h.nodes[id]
    OBVIOUS
  <2>4. t = Touched(node, id, e, edges)
    BY <1>1, <2>1, <2>2, <2>3 DEF NodesDone
  <2> HIDE DEF Marks, Unmarks
  <2> QED
    BY <2>1, <2>2, <2>3, <2>4, TouchedFields
<1> QED
  BY <1>1, <1>2 DEF NodesDone

(* The SAME_AS of a graph, and what an event takes out of them.            *)
SameAs(edges) == {x \in edges : x.type = "SAME_AS"}
Takes(e, x) ==
    \/ e.op = "unmerge" /\ PairOf(e) = Ends(x) /\ x.ref = e.ref
    \/ e.op = "delete" /\ e.subject \in {x.from, x.to}
Brings(g, e) ==
    IF e.op = "merge_entity" THEN {Edge(g, "SAME_AS", e.subject, e.object, e.ref)} ELSE {}

(* The SAME_AS after an event.                                             *)
LEMMA SameAsAfter ==
    ASSUME NEW g, Made(g), NEW e \in Events, NEW h, Steps(g, e, h)
    PROVE  SameAs(ToSet(h.edges))
             = {x \in SameAs(ToSet(g.edges)) : ~ Takes(e, x)} \cup Brings(g, e)
<1>1. PICK old : old = ToSet(g.edges)
  OBVIOUS
<1>2. ToSet(h.edges) = Left(old, e) \cup Added(g, e)
  BY <1>1 DEF Steps
<1>3. SameAs(Left(old, e)) = {x \in SameAs(old) : ~ Takes(e, x)}
  <2>1. CASE e.op = "unmerge"
    <3>1. Left(old, e) = {x \in old : ~ (/\ x.from = e.subject /\ x.to = e.object
                                         /\ x.type = "SAME_AS" => x.ref = e.ref)}
      BY <2>1 DEF Left
    <3>2. \A x \in SameAs(old) :
             Takes(e, x) <=> x.from = e.subject /\ x.to = e.object /\ x.ref = e.ref
      BY <2>1 DEF Takes, PairOf, Ends
    <3> QED
      BY <3>1, <3>2 DEF SameAs
  <2>2. CASE e.op = "delete"
    <3>1. Left(old, e) = {x \in old : e.subject \notin {x.from, x.to}}
      BY <2>2 DEF Left
    <3>2. \A x \in SameAs(old) : Takes(e, x) <=> e.subject \in {x.from, x.to}
      BY <2>2 DEF Takes
    <3> QED
      BY <3>1, <3>2 DEF SameAs
  <2>3. CASE e.op \notin {"unmerge", "delete"}
    <3>1. Left(old, e) = old
      BY <2>3 DEF Left
    <3>2. \A x \in SameAs(old) : ~ Takes(e, x)
      BY <2>3 DEF Takes
    <3> QED
      BY <3>1, <3>2 DEF SameAs
  <2> QED
    BY <2>1, <2>2, <2>3
<1>4. SameAs(Added(g, e)) = Brings(g, e)
  <2>1. CASE e.op = "merge_entity"
    <3>1. Added(g, e) = Brings(g, e)
      BY <2>1 DEF Added, Brings
    <3> QED
      BY <2>1, <3>1 DEF SameAs, Brings, Edge
  <2>2. CASE e.op = "create_edge"
    <3>1. e.ref # "SAME_AS"
      BY <2>2, EventFields, LedgerAssumption
    <3>2. Added(g, e) = {Edge(g, e.ref, e.subject, e.object, NoId)}
      BY <2>2 DEF Added
    <3> QED
      BY <2>2, <3>1, <3>2 DEF SameAs, Brings, Edge
  <2>3. CASE e.op = "supersede"
    <3>2. Added(g, e) = {Edge(g, "SUPERSEDES", e.subject, e.object, NoId)}
      BY <2>3 DEF Added
    <3> QED
      BY <2>3, <3>2 DEF SameAs, Brings, Edge
  <2>4. CASE e.op \notin {"merge_entity", "create_edge", "supersede"}
    <3>1. Added(g, e) = {}
      BY <2>4 DEF Added
    <3> QED
      BY <2>4, <3>1 DEF SameAs, Brings
  <2> QED
    BY <2>1, <2>2, <2>3, <2>4
<1>5. SameAs(Left(old, e) \cup Added(g, e)) = SameAs(Left(old, e)) \cup SameAs(Added(g, e))
  BY DEF SameAs
<1> QED
  BY <1>1, <1>2, <1>3, <1>4, <1>5

(* A node's merges: its mark comes of one of them, shows while a SAME_AS   *)
(* from it stands, and outlives them only with a deletion.                 *)
HasLost(nodes, id, events) ==
    \/ nodes[id].deleted
    \/ \E e \in events : Marks(e, id) /\ e.object \in DOMAIN nodes /\ nodes[e.object].deleted
NodeShows(nodes, id, from, events) ==
    /\ nodes[id].merged => \E e \in events : Marks(e, id) /\ nodes[id].canonical = e.object
    /\ ~ nodes[id].merged => nodes[id].canonical = NoId
    /\ from # {} => nodes[id].merged
    /\ nodes[id].merged /\ from = {} => HasLost(nodes, id, events)
ComesOf(x, events) ==
    \E e \in events : e.op = "merge_entity" /\ PairOf(e) = Ends(x) /\ e.ref = x.ref
ShowsMerges(g, events) ==
    /\ \A x \in SameAs(ToSet(g.edges)) : ComesOf(x, events)
    /\ \A id \in DOMAIN g.nodes :
          NodeShows(g.nodes, id, SameAsFrom(ToSet(g.edges), id), events)

(* An event leaves a graph that shows its merges.                          *)
LEMMA MergesShow ==
    ASSUME NEW g, Made(g), NEW e \in Events, NEW h, Steps(g, e, h),
           NEW events, ShowsMerges(g, events), NEW more, events \subseteq more, e \in more
    PROVE  ShowsMerges(h, more)
<1>1. PICK S : S = SameAs(ToSet(g.edges))
  OBVIOUS
<1>2. PICK T : T = SameAs(ToSet(h.edges))
  OBVIOUS
<1>3. T = {x \in S : ~ Takes(e, x)} \cup Brings(g, e)
  BY <1>1, <1>2, SameAsAfter
<1>4. /\ \A x \in S : ComesOf(x, events) /\ x.from \in DOMAIN g.nodes
      /\ \A id : SameAsFrom(ToSet(g.edges), id) = {x \in S : x.from = id}
      /\ \A id : SameAsFrom(ToSet(h.edges), id) = {x \in T : x.from = id}
  BY <1>1, <1>2 DEF ShowsMerges, SameAs, SameAsFrom, Made, Rooted
<1>5. \A x \in Brings(g, e) :
         e.op = "merge_entity" /\ PairOf(e) = Ends(x) /\ e.ref = x.ref /\ x.from = e.subject
  BY DEF Brings, Edge, PairOf, Ends
<1>6. \A x \in T : ComesOf(x, more)
  <2>1. \A x \in S : ComesOf(x, more)
    BY <1>4 DEF ComesOf
  <2>2. \A x \in Brings(g, e) : ComesOf(x, more)
    BY <1>5 DEF ComesOf
  <2> QED
    BY <1>3, <2>1, <2>2
<1>7. ASSUME NEW id \in DOMAIN h.nodes
      PROVE  NodeShows(h.nodes, id, SameAsFrom(ToSet(h.edges), id), more)
  <2>1. PICK from : from = {x \in T : x.from = id}
    OBVIOUS
  <2>2. from = SameAsFrom(ToSet(h.edges), id)
    BY <1>4, <2>1
  <2>3. CASE id \notin DOMAIN g.nodes
    <3>1. h.nodes[id] = NewNode
      BY <2>3, NodesAfter
    <3>2. from = {}
      <4>1. \A x \in S : x.from # id
        BY <1>4, <2>3
      <4>2. \A x \in Brings(g, e) : x.from # id
        <5>1. e.op = "merge_entity" => e.subject \in DOMAIN g.nodes
          BY DEF Steps, Ready, NeedsOf
        <5> QED
          BY <1>5, <2>3, <5>1
      <4> QED
        BY <1>3, <2>1, <4>1, <4>2
    <3> QED
      BY <2>2, <3>1, <3>2 DEF NodeShows, NewNode
  <2>4. CASE id \in DOMAIN g.nodes
    <3>1. PICK node : node = g.nodes[id]
      OBVIOUS
    <3>2. PICK done : done = h.nodes[id]
      OBVIOUS
    <3>3. PICK before : before = {x \in S : x.from = id}
      OBVIOUS
    <3>4. /\ Marks(e, id) => done.merged /\ done.canonical = e.object
          /\ Unmarks(e, id, ToSet(h.edges)) => ~ done.merged /\ done.canonical = NoId
          /\ ~ Marks(e, id) /\ ~ Unmarks(e, id, ToSet(h.edges)) =>
               done.merged = node.merged /\ done.canonical = node.canonical
          /\ done.deleted <=> node.deleted \/ (e.op = "delete" /\ id = e.subject)
      BY <2>4, <3>1, <3>2, NodesAfter
    <3>5. NodeShows(g.nodes, id, before, events)
      BY <1>4, <2>4, <3>3 DEF ShowsMerges
    <3>6. CASE Marks(e, id)
      <4>1. Edge(g, "SAME_AS", e.subject, e.object, e.ref) \in from
        BY <1>3, <2>1, <3>6 DEF Brings, Marks, Edge
      <4> QED
        BY <2>2, <3>2, <3>4, <3>6, <4>1 DEF NodeShows
    <3>7. CASE Unmarks(e, id, ToSet(h.edges))
      <4>1. from = {}
        BY <2>2, <3>7 DEF Unmarks
      <4> QED
        BY <2>2, <3>2, <3>4, <3>7, <4>1 DEF NodeShows
    <3>8. CASE ~ Marks(e, id) /\ ~ Unmarks(e, id, ToSet(h.edges))
      <4>1. done.merged = node.merged /\ done.canonical = node.canonical
        BY <3>4, <3>8
      <4>2. from \subseteq before
        <5>1. \A x \in Brings(g, e) : x.from # id
          BY <1>5, <3>8 DEF Marks
        <5> QED
          BY <1>3, <2>1, <3>3, <5>1
      <4>3. done.merged => \E f \in more : Marks(f, id) /\ done.canonical = f.object
        BY <3>1, <3>5, <4>1 DEF NodeShows
      <4>4. ~ done.merged => done.canonical = NoId
        BY <3>1, <3>5, <4>1 DEF NodeShows
      <4>5. from # {} => done.merged
        BY <3>1, <3>5, <4>1, <4>2 DEF NodeShows
      <4>6. ASSUME done.merged, from = {} PROVE HasLost(h.nodes, id, more)
        <5>1. CASE before = {}
          <6>1. HasLost(g.nodes, id, events)
            BY <3>1, <3>5, <4>1, <4>6, <5>1 DEF NodeShows
          <6>2. CASE node.deleted
            BY <3>2, <3>4, <6>2 DEF HasLost
          <6>3. CASE \E f \in events : Marks(f, id) /\ f.object \in DOMAIN g.nodes
                                          /\ g.nodes[f.object].deleted
            <7>1. PICK f \in events : Marks(f, id) /\ f.object \in DOMAIN g.nodes
                                         /\ g.nodes[f.object].deleted
              BY <6>3
            <7>2. PICK other : other = f.object
              OBVIOUS
            <7>3. other \in DOMAIN h.nodes /\ h.nodes[other].deleted
              BY <7>1, <7>2, NodesAfter
            <7> QED
              BY <7>1, <7>2, <7>3 DEF HasLost
          <6> QED
            BY <3>1, <6>1, <6>2, <6>3 DEF HasLost
        <5>2. CASE before # {}
          <6>1. PICK x \in S : x.from = id
            BY <3>3, <5>2
          <6>2. Takes(e, x)
            BY <1>3, <2>1, <4>6, <6>1
          <6>3. CASE e.op = "unmerge" /\ PairOf(e) = Ends(x)
            <7>1. e.subject = id
              BY <6>1, <6>3 DEF PairOf, Ends
            <7> QED
              BY <2>2, <3>8, <4>6, <6>3, <7>1 DEF Unmarks
          <6>4. CASE e.op = "delete" /\ e.subject = x.from
            BY <3>2, <3>4, <6>1, <6>4 DEF HasLost
          <6>5. CASE e.op = "delete" /\ e.subject = x.to
            <7>1. PICK f \in events : f.op = "merge_entity" /\ PairOf(f) = Ends(x)
              BY <1>4, <6>1 DEF ComesOf
            <7>2. Marks(f, id) /\ f.object = e.subject
              BY <6>1, <6>5, <7>1 DEF PairOf, Ends, Marks
            <7>3. e.subject \in DOMAIN g.nodes
              BY <6>5 DEF Steps, Ready, NeedsOf
            <7>4. e.subject \in DOMAIN h.nodes /\ h.nodes[e.subject].deleted
              BY <6>5, <7>3, NodesAfter
            <7> QED
              BY <7>2, <7>4 DEF HasLost
          <6> QED
            BY <6>2, <6>3, <6>4, <6>5 DEF Takes
        <5> QED
          BY <5>1, <5>2
      <4> QED
        BY <2>2, <3>2, <4>3, <4>4, <4>5, <4>6 DEF NodeShows
    <3> QED
      BY <3>6, <3>7, <3>8
  <2> QED
    BY <2>3, <2>4
<1> QED
  BY <1>2, <1>6, <1>7 DEF ShowsMerges

(* What is true of a list of events that is told, up to its n-th event.    *)
UpTo(rows, n) == {rows[i] : i \in 1 .. n}
NoneTouchesDeleted(g) ==
    \A x \in SameAs(ToSet(g.edges)) : ~ g.nodes[x.from].deleted /\ ~ g.nodes[x.to].deleted
ToldAt(rows, n, g) ==
    /\ Made(g) /\ g.applied = {rows[i].key : i \in 1 .. n}
    /\ IsFiniteSet(DOMAIN g.nodes)
    /\ ShowsMerges(g, UpTo(rows, n))
    /\ NoneTouchesDeleted(g)

(* At the beginning.                                                       *)
LEMMA ToldAtFirst ==
    ASSUME NEW rows
    PROVE  ToldAt(rows, 0, EmptyGraph)
<1>1. GraphIsTyped(EmptyGraph)
  BY EmptyGraphFits DEF GraphFits
<1>2. Rising(EmptyGraph) /\ EmptyGraph.edges = <<>> /\ DOMAIN EmptyGraph.nodes = {}
      /\ EmptyGraph.applied = {}
  BY DEF Rising, EmptyGraph
<1>3. ToSet(EmptyGraph.edges) = {}
  BY <1>2 DEF ToSet
<1>4. Made(EmptyGraph)
  BY <1>1, <1>2, <1>3 DEF Made, Rooted
<1>5. ShowsMerges(EmptyGraph, UpTo(rows, 0)) /\ NoneTouchesDeleted(EmptyGraph)
  BY <1>2, <1>3 DEF ShowsMerges, NoneTouchesDeleted, SameAs
<1>6. IsFiniteSet(DOMAIN EmptyGraph.nodes)
  BY <1>2, FS_EmptySet
<1>7. EmptyGraph.applied = {rows[i].key : i \in 1 .. 0}
  BY <1>2
<1> QED
  BY <1>4, <1>5, <1>6, <1>7 DEF ToldAt

(* A graph of finitely many nodes has finitely many after an event.        *)
LEMMA StaysFinite ==
    ASSUME NEW g, Made(g), NEW e \in Events, NEW h, Steps(g, e, h), IsFiniteSet(DOMAIN g.nodes)
    PROVE  IsFiniteSet(DOMAIN h.nodes)
<1>1. DOMAIN h.nodes = DOMAIN g.nodes \cup (IF e.op = "create_node" THEN {e.subject} ELSE {})
  BY NodesAfter
<1>2. IsFiniteSet(DOMAIN g.nodes \cup {e.subject})
  BY FS_AddElement
<1> QED
  BY <1>1, <1>2

(* A SAME_AS between nodes that are not deleted.                           *)
LEMMA StaysAlive ==
    ASSUME NEW g, Made(g), NEW e \in Events, NEW h, Steps(g, e, h), Sighted(g, e),
           NoneTouchesDeleted(g)
    PROVE  NoneTouchesDeleted(h)
<1> SUFFICES ASSUME NEW x \in SameAs(ToSet(h.edges))
             PROVE  ~ h.nodes[x.from].deleted /\ ~ h.nodes[x.to].deleted
  BY DEF NoneTouchesDeleted
<1>1. (x \in SameAs(ToSet(g.edges)) /\ ~ Takes(e, x)) \/ x \in Brings(g, e)
  BY SameAsAfter
<1>2. ASSUME NEW id \in DOMAIN g.nodes, ~ g.nodes[id].deleted, ~ (e.op = "delete" /\ id = e.subject)
      PROVE  ~ h.nodes[id].deleted
  BY <1>2, NodesAfter
<1>3. CASE x \in SameAs(ToSet(g.edges)) /\ ~ Takes(e, x)
  <2>1. x.from \in DOMAIN g.nodes /\ x.to \in DOMAIN g.nodes
    BY <1>3 DEF SameAs, Made, Rooted
  <2>2. ~ g.nodes[x.from].deleted /\ ~ g.nodes[x.to].deleted
    BY <1>3 DEF NoneTouchesDeleted
  <2>3. ~ (e.op = "delete" /\ x.from = e.subject) /\ ~ (e.op = "delete" /\ x.to = e.subject)
    BY <1>3 DEF Takes
  <2> QED
    BY <1>2, <2>1, <2>2, <2>3
<1>4. CASE x \in Brings(g, e)
  <2>1. e.op = "merge_entity" /\ x.from = e.subject /\ x.to = e.object
    BY <1>4 DEF Brings, Edge
  <2>2. x.from \in DOMAIN g.nodes /\ x.to \in DOMAIN g.nodes
    BY <2>1 DEF Steps, Ready, NeedsOf
  <2>3. ~ g.nodes[x.from].deleted /\ ~ g.nodes[x.to].deleted
    BY <2>1 DEF Sighted
  <2> QED
    BY <1>2, <2>1, <2>2, <2>3
<1> QED
  BY <1>1, <1>3, <1>4

(* The next event of a list that is told.                                  *)
LEMMA ToldGoesOn ==
    ASSUME NEW rows, Told(rows), NEW n \in 1 .. Len(rows),
           NEW g, g = After(EmptyGraph, rows, n - 1), ToldAt(rows, n - 1, g),
           NEW h, h = After(EmptyGraph, rows, n)
    PROVE  /\ Steps(g, rows[n], h) /\ Sighted(g, rows[n])
           /\ h = ApplyEvent(g, rows[n]) /\ rows[n].key \notin g.applied
           /\ ToldAt(rows, n, h)
<1>1. rows \in Seq(Events) /\ Len(rows) \in Nat
  BY DEF Told
<1>2. PICK e \in Events : e = rows[n]
  BY <1>1
<1>3. h = ApplyEvent(g, e)
  BY <1>1, <1>2, AppliedOneByOne
<1>4. Ready(g.nodes, e) /\ Sighted(g, e)
  BY <1>2 DEF Told, Meets
<1>5. e.key \notin g.applied
  <2>1. \A i \in 1 .. n - 1 : i \in 1 .. Len(rows) /\ i # n
    BY <1>1
  <2>2. \A i \in 1 .. n - 1 : rows[i].key # rows[n].key
    BY <2>1 DEF Told
  <2> QED
    BY <1>2, <2>2 DEF ToldAt
<1>6. Made(g)
  BY DEF ToldAt
<1>7. Steps(g, e, h) /\ Made(h) /\ h.applied = g.applied \cup {e.key}
  BY <1>3, <1>4, <1>5, <1>6, EventSteps
<1>8. 1 .. n = (1 .. n - 1) \cup {n}
  OBVIOUS
<1>9. h.applied = {rows[i].key : i \in 1 .. n}
  <2>1. g.applied = {rows[i].key : i \in 1 .. n - 1}
    BY DEF ToldAt
  <2> QED
    BY <1>2, <1>7, <1>8, <2>1
<1>10. UpTo(rows, n - 1) \subseteq UpTo(rows, n) /\ e \in UpTo(rows, n)
  BY <1>2, <1>8 DEF UpTo
<1>11. ShowsMerges(h, UpTo(rows, n))
  <2>1. PICK events : events = UpTo(rows, n - 1)
    OBVIOUS
  <2>2. PICK more : more = UpTo(rows, n)
    OBVIOUS
  <2>3. ShowsMerges(g, events)
    BY <2>1 DEF ToldAt
  <2>4. ShowsMerges(h, more)
    BY <1>6, <1>7, <1>10, <2>1, <2>2, <2>3, MergesShow
  <2> QED
    BY <2>2, <2>4
<1>12. IsFiniteSet(DOMAIN h.nodes) /\ NoneTouchesDeleted(h)
  BY <1>4, <1>6, <1>7, StaysFinite, StaysAlive DEF ToldAt
<1> QED
  BY <1>2, <1>3, <1>4, <1>5, <1>7, <1>9, <1>11, <1>12 DEF ToldAt

(* Wherever it is cut.                                                     *)
LEMMA ToldAtAll ==
    ASSUME NEW rows, Told(rows), NEW n \in 0 .. Len(rows)
    PROVE  ToldAt(rows, n, After(EmptyGraph, rows, n))
<1>1. rows \in Seq(Events) /\ Len(rows) \in Nat
  BY DEF Told
<1> DEFINE S == {k \in 0 .. Len(rows) : ToldAt(rows, k, After(EmptyGraph, rows, k))}
<1>2. 0 \in S
  <2>1. After(EmptyGraph, rows, 0) = EmptyGraph
    BY <1>1, AppliedOneByOne
  <2> QED
    BY <1>1, <2>1, ToldAtFirst
<1>3. ASSUME NEW k \in 1 .. Len(rows), k - 1 \in S PROVE k \in S
  <2>1. PICK g : g = After(EmptyGraph, rows, k - 1)
    OBVIOUS
  <2>2. PICK h : h = After(EmptyGraph, rows, k)
    OBVIOUS
  <2>3. ToldAt(rows, k - 1, g)
    BY <1>3, <2>1
  <2>4. ToldAt(rows, k, h)
    BY <2>1, <2>2, <2>3, ToldGoesOn
  <2> QED
    BY <2>2, <2>4
<1> HIDE DEF S
<1>4. \A k \in 0 .. Len(rows) : k \in S
  BY <1>1, <1>2, <1>3, HandedOn
<1> QED
  BY <1>4 DEF S

(* Each event, where it is told.                                           *)
LEMMA ToldEach ==
    ASSUME NEW rows, Told(rows), NEW n \in 1 .. Len(rows),
           NEW g, g = After(EmptyGraph, rows, n - 1),
           NEW h, h = After(EmptyGraph, rows, n)
    PROVE  /\ Steps(g, rows[n], h) /\ Sighted(g, rows[n])
           /\ h = ApplyEvent(g, rows[n]) /\ rows[n].key \notin g.applied
           /\ ToldAt(rows, n - 1, g) /\ ToldAt(rows, n, h)
           /\ rows[n] \in Events
<1>1. rows \in Seq(Events) /\ Len(rows) \in Nat
  BY DEF Told
<1>2. n - 1 \in 0 .. Len(rows)
  BY <1>1
<1>3. ToldAt(rows, n - 1, After(EmptyGraph, rows, n - 1))
  BY <1>2, ToldAtAll
<1>4. ToldAt(rows, n - 1, g)
  BY <1>3
<1> QED
  BY <1>1, <1>4, ToldGoesOn

(* A merge has its reference to itself.                                    *)
LEMMA MergesByRef ==
    ASSUME NEW rows, Told(rows), NEW i \in 1 .. Len(rows), NEW j \in 1 .. Len(rows),
           rows[i].op = "merge_entity", rows[j].op = "merge_entity", rows[i].ref = rows[j].ref
    PROVE  i = j
<1>1. rows[i].key = <<"merge_entity", rows[i].ref>> /\ rows[j].key = <<"merge_entity", rows[j].ref>>
  BY DEF Told, Meets, Sighted
<1> QED
  BY <1>1 DEF Told

(* A SAME_AS comes of the merge with its reference, at its place.          *)
LEMMA SameAsComesOf ==
    ASSUME NEW rows, Told(rows), NEW n \in 0 .. Len(rows),
           NEW x \in SameAs(ToSet(After(EmptyGraph, rows, n).edges))
    PROVE  \E i \in 1 .. n : /\ i \in 1 .. Len(rows) /\ rows[i].op = "merge_entity"
                             /\ PairOf(rows[i]) = Ends(x) /\ rows[i].ref = x.ref
<1>1. PICK g : g = After(EmptyGraph, rows, n)
  OBVIOUS
<1>2. ShowsMerges(g, UpTo(rows, n))
  BY <1>1, ToldAtAll DEF ToldAt
<1>3. ComesOf(x, UpTo(rows, n))
  BY <1>1, <1>2 DEF ShowsMerges
<1>4. Len(rows) \in Nat
  BY DEF Told
<1> QED
  BY <1>3, <1>4 DEF ComesOf, UpTo

(* Two SAME_AS with one reference join the same nodes, whenever they do.   *)
LEMMA OneRefOnePair ==
    ASSUME NEW rows, Told(rows), NEW m \in 0 .. Len(rows), NEW n \in 0 .. Len(rows),
           NEW x \in SameAs(ToSet(After(EmptyGraph, rows, m).edges)),
           NEW y \in SameAs(ToSet(After(EmptyGraph, rows, n).edges)), x.ref = y.ref
    PROVE  Ends(x) = Ends(y)
<1>1. PICK i \in 1 .. Len(rows) :
         rows[i].op = "merge_entity" /\ PairOf(rows[i]) = Ends(x) /\ rows[i].ref = x.ref
  BY SameAsComesOf
<1>2. PICK j \in 1 .. Len(rows) :
         rows[j].op = "merge_entity" /\ PairOf(rows[j]) = Ends(y) /\ rows[j].ref = y.ref
  BY SameAsComesOf
<1>3. i = j
  BY <1>1, <1>2, MergesByRef
<1> QED
  BY <1>1, <1>2, <1>3

(* No SAME_AS with this reference.                                         *)
IsGone(g, ref) == \A y \in SameAs(ToSet(g.edges)) : y.ref # ref

(* A SAME_AS that an event takes out never comes again: its merge is       *)
(* logged once.                                                            *)
LEMMA TakenIsGone ==
    ASSUME NEW rows, Told(rows), NEW n \in 1 .. Len(rows),
           NEW x \in SameAs(ToSet(After(EmptyGraph, rows, n - 1).edges)), Takes(rows[n], x),
           NEW m \in n .. Len(rows)
    PROVE  IsGone(After(EmptyGraph, rows, m), x.ref)
<1>1. Len(rows) \in Nat /\ n - 1 \in 0 .. Len(rows)
  BY DEF Told
<1>2. PICK i \in 1 .. n - 1 : i \in 1 .. Len(rows) /\ rows[i].op = "merge_entity" /\ rows[i].ref = x.ref
  BY <1>1, SameAsComesOf
<1> DEFINE S == {k \in 0 .. Len(rows) : k < n \/ IsGone(After(EmptyGraph, rows, k), x.ref)}
<1>3. 0 \in S
  BY <1>1
<1>4. ASSUME NEW k \in 1 .. Len(rows), k - 1 \in S PROVE k \in S
  <2> SUFFICES ASSUME k >= n PROVE IsGone(After(EmptyGraph, rows, k), x.ref)
    BY <1>1
  <2>1. PICK g : g = After(EmptyGraph, rows, k - 1)
    OBVIOUS
  <2>2. PICK h : h = After(EmptyGraph, rows, k)
    OBVIOUS
  <2>3. PICK e \in Events : e = rows[k]
    BY DEF Told
  <2>4. Steps(g, e, h) /\ Made(g)
    BY <2>1, <2>2, <2>3, ToldEach DEF ToldAt
  <2>5. SameAs(ToSet(h.edges)) = {y \in SameAs(ToSet(g.edges)) : ~ Takes(e, y)} \cup Brings(g, e)
    BY <2>4, SameAsAfter
  <2>6. ASSUME NEW y \in Brings(g, e) PROVE y.ref # x.ref
    <3>1. e.op = "merge_entity" /\ y.ref = e.ref
      BY <2>6 DEF Brings, Edge
    <3> SUFFICES ASSUME y.ref = x.ref PROVE FALSE
      OBVIOUS
    <3>2. i = k
      BY <1>2, <2>3, <3>1, MergesByRef
    <3> QED
      BY <1>1, <1>2, <3>2
  <2>7. ASSUME NEW y \in SameAs(ToSet(g.edges)), ~ Takes(e, y) PROVE y.ref # x.ref
    <3>1. CASE k = n
      <4> SUFFICES ASSUME y.ref = x.ref PROVE FALSE
        OBVIOUS
      <4>1. Ends(y) = Ends(x)
        <5>1. y \in SameAs(ToSet(After(EmptyGraph, rows, n - 1).edges))
          BY <2>1, <2>7, <3>1
        <5> QED
          BY <1>1, <5>1, OneRefOnePair
      <4>2. Takes(e, y)
        BY <2>3, <3>1, <4>1 DEF Takes, Ends
      <4> QED
        BY <2>7, <4>2
    <3>2. CASE k > n
      <4>1. IsGone(g, x.ref)
        BY <1>1, <1>4, <2>1, <3>2
      <4> QED
        BY <4>1 DEF IsGone
    <3> QED
      BY <1>1, <3>1, <3>2
  <2> QED
    BY <2>2, <2>5, <2>6, <2>7 DEF IsGone
<1> HIDE DEF S
<1>5. \A k \in 0 .. Len(rows) : k \in S
  BY <1>1, <1>3, <1>4, HandedOn
<1>6. m \in S /\ ~ m < n
  BY <1>1, <1>5
<1> QED
  BY <1>6 DEF S

(* What an unmerge takes back is there.                                    *)
LEMMA UnmergeFinds ==
    ASSUME NEW rows, Told(rows), NEW k \in 1 .. Len(rows), rows[k].op = "unmerge",
           NEW g, g = After(EmptyGraph, rows, k - 1)
    PROVE  \E x \in SameAs(ToSet(g.edges)) :
              Takes(rows[k], x) /\ x.ref = rows[k].ref /\ Ends(x) = PairOf(rows[k])
<1>1. Sighted(g, rows[k])
  BY DEF Told, Meets
<1> QED
  BY <1>1 DEF Sighted, SameAs, Takes

(* After an unmerge there is none with its reference.                      *)
LEMMA UnmergedIsGone ==
    ASSUME NEW rows, Told(rows), NEW k \in 1 .. Len(rows), rows[k].op = "unmerge",
           NEW n \in k .. Len(rows)
    PROVE  IsGone(After(EmptyGraph, rows, n), rows[k].ref)
<1>1. PICK x \in SameAs(ToSet(After(EmptyGraph, rows, k - 1).edges)) :
         Takes(rows[k], x) /\ x.ref = rows[k].ref
  BY UnmergeFinds
<1>2. IsGone(After(EmptyGraph, rows, n), x.ref)
  BY <1>1, TakenIsGone
<1> QED
  BY <1>1, <1>2

(* A deletion takes out no SAME_AS that is unmerged, before or after.      *)
LEMMA DeletionSpares ==
    ASSUME NEW rows, Told(rows), NEW n \in 1 .. Len(rows), rows[n].op = "delete",
           NEW x \in SameAs(ToSet(After(EmptyGraph, rows, n - 1).edges)),
           NEW k \in 1 .. Len(rows), rows[k].op = "unmerge", rows[k].ref = x.ref
    PROVE  ~ Takes(rows[n], x)
<1> SUFFICES ASSUME Takes(rows[n], x) PROVE FALSE
  OBVIOUS
<1>1. Len(rows) \in Nat
  BY DEF Told
<1>2. CASE k < n
  <2>1. n - 1 \in k .. Len(rows)
    BY <1>1, <1>2
  <2>2. IsGone(After(EmptyGraph, rows, n - 1), rows[k].ref)
    BY <2>1, UnmergedIsGone
  <2> QED
    BY <2>2 DEF IsGone
<1>3. CASE k = n
  BY <1>3
<1>4. CASE k > n
  <2>1. k - 1 \in n .. Len(rows)
    BY <1>1, <1>4
  <2>2. IsGone(After(EmptyGraph, rows, k - 1), x.ref)
    BY <2>1, TakenIsGone
  <2>3. PICK y \in SameAs(ToSet(After(EmptyGraph, rows, k - 1).edges)) : y.ref = rows[k].ref
    BY UnmergeFinds
  <2> QED
    BY <2>2, <2>3 DEF IsGone
<1> QED
  BY <1>1, <1>2, <1>3, <1>4

-------------------------------------------------------------------------------
(* Two lists that agree so far have picked the same.                       *)
LEMMA PickingIsUnique ==
    ASSUME NEW s, NEW t, NEW S, NEW n \in Nat, NEW m \in Nat, NEW f, NEW h,
           Picking(s, S, n, f), Picking(t, S, m, h),
           NEW k \in Nat, k <= n, k <= m, \A i \in 1 .. k : s[i] = t[i]
    PROVE  f[k] = h[k]
<1> DEFINE Q == {j \in 0 .. k : f[j] = h[j]}
<1>1. 0 \in Q
  BY DEF Picking
<1>2. ASSUME NEW j \in 1 .. k, j - 1 \in Q PROVE j \in Q
  <2>1. j \in 0 .. n /\ j \in 0 .. m /\ j # 0 /\ s[j] = t[j]
    OBVIOUS
  <2>2. f[j] = IF s[j] \in S THEN Append(f[j - 1], s[j]) ELSE f[j - 1]
    BY <2>1 DEF Picking
  <2>3. h[j] = IF t[j] \in S THEN Append(h[j - 1], t[j]) ELSE h[j - 1]
    BY <2>1 DEF Picking
  <2> QED
    BY <1>2, <2>1, <2>2, <2>3
<1> HIDE DEF Q
<1>3. \A j \in 0 .. k : j \in Q
  BY <1>1, <1>2, HandedOn
<1> QED
  BY <1>3 DEF Q

(* Picking is what Picked does.                                            *)
LEMMA PickedIsPicking ==
    ASSUME NEW s, NEW S, Len(s) \in Nat
    PROVE  \E f : Picking(s, S, Len(s), f) /\ Picked(s, S) = f[Len(s)]
<1> DEFINE f == CHOOSE g : Picking(s, S, Len(s), g)
<1>1. Picking(s, S, Len(s), f)
  BY PickingIsDefined
<1>2. Picked(s, S) = f[Len(s)]
  BY DEF Picked, Picking
<1> QED
  BY <1>1, <1>2

(* One element more.                                                       *)
LEMMA PickedAppend ==
    ASSUME NEW T, NEW s \in Seq(T), NEW x \in T, NEW S
    PROVE  Picked(Append(s, x), S) = IF x \in S THEN Append(Picked(s, S), x) ELSE Picked(s, S)
<1>1. PICK t : t = Append(s, x)
  OBVIOUS
<1>2. /\ Len(s) \in Nat /\ Len(t) = Len(s) + 1 /\ t[Len(s) + 1] = x
      /\ \A i \in 1 .. Len(s) : s[i] = t[i]
  BY <1>1
<1>3. PICK f : Picking(s, S, Len(s), f) /\ Picked(s, S) = f[Len(s)]
  BY <1>2, PickedIsPicking
<1>4. PICK h : Picking(t, S, Len(t), h) /\ Picked(t, S) = h[Len(t)]
  BY <1>2, PickedIsPicking
<1>5. f[Len(s)] = h[Len(s)]
  <2>1. PICK k \in Nat : k = Len(s)
    BY <1>2
  <2>2. PICK m \in Nat : m = Len(t)
    BY <1>2
  <2>3. Picking(s, S, k, f) /\ Picking(t, S, m, h) /\ k <= m /\ \A i \in 1 .. k : s[i] = t[i]
    BY <1>2, <1>3, <1>4, <2>1, <2>2
  <2>4. f[k] = h[k]
    BY <2>3, PickingIsUnique
  <2> QED
    BY <2>1, <2>4
<1>6. PICK n \in Nat : n = Len(s) + 1
  BY <1>2
<1>7. h[n] = IF t[n] \in S THEN Append(h[n - 1], t[n]) ELSE h[n - 1]
  <2>1. n \in 0 .. Len(t) /\ n # 0
    BY <1>2, <1>6
  <2> QED
    BY <1>4, <2>1 DEF Picking
<1>8. n - 1 = Len(s) /\ n = Len(t) /\ t[n] = x
  BY <1>2, <1>6
<1> QED
  BY <1>1, <1>3, <1>4, <1>5, <1>7, <1>8

-------------------------------------------------------------------------------
(* Two replays side by side, one without some merges and their unmerges.   *)

(* A graph g of a list of events, and the graph h of those that are left   *)
(* without some merges and their unmerges, by a set R of references; P are *)
(* the pairs of the unmerges that are left out.                            *)
IsOmitted(e, R) == e.op \in {"merge_entity", "unmerge"} /\ e.ref \in R

(* Relations that are in both: no merge that is left out, and nothing that *)
(* its unmerge could have taken out besides.                               *)
Plain(edges, R, P) ==
    {x \in edges : IF x.type = "SAME_AS" THEN x.ref \notin R ELSE Ends(x) \notin P}
RelationsMirror(old, new, R, P) ==
    /\ Paired(Plain(old, R, P), Plain(new, R, P))
    /\ \A x \in old : x.type # "SAME_AS" => \E y \in new : ShowSame(x, y)
    /\ \A y \in SameAs(new) : y.ref \notin R

(* Each has one that shows the same.                                       *)
LEMMA PairedShows ==
    ASSUME NEW S, NEW T, Paired(S, T)
    PROVE  /\ \A x \in S : \E y \in T : ShowSame(x, y)
           /\ \A y \in T : \E x \in S : ShowSame(x, y)
<1>1. PICK f : Pairing(f, S, T)
  BY DEF Paired
<1>2. \A x \in S : f[x] \in T /\ ShowSame(x, f[x])
  BY <1>1 DEF Pairing
<1>3. \A y \in T : \E x \in S : f[x] = y
  BY <1>1 DEF Pairing
<1> QED
  BY <1>2, <1>3

(* What an event leaves depends on what a relation shows.                  *)
Stays(e, x) ==
    /\ ~ (/\ e.op = "unmerge" /\ x.from = e.subject /\ x.to = e.object
          /\ x.type = "SAME_AS" => x.ref = e.ref)
    /\ ~ (e.op = "delete" /\ e.subject \in {x.from, x.to})

(* A relation that an event leaves.                                        *)
LEMMA LeftStays ==
    ASSUME NEW edges, NEW e
    PROVE  Left(edges, e) = {x \in edges : Stays(e, x)}
<1>1. CASE e.op = "unmerge"
  BY <1>1 DEF Left, Stays
<1>2. CASE e.op = "delete"
  BY <1>2 DEF Left, Stays
<1>3. CASE e.op \notin {"unmerge", "delete"}
  BY <1>3 DEF Left, Stays
<1> QED
  BY <1>1, <1>2, <1>3

(* What an event adds to two graphs shows the same.                        *)
AddsAlike(old, new, S, T) ==
    \/ S = {} /\ T = {}
    \/ \E x, y : S = {x} /\ T = {y} /\ ShowSame(x, y) /\ x \notin old /\ y \notin new

(* What an event adds to two graphs shows the same.                        *)
LEMMA AddedAlike ==
    ASSUME NEW g, Made(g), NEW h, Made(h), NEW e \in Events
    PROVE  /\ AddsAlike(ToSet(g.edges), ToSet(h.edges), Added(g, e), Added(h, e))
           /\ \A x \in Added(g, e) : x.type = "SAME_AS" =>
                 e.op = "merge_entity" /\ x.ref = e.ref
           /\ \A x \in Added(h, e) : x.type = "SAME_AS" =>
                 e.op = "merge_entity" /\ x.ref = e.ref
<1>1. GraphIsTyped(g) /\ Rising(g) /\ GraphIsTyped(h) /\ Rising(h)
  BY DEF Made
<1>2. ASSUME NEW type, NEW from, NEW to, NEW ref,
             Added(g, e) = {Edge(g, type, from, to, ref)},
             Added(h, e) = {Edge(h, type, from, to, ref)}
      PROVE  AddsAlike(ToSet(g.edges), ToSet(h.edges), Added(g, e), Added(h, e))
  <2>1. PICK x : x = Edge(g, type, from, to, ref)
    OBVIOUS
  <2>2. PICK y : y = Edge(h, type, from, to, ref)
    OBVIOUS
  <2>3. ShowSame(x, y)
    BY <2>1, <2>2 DEF Edge, ShowSame
  <2>4. x \notin ToSet(g.edges) /\ y \notin ToSet(h.edges)
    BY <1>1, <2>1, <2>2, NewEdgeIsNew
  <2> QED
    BY <1>2, <2>1, <2>2, <2>3, <2>4 DEF AddsAlike
<1>3. CASE e.op = "create_edge"
  <2>1. /\ Added(g, e) = {Edge(g, e.ref, e.subject, e.object, NoId)}
        /\ Added(h, e) = {Edge(h, e.ref, e.subject, e.object, NoId)}
    BY <1>3 DEF Added
  <2>2. e.ref # "SAME_AS"
    BY <1>3, EventFields, LedgerAssumption
  <2>3. AddsAlike(ToSet(g.edges), ToSet(h.edges), Added(g, e), Added(h, e))
    BY <1>2, <2>1
  <2>4. \A x \in Added(g, e) \cup Added(h, e) :
           x.type = "SAME_AS" => e.op = "merge_entity" /\ x.ref = e.ref
    BY <2>1, <2>2 DEF Edge
  <2> QED
    BY <2>3, <2>4
<1>4. CASE e.op = "merge_entity"
  <2>1. /\ Added(g, e) = {Edge(g, "SAME_AS", e.subject, e.object, e.ref)}
        /\ Added(h, e) = {Edge(h, "SAME_AS", e.subject, e.object, e.ref)}
    BY <1>4 DEF Added
  <2>3. AddsAlike(ToSet(g.edges), ToSet(h.edges), Added(g, e), Added(h, e))
    BY <1>2, <2>1
  <2>4. \A x \in Added(g, e) \cup Added(h, e) :
           x.type = "SAME_AS" => e.op = "merge_entity" /\ x.ref = e.ref
    BY <1>4, <2>1 DEF Edge
  <2> QED
    BY <2>3, <2>4
<1>5. CASE e.op = "supersede"
  <2>1. /\ Added(g, e) = {Edge(g, "SUPERSEDES", e.subject, e.object, NoId)}
        /\ Added(h, e) = {Edge(h, "SUPERSEDES", e.subject, e.object, NoId)}
    BY <1>5 DEF Added
  <2>3. AddsAlike(ToSet(g.edges), ToSet(h.edges), Added(g, e), Added(h, e))
    BY <1>2, <2>1
  <2>4. \A x \in Added(g, e) \cup Added(h, e) :
           x.type = "SAME_AS" => e.op = "merge_entity" /\ x.ref = e.ref
    BY <1>5, <2>1 DEF Edge
  <2> QED
    BY <2>3, <2>4
<1>6. CASE e.op \notin {"create_edge", "merge_entity", "supersede"}
  <2>1. Added(g, e) = {} /\ Added(h, e) = {}
    BY <1>6 DEF Added
  <2> QED
    BY <2>1 DEF AddsAlike
<1> QED
  BY <1>3, <1>4, <1>5, <1>6

(* An event that is left out.                                              *)
LEMMA OmittedRelations ==
    ASSUME NEW g, Made(g), NEW e \in Events, NEW f, Steps(g, e, f),
           NEW R, NEW P, IsOmitted(e, R), e.op = "unmerge" => PairOf(e) \in P,
           NEW new, RelationsMirror(ToSet(g.edges), new, R, P)
    PROVE  RelationsMirror(ToSet(f.edges), new, R, P)
<1>1. PICK old : old = ToSet(g.edges)
  OBVIOUS
<1>2. PICK now : now = ToSet(f.edges)
  OBVIOUS
<1>3. now = {x \in old : Stays(e, x)} \cup Added(g, e)
  BY <1>1, <1>2, LeftStays DEF Steps
<1>4. \A x \in Added(g, e) : x.type = "SAME_AS" /\ x.ref \in R
  <2>1. CASE e.op = "merge_entity"
    BY <2>1 DEF Added, Edge, IsOmitted
  <2>2. CASE e.op = "unmerge"
    BY <2>2 DEF Added
  <2> QED
    BY <2>1, <2>2 DEF IsOmitted
<1>5. \A x \in old : ~ Stays(e, x) => x \notin Plain(old, R, P)
  <2> SUFFICES ASSUME NEW x \in old, ~ Stays(e, x) PROVE x \notin Plain(old, R, P)
    OBVIOUS
  <2>1. e.op = "unmerge" /\ e.ref \in R
    BY DEF Stays, IsOmitted
  <2>2. x.from = e.subject /\ x.to = e.object /\ (x.type = "SAME_AS" => x.ref = e.ref)
    BY <2>1 DEF Stays
  <2>3. Ends(x) \in P
    BY <2>1, <2>2 DEF Ends, PairOf
  <2> QED
    BY <2>1, <2>2, <2>3 DEF Plain
<1>6. Plain(now, R, P) = Plain(old, R, P)
  BY <1>3, <1>4, <1>5 DEF Plain
<1>7. \A x \in now : x.type # "SAME_AS" => x \in old
  BY <1>3, <1>4
<1> QED
  BY <1>1, <1>2, <1>6, <1>7 DEF RelationsMirror

(* An event that is kept.                                                  *)
LEMMA KeptRelations ==
    ASSUME NEW g, Made(g), NEW h, Made(h), NEW e \in Events,
           NEW f, Steps(g, e, f), NEW k, Steps(h, e, k),
           NEW R, NEW P, ~ IsOmitted(e, R),
           RelationsMirror(ToSet(g.edges), ToSet(h.edges), R, P)
    PROVE  RelationsMirror(ToSet(f.edges), ToSet(k.edges), R, P)
<1>1. PICK old : old = ToSet(g.edges)
  OBVIOUS
<1>2. PICK new : new = ToSet(h.edges)
  OBVIOUS
<1>3. PICK A : A = Added(g, e)
  OBVIOUS
<1>4. PICK B : B = Added(h, e)
  OBVIOUS
<1>5. /\ ToSet(f.edges) = {x \in old : Stays(e, x)} \cup A
      /\ ToSet(k.edges) = {x \in new : Stays(e, x)} \cup B
  BY <1>1, <1>2, <1>3, <1>4, LeftStays DEF Steps
<1>6. /\ AddsAlike(old, new, A, B)
      /\ \A x \in B : x.type = "SAME_AS" => e.op = "merge_entity" /\ x.ref = e.ref
  BY <1>1, <1>2, <1>3, <1>4, AddedAlike
<1>7. PICK C : C = {x \in Plain(old, R, P) : Stays(e, x)}
  OBVIOUS
<1>8. PICK D : D = {x \in Plain(new, R, P) : Stays(e, x)}
  OBVIOUS
<1>9. \A x, y : ShowSame(x, y) => (Stays(e, x) <=> Stays(e, y))
  BY DEF ShowSame, Stays
<1>10. Paired(Plain(old, R, P), Plain(new, R, P))
  BY <1>1, <1>2 DEF RelationsMirror
<1>11. Paired(C, D)
  <2>1. PICK S : S = Plain(old, R, P)
    OBVIOUS
  <2>2. PICK T : T = Plain(new, R, P)
    OBVIOUS
  <2>3. C \subseteq S /\ D \subseteq T
    BY <1>7, <1>8, <2>1, <2>2
  <2>4. \A x \in S, y \in T : ShowSame(x, y) => (x \in C <=> y \in D)
    BY <1>7, <1>8, <1>9, <2>1, <2>2
  <2>5. Paired(S, T)
    BY <1>10, <2>1, <2>2
  <2> QED
    BY <2>3, <2>4, <2>5, PairedLess
<1>12. /\ Plain(ToSet(f.edges), R, P) = C \cup Plain(A, R, P)
       /\ Plain(ToSet(k.edges), R, P) = D \cup Plain(B, R, P)
  BY <1>5, <1>7, <1>8 DEF Plain
<1>13. Paired(C \cup Plain(A, R, P), D \cup Plain(B, R, P))
  <2>1. CASE A = {} /\ B = {}
    <3>1. Plain(A, R, P) = {} /\ Plain(B, R, P) = {}
      BY <2>1 DEF Plain
    <3>2. C \cup Plain(A, R, P) = C /\ D \cup Plain(B, R, P) = D
      BY <3>1
    <3> QED
      BY <1>11, <3>2
  <2>2. CASE ~ (A = {} /\ B = {})
    <3>1. PICK x, y : A = {x} /\ B = {y} /\ ShowSame(x, y) /\ x \notin old /\ y \notin new
      BY <1>6, <2>2 DEF AddsAlike
    <3>2. x \in Plain(A, R, P) <=> y \in Plain(B, R, P)
      BY <3>1 DEF Plain, ShowSame, Ends
    <3>3. CASE x \in Plain(A, R, P)
      <4>1. Plain(A, R, P) = {x} /\ Plain(B, R, P) = {y}
        BY <3>1, <3>2, <3>3 DEF Plain
      <4>2. x \notin C /\ y \notin D
        BY <1>7, <1>8, <3>1 DEF Plain
      <4>3. Paired(C \cup {x}, D \cup {y})
        BY <1>11, <3>1, <4>2, PairedMore
      <4> QED
        BY <4>1, <4>3
    <3>4. CASE x \notin Plain(A, R, P)
      <4>1. Plain(A, R, P) = {} /\ Plain(B, R, P) = {}
        BY <3>1, <3>2, <3>4 DEF Plain
      <4>2. C \cup Plain(A, R, P) = C /\ D \cup Plain(B, R, P) = D
        BY <4>1
      <4> QED
        BY <1>11, <4>2
    <3> QED
      BY <3>3, <3>4
  <2> QED
    BY <2>1, <2>2
<1>14. ASSUME NEW x \in ToSet(f.edges), x.type # "SAME_AS"
       PROVE  \E y \in ToSet(k.edges) : ShowSame(x, y)
  <2>1. CASE x \in old /\ Stays(e, x)
    <3>1. PICK y \in new : ShowSame(x, y)
      BY <1>1, <1>2, <1>14, <2>1 DEF RelationsMirror
    <3>2. Stays(e, y)
      BY <1>9, <2>1, <3>1
    <3> QED
      BY <1>5, <3>1, <3>2
  <2>2. CASE x \in A
    <3>1. PICK y : B = {y} /\ ShowSame(x, y)
      BY <1>6, <2>2 DEF AddsAlike
    <3> QED
      BY <1>5, <3>1
  <2> QED
    BY <1>5, <1>14, <2>1, <2>2
<1>15. \A y \in SameAs(ToSet(k.edges)) : y.ref \notin R
  <2>1. \A y \in new : y.type = "SAME_AS" => y.ref \notin R
    BY <1>2 DEF RelationsMirror, SameAs
  <2>2. \A y \in B : y.type = "SAME_AS" => y.ref \notin R
    BY <1>6 DEF IsOmitted
  <2> QED
    BY <1>5, <2>1, <2>2 DEF SameAs
<1>16. Paired(Plain(ToSet(f.edges), R, P), Plain(ToSet(k.edges), R, P))
  BY <1>12, <1>13
<1> QED
  BY <1>14, <1>15, <1>16 DEF RelationsMirror

(* The nodes of both, and what corrections and deletions left on them.     *)
NodesMirror(old, new) ==
    /\ DOMAIN old = DOMAIN new
    /\ \A id \in DOMAIN old :
          (old[id].closed <=> new[id].closed) /\ (old[id].deleted <=> new[id].deleted)

(* A merge or an unmerge that is left out.                                 *)
LEMMA OmittedNodes ==
    ASSUME NEW g, Made(g), NEW e \in Events, NEW f, Steps(g, e, f), NEW R, IsOmitted(e, R),
           NEW new, NodesMirror(g.nodes, new)
    PROVE  NodesMirror(f.nodes, new)
<1>1. e.op \in {"merge_entity", "unmerge"}
  BY DEF IsOmitted
<1>2. DOMAIN f.nodes = DOMAIN g.nodes
  BY <1>1 DEF Steps, NodesDone
<1>3. ASSUME NEW id \in DOMAIN g.nodes
      PROVE  /\ f.nodes[id].closed <=> g.nodes[id].closed
             /\ f.nodes[id].deleted <=> g.nodes[id].deleted
  BY <1>1, NodesAfter
<1> QED
  BY <1>2, <1>3 DEF NodesMirror

(* Any other event, on both graphs.                                        *)
LEMMA KeptNodes ==
    ASSUME NEW g, Made(g), NEW h, Made(h), NEW e \in Events,
           NEW f, Steps(g, e, f), NEW k, Steps(h, e, k), NodesMirror(g.nodes, h.nodes)
    PROVE  NodesMirror(f.nodes, k.nodes)
<1>1. DOMAIN f.nodes = DOMAIN k.nodes
  BY DEF NodesMirror, Steps, NodesDone
<1>2. ASSUME NEW id \in DOMAIN f.nodes, id \notin DOMAIN g.nodes
      PROVE  /\ f.nodes[id].closed <=> k.nodes[id].closed
             /\ f.nodes[id].deleted <=> k.nodes[id].deleted
  <2>1. f.nodes[id] = NewNode
    BY <1>2, NodesAfter
  <2>2. id \in DOMAIN k.nodes \ DOMAIN h.nodes
    BY <1>1, <1>2 DEF NodesMirror
  <2>3. k.nodes[id] = NewNode
    BY <2>2, NodesAfter
  <2> QED
    BY <2>1, <2>3
<1>3. ASSUME NEW id \in DOMAIN g.nodes
      PROVE  /\ f.nodes[id].closed <=> k.nodes[id].closed
             /\ f.nodes[id].deleted <=> k.nodes[id].deleted
  <2>1. /\ f.nodes[id].closed <=> g.nodes[id].closed \/ (e.op = "supersede" /\ id = e.object)
        /\ f.nodes[id].deleted <=> g.nodes[id].deleted \/ (e.op = "delete" /\ id = e.subject)
    BY NodesAfter
  <2>2. id \in DOMAIN h.nodes
    BY DEF NodesMirror
  <2>3. /\ k.nodes[id].closed <=> h.nodes[id].closed \/ (e.op = "supersede" /\ id = e.object)
        /\ k.nodes[id].deleted <=> h.nodes[id].deleted \/ (e.op = "delete" /\ id = e.subject)
    BY <2>2, NodesAfter
  <2>4. (g.nodes[id].closed <=> h.nodes[id].closed) /\ (g.nodes[id].deleted <=> h.nodes[id].deleted)
    BY DEF NodesMirror
  <2> QED
    BY <2>1, <2>3, <2>4
<1> QED
  BY <1>1, <1>2, <1>3 DEF NodesMirror

(* The marks of a node: only a merge that is left out, and not taken back  *)
(* yet, may make the difference.                                           *)
Pending(edges, id, R) == {x \in SameAsFrom(edges, id) : x.ref \in R}
MarksMirror(g, h, id, R) ==
    /\ h.nodes[id].merged => g.nodes[id].merged
    /\ g.nodes[id].merged /\ ~ h.nodes[id].merged => Pending(ToSet(g.edges), id, R) # {}
(* A node is merged into one other at most.                                *)
Single(events, id) == \A e, f \in events : Marks(e, id) /\ Marks(f, id) => e.object = f.object

(* A merge that is not left out is in both.                                *)
LEMMA FromBoth ==
    ASSUME NEW old, NEW new, NEW R, NEW P, RelationsMirror(old, new, R, P), NEW id
    PROVE  /\ \A x \in SameAsFrom(old, id) : x.ref \notin R => SameAsFrom(new, id) # {}
           /\ SameAsFrom(new, id) # {} => SameAsFrom(old, id) # {}
<1>1. Paired(Plain(old, R, P), Plain(new, R, P))
  BY DEF RelationsMirror
<1>2. PICK S : S = Plain(old, R, P)
  OBVIOUS
<1>3. PICK T : T = Plain(new, R, P)
  OBVIOUS
<1>4. /\ \A x \in S : \E y \in T : ShowSame(x, y)
      /\ \A y \in T : \E x \in S : ShowSame(x, y)
  BY <1>1, <1>2, <1>3, PairedShows
<1>5. ASSUME NEW x \in SameAsFrom(old, id), x.ref \notin R PROVE SameAsFrom(new, id) # {}
  <2>1. x \in S /\ x.type = "SAME_AS" /\ x.from = id
    BY <1>2, <1>5 DEF SameAsFrom, Plain
  <2>2. PICK y \in T : ShowSame(x, y)
    BY <1>4, <2>1
  <2>3. y \in SameAsFrom(new, id)
    BY <1>3, <2>1, <2>2 DEF SameAsFrom, Plain, ShowSame
  <2> QED
    BY <2>3
<1>6. ASSUME NEW y \in SameAsFrom(new, id) PROVE SameAsFrom(old, id) # {}
  <2>1. y \in T /\ y.type = "SAME_AS" /\ y.from = id
    BY <1>3 DEF SameAsFrom, Plain, RelationsMirror, SameAs
  <2>2. PICK x \in S : ShowSame(x, y)
    BY <1>4, <2>1
  <2>3. x \in SameAsFrom(old, id)
    BY <1>2, <2>1, <2>2 DEF SameAsFrom, Plain, ShowSame
  <2> QED
    BY <2>3
<1> QED
  BY <1>5, <1>6

(* A node that is marked in the first graph alone, with SAME_AS from it    *)
(* left in the first.                                                      *)
LEMMA StillPending ==
    ASSUME NEW old, NEW h, NEW R, NEW P, RelationsMirror(old, ToSet(h.edges), R, P),
           NEW events, ShowsMerges(h, events), NEW id \in DOMAIN h.nodes, ~ h.nodes[id].merged,
           SameAsFrom(old, id) # {}
    PROVE  Pending(old, id, R) # {}
<1>1. PICK x \in SameAsFrom(old, id) : TRUE
  OBVIOUS
<1>2. SameAsFrom(ToSet(h.edges), id) = {}
  BY DEF ShowsMerges, NodeShows
<1>3. x.ref \in R
  BY <1>2, FromBoth
<1> QED
  BY <1>3 DEF Pending

(* A merge that is pending stays so.                                       *)
SparesPending(edges, e, R) ==
    \A x \in SameAs(edges) : e.op = "delete" /\ x.ref \in R => ~ Takes(e, x)

(* A node with a merge that is to be undone keeps one until an unmerge.    *)
LEMMA StaysPending ==
    ASSUME NEW g, Made(g), NEW e \in Events, NEW f, Steps(g, e, f), NEW id, NEW R,
           ~ (e.op = "unmerge" /\ id = e.subject),
           SparesPending(ToSet(g.edges), e, R),
           Pending(ToSet(g.edges), id, R) # {}
    PROVE  Pending(ToSet(f.edges), id, R) # {}
<1>1. PICK x \in SameAs(ToSet(g.edges)) : x.from = id /\ x.ref \in R
  BY DEF Pending, SameAsFrom, SameAs
<1>2. ~ Takes(e, x)
  BY <1>1 DEF Takes, PairOf, Ends, SparesPending
<1>3. x \in SameAs(ToSet(f.edges))
  BY <1>2, SameAsAfter
<1>4. x \in Pending(ToSet(f.edges), id, R)
  BY <1>1, <1>3 DEF Pending, SameAsFrom, SameAs
<1> QED
  BY <1>4

(* An event that is kept.                                                  *)
LEMMA KeptMarks ==
    ASSUME NEW g, Made(g), NEW h, Made(h), NEW e \in Events,
           NEW f, Steps(g, e, f), NEW k, Steps(h, e, k),
           NEW R, NEW P, RelationsMirror(ToSet(f.edges), ToSet(k.edges), R, P),
           NEW events, ShowsMerges(k, events),
           SparesPending(ToSet(g.edges), e, R),
           NEW id \in DOMAIN g.nodes, id \in DOMAIN h.nodes, MarksMirror(g, h, id, R)
    PROVE  MarksMirror(f, k, id, R)
<1>1. PICK S : S = ToSet(f.edges)
  OBVIOUS
<1>2. PICK T : T = ToSet(k.edges)
  OBVIOUS
<1>3. /\ Marks(e, id) => f.nodes[id].merged
      /\ Unmarks(e, id, S) => ~ f.nodes[id].merged
      /\ ~ Marks(e, id) /\ ~ Unmarks(e, id, S) => f.nodes[id].merged = g.nodes[id].merged
  BY <1>1, NodesAfter
<1>4. /\ Marks(e, id) => k.nodes[id].merged
      /\ Unmarks(e, id, T) => ~ k.nodes[id].merged
      /\ ~ Marks(e, id) /\ ~ Unmarks(e, id, T) => k.nodes[id].merged = h.nodes[id].merged
  BY <1>2, NodesAfter
<1>5. RelationsMirror(S, T, R, P)
  BY <1>1, <1>2
<1>6. id \in DOMAIN k.nodes
  BY NodesAfter
<1>7. CASE Marks(e, id)
  BY <1>3, <1>4, <1>7 DEF MarksMirror
<1>8. CASE e.op = "unmerge" /\ id = e.subject
  <2>1. ~ Marks(e, id)
    BY <1>8 DEF Marks
  <2>2. CASE SameAsFrom(S, id) = {}
    <3>1. SameAsFrom(T, id) = {}
      BY <1>5, <2>2, FromBoth
    <3>2. Unmarks(e, id, S) /\ Unmarks(e, id, T)
      BY <1>8, <2>2, <3>1 DEF Unmarks
    <3> QED
      BY <1>3, <1>4, <3>2 DEF MarksMirror
  <2>3. CASE SameAsFrom(S, id) # {}
    <3>1. f.nodes[id].merged = g.nodes[id].merged
      BY <1>3, <2>1, <2>3 DEF Unmarks
    <3>2. k.nodes[id].merged => f.nodes[id].merged
      BY <1>4, <2>1, <3>1 DEF MarksMirror
    <3>3. ~ k.nodes[id].merged => Pending(S, id, R) # {}
      BY <1>2, <1>5, <1>6, <2>3, StillPending
    <3> QED
      BY <1>1, <3>2, <3>3 DEF MarksMirror
  <2> QED
    BY <2>2, <2>3
<1>9. CASE ~ Marks(e, id) /\ ~ (e.op = "unmerge" /\ id = e.subject)
  <2>1. f.nodes[id].merged = g.nodes[id].merged /\ k.nodes[id].merged = h.nodes[id].merged
    BY <1>3, <1>4, <1>9 DEF Unmarks
  <2>2. Pending(ToSet(g.edges), id, R) # {} => Pending(S, id, R) # {}
    BY <1>1, <1>9, StaysPending
  <2> QED
    BY <1>1, <2>1, <2>2 DEF MarksMirror
<1> QED
  BY <1>7, <1>8, <1>9

(* An event that is left out: when an unmerge takes the mark of a node     *)
(* that was merged into one other only, it has none in the second graph.   *)
LEMMA OmittedMarks ==
    ASSUME NEW g, Made(g), NEW h, NEW e \in Events, NEW f, Steps(g, e, f), Sighted(g, e),
           NEW R, NEW P, IsOmitted(e, R), RelationsMirror(ToSet(f.edges), ToSet(h.edges), R, P),
           NEW all, NEW some, some \subseteq all, ShowsMerges(g, some),
           NEW few, few \subseteq all, ShowsMerges(h, few),
           NodesMirror(g.nodes, h.nodes), NoneTouchesDeleted(g),
           NEW id \in DOMAIN g.nodes, Single(all, id), MarksMirror(g, h, id, R)
    PROVE  MarksMirror(f, h, id, R)
<1>1. PICK S : S = ToSet(f.edges)
  OBVIOUS
<1>2. /\ Marks(e, id) => f.nodes[id].merged
      /\ Unmarks(e, id, S) => ~ f.nodes[id].merged
      /\ ~ Marks(e, id) /\ ~ Unmarks(e, id, S) => f.nodes[id].merged = g.nodes[id].merged
  BY <1>1, NodesAfter
<1>3. id \in DOMAIN h.nodes
  BY DEF NodesMirror
<1>4. RelationsMirror(S, ToSet(h.edges), R, P)
  BY <1>1
<1>5. e.op \in {"merge_entity", "unmerge"} /\ e.ref \in R
  BY DEF IsOmitted
<1>6. CASE Marks(e, id)
  <2>1. PICK x : x = Edge(g, "SAME_AS", e.subject, e.object, e.ref)
    OBVIOUS
  <2>2. x \in Brings(g, e) /\ x.type = "SAME_AS" /\ x.from = id /\ x.ref = e.ref
    BY <1>6, <2>1 DEF Brings, Edge, Marks
  <2>3. x \in SameAs(S)
    BY <1>1, <2>2, SameAsAfter
  <2>4. x \in Pending(S, id, R)
    BY <1>5, <2>2, <2>3 DEF Pending, SameAsFrom, SameAs
  <2> QED
    BY <1>1, <1>2, <1>6, <2>4 DEF MarksMirror
<1>7. CASE e.op = "unmerge" /\ id = e.subject
  <2>1. ~ Marks(e, id)
    BY <1>7 DEF Marks
  <2>2. CASE SameAsFrom(S, id) = {}
    <3>1. ~ f.nodes[id].merged
      BY <1>2, <1>7, <2>2 DEF Unmarks
    <3>2. ASSUME h.nodes[id].merged PROVE FALSE
      <4>1. SameAsFrom(ToSet(h.edges), id) = {}
        BY <1>4, <2>2, FromBoth
      <4>2. HasLost(h.nodes, id, few)
        BY <1>3, <3>2, <4>1 DEF ShowsMerges, NodeShows
      <4>3. PICK x \in SameAs(ToSet(g.edges)) : Ends(x) = PairOf(e)
        BY <1>7 DEF Sighted, SameAs
      <4>4. x.from = id
        BY <1>7, <4>3 DEF Ends, PairOf
      <4>5. x.from \in DOMAIN g.nodes /\ x.to \in DOMAIN g.nodes
        BY <4>3 DEF SameAs, Made, Rooted
      <4>6. ~ g.nodes[x.from].deleted /\ ~ g.nodes[x.to].deleted
        BY <4>3 DEF NoneTouchesDeleted
      <4>7. ~ h.nodes[x.from].deleted /\ ~ h.nodes[x.to].deleted
        BY <4>5, <4>6 DEF NodesMirror
      <4>8. PICK a \in few : Marks(a, id) /\ h.nodes[a.object].deleted
        BY <4>2, <4>4, <4>7 DEF HasLost
      <4>9. PICK b \in some : b.op = "merge_entity" /\ PairOf(b) = Ends(x)
        BY <4>3 DEF ShowsMerges, ComesOf
      <4>10. Marks(b, id) /\ b.object = x.to
        BY <4>4, <4>9 DEF Marks, PairOf, Ends
      <4>11. a.object = x.to
        BY <4>8, <4>9, <4>10 DEF Single
      <4> QED
        BY <4>7, <4>8, <4>11
    <3> QED
      BY <3>1, <3>2 DEF MarksMirror
  <2>3. CASE SameAsFrom(S, id) # {}
    <3>1. f.nodes[id].merged = g.nodes[id].merged
      BY <1>2, <2>1, <2>3 DEF Unmarks
    <3>2. ~ h.nodes[id].merged => Pending(S, id, R) # {}
      BY <1>3, <1>4, <2>3, StillPending
    <3> QED
      BY <1>1, <3>1, <3>2 DEF MarksMirror
  <2> QED
    BY <2>2, <2>3
<1>8. CASE ~ Marks(e, id) /\ ~ (e.op = "unmerge" /\ id = e.subject)
  <2>1. f.nodes[id].merged = g.nodes[id].merged
    BY <1>2, <1>8 DEF Unmarks
  <2>2. Pending(ToSet(g.edges), id, R) # {} => Pending(S, id, R) # {}
    <3>1. SparesPending(ToSet(g.edges), e, R)
      BY <1>5 DEF SparesPending
    <3> QED
      BY <1>1, <1>5, <1>8, <3>1, StaysPending
  <2> QED
    BY <1>1, <2>1, <2>2 DEF MarksMirror
<1> QED
  BY <1>6, <1>7, <1>8

(* More events on the list.                                                *)
LEMMA ShowsMore ==
    ASSUME NEW g, NEW events, ShowsMerges(g, events), NEW more, events \subseteq more
    PROVE  ShowsMerges(g, more)
<1>1. ASSUME NEW x \in SameAs(ToSet(g.edges)) PROVE ComesOf(x, more)
  BY DEF ShowsMerges, ComesOf
<1>2. ASSUME NEW id \in DOMAIN g.nodes
      PROVE  NodeShows(g.nodes, id, SameAsFrom(ToSet(g.edges), id), more)
  <2>1. PICK from : from = SameAsFrom(ToSet(g.edges), id)
    OBVIOUS
  <2>2. NodeShows(g.nodes, id, from, events)
    BY <2>1 DEF ShowsMerges
  <2>3. HasLost(g.nodes, id, events) => HasLost(g.nodes, id, more)
    BY DEF HasLost
  <2> QED
    BY <2>1, <2>2, <2>3 DEF NodeShows
<1> QED
  BY <1>1, <1>2 DEF ShowsMerges

(* The events that are kept, one by one.                                   *)
KeptAfter(rows, K, n) == Apply(EmptyGraph, Picked(SubSeq(rows, 1, n), K))

(* What is kept of a list is applied event by event, too.                  *)
LEMMA KeptOneByOne ==
    ASSUME NEW rows \in Seq(Events), NEW K
    PROVE  /\ KeptAfter(rows, K, 0) = EmptyGraph
           /\ \A n \in 1 .. Len(rows) :
                 KeptAfter(rows, K, n) = IF rows[n] \in K
                                         THEN ApplyEvent(KeptAfter(rows, K, n - 1), rows[n])
                                         ELSE KeptAfter(rows, K, n - 1)
           /\ KeptAfter(rows, K, Len(rows)) = Replay(Picked(rows, K))
<1>1. Len(rows) \in Nat
  OBVIOUS
<1>2. KeptAfter(rows, K, 0) = EmptyGraph
  <2>1. SubSeq(rows, 1, 0) = <<>>
    OBVIOUS
  <2>2. Picked(<<>>, K) \in Seq({}) 
    <3>1. <<>> \in Seq({})
      OBVIOUS
    <3> QED
      BY <3>1, ElementsOfPicked
  <2>3. Picked(<<>>, K) = <<>>
    BY <2>2
  <2>4. After(EmptyGraph, <<>>, 0) = EmptyGraph
    <3>1. <<>> \in Seq(Events)
      OBVIOUS
    <3> QED
      BY <3>1, AppliedOneByOne
  <2>5. SubSeq(<<>>, 1, 0) = <<>>
    OBVIOUS
  <2> QED
    BY <2>1, <2>3, <2>4, <2>5 DEF KeptAfter, After
<1>3. ASSUME NEW n \in 1 .. Len(rows)
      PROVE  KeptAfter(rows, K, n) = IF rows[n] \in K
                                     THEN ApplyEvent(KeptAfter(rows, K, n - 1), rows[n])
                                     ELSE KeptAfter(rows, K, n - 1)
  <2>1. PICK part : part = SubSeq(rows, 1, n - 1)
    OBVIOUS
  <2>2. PICK e \in Events : e = rows[n]
    OBVIOUS
  <2>3. part \in Seq(Events) /\ SubSeq(rows, 1, n) = Append(part, e)
    BY <1>1, <2>1, <2>2
  <2>4. PICK picked : picked = Picked(part, K)
    OBVIOUS
  <2>5. picked \in Seq(Events)
    BY <2>3, <2>4, ElementsOfPicked
  <2>6. Picked(Append(part, e), K) = IF e \in K THEN Append(picked, e) ELSE picked
    BY <2>3, <2>4, PickedAppend
  <2>7. Apply(EmptyGraph, Append(picked, e)) = ApplyEvent(Apply(EmptyGraph, picked), e)
    BY <2>5, ApplyAppend
  <2>8. KeptAfter(rows, K, n - 1) = Apply(EmptyGraph, picked)
    BY <2>1, <2>4 DEF KeptAfter
  <2>9. KeptAfter(rows, K, n) = Apply(EmptyGraph, Picked(Append(part, e), K))
    BY <2>3 DEF KeptAfter
  <2> QED
    BY <2>2, <2>6, <2>7, <2>8, <2>9
<1>4. KeptAfter(rows, K, Len(rows)) = Replay(Picked(rows, K))
  <2>1. SubSeq(rows, 1, Len(rows)) = rows
    OBVIOUS
  <2> QED
    BY <2>1 DEF KeptAfter, Replay
<1> QED
  BY <1>2, <1>3, <1>4

(* What is left out is unmerged sooner or later.                           *)
AreUndone(rows, R) ==
    \A ref \in R : \E k \in 1 .. Len(rows) : rows[k].op = "unmerge" /\ rows[k].ref = ref
UndonePairs(rows, R) ==
    {PairOf(e) : e \in {f \in UpTo(rows, Len(rows)) : f.op = "unmerge" /\ f.ref \in R}}
Mirrors(rows, n, R, g, h) ==
    /\ Made(h) /\ h.applied \subseteq g.applied
    /\ ShowsMerges(h, UpTo(rows, n))
    /\ RelationsMirror(ToSet(g.edges), ToSet(h.edges), R, UndonePairs(rows, R))
    /\ NodesMirror(g.nodes, h.nodes)
    /\ \A id \in DOMAIN g.nodes :
          Single(UpTo(rows, Len(rows)), id) => MarksMirror(g, h, id, R)

(* At the beginning.                                                       *)
LEMMA MirrorsAtFirst ==
    ASSUME NEW rows, NEW R
    PROVE  Mirrors(rows, 0, R, EmptyGraph, EmptyGraph)
<1>1. Made(EmptyGraph) /\ ShowsMerges(EmptyGraph, UpTo(rows, 0))
  BY ToldAtFirst DEF ToldAt
<1>2. EmptyGraph.edges = <<>> /\ DOMAIN EmptyGraph.nodes = {}
  BY DEF EmptyGraph
<1>3. ToSet(EmptyGraph.edges) = {}
  BY <1>2 DEF ToSet
<1>4. RelationsMirror({}, {}, R, UndonePairs(rows, R))
  BY NothingIsPaired DEF RelationsMirror, Plain, SameAs
<1>5. NodesMirror(EmptyGraph.nodes, EmptyGraph.nodes)
  BY DEF NodesMirror
<1> QED
  BY <1>1, <1>2, <1>3, <1>4, <1>5 DEF Mirrors

(* An event that is left out.                                              *)
LEMMA OmittedMirrors ==
    ASSUME NEW rows, Told(rows), NEW R, NEW n \in 1 .. Len(rows), IsOmitted(rows[n], R),
           NEW g, g = After(EmptyGraph, rows, n - 1), NEW f, f = After(EmptyGraph, rows, n),
           NEW h, Mirrors(rows, n - 1, R, g, h)
    PROVE  Mirrors(rows, n, R, f, h)
<1>1. PICK e \in Events : e = rows[n]
  BY DEF Told
<1>2. Len(rows) \in Nat
  BY DEF Told
<1>3. /\ Steps(g, e, f) /\ Sighted(g, e) /\ f = ApplyEvent(g, e)
      /\ ToldAt(rows, n - 1, g) /\ ToldAt(rows, n, f)
  BY <1>1, ToldEach
<1>4. PICK P : P = UndonePairs(rows, R)
  OBVIOUS
<1>5. PICK all : all = UpTo(rows, Len(rows))
  OBVIOUS
<1>6. PICK some : some = UpTo(rows, n - 1)
  OBVIOUS
<1>7. some \subseteq all /\ e \in all /\ some \subseteq UpTo(rows, n)
  BY <1>1, <1>2, <1>5, <1>6 DEF UpTo
<1>8. e.op = "unmerge" => PairOf(e) \in P
  BY <1>1, <1>4, <1>5, <1>7 DEF UndonePairs, IsOmitted
<1>9. IsOmitted(e, R)
  BY <1>1
<1>10. RelationsMirror(ToSet(f.edges), ToSet(h.edges), R, P)
  <2>1. PICK new : new = ToSet(h.edges)
    OBVIOUS
  <2>2. RelationsMirror(ToSet(g.edges), new, R, P)
    BY <1>4, <2>1 DEF Mirrors
  <2>3. Made(g)
    BY <1>3 DEF ToldAt
  <2> QED
    BY <1>3, <1>8, <1>9, <2>1, <2>2, <2>3, OmittedRelations
<1>11. NodesMirror(f.nodes, h.nodes)
  <2>1. PICK new : new = h.nodes
    OBVIOUS
  <2>2. NodesMirror(g.nodes, new) /\ Made(g)
    BY <1>3, <2>1 DEF ToldAt, Mirrors
  <2> QED
    BY <1>3, <1>9, <2>1, <2>2, OmittedNodes
<1>12. ShowsMerges(h, UpTo(rows, n))
  <2>1. PICK more : more = UpTo(rows, n)
    OBVIOUS
  <2>2. ShowsMerges(h, some)
    BY <1>6 DEF Mirrors
  <2> QED
    BY <1>7, <2>1, <2>2, ShowsMore
<1>13. h.applied \subseteq f.applied
  <2>1. f.applied = {rows[i].key : i \in 1 .. n} /\ g.applied = {rows[i].key : i \in 1 .. n - 1}
    BY <1>3 DEF ToldAt
  <2>2. 1 .. n - 1 \subseteq 1 .. n
    OBVIOUS
  <2> QED
    BY <2>1, <2>2 DEF Mirrors
<1>14. ASSUME NEW id \in DOMAIN f.nodes, Single(all, id)
       PROVE  MarksMirror(f, h, id, R)
  <2>1. id \in DOMAIN g.nodes
    BY <1>3, <1>9 DEF Steps, NodesDone, IsOmitted
  <2>2. MarksMirror(g, h, id, R) /\ NodesMirror(g.nodes, h.nodes) /\ ShowsMerges(h, some)
    BY <1>5, <1>6, <1>14, <2>1 DEF Mirrors
  <2>3. Made(g) /\ ShowsMerges(g, some) /\ NoneTouchesDeleted(g)
    BY <1>3, <1>6 DEF ToldAt
  <2> QED
    BY <1>3, <1>7, <1>9, <1>10, <1>14, <2>1, <2>2, <2>3, OmittedMarks
<1>15. Made(h)
  BY DEF Mirrors
<1> QED
  BY <1>4, <1>5, <1>10, <1>11, <1>12, <1>13, <1>14, <1>15 DEF Mirrors

(* An event that is kept.                                                  *)
LEMMA KeptMirrors ==
    ASSUME NEW rows, Told(rows), NEW R, AreUndone(rows, R),
           NEW n \in 1 .. Len(rows), ~ IsOmitted(rows[n], R),
           NEW g, g = After(EmptyGraph, rows, n - 1), NEW f, f = After(EmptyGraph, rows, n),
           NEW h, Mirrors(rows, n - 1, R, g, h), NEW k, k = ApplyEvent(h, rows[n])
    PROVE  Mirrors(rows, n, R, f, k)
<1>1. PICK e \in Events : e = rows[n]
  BY DEF Told
<1>2. Len(rows) \in Nat
  BY DEF Told
<1>3. /\ Steps(g, e, f) /\ Sighted(g, e) /\ f = ApplyEvent(g, e) /\ e.key \notin g.applied
      /\ ToldAt(rows, n - 1, g) /\ ToldAt(rows, n, f)
  BY <1>1, ToldEach
<1>4. PICK P : P = UndonePairs(rows, R)
  OBVIOUS
<1>5. PICK all : all = UpTo(rows, Len(rows))
  OBVIOUS
<1>6. /\ Made(h) /\ h.applied \subseteq g.applied
      /\ RelationsMirror(ToSet(g.edges), ToSet(h.edges), R, P)
      /\ NodesMirror(g.nodes, h.nodes)
      /\ \A id \in DOMAIN g.nodes : Single(all, id) => MarksMirror(g, h, id, R)
  BY <1>4, <1>5 DEF Mirrors
<1>7. Made(g)
  BY <1>3 DEF ToldAt
<1>8. Ready(h.nodes, e)
  BY <1>3, <1>6 DEF Steps, Ready, NodesMirror
<1>9. Steps(h, e, k) /\ Made(k) /\ k.applied = h.applied \cup {e.key}
  <2>1. e.key \notin h.applied /\ k = ApplyEvent(h, e)
    BY <1>1, <1>3, <1>6
  <2> QED
    BY <1>6, <1>8, <2>1, EventSteps
<1>10. RelationsMirror(ToSet(f.edges), ToSet(k.edges), R, P)
  <2>1. ~ IsOmitted(e, R)
    BY <1>1
  <2> QED
    BY <1>3, <1>6, <1>7, <1>9, <2>1, KeptRelations
<1>11. NodesMirror(f.nodes, k.nodes)
  BY <1>3, <1>6, <1>7, <1>9, KeptNodes
<1>12. ShowsMerges(k, UpTo(rows, n))
  <2>1. PICK more : more = UpTo(rows, n)
    OBVIOUS
  <2>2. PICK some : some = UpTo(rows, n - 1)
    OBVIOUS
  <2>3. some \subseteq more /\ e \in more
    BY <1>1, <1>2, <2>1, <2>2 DEF UpTo
  <2>4. ShowsMerges(h, some)
    BY <2>2 DEF Mirrors
  <2> QED
    BY <1>6, <1>9, <2>1, <2>3, <2>4, MergesShow
<1>13. k.applied \subseteq f.applied
  <2>1. f.applied = {rows[i].key : i \in 1 .. n} /\ g.applied = {rows[i].key : i \in 1 .. n - 1}
    BY <1>3 DEF ToldAt
  <2>2. 1 .. n = (1 .. n - 1) \cup {n}
    OBVIOUS
  <2> QED
    BY <1>1, <1>6, <1>9, <2>1, <2>2
<1>14. ASSUME NEW id \in DOMAIN f.nodes, Single(all, id)
       PROVE  MarksMirror(f, k, id, R)
  <2>1. CASE id \in DOMAIN g.nodes
    <3>1. MarksMirror(g, h, id, R) /\ id \in DOMAIN h.nodes
      BY <1>6, <1>14, <2>1 DEF NodesMirror
    <3>2. ASSUME NEW x \in SameAs(ToSet(g.edges)), e.op = "delete", x.ref \in R
          PROVE  ~ Takes(e, x)
      <4>1. PICK j \in 1 .. Len(rows) : rows[j].op = "unmerge" /\ rows[j].ref = x.ref
        BY <3>2 DEF AreUndone
      <4>2. x \in SameAs(ToSet(After(EmptyGraph, rows, n - 1).edges))
        OBVIOUS
      <4>3. rows[n].op = "delete"
        BY <1>1, <3>2
      <4>4. ~ Takes(rows[n], x)
        BY <4>1, <4>2, <4>3, DeletionSpares
      <4> QED
        BY <1>1, <4>4
    <3>3. SparesPending(ToSet(g.edges), e, R)
      BY <3>2 DEF SparesPending
    <3>4. PICK more : more = UpTo(rows, n)
      OBVIOUS
    <3>5. ShowsMerges(k, more)
      BY <1>12, <3>4
    <3> QED
      BY <1>3, <1>6, <1>7, <1>9, <1>10, <2>1, <3>1, <3>3, <3>5, KeptMarks
  <2>2. CASE id \notin DOMAIN g.nodes
    <3>1. f.nodes[id] = NewNode
      BY <1>3, <1>7, <1>14, <2>2, NodesAfter
    <3>2. id \in DOMAIN k.nodes \ DOMAIN h.nodes
      BY <1>6, <1>11, <1>14, <2>2 DEF NodesMirror
    <3>3. k.nodes[id] = NewNode
      BY <1>6, <1>9, <3>2, NodesAfter
    <3> QED
      BY <3>1, <3>3 DEF MarksMirror, NewNode
  <2> QED
    BY <2>1, <2>2
<1> QED
  BY <1>4, <1>5, <1>9, <1>10, <1>11, <1>12, <1>13, <1>14 DEF Mirrors

(* A list that is told, and what of it is kept.                            *)
LEMMA ListMirrors ==
    ASSUME NEW rows, Told(rows), NEW R, AreUndone(rows, R),
           NEW K, \A i \in 1 .. Len(rows) : rows[i] \in K <=> ~ IsOmitted(rows[i], R)
    PROVE  Mirrors(rows, Len(rows), R, Replay(rows), Replay(Picked(rows, K)))
<1>1. rows \in Seq(Events) /\ Len(rows) \in Nat
  BY DEF Told
<1> DEFINE S == {n \in 0 .. Len(rows) :
                   Mirrors(rows, n, R, After(EmptyGraph, rows, n), KeptAfter(rows, K, n))}
<1>2. 0 \in S
  <2>1. After(EmptyGraph, rows, 0) = EmptyGraph /\ KeptAfter(rows, K, 0) = EmptyGraph
    BY <1>1, AppliedOneByOne, KeptOneByOne
  <2> QED
    BY <1>1, <2>1, MirrorsAtFirst
<1>3. ASSUME NEW n \in 1 .. Len(rows), n - 1 \in S PROVE n \in S
  <2>1. PICK g : g = After(EmptyGraph, rows, n - 1)
    OBVIOUS
  <2>2. PICK f : f = After(EmptyGraph, rows, n)
    OBVIOUS
  <2>3. PICK h : h = KeptAfter(rows, K, n - 1)
    OBVIOUS
  <2>4. PICK k : k = KeptAfter(rows, K, n)
    OBVIOUS
  <2>5. Mirrors(rows, n - 1, R, g, h)
    BY <1>3, <2>1, <2>3
  <2>6. k = IF rows[n] \in K THEN ApplyEvent(h, rows[n]) ELSE h
    BY <1>1, <2>3, <2>4, KeptOneByOne
  <2>7. Mirrors(rows, n, R, f, k)
    <3>1. CASE IsOmitted(rows[n], R)
      <4>1. k = h
        BY <2>6, <3>1
      <4> QED
        BY <2>1, <2>2, <2>5, <3>1, <4>1, OmittedMirrors
    <3>2. CASE ~ IsOmitted(rows[n], R)
      <4>1. k = ApplyEvent(h, rows[n])
        BY <2>6, <3>2
      <4> QED
        BY <2>1, <2>2, <2>5, <3>2, <4>1, KeptMirrors
    <3> QED
      BY <3>1, <3>2
  <2> QED
    BY <2>2, <2>4, <2>7
<1> HIDE DEF S
<1>4. \A n \in 0 .. Len(rows) : n \in S
  BY <1>1, <1>2, <1>3, HandedOn
<1>5. Len(rows) \in S
  BY <1>1, <1>4
<1>6. After(EmptyGraph, rows, Len(rows)) = Replay(rows)
  BY <1>1, AppliedOneByOne DEF Replay
<1>7. KeptAfter(rows, K, Len(rows)) = Replay(Picked(rows, K))
  BY <1>1, KeptOneByOne
<1> QED
  BY <1>5, <1>6, <1>7 DEF S

-------------------------------------------------------------------------------
(* What is compared after an unmerge or a rollback.                        *)

(* What is compared of a graph in which merges of these pairs were undone: *)
(* not the relations of other types that join such a pair, nor the marks   *)
(* of the nodes that were merged into several.                             *)
Bare(g, pairs) ==
    DropEdges(g, {x \in ToSet(g.edges) : x.type # "SAME_AS" /\ Ends(x) \in pairs})
Unmarked(node) == [node EXCEPT !.canonical = NoId, !.merged = FALSE]
Shown(g, unclear) ==
    [g EXCEPT !.nodes = [id \in DOMAIN @ |-> IF id \in unclear THEN Unmarked(@[id]) ELSE @[id]]]

(* A comparison needs less of the graphs.                                  *)
LEMMA ShownIsTyped ==
    ASSUME NEW g, GraphIsTyped(g), Rising(g), NEW unclear, NEW h, h = Shown(g, unclear)
    PROVE  /\ GraphIsTyped(h) /\ Rising(h) /\ h.edges = g.edges
           /\ DOMAIN h.nodes = DOMAIN g.nodes
           /\ \A id \in DOMAIN g.nodes :
                 h.nodes[id] = IF id \in unclear THEN Unmarked(g.nodes[id]) ELSE g.nodes[id]
<1>1. /\ DOMAIN g = {"nodes", "edges", "applied", "edgeSeq", "quarantined"}
      /\ g.edges \in Seq(EdgeRecords) /\ g.edgeSeq \in Nat
      /\ DOMAIN g.nodes \subseteq Ids /\ g.nodes \in [DOMAIN g.nodes -> NodeRecords]
  BY DEF GraphIsTyped
<1>2. PICK nodes : nodes = [id \in DOMAIN g.nodes |->
                              IF id \in unclear THEN Unmarked(g.nodes[id]) ELSE g.nodes[id]]
  OBVIOUS
<1>3. h = [g EXCEPT !.nodes = nodes]
  BY <1>2 DEF Shown
<1>4. h.nodes = nodes /\ h.edges = g.edges /\ h.edgeSeq = g.edgeSeq /\ DOMAIN h = DOMAIN g
  BY <1>1, <1>3
<1>5. ASSUME NEW node \in NodeRecords PROVE Unmarked(node) \in NodeRecords
  BY <1>5 DEF Unmarked, NodeRecords
<1>6. \A id \in DOMAIN g.nodes : g.nodes[id] \in NodeRecords
  BY <1>1
<1>7. nodes \in [DOMAIN g.nodes -> NodeRecords]
  BY <1>2, <1>5, <1>6
<1>8. DOMAIN nodes = DOMAIN g.nodes
  BY <1>2
<1>9. GraphIsTyped(h)
  BY <1>1, <1>4, <1>7, <1>8 DEF GraphIsTyped
<1>10. Rising(h)
  BY <1>4 DEF Rising
<1> QED
  BY <1>2, <1>4, <1>8, <1>9, <1>10

(* Without the relations that join such a pair.                            *)
LEMMA BareIsTyped ==
    ASSUME NEW g, GraphIsTyped(g), Rising(g), NEW pairs, NEW h, h = Bare(g, pairs)
    PROVE  /\ GraphIsTyped(h) /\ Rising(h) /\ h.nodes = g.nodes
           /\ ToSet(h.edges) = {x \in ToSet(g.edges) : x.type = "SAME_AS" \/ Ends(x) \notin pairs}
<1>1. PICK lost : lost = {x \in ToSet(g.edges) : x.type # "SAME_AS" /\ Ends(x) \in pairs}
  OBVIOUS
<1>2. h = DropEdges(g, lost)
  BY <1>1 DEF Bare
<1>3. Later(g, h) /\ ToSet(h.edges) = ToSet(g.edges) \ lost /\ h.nodes = g.nodes
  BY <1>2, DropEdgesLater
<1>4. GraphIsTyped(h) /\ Rising(h)
  BY <1>3 DEF Later
<1>5. ToSet(h.edges) = {x \in ToSet(g.edges) : x.type = "SAME_AS" \/ Ends(x) \notin pairs}
  BY <1>1, <1>3
<1> QED
  BY <1>3, <1>4, <1>5

(* Nodes of two graphs that show their merges, none of which is pending.   *)
LEMMA NodesShowSame ==
    ASSUME NEW m \in NodeRecords, NEW n \in NodeRecords,
           m.closed <=> n.closed, m.deleted <=> n.deleted
    PROVE  /\ Unmarked(m) = Unmarked(n)
           /\ (m.merged <=> n.merged) /\ m.canonical = n.canonical => m = n
<1>1. /\ m = [canonical |-> m.canonical, merged |-> m.merged, closed |-> m.closed, deleted |-> m.deleted]
      /\ n = [canonical |-> n.canonical, merged |-> n.merged, closed |-> n.closed, deleted |-> n.deleted]
  BY DEF NodeRecords
<1>2. /\ m.merged \in BOOLEAN /\ m.closed \in BOOLEAN /\ m.deleted \in BOOLEAN
      /\ n.merged \in BOOLEAN /\ n.closed \in BOOLEAN /\ n.deleted \in BOOLEAN
  BY DEF NodeRecords
<1>3. m.closed = n.closed /\ m.deleted = n.deleted
  BY <1>2
<1>4. ASSUME NEW k \in NodeRecords
      PROVE  /\ Unmarked(k) \in NodeRecords /\ Unmarked(k).canonical = NoId
             /\ Unmarked(k).merged = FALSE
             /\ Unmarked(k).closed = k.closed /\ Unmarked(k).deleted = k.deleted
  BY <1>4 DEF Unmarked, NodeRecords
<1>5. ASSUME NEW k \in NodeRecords, NEW l \in NodeRecords, k.canonical = l.canonical,
             k.merged = l.merged, k.closed = l.closed, k.deleted = l.deleted
      PROVE  k = l
  BY <1>5 DEF NodeRecords
<1>6. Unmarked(m) = Unmarked(n)
  <2>1. PICK u : u = Unmarked(m)
    OBVIOUS
  <2>2. PICK v : v = Unmarked(n)
    OBVIOUS
  <2>3. /\ u \in NodeRecords /\ u.canonical = NoId /\ u.merged = FALSE
        /\ u.closed = m.closed /\ u.deleted = m.deleted
    BY <1>4, <2>1
  <2>4. /\ v \in NodeRecords /\ v.canonical = NoId /\ v.merged = FALSE
        /\ v.closed = n.closed /\ v.deleted = n.deleted
    BY <1>4, <2>2
  <2>5. u = v
    BY <1>3, <1>5, <2>3, <2>4
  <2> QED
    BY <2>1, <2>2, <2>5
<1>7. ASSUME m.merged <=> n.merged, m.canonical = n.canonical PROVE m = n
  <2>1. m.merged = n.merged
    BY <1>2, <1>7
  <2> QED
    BY <1>1, <1>3, <1>7, <2>1
<1> QED
  BY <1>6, <1>7

(* A node that is merged into one other at most, and has no merge pending. *)
LEMMA MarksAgree ==
    ASSUME NEW g, NEW h, NEW events, ShowsMerges(g, events), ShowsMerges(h, events),
           NEW id \in DOMAIN g.nodes, id \in DOMAIN h.nodes, Single(events, id),
           NEW R, MarksMirror(g, h, id, R), \A x \in SameAs(ToSet(g.edges)) : x.ref \notin R
    PROVE  /\ g.nodes[id].merged <=> h.nodes[id].merged
           /\ g.nodes[id].canonical = h.nodes[id].canonical
<1>1. Pending(ToSet(g.edges), id, R) = {}
  BY DEF Pending, SameAsFrom, SameAs
<1>2. g.nodes[id].merged <=> h.nodes[id].merged
  BY <1>1 DEF MarksMirror
<1>3. /\ g.nodes[id].merged => \E e \in events : Marks(e, id) /\ g.nodes[id].canonical = e.object
      /\ ~ g.nodes[id].merged => g.nodes[id].canonical = NoId
  BY DEF ShowsMerges, NodeShows
<1>4. /\ h.nodes[id].merged => \E e \in events : Marks(e, id) /\ h.nodes[id].canonical = e.object
      /\ ~ h.nodes[id].merged => h.nodes[id].canonical = NoId
  BY DEF ShowsMerges, NodeShows
<1> QED
  BY <1>2, <1>3, <1>4 DEF Single

(* Nodes that are merged into one other at most.                           *)
AreClear(rows, ids) == \A id \in ids : Single(UpTo(rows, Len(rows)), id)

(* The list, and what is left of it without merges that were all undone,   *)
(* with their unmerges.                                                    *)
LEMMA MirrorsLeaveNoTrace ==
    ASSUME NEW rows, Told(rows), NEW R, AreUndone(rows, R),
           NEW g, g = Replay(rows), NEW h, Mirrors(rows, Len(rows), R, g, h),
           NEW unclear, AreClear(rows, DOMAIN g.nodes \ unclear),
           NEW pairs, pairs = UndonePairs(rows, R),
           NEW f, f.nodes = g.nodes, f.edges = g.edges, GraphIsTyped(f), Rising(f)
    PROVE  /\ Same(Shown(Bare(f, pairs), unclear), Shown(Bare(h, pairs), unclear))
           /\ Relations(f.edges) \subseteq Relations(h.edges)
<1>1. rows \in Seq(Events) /\ Len(rows) \in Nat
  BY DEF Told
<1>2. g = After(EmptyGraph, rows, Len(rows))
  BY <1>1, AppliedOneByOne DEF Replay
<1>3. /\ Made(h) /\ ShowsMerges(h, UpTo(rows, Len(rows)))
      /\ RelationsMirror(ToSet(g.edges), ToSet(h.edges), R, pairs)
      /\ NodesMirror(g.nodes, h.nodes)
      /\ \A id \in DOMAIN g.nodes :
            Single(UpTo(rows, Len(rows)), id) => MarksMirror(g, h, id, R)
  BY DEF Mirrors
<1>4. Made(g) /\ ShowsMerges(g, UpTo(rows, Len(rows)))
  <2>1. ToldAt(rows, Len(rows), g)
    BY <1>1, <1>2, ToldAtAll
  <2> QED
    BY <2>1 DEF ToldAt
<1>5. GraphIsTyped(h) /\ Rising(h) /\ GraphIsTyped(g) /\ Rising(g)
  BY <1>3, <1>4 DEF Made
<1>6. \A x \in SameAs(ToSet(g.edges)) : x.ref \notin R
  <2>1. ASSUME NEW x \in SameAs(ToSet(g.edges)), x.ref \in R PROVE FALSE
    <3>1. PICK k \in 1 .. Len(rows) : rows[k].op = "unmerge" /\ rows[k].ref = x.ref
      BY <2>1 DEF AreUndone
    <3>2. Len(rows) \in k .. Len(rows)
      BY <1>1
    <3>3. IsGone(g, rows[k].ref)
      BY <1>2, <3>1, <3>2, UnmergedIsGone
    <3> QED
      BY <3>1, <3>3 DEF IsGone
  <2> QED
    BY <2>1
<1>7. PICK a : a = Bare(f, pairs)
  OBVIOUS
<1>8. PICK b : b = Bare(h, pairs)
  OBVIOUS
<1>9. /\ GraphIsTyped(a) /\ Rising(a) /\ a.nodes = g.nodes
      /\ ToSet(a.edges) = {x \in ToSet(g.edges) : x.type = "SAME_AS" \/ Ends(x) \notin pairs}
  BY <1>7, BareIsTyped
<1>10. /\ GraphIsTyped(b) /\ Rising(b) /\ b.nodes = h.nodes
       /\ ToSet(b.edges) = {x \in ToSet(h.edges) : x.type = "SAME_AS" \/ Ends(x) \notin pairs}
  BY <1>5, <1>8, BareIsTyped
<1>11. /\ Paired(Plain(ToSet(g.edges), R, pairs), Plain(ToSet(h.edges), R, pairs))
       /\ \A x \in ToSet(g.edges) : x.type # "SAME_AS" => \E y \in ToSet(h.edges) : ShowSame(x, y)
       /\ \A y \in SameAs(ToSet(h.edges)) : y.ref \notin R
  BY <1>3 DEF RelationsMirror
<1>12. Plain(ToSet(g.edges), R, pairs) = ToSet(a.edges)
  BY <1>6, <1>9 DEF Plain, SameAs
<1>13. Plain(ToSet(h.edges), R, pairs) = ToSet(b.edges)
  BY <1>10, <1>11 DEF Plain, SameAs
<1>14. Paired(ToSet(a.edges), ToSet(b.edges))
  BY <1>11, <1>12, <1>13
<1>15. PICK c : c = Shown(a, unclear)
  OBVIOUS
<1>16. PICK d : d = Shown(b, unclear)
  OBVIOUS
<1>17. /\ GraphIsTyped(c) /\ Rising(c) /\ c.edges = a.edges /\ DOMAIN c.nodes = DOMAIN g.nodes
       /\ \A id \in DOMAIN g.nodes :
             c.nodes[id] = IF id \in unclear THEN Unmarked(g.nodes[id]) ELSE g.nodes[id]
  BY <1>9, <1>15, ShownIsTyped
<1>18. /\ GraphIsTyped(d) /\ Rising(d) /\ d.edges = b.edges /\ DOMAIN d.nodes = DOMAIN h.nodes
       /\ \A id \in DOMAIN h.nodes :
             d.nodes[id] = IF id \in unclear THEN Unmarked(h.nodes[id]) ELSE h.nodes[id]
  BY <1>10, <1>16, ShownIsTyped
<1>19. DOMAIN g.nodes = DOMAIN h.nodes
  BY <1>3 DEF NodesMirror
<1>20. ASSUME NEW id \in DOMAIN g.nodes PROVE c.nodes[id] = d.nodes[id]
  <2>1. g.nodes[id] \in NodeRecords /\ h.nodes[id] \in NodeRecords
    BY <1>5, <1>19 DEF GraphIsTyped
  <2>2. /\ g.nodes[id].closed <=> h.nodes[id].closed
        /\ g.nodes[id].deleted <=> h.nodes[id].deleted
    BY <1>3 DEF NodesMirror
  <2>3. Unmarked(g.nodes[id]) = Unmarked(h.nodes[id])
    BY <2>1, <2>2, NodesShowSame
  <2>4. CASE id \in unclear
    BY <1>17, <1>18, <1>19, <2>3, <2>4
  <2>5. CASE id \notin unclear
    <3>1. Single(UpTo(rows, Len(rows)), id)
      BY <2>5 DEF AreClear
    <3>2. PICK all : all = UpTo(rows, Len(rows))
      OBVIOUS
    <3>3. ShowsMerges(g, all) /\ ShowsMerges(h, all) /\ Single(all, id) /\ MarksMirror(g, h, id, R)
      BY <1>3, <1>4, <3>1, <3>2
    <3>4. /\ g.nodes[id].merged <=> h.nodes[id].merged
          /\ g.nodes[id].canonical = h.nodes[id].canonical
      BY <1>6, <1>19, <3>3, MarksAgree
    <3>5. g.nodes[id] = h.nodes[id]
      BY <2>1, <2>2, <3>4, NodesShowSame
    <3> QED
      BY <1>17, <1>18, <1>19, <2>5, <3>5
  <2> QED
    BY <2>4, <2>5
<1>21. c.nodes = d.nodes
  <2>1. c.nodes = [id \in DOMAIN g.nodes |-> c.nodes[id]]
    BY <1>17 DEF GraphIsTyped
  <2>2. d.nodes = [id \in DOMAIN g.nodes |-> d.nodes[id]]
    BY <1>18, <1>19 DEF GraphIsTyped
  <2> QED
    BY <1>20, <2>1, <2>2
<1>22. Same(c, d)
  BY <1>14, <1>17, <1>18, <1>21, PairedIsSame
<1>23. ASSUME NEW x \in ToSet(g.edges) PROVE \E y \in ToSet(h.edges) : ShowSame(x, y)
  <2>1. CASE x.type = "SAME_AS"
    <3>1. x \in ToSet(a.edges)
      BY <1>9, <2>1
    <3>2. \E y \in ToSet(b.edges) : ShowSame(x, y)
      BY <1>14, <3>1, PairedShows
    <3> QED
      BY <1>10, <3>2
  <2>2. CASE x.type # "SAME_AS"
    BY <1>11, <2>2
  <2> QED
    BY <2>1, <2>2
<1>24. Relations(f.edges) \subseteq Relations(h.edges)
  BY <1>23 DEF Relations, ShowSame
<1> QED
  BY <1>7, <1>8, <1>15, <1>16, <1>22, <1>24

(* The events of the log, by their place.                                  *)
LEMMA EventsByPlace ==
    ASSUME NEW rows \in Seq(Events), rows = AllMutations
    PROVE  /\ UpTo(rows, Len(rows)) = ToSet(AllMutations)
           /\ \A op : EventsWith(op) = {e \in UpTo(rows, Len(rows)) : e.op = op}
<1>1. ToSet(rows) = {rows[i] : i \in 1 .. Len(rows)}
  BY ElementsOfASequence
<1> QED
  BY <1>1 DEF UpTo, EventsWith

(* What finitely many are mapped to is finite.                             *)
LEMMA ImageIsFinite ==
    ASSUME NEW S, IsFiniteSet(S), NEW f, f = [x \in S |-> f[x]]
    PROVE  IsFiniteSet({f[x] : x \in S})
<1>1. PICK T : T = {f[x] : x \in S}
  OBVIOUS
<1>2. f \in Surjection(S, T)
  BY <1>1 DEF Surjection
<1> QED
  BY <1>1, <1>2, FS_Surjection

(* A node that the log has merged into one other at most.                  *)
LEMMA OneAtMost ==
    ASSUME NEW S, IsFiniteSet(S), Cardinality(S) <= 1, NEW a \in S, NEW b \in S
    PROVE  a = b
<1>1. SUFFICES ASSUME a # b PROVE FALSE
  OBVIOUS
<1>2. {a, b} \subseteq S
  OBVIOUS
<1>3. IsFiniteSet({a, b}) /\ Cardinality({a, b}) <= Cardinality(S)
  BY <1>2, FS_Subset
<1>4. IsFiniteSet({a}) /\ Cardinality({a}) = 1
  BY FS_Singleton
<1>5. Cardinality({a} \cup {b}) = Cardinality({a}) + 1
  BY <1>1, <1>4, FS_AddElement
<1>6. {a} \cup {b} = {a, b}
  OBVIOUS
<1>7. Cardinality(S) \in Nat
  BY FS_CardinalityType
<1> QED
  BY <1>3, <1>4, <1>5, <1>6, <1>7

(* What the log merged a node into, by the events in place.                *)
LEMMA MergedIntoOnes ==
    ASSUME NEW rows \in Seq(Events), rows = AllMutations, NEW id
    PROVE  /\ MergedInto(id) = {e.object : e \in {f \in UpTo(rows, Len(rows)) : Marks(f, id)}}
           /\ Cardinality(MergedInto(id)) <= 1 => Single(UpTo(rows, Len(rows)), id)
<1>1. PICK all : all = UpTo(rows, Len(rows))
  OBVIOUS
<1>2. EventsWith("merge_entity") = {e \in all : e.op = "merge_entity"}
  BY <1>1, EventsByPlace
<1>3. MergedInto(id) = {e.object : e \in {f \in all : Marks(f, id)}}
  <2>1. {f \in EventsWith("merge_entity") : f.subject = id} = {f \in all : Marks(f, id)}
    BY <1>2 DEF Marks
  <2> QED
    BY <2>1 DEF MergedInto
<1>4. IsFiniteSet(MergedInto(id))
  <2>1. PICK J : J = {i \in 1 .. Len(rows) : Marks(rows[i], id)}
    OBVIOUS
  <2>2. IsFiniteSet(J)
    <3>1. IsFiniteSet(1 .. Len(rows))
      BY FS_Interval
    <3> QED
      BY <2>1, <3>1, FS_Subset
  <2>3. PICK F : F = [i \in J |-> rows[i].object]
    OBVIOUS
  <2>4. MergedInto(id) = {F[i] : i \in J}
    BY <1>1, <1>3, <2>1, <2>3 DEF UpTo
  <2> QED
    BY <2>2, <2>3, <2>4, ImageIsFinite
<1>5. ASSUME Cardinality(MergedInto(id)) <= 1 PROVE Single(all, id)
  <2>1. ASSUME NEW e \in all, NEW f \in all, Marks(e, id), Marks(f, id) PROVE e.object = f.object
    <3>1. e.object \in MergedInto(id) /\ f.object \in MergedInto(id)
      BY <1>3, <2>1
    <3> QED
      BY <1>4, <1>5, <3>1, OneAtMost
  <2> QED
    BY <2>1 DEF Single
<1> QED
  BY <1>1, <1>3, <1>5

(* What NoTraceOf compares.                                                *)
Unclear == {id \in Ids : ~ (Cardinality(MergedInto(id)) <= 1)}

(* It is Shown.                                                            *)
LEMMA ShownIsCompared ==
    ASSUME NEW g, DOMAIN g.nodes \subseteq Ids
    PROVE  Shown(g, Unclear) =
             [g EXCEPT !.nodes = [id \in DOMAIN @ |->
                IF Cardinality(MergedInto(id)) <= 1
                THEN @[id]
                ELSE [@[id] EXCEPT !.canonical = NoId, !.merged = FALSE]]]
<1>1. [id \in DOMAIN g.nodes |-> IF id \in Unclear THEN Unmarked(g.nodes[id]) ELSE g.nodes[id]]
        = [id \in DOMAIN g.nodes |->
              IF Cardinality(MergedInto(id)) <= 1
              THEN g.nodes[id]
              ELSE [g.nodes[id] EXCEPT !.canonical = NoId, !.merged = FALSE]]
  <2>1. ASSUME NEW id \in DOMAIN g.nodes
        PROVE  (IF id \in Unclear THEN Unmarked(g.nodes[id]) ELSE g.nodes[id])
                 = (IF Cardinality(MergedInto(id)) <= 1
                    THEN g.nodes[id]
                    ELSE [g.nodes[id] EXCEPT !.canonical = NoId, !.merged = FALSE])
    BY DEF Unclear, Unmarked
  <2> QED
    BY <2>1
<1> QED
  BY <1>1 DEF Shown

(* And NoTraceOf compares what Bare and Shown leave.                       *)
LEMMA NoTraceIs ==
    ASSUME NEW g, GraphIsTyped(g), Rising(g), NEW h, GraphIsTyped(h), Rising(h), NEW pairs,
           Same(Shown(Bare(g, pairs), Unclear), Shown(Bare(h, pairs), Unclear)),
           Relations(g.edges) \subseteq Relations(h.edges)
    PROVE  NoTraceOf(pairs, g, h)
<1>1. PICK a : a = Bare(g, pairs)
  OBVIOUS
<1>2. PICK b : b = Bare(h, pairs)
  OBVIOUS
<1>3. a.nodes = g.nodes /\ b.nodes = h.nodes
  BY <1>1, <1>2, BareIsTyped
<1>4. DOMAIN a.nodes \subseteq Ids /\ DOMAIN b.nodes \subseteq Ids
  BY <1>3 DEF GraphIsTyped
<1>5. Same(Shown(a, Unclear), Shown(b, Unclear))
  BY <1>1, <1>2
<1>6. /\ a = DropEdges(g, {x \in ToSet(g.edges) : x.type # "SAME_AS" /\ Ends(x) \in pairs})
      /\ b = DropEdges(h, {x \in ToSet(h.edges) : x.type # "SAME_AS" /\ Ends(x) \in pairs})
  BY <1>1, <1>2 DEF Bare
<1> QED
  BY <1>4, <1>5, <1>6, ShownIsCompared DEF NoTraceOf

(* The graph without the merges that were undone and their unmerges.       *)
LEMMA UnmergesRestore ==
    ASSUME Told(AllMutations)
    PROVE  UnmergeRestores(Current)
<1>1. PICK rows \in Seq(Events) : rows = AllMutations
  BY DEF Told
<1>2. Told(rows) /\ Len(rows) \in Nat
  BY <1>1
<1>3. PICK all : all = UpTo(rows, Len(rows))
  OBVIOUS
<1>4. /\ all = ToSet(AllMutations)
      /\ EventsWith("unmerge") = {e \in all : e.op = "unmerge"}
      /\ EventsWith("merge_entity") = {e \in all : e.op = "merge_entity"}
  BY <1>1, <1>3, EventsByPlace
<1>5. PICK R : R = {e.ref : e \in EventsWith("unmerge")}
  OBVIOUS
<1>6. PICK M : M = {e \in EventsWith("merge_entity") : e.ref \in R} \cup EventsWith("unmerge")
  OBVIOUS
<1>7. PICK K : K = all \ M
  OBVIOUS
<1>8. \A i \in 1 .. Len(rows) : rows[i] \in all
  BY <1>3 DEF UpTo
<1>9. \A e \in all : e \in K <=> ~ IsOmitted(e, R)
  BY <1>4, <1>5, <1>6, <1>7 DEF IsOmitted
<1>10. AreUndone(rows, R)
  <2>1. ASSUME NEW ref \in R
        PROVE  \E k \in 1 .. Len(rows) : rows[k].op = "unmerge" /\ rows[k].ref = ref
    BY <1>3, <1>4, <1>5 DEF UpTo
  <2> QED
    BY <2>1 DEF AreUndone
<1>11. UndonePairs(rows, R) = Unmerged
  <2>1. {f \in all : f.op = "unmerge" /\ f.ref \in R} = EventsWith("unmerge")
    BY <1>4, <1>5
  <2> QED
    BY <1>3, <2>1 DEF UndonePairs, Unmerged
<1>12. PICK g : g = Replay(rows)
  OBVIOUS
<1>13. PICK h : h = Replay(Picked(rows, K))
  OBVIOUS
<1>14. Mirrors(rows, Len(rows), R, g, h)
  BY <1>2, <1>8, <1>9, <1>10, <1>12, <1>13, ListMirrors
<1>15. g = Current /\ h = Without(M)
  BY <1>1, <1>4, <1>7, <1>12, <1>13 DEF Current, Without
<1>16. ToldAt(rows, Len(rows), g)
  <2>1. g = After(EmptyGraph, rows, Len(rows))
    BY <1>1, <1>12, AppliedOneByOne DEF Replay
  <2> QED
    BY <1>2, <2>1, ToldAtAll
<1>17. GraphIsTyped(g) /\ Rising(g) /\ GraphIsTyped(h) /\ Rising(h)
  BY <1>14, <1>16 DEF ToldAt, Mirrors, Made
<1>18. AreClear(rows, DOMAIN g.nodes \ Unclear)
  <2>1. DOMAIN g.nodes \subseteq Ids
    BY <1>17 DEF GraphIsTyped
  <2> QED
    BY <1>1, <2>1, MergedIntoOnes DEF Unclear, AreClear
<1>19. /\ Same(Shown(Bare(g, Unmerged), Unclear), Shown(Bare(h, Unmerged), Unclear))
       /\ Relations(g.edges) \subseteq Relations(h.edges)
  <2>1. PICK unclear : unclear = Unclear
    OBVIOUS
  <2>2. PICK pairs : pairs = UndonePairs(rows, R)
    OBVIOUS
  <2>3. AreClear(rows, DOMAIN g.nodes \ unclear) /\ g.nodes = g.nodes /\ g.edges = g.edges
    BY <1>18, <2>1
  <2>4. /\ Same(Shown(Bare(g, pairs), unclear), Shown(Bare(h, pairs), unclear))
        /\ Relations(g.edges) \subseteq Relations(h.edges)
    BY <1>2, <1>10, <1>12, <1>14, <1>17, <2>2, <2>3, MirrorsLeaveNoTrace
  <2> QED
    BY <1>11, <2>1, <2>2, <2>4
<1>20. NoTraceOf(Unmerged, g, h)
  BY <1>17, <1>19, NoTraceIs
<1> QED
  BY <1>5, <1>6, <1>15, <1>20 DEF UnmergeRestores

(* The merges of a node, as a set.                                         *)
LEMMA MergesBySet ==
    ASSUME NEW g, GraphIsTyped(g), NEW id
    PROVE  /\ MergesOf(g, id) \in Seq(EdgeRecords)
           /\ ToSet(MergesOf(g, id)) = SameAsFrom(ToSet(g.edges), id)
           /\ MergesOf(g, id) = <<>> <=> SameAsFrom(ToSet(g.edges), id) = {}
<1>1. g.edges \in Seq(EdgeRecords)
  BY DEF GraphIsTyped
<1>2. PICK S : S = SameAsFrom(ToSet(g.edges), id)
  OBVIOUS
<1>3. MergesOf(g, id) = Picked(g.edges, S)
  BY <1>2 DEF MergesOf, SameAsFrom
<1>4. PICK m : m = Picked(g.edges, S)
  OBVIOUS
<1>5. m \in Seq(EdgeRecords) /\ ToSet(m) = ToSet(g.edges) \cap S
  BY <1>1, <1>4, ElementsOfPicked
<1>6. ToSet(m) = S
  BY <1>2, <1>5 DEF SameAsFrom
<1>7. ToSet(m) = {m[i] : i \in 1 .. Len(m)}
  BY <1>5, ElementsOfASequence
<1>8. m = <<>> <=> ToSet(m) = {}
  <2>1. ASSUME m = <<>> PROVE ToSet(m) = {}
    <3>1. Len(m) = 0
      BY <2>1
    <3>2. 1 .. Len(m) = {}
      BY <3>1
    <3> QED
      BY <1>7, <3>2
  <2>2. ASSUME m # <<>> PROVE ToSet(m) # {}
    <3>1. 1 \in 1 .. Len(m)
      BY <1>5, <2>2
    <3>2. m[1] \in ToSet(m)
      BY <1>7, <3>1
    <3> QED
      BY <3>2
  <2> QED
    BY <2>1, <2>2
<1> QED
  BY <1>2, <1>3, <1>4, <1>5, <1>6, <1>8

(* A mark that outlives its merges comes of a deletion.                    *)
LEMMA MarksFade ==
    ASSUME Told(AllMutations), NEW id \in DOMAIN Current.nodes,
           Current.nodes[id].merged, MergesOf(Current, id) = <<>>
    PROVE  \E other \in {id} \cup MergedInto(id) : Current.nodes[other].deleted
<1>1. PICK rows \in Seq(Events) : rows = AllMutations
  BY DEF Told
<1>2. PICK all : all = UpTo(rows, Len(rows))
  OBVIOUS
<1>3. PICK g : g = Current
  OBVIOUS
<1>4. ToldAt(rows, Len(rows), g)
  <2>1. g = After(EmptyGraph, rows, Len(rows))
    BY <1>1, <1>3, AppliedOneByOne DEF Replay, Current
  <2> QED
    BY <1>1, <2>1, ToldAtAll
<1>5. GraphIsTyped(g) /\ ShowsMerges(g, all)
  BY <1>2, <1>4 DEF ToldAt, Made
<1>6. SameAsFrom(ToSet(g.edges), id) = {}
  BY <1>3, <1>5, MergesBySet
<1>7. HasLost(g.nodes, id, all)
  BY <1>3, <1>5, <1>6 DEF ShowsMerges, NodeShows
<1>8. MergedInto(id) = {e.object : e \in {f \in all : Marks(f, id)}}
  BY <1>1, <1>2, MergedIntoOnes
<1> QED
  BY <1>3, <1>7, <1>8 DEF HasLost

(* The editor counts from one.                                             *)
LEMMA NoEditIsZero ==
    ASSUME log \in Seq(Rows), EditorRows(log, edited), NEW e \in Seen
    PROVE  e.key # <<"unmerge", 0>>
<1>1. PICK i \in 1 .. Len(log) : e = log[i].event
  BY DEF Seen, SeenIn
<1>2. e \in Events
  BY SeenEvents
<1>3. CASE IsEdit(e)
  <2>1. OfEditor(log[i])
    BY <1>1, <1>3 DEF EditorRows, EditsAreTheirs
  <2>2. Number(log[i]) \in 1 .. edited /\ e.key = <<e.op, Number(log[i])>>
    BY <1>1, <2>1 DEF EditorRows, EditsAreTheirs
  <2>3. Number(log[i]) # 0
    BY <2>2
  <2> QED
    BY <2>2, <2>3
<1>4. CASE ~ IsEdit(e)
  <2>1. e.key[1] \in {"create_node", "create_entity", "create_edge"}
    BY <1>2, <1>4, KeyTells
  <2> QED
    BY <2>1
<1> QED
  BY <1>3, <1>4

(* The rollback of a merge that is listed is its unmerge, with a key that  *)
(* no row of the list has.                                                 *)
IsFree(key, rows) == \A i \in 1 .. Len(rows) : rows[i].key # key
AddsTo(rows, u, more, g) ==
    /\ Told(more) /\ Len(more) = Len(rows) + 1 /\ more[Len(more)] = u
    /\ \A i \in 1 .. Len(rows) : more[i] = rows[i]
    /\ Replay(more) = ApplyEvent(g, u) /\ u.key \notin g.applied
RollbackOf(x) == Event(<<"unmerge", 0>>, "unmerge", x.from, x.to, x.ref)

(* It is told after the others, and applied by a replay of them with it.   *)
LEMMA RollbackIsEvent ==
    ASSUME NEW rows, Told(rows), NEW g, g = Replay(rows), NEW x \in SameAs(ToSet(g.edges)),
           IsFree(<<"unmerge", 0>>, rows),
           NEW u, u = RollbackOf(x), NEW more, more = Append(rows, u)
    PROVE  u \in Events /\ AddsTo(rows, u, more, g)
<1>1. rows \in Seq(Events) /\ Len(rows) \in Nat
  BY DEF Told
<1>2. g = After(EmptyGraph, rows, Len(rows))
  BY <1>1, AppliedOneByOne DEF Replay
<1>3. Len(rows) \in 0 .. Len(rows)
  BY <1>1
<1>4. ToldAt(rows, Len(rows), g)
  BY <1>2, <1>3, ToldAtAll
<1>5. GraphIsTyped(g) /\ Rooted(g)
  BY <1>4 DEF ToldAt, Made
<1>6. x \in ToSet(g.edges) /\ x.type = "SAME_AS"
  BY DEF SameAs
<1>7. x \in EdgeRecords
  BY <1>5, <1>6, ElementsOfASequence DEF GraphIsTyped
<1>8. PICK i \in 1 .. Len(rows) : rows[i].op = "merge_entity" /\ PairOf(rows[i]) = Ends(x)
  BY <1>2, <1>3, SameAsComesOf
<1>9. <<x.from, x.to>> \in Pairs
  <2>1. rows[i] \in Events
    BY <1>1
  <2>2. PairOf(rows[i]) \in Pairs
    BY <1>8, <2>1, EventFields DEF PairOf
  <2> QED
    BY <1>8, <2>2 DEF Ends
<1>10. /\ u.key = <<"unmerge", 0>> /\ u.op = "unmerge" /\ u.subject = x.from
       /\ u.object = x.to /\ u.ref = x.ref
  BY DEF RollbackOf, Event
<1>11. u \in Events
  <2>1. u \in EventRecords
    <3>1. x.from \in Ids /\ x.to \in Ids /\ x.ref \in Ids \cup Nat \cup {NoId}
      BY <1>7 DEF EdgeRecords
    <3>2. "unmerge" \in Ops /\ <<"unmerge", 0>> \in Ops \X (Ids \cup Nat)
      BY DEF Ops
    <3> QED
      BY <3>1, <3>2 DEF RollbackOf, Event, EventRecords
  <2>2. u.key[1] = u.op
    BY <1>10
  <2> QED
    BY <1>9, <1>10, <2>1, <2>2 DEF Events, EditEvents
<1>12. Meets(g, u)
  <2>1. NeedsOf(u) = {x.from}
    BY <1>10 DEF NeedsOf
  <2>2. Ready(g.nodes, u)
    BY <1>5, <1>6, <2>1 DEF Ready, Rooted
  <2>3. Ends(x) = PairOf(u)
    BY <1>10 DEF Ends, PairOf
  <2>4. Sighted(g, u)
    BY <1>6, <1>10, <2>3 DEF Sighted
  <2> QED
    BY <2>2, <2>4 DEF Meets
<1>13. \A j \in 1 .. Len(rows) : rows[j].key # u.key
  BY <1>10 DEF IsFree
<1>14. Told(more) /\ After(EmptyGraph, more, Len(rows)) = g
  BY <1>11, <1>12, <1>13, ToldMore
<1>15. /\ more \in Seq(Events) /\ Len(more) = Len(rows) + 1 /\ more[Len(more)] = u
       /\ \A j \in 1 .. Len(rows) : more[j] = rows[j]
  BY <1>1, <1>11
<1>16. PICK N : N = Len(more)
  OBVIOUS
<1>17. N \in 1 .. Len(more) /\ N - 1 = Len(rows) /\ more[N] = u
  BY <1>1, <1>15, <1>16
<1>18. PICK f : f = After(EmptyGraph, more, N)
  OBVIOUS
<1>19. After(EmptyGraph, more, N - 1) = g
  BY <1>14, <1>17
<1>20. f = ApplyEvent(g, more[N]) /\ more[N].key \notin g.applied
  BY <1>14, <1>17, <1>18, <1>19, ToldEach
<1>21. f = Replay(more)
  BY <1>15, <1>16, <1>18, AppliedOneByOne DEF Replay
<1> QED
  BY <1>11, <1>14, <1>15, <1>17, <1>20, <1>21 DEF AddsTo

(* What audit_rollback does of it.                                         *)
LEMMA RollbackIsUnmerge ==
    ASSUME NEW rows, Told(rows), NEW g, g = Replay(rows),
           NEW id \in DOMAIN g.nodes, NEW x \in ToSet(MergesOf(g, id)),
           NEW u, u = RollbackOf(x)
    PROVE  AuditRollback(g, id, x.ref) = Unmerge(g, u)
<1>1. rows \in Seq(Events) /\ Len(rows) \in Nat
  BY DEF Told
<1>2. g = After(EmptyGraph, rows, Len(rows))
  BY <1>1, AppliedOneByOne DEF Replay
<1>3. Len(rows) \in 0 .. Len(rows)
  BY <1>1
<1>4. GraphIsTyped(g)
  <2>1. ToldAt(rows, Len(rows), g)
    BY <1>2, <1>3, ToldAtAll
  <2> QED
    BY <2>1 DEF ToldAt, Made
<1>5. PICK m : m = MergesOf(g, id)
  OBVIOUS
<1>6. m \in Seq(EdgeRecords) /\ ToSet(m) = SameAsFrom(ToSet(g.edges), id)
  BY <1>4, <1>5, MergesBySet
<1>7. PICK S : S = {y \in ToSet(m) : y.ref = x.ref}
  OBVIOUS
<1>8. PICK found : found = Picked(m, S)
  OBVIOUS
<1>9. found \in Seq(EdgeRecords) /\ ToSet(found) = ToSet(m) \cap S
  BY <1>6, <1>8, ElementsOfPicked
<1>10. ToSet(found) = {found[i] : i \in 1 .. Len(found)}
  BY <1>9, ElementsOfASequence
<1>11. x \in ToSet(m) /\ x \in ToSet(found)
  BY <1>5, <1>7, <1>9
<1>12. found # <<>>
  <2>1. ASSUME found = <<>> PROVE FALSE
    <3>1. Len(found) = 0
      BY <2>1
    <3> QED
      BY <1>10, <1>11, <3>1
  <2> QED
    BY <2>1
<1>13. PICK y : y = Head(found)
  OBVIOUS
<1>14. y \in ToSet(found)
  <2>1. 1 \in 1 .. Len(found) /\ y = found[1]
    BY <1>9, <1>12, <1>13
  <2> QED
    BY <1>10, <2>1
<1>15. y \in ToSet(m) /\ y.ref = x.ref
  BY <1>7, <1>9, <1>14
<1>16. x \in SameAs(ToSet(g.edges)) /\ y \in SameAs(ToSet(g.edges)) /\ x.from = id
  BY <1>6, <1>11, <1>15 DEF SameAs, SameAsFrom
<1>17. Ends(y) = Ends(x)
  BY <1>2, <1>3, <1>15, <1>16, OneRefOnePair
<1>18. y.to = x.to
  BY <1>17 DEF Ends
<1>19. PICK v : v = Event(<<"rollback", id>>, "unmerge", id, y.to, x.ref)
  OBVIOUS
<1>20. v.subject = u.subject /\ v.object = u.object /\ v.ref = u.ref
  BY <1>16, <1>18, <1>19 DEF Event, RollbackOf
<1>21. AuditRollback(g, id, x.ref) = Unmerge(g, v)
  <2>1. HasNode(g, id)
    BY DEF HasNode
  <2>2. S = {z \in ToSet(m) : z.ref = x.ref}
    BY <1>7
  <2> QED
    BY <1>5, <1>7, <1>8, <1>12, <1>13, <1>19, <2>1 DEF AuditRollback
<1>22. Undone(g, v) = Undone(g, u)
  BY <1>20 DEF Undone
<1>23. Unmerge(g, v) = Unmerge(g, u)
  BY <1>20, <1>22 DEF Unmerge
<1> QED
  BY <1>21, <1>23

(* The graph without one merge that is listed.                             *)
LEMMA RollbackRestoresOne ==
    ASSUME Told(AllMutations), \A e \in ToSet(AllMutations) : e.key # <<"unmerge", 0>>,
           NEW id \in DOMAIN Current.nodes, NEW x \in ToSet(MergesOf(Current, id)),
           NEW merges, merges = {e \in EventsWith("merge_entity") : e.ref = x.ref}
    PROVE  NoTraceOf({Ends(x)}, AuditRollback(Current, id, x.ref), Without(merges))
<1>1. PICK rows \in Seq(Events) : rows = AllMutations
  BY DEF Told
<1>2. Told(rows) /\ Len(rows) \in Nat
  BY <1>1
<1>3. PICK all : all = UpTo(rows, Len(rows))
  OBVIOUS
<1>4. /\ all = ToSet(AllMutations)
      /\ EventsWith("merge_entity") = {e \in all : e.op = "merge_entity"}
  BY <1>1, <1>3, EventsByPlace
<1>5. \A i \in 1 .. Len(rows) : rows[i] \in all
  BY <1>3 DEF UpTo
<1>6. PICK g : g = Replay(rows)
  OBVIOUS
<1>7. g = Current
  BY <1>1, <1>6 DEF Current
<1>8. /\ g = After(EmptyGraph, rows, Len(rows)) /\ Len(rows) \in 0 .. Len(rows)
  BY <1>2, <1>6, AppliedOneByOne DEF Replay
<1>9. GraphIsTyped(g) /\ Rising(g)
  <2>1. ToldAt(rows, Len(rows), g)
    BY <1>2, <1>8, ToldAtAll
  <2> QED
    BY <2>1 DEF ToldAt, Made
<1>10. x \in SameAs(ToSet(g.edges)) /\ x \in ToSet(MergesOf(g, id)) /\ id \in DOMAIN g.nodes
  <2>1. x \in SameAsFrom(ToSet(g.edges), id)
    BY <1>7, <1>9, MergesBySet
  <2> QED
    BY <1>7, <2>1 DEF SameAs, SameAsFrom
<1>11. PICK u : u = RollbackOf(x)
  OBVIOUS
<1>12. PICK more : more = Append(rows, u)
  OBVIOUS
<1>13. /\ u \in Events /\ Told(more) /\ Len(more) = Len(rows) + 1 /\ more[Len(more)] = u
       /\ \A i \in 1 .. Len(rows) : more[i] = rows[i]
       /\ Replay(more) = ApplyEvent(g, u) /\ u.key \notin g.applied
  <2>1. IsFree(<<"unmerge", 0>>, rows)
    BY <1>4, <1>5 DEF IsFree
  <2>2. Told(rows) /\ x \in SameAs(ToSet(g.edges))
    BY <1>2, <1>10
  <2>3. u \in Events /\ AddsTo(rows, u, more, g)
    BY <1>6, <1>11, <1>12, <2>1, <2>2, RollbackIsEvent
  <2> QED
    BY <2>3 DEF AddsTo
<1>14. /\ u.key = <<"unmerge", 0>> /\ u.op = "unmerge" /\ u.ref = x.ref /\ PairOf(u) = Ends(x)
  BY <1>11 DEF RollbackOf, Event, PairOf, Ends
<1>15. u \notin all
  BY <1>4, <1>14
<1>16. UpTo(more, Len(more)) = all \cup {u}
  <2>1. 1 .. Len(more) = (1 .. Len(rows)) \cup {Len(more)}
    BY <1>2, <1>13
  <2>2. UpTo(more, Len(more)) = {more[i] : i \in (1 .. Len(rows)) \cup {Len(more)}}
    BY <2>1 DEF UpTo
  <2> QED
    BY <1>3, <1>13, <2>2 DEF UpTo
<1>17. PICK R : R = {x.ref}
  OBVIOUS
<1>18. ASSUME NEW e \in all, e.op = "unmerge" PROVE e.ref # x.ref
  <2>1. PICK k \in 1 .. Len(rows) : e = rows[k]
    BY <1>3 DEF UpTo
  <2>2. Len(rows) \in k .. Len(rows)
    BY <1>2
  <2>3. IsGone(g, rows[k].ref)
    BY <1>2, <1>8, <1>18, <2>1, <2>2, UnmergedIsGone
  <2> QED
    BY <1>10, <2>1, <2>3 DEF IsGone
<1>19. PICK K : K = all \ merges
  OBVIOUS
<1>20. ASSUME NEW i \in 1 .. Len(more) PROVE more[i] \in K <=> ~ IsOmitted(more[i], R)
  <2>1. CASE more[i] \in all
    BY <1>4, <1>17, <1>18, <1>19, <2>1 DEF IsOmitted
  <2>2. CASE more[i] = u
    BY <1>14, <1>15, <1>17, <1>19, <2>2 DEF IsOmitted
  <2>3. more[i] \in UpTo(more, Len(more))
    BY DEF UpTo
  <2> QED
    BY <1>16, <2>1, <2>2, <2>3
<1>21. AreUndone(more, R)
  <2>1. Len(more) \in 1 .. Len(more)
    BY <1>2, <1>13
  <2> QED
    BY <1>13, <1>14, <1>17, <2>1 DEF AreUndone
<1>22. UndonePairs(more, R) = {Ends(x)}
  <2>1. {e \in all \cup {u} : e.op = "unmerge" /\ e.ref \in R} = {u}
    BY <1>14, <1>17, <1>18
  <2> QED
    BY <1>14, <1>16, <2>1 DEF UndonePairs
<1>23. PICK f : f = Replay(more)
  OBVIOUS
<1>24. PICK h : h = Replay(Picked(more, K))
  OBVIOUS
<1>25. Mirrors(more, Len(more), R, f, h)
  BY <1>13, <1>20, <1>21, <1>23, <1>24, ListMirrors
<1>26. h = Without(merges)
  <2>1. Picked(more, K) = Picked(rows, K)
    <3>1. u \notin K
      BY <1>15, <1>19
    <3> QED
      BY <1>12, <1>13, <3>1, PickedAppend
  <2> QED
    BY <1>1, <1>4, <1>19, <1>24, <2>1 DEF Without
<1>27. PICK a : a = AuditRollback(g, id, x.ref)
  OBVIOUS
<1>28. a = Effect(g, u)
  <2>1. a = Unmerge(g, u)
    BY <1>2, <1>6, <1>10, <1>11, <1>27, RollbackIsUnmerge
  <2> QED
    BY <1>14, <2>1 DEF Effect
<1>29. a.nodes = f.nodes /\ a.edges = f.edges
  <2>1. f = [Effect(g, u) EXCEPT !.applied = @ \cup {u.key}]
    BY <1>13, <1>23 DEF ApplyEvent
  <2>2. Later(g, a)
    BY <1>9, <1>13, <1>28, EffectLater
  <2>3. DOMAIN a = {"nodes", "edges", "applied", "edgeSeq", "quarantined"}
    BY <2>2 DEF Later, GraphIsTyped
  <2>4. f = [a EXCEPT !.applied = @ \cup {u.key}]
    BY <1>28, <2>1
  <2> QED
    BY <2>3, <2>4
<1>30. GraphIsTyped(a) /\ Rising(a)
  <2>1. Later(g, a)
    BY <1>9, <1>13, <1>28, EffectLater
  <2> QED
    BY <2>1 DEF Later
<1>31. GraphIsTyped(h) /\ Rising(h)
  BY <1>25 DEF Mirrors, Made
<1>32. AreClear(more, DOMAIN f.nodes \ Unclear)
  <2>1. ASSUME NEW other \in DOMAIN f.nodes \ Unclear PROVE Single(all \cup {u}, other)
    <3>1. other \in Ids
      BY <1>29, <1>30, <2>1 DEF GraphIsTyped
    <3>2. Cardinality(MergedInto(other)) <= 1
      BY <2>1, <3>1 DEF Unclear
    <3>3. Single(all, other)
      BY <1>1, <1>3, <3>2, MergedIntoOnes
    <3>4. ~ Marks(u, other)
      BY <1>14 DEF Marks
    <3> QED
      BY <3>3, <3>4 DEF Single
  <2> QED
    BY <1>16, <2>1 DEF AreClear
<1>33. /\ Same(Shown(Bare(a, {Ends(x)}), Unclear), Shown(Bare(h, {Ends(x)}), Unclear))
       /\ Relations(a.edges) \subseteq Relations(h.edges)
  <2>1. PICK unclear : unclear = Unclear
    OBVIOUS
  <2>2. PICK pairs : pairs = UndonePairs(more, R)
    OBVIOUS
  <2>3. AreClear(more, DOMAIN f.nodes \ unclear)
    BY <1>32, <2>1
  <2>5. Told(more)
    BY <1>13
  <2>6. Mirrors(more, Len(more), R, f, h)
    BY <1>25
  <2>7. a.nodes = f.nodes /\ a.edges = f.edges
    BY <1>29
  <2>8. GraphIsTyped(a) /\ Rising(a)
    BY <1>30
  <2>4. /\ Same(Shown(Bare(a, pairs), unclear), Shown(Bare(h, pairs), unclear))
        /\ Relations(a.edges) \subseteq Relations(h.edges)
    BY <1>21, <1>23, <2>2, <2>3, <2>5, <2>6, <2>7, <2>8, MirrorsLeaveNoTrace, ZenonT(60)
  <2> QED
    BY <1>22, <2>1, <2>2, <2>4
<1>34. NoTraceOf({Ends(x)}, a, h)
  BY <1>30, <1>31, <1>33, NoTraceIs
<1> QED
  BY <1>7, <1>26, <1>27, <1>34

-------------------------------------------------------------------------------
(* The canonical of a node, as a walk: one step of it, and its course.     *)
Onward(g, w) ==
    IF ~ HasNode(g, w.at) \/ (~ g.nodes[w.at].merged \/ g.nodes[w.at].canonical \in w.seen)
    THEN w
    ELSE [at |-> g.nodes[w.at].canonical, seen |-> w.seen \cup {g.nodes[w.at].canonical}]
Outset(id) == [at |-> id, seen |-> {}]
Walking(g, id, n, f) ==
    f = [k \in 0 .. n |-> IF k = 0 THEN Outset(id) ELSE Onward(g, f[k - 1])]

(* A walk has a course.                                                    *)
LEMMA WalkingIsDefined ==
    ASSUME NEW g, NEW id, NEW n \in Nat
    PROVE  \E f : Walking(g, id, n, f)
<1> DEFINE Bad == {m \in Nat : ~ \E f : Walking(g, id, m, f)}
<1>1. SUFFICES ASSUME n \in Bad PROVE FALSE
  OBVIOUS
<1>2. PICK m \in Bad : \A k \in Bad : m <= k
  BY <1>1, LeastNatural
<1>3. m # 0
  <2>1. Walking(g, id, 0, [k \in 0 .. 0 |-> Outset(id)])
    BY DEF Walking
  <2> QED
    BY <2>1
<1>4. m - 1 \in Nat /\ m - 1 \notin Bad
  BY <1>2, <1>3
<1>5. PICK f : Walking(g, id, m - 1, f)
  BY <1>4
<1> DEFINE h == [k \in 0 .. m |-> IF k = m THEN Onward(g, f[m - 1]) ELSE f[k]]
<1>6. ASSUME NEW k \in 0 .. m
      PROVE  h[k] = IF k = 0 THEN Outset(id) ELSE Onward(g, h[k - 1])
  BY <1>3, <1>4, <1>5 DEF Walking
<1>7. h = [k \in 0 .. m |-> h[k]]
  OBVIOUS
<1>8. Walking(g, id, m, h)
  <2> HIDE DEF h
  <2> QED
    BY <1>6, <1>7 DEF Walking
<1> QED
  BY <1>2, <1>8

(* Its course, place by place.                                             *)
LEMMA WalkingSteps ==
    ASSUME NEW g, NEW id, NEW n \in Nat, NEW f, Walking(g, id, n, f)
    PROVE  /\ f[0] = Outset(id)
           /\ \A k \in 1 .. n : f[k] = Onward(g, f[k - 1])
BY DEF Walking

(* A walk is what leads to the canonical.                                  *)
LEMMA CanonicalIsWalked ==
    ASSUME NEW g, NEW id, Cardinality(DOMAIN g.nodes) \in Nat
    PROVE  \E f : /\ Walking(g, id, Cardinality(DOMAIN g.nodes) + 1, f)
                  /\ CanonicalOf(g, id) = f[Cardinality(DOMAIN g.nodes) + 1].at
<1> DEFINE f == CHOOSE h : Walking(g, id, Cardinality(DOMAIN g.nodes) + 1, h)
<1>1. Cardinality(DOMAIN g.nodes) + 1 \in Nat
  OBVIOUS
<1>2. Walking(g, id, Cardinality(DOMAIN g.nodes) + 1, f)
  BY <1>1, WalkingIsDefined
<1>3. CanonicalOf(g, id) = f[Cardinality(DOMAIN g.nodes) + 1].at
  BY DEF CanonicalOf, Walking, Onward, Outset
<1> QED
  BY <1>2, <1>3

(* Merges lead to nodes of the graph, of which there are finitely many.    *)
LeadsOn(g) ==
    /\ IsFiniteSet(DOMAIN g.nodes)
    /\ \A id \in DOMAIN g.nodes : g.nodes[id].merged => g.nodes[id].canonical \in DOMAIN g.nodes

(* A walk that moved at each step would have seen more nodes than there    *)
(* are, so that it stands still by the last.                               *)
LEMMA WalkEnds ==
    ASSUME NEW g, LeadsOn(g), NEW id \in DOMAIN g.nodes,
           NEW size \in Nat, size = Cardinality(DOMAIN g.nodes),
           NEW f, Walking(g, id, size + 1, f)
    PROVE  f[size + 1] = f[size]
<1>1. PICK all : all = DOMAIN g.nodes
  OBVIOUS
<1>2. /\ IsFiniteSet(all) /\ id \in all /\ size = Cardinality(all)
      /\ \A i : HasNode(g, i) <=> i \in all
      /\ \A i \in all : g.nodes[i].merged => g.nodes[i].canonical \in all
  BY <1>1 DEF LeadsOn, HasNode
<1>3. /\ f[0] = Outset(id)
      /\ \A k \in 1 .. size + 1 : f[k] = Onward(g, f[k - 1])
  <2>1. PICK last \in Nat : last = size + 1
    OBVIOUS
  <2>2. Walking(g, id, last, f)
    BY <2>1
  <2>3. /\ f[0] = Outset(id)
        /\ \A k \in 1 .. last : f[k] = Onward(g, f[k - 1])
    BY <2>2 DEF Walking
  <2> QED
    BY <2>1, <2>3
<1> DEFINE Stood(n) == n # 0 /\ f[n] = f[n - 1]
           OnItsWay(n) == /\ f[n].at \in all /\ f[n].seen \subseteq all
                          /\ Stood(n) \/ Cardinality(f[n].seen) = n
           S == {n \in 0 .. size + 1 : OnItsWay(n)}
<1>4. 0 \in S
  <2>1. f[0].at = id /\ f[0].seen = {}
    BY <1>3 DEF Outset
  <2>2. Cardinality(f[0].seen) = 0
    BY <2>1, FS_EmptySet
  <2>3. OnItsWay(0)
    BY <1>2, <2>1, <2>2
  <2> QED
    BY <2>3
<1>5. ASSUME NEW n \in 1 .. size + 1, n - 1 \in S PROVE OnItsWay(n)
  <2>1. PICK w : w = f[n - 1]
    OBVIOUS
  <2>2. PICK v : v = f[n]
    OBVIOUS
  <2>3. v = Onward(g, w)
    BY <1>3, <2>1, <2>2
  <2>4. w.at \in all /\ w.seen \subseteq all
    BY <1>5, <2>1
  <2>5. CASE v = w
    <3>1. Stood(n)
      BY <2>1, <2>2, <2>5
    <3> QED
      BY <2>1, <2>2, <2>4, <2>5, <3>1
  <2>6. CASE v # w
    <3>1. PICK c : c = g.nodes[w.at].canonical
      OBVIOUS
    <3>2. g.nodes[w.at].merged /\ c \notin w.seen /\ v = [at |-> c, seen |-> w.seen \cup {c}]
      BY <2>3, <2>6, <3>1 DEF Onward
    <3>3. c \in all /\ v.at = c /\ v.seen = w.seen \cup {c}
      BY <1>2, <2>4, <3>1, <3>2
    <3>4. Cardinality(w.seen) = n - 1
      <4>1. CASE n - 1 # 0 /\ f[n - 1] = f[(n - 1) - 1]
        <5>1. n - 1 \in 1 .. size + 1
          BY <4>1
        <5>2. f[n - 1] = Onward(g, f[(n - 1) - 1])
          BY <1>3, <5>1
        <5>3. v = w
          BY <2>1, <2>3, <4>1, <5>2
        <5> QED
          BY <2>6, <5>3
      <4>2. CASE Cardinality(f[n - 1].seen) = n - 1
        BY <2>1, <4>2
      <4> QED
        BY <1>5, <4>1, <4>2
    <3>5. Cardinality(v.seen) = n
      <4>1. IsFiniteSet(w.seen)
        BY <1>2, <2>4, FS_Subset
      <4>2. Cardinality(w.seen \cup {c}) = Cardinality(w.seen) + 1
        BY <3>2, <4>1, FS_AddElement
      <4> QED
        BY <3>3, <3>4, <4>2
    <3>6. f[n].at \in all /\ f[n].seen \subseteq all /\ Cardinality(f[n].seen) = n
      BY <2>2, <2>4, <3>3, <3>5
    <3> QED
      BY <3>6
  <2> QED
    BY <2>5, <2>6
<1>6. size + 1 \in S
  <2>1. size + 1 \in Nat
    OBVIOUS
  <2>3. \A n \in 1 .. size + 1 : n - 1 \in S => n \in S
    BY <1>5
  <2> HIDE DEF S
  <2>2. \A n \in 0 .. size + 1 : n \in S
    BY <1>4, <2>1, <2>3, HandedOn
  <2> QED
    BY <2>1, <2>2
<1>7. Cardinality(f[size + 1].seen) # size + 1
  <2>1. Cardinality(f[size + 1].seen) <= Cardinality(all)
    BY <1>2, <1>6, FS_Subset
  <2> QED
    BY <1>2, <2>1
<1> QED
  BY <1>6, <1>7

(* A walk comes back to its start from a merged node only, and stays.      *)
Round(g, id, w) ==
    /\ w.seen = {} => w.at = id
    /\ w.seen # {} => g.nodes[id].merged /\ g.nodes[id].canonical \in w.seen
    /\ id \in w.seen => w.at = id

(* Wherever the walk is.                                                   *)
LEMMA WalkGoesRound ==
    ASSUME NEW g, NEW id, NEW N \in Nat, NEW f, Walking(g, id, N, f), NEW n \in 0 .. N
    PROVE  /\ Round(g, id, f[n])
           /\ \A m \in 0 .. n : f[m].seen \subseteq f[n].seen
<1>1. /\ f[0] = Outset(id)
      /\ \A k \in 1 .. N : f[k] = Onward(g, f[k - 1])
  BY WalkingSteps
<1> DEFINE S == {k \in 0 .. N : Round(g, id, f[k]) /\ \A m \in 0 .. k : f[m].seen \subseteq f[k].seen}
<1>2. 0 \in S
  <2>1. f[0].at = id /\ f[0].seen = {}
    BY <1>1 DEF Outset
  <2> QED
    BY <2>1 DEF Round
<1>3. ASSUME NEW k \in 1 .. N, k - 1 \in S PROVE k \in S
  <2>1. PICK w : w = f[k - 1]
    OBVIOUS
  <2>2. PICK v : v = f[k]
    OBVIOUS
  <2>3. v = Onward(g, w) /\ Round(g, id, w)
    BY <1>1, <1>3, <2>1, <2>2
  <2>4. Round(g, id, v) /\ w.seen \subseteq v.seen
    <3>1. CASE v = w
      BY <2>3, <3>1
    <3>2. CASE v # w
      <4>1. PICK c : c = g.nodes[w.at].canonical
        OBVIOUS
      <4>2. g.nodes[w.at].merged /\ c \notin w.seen /\ v = [at |-> c, seen |-> w.seen \cup {c}]
        BY <2>3, <3>2, <4>1 DEF Onward
      <4>3. v.at = c /\ v.seen = w.seen \cup {c}
        BY <4>2
      <4>4. CASE w.seen = {}
        BY <2>3, <4>1, <4>2, <4>3, <4>4 DEF Round
      <4>5. CASE w.seen # {}
        BY <2>3, <4>1, <4>2, <4>3, <4>5 DEF Round
      <4> QED
        BY <4>4, <4>5
    <3> QED
      BY <3>1, <3>2
  <2>5. ASSUME NEW m \in 0 .. k PROVE f[m].seen \subseteq f[k].seen
    <3>1. CASE m = k
      BY <3>1
    <3>2. CASE m \in 0 .. k - 1
      <4>1. f[m].seen \subseteq f[k - 1].seen
        BY <1>3, <3>2
      <4> QED
        BY <2>1, <2>2, <2>4, <4>1
    <3> QED
      BY <3>1, <3>2
  <2> QED
    BY <2>2, <2>4, <2>5
<1> HIDE DEF S
<1>4. \A k \in 0 .. N : k \in S
  BY <1>2, <1>3, HandedOn
<1>5. n \in S
  BY <1>4
<1> QED
  BY <1>5 DEF S

(* The walk from a merged node is the one from its canonical, a step late, *)
(* if that does not end in a circle.                                       *)
LEMMA SeenAsOne ==
    ASSUME NEW g, LeadsOn(g), NEW id \in DOMAIN g.nodes, g.nodes[id].merged,
           NEW b, b = g.nodes[id].canonical, ~ g.nodes[CanonicalOf(g, b)].merged
    PROVE  CanonicalOf(g, id) = CanonicalOf(g, b)
<1>1. PICK size \in Nat : size = Cardinality(DOMAIN g.nodes)
  BY FS_CardinalityType DEF LeadsOn
<1>2. b \in DOMAIN g.nodes
  BY DEF LeadsOn
<1>3. PICK f : Walking(g, b, size + 1, f) /\ CanonicalOf(g, b) = f[size + 1].at
  BY <1>1, CanonicalIsWalked
<1>4. PICK h : Walking(g, id, size + 1, h) /\ CanonicalOf(g, id) = h[size + 1].at
  BY <1>1, CanonicalIsWalked
<1>5. f[size + 1] = f[size]
  BY <1>1, <1>2, <1>3, WalkEnds
<1>6. size + 1 \in Nat
  OBVIOUS
<1>7. /\ f[0] = Outset(b)
      /\ \A k \in 1 .. size + 1 : f[k] = Onward(g, f[k - 1])
  <2>1. PICK last \in Nat : last = size + 1
    OBVIOUS
  <2>2. Walking(g, b, last, f)
    BY <1>3, <2>1
  <2>3. /\ f[0] = Outset(b)
        /\ \A k \in 1 .. last : f[k] = Onward(g, f[k - 1])
    BY <2>2, WalkingSteps
  <2> QED
    BY <2>1, <2>3
<1>8. /\ h[0] = Outset(id)
      /\ \A k \in 1 .. size + 1 : h[k] = Onward(g, h[k - 1])
  BY <1>4, <1>6, WalkingSteps
<1>9. b \notin f[size + 1].seen
  <2>1. size + 1 \in 0 .. size + 1
    OBVIOUS
  <2>2. Round(g, b, f[size + 1])
    BY <1>3, <1>6, <2>1, WalkGoesRound
  <2> QED
    BY <1>3, <2>2 DEF Round
<1>10. ASSUME NEW n \in 0 .. size PROVE b \notin f[n].seen
  <2>1. size + 1 \in 0 .. size + 1 /\ n \in 0 .. size + 1
    OBVIOUS
  <2>2. \A m \in 0 .. size + 1 : f[m].seen \subseteq f[size + 1].seen
    BY <1>3, <1>6, <2>1, WalkGoesRound
  <2> QED
    BY <1>9, <2>1, <2>2
<1> DEFINE Q == {n \in 0 .. size : h[n + 1].at = f[n].at /\ h[n + 1].seen = f[n].seen \cup {b}}
<1>11. 0 \in Q
  <2>1. h[1] = Onward(g, h[0])
    BY <1>8
  <2>2. h[0].at = id /\ h[0].seen = {} /\ HasNode(g, id)
    BY <1>8 DEF HasNode, Outset
  <2>3. h[1] = [at |-> b, seen |-> {} \cup {b}]
    BY <2>1, <2>2 DEF Onward
  <2>4. f[0].at = b /\ f[0].seen = {}
    BY <1>7 DEF Outset
  <2> QED
    BY <2>3, <2>4
<1>12. ASSUME NEW n \in 1 .. size, n - 1 \in Q PROVE n \in Q
  <2>1. PICK w : w = f[n - 1]
    OBVIOUS
  <2>2. PICK v : v = f[n]
    OBVIOUS
  <2>3. PICK a : a = h[n]
    OBVIOUS
  <2>4. PICK d : d = h[n + 1]
    OBVIOUS
  <2>5. v = Onward(g, w)
    BY <1>7, <2>1, <2>2
  <2>6. d = Onward(g, a)
    <3>1. n + 1 \in 1 .. size + 1 /\ (n + 1) - 1 = n
      OBVIOUS
    <3> QED
      BY <1>8, <2>3, <2>4, <3>1
  <2>7. a.at = w.at /\ a.seen = w.seen \cup {b}
    <3>1. (n - 1) + 1 = n
      OBVIOUS
    <3> QED
      BY <1>12, <2>1, <2>3, <3>1
  <2>8. b \notin v.seen
    BY <1>10, <2>2
  <2>9. PICK c : c = g.nodes[w.at].canonical
    OBVIOUS
  <2>10. CASE ~ HasNode(g, w.at) \/ ~ g.nodes[w.at].merged \/ c \in w.seen
    <3>1. v = w
      BY <2>5, <2>9, <2>10 DEF Onward
    <3>2. d = a
      BY <2>6, <2>7, <2>9, <2>10 DEF Onward
    <3>3. h[n + 1].at = f[n].at /\ h[n + 1].seen = f[n].seen \cup {b}
      BY <2>2, <2>4, <2>7, <3>1, <3>2
    <3> QED
      BY <3>3
  <2>11. CASE HasNode(g, w.at) /\ g.nodes[w.at].merged /\ c \notin w.seen
    <3>1. v = [at |-> c, seen |-> w.seen \cup {c}]
      BY <2>5, <2>9, <2>11 DEF Onward
    <3>2. c # b
      BY <2>8, <3>1
    <3>3. d = [at |-> c, seen |-> a.seen \cup {c}]
      BY <2>6, <2>7, <2>9, <2>11, <3>2 DEF Onward
    <3>4. d.at = v.at /\ d.seen = v.seen \cup {b}
      BY <2>7, <3>1, <3>3
    <3>5. h[n + 1].at = f[n].at /\ h[n + 1].seen = f[n].seen \cup {b}
      BY <2>2, <2>4, <3>4
    <3> QED
      BY <3>5
  <2> QED
    BY <2>10, <2>11
<1>13. size \in Q
  <2> HIDE DEF Q
  <2>1. \A n \in 0 .. size : n \in Q
    BY <1>11, <1>12, HandedOn
  <2> QED
    BY <2>1
<1> QED
  BY <1>3, <1>4, <1>5, <1>13

(* A node stays, and merges lead to nodes.                                 *)
LEMMA NodesStay ==
    ASSUME NEW rows, Told(rows), NEW n \in 0 .. Len(rows), NEW m \in 0 .. n
    PROVE  DOMAIN After(EmptyGraph, rows, m).nodes \subseteq DOMAIN After(EmptyGraph, rows, n).nodes
<1>1. Len(rows) \in Nat
  BY DEF Told
<1> DEFINE Ever(k) == DOMAIN After(EmptyGraph, rows, k).nodes
           S == {k \in 0 .. Len(rows) : \A j \in 0 .. k : Ever(j) \subseteq Ever(k)}
<1>2. 0 \in S
  BY <1>1
<1>3. ASSUME NEW k \in 1 .. Len(rows), k - 1 \in S PROVE k \in S
  <2>1. Ever(k - 1) \subseteq Ever(k)
    <3>1. PICK g : g = After(EmptyGraph, rows, k - 1)
      OBVIOUS
    <3>2. PICK h : h = After(EmptyGraph, rows, k)
      OBVIOUS
    <3>3. Steps(g, rows[k], h)
      BY <3>1, <3>2, ToldEach
    <3> QED
      BY <3>1, <3>2, <3>3 DEF Steps, NodesDone
  <2> HIDE DEF Ever
  <2>2. ASSUME NEW j \in 0 .. k PROVE Ever(j) \subseteq Ever(k)
    <3>1. CASE j = k
      BY <3>1
    <3>2. CASE j \in 0 .. k - 1
      BY <1>3, <2>1, <3>2
    <3> QED
      BY <3>1, <3>2
  <2> QED
    BY <2>2
<1> HIDE DEF S
<1>4. \A k \in 0 .. Len(rows) : k \in S
  BY <1>1, <1>2, <1>3, HandedOn
<1>5. n \in S
  BY <1>4
<1> QED
  BY <1>5 DEF S

(* The canonical of a merged node is a node.                               *)
LEMMA MergesLeadOn ==
    ASSUME NEW rows, Told(rows), NEW g, g = Replay(rows)
    PROVE  LeadsOn(g)
<1>1. rows \in Seq(Events) /\ Len(rows) \in Nat
  BY DEF Told
<1>2. g = After(EmptyGraph, rows, Len(rows)) /\ Len(rows) \in 0 .. Len(rows)
  BY <1>1, AppliedOneByOne DEF Replay
<1>3. ToldAt(rows, Len(rows), g)
  BY <1>2, ToldAtAll
<1>4. IsFiniteSet(DOMAIN g.nodes) /\ ShowsMerges(g, UpTo(rows, Len(rows)))
  BY <1>3 DEF ToldAt
<1>5. ASSUME NEW id \in DOMAIN g.nodes, g.nodes[id].merged
      PROVE  g.nodes[id].canonical \in DOMAIN g.nodes
  <2>1. PICK e \in UpTo(rows, Len(rows)) : Marks(e, id) /\ g.nodes[id].canonical = e.object
    BY <1>4, <1>5 DEF ShowsMerges, NodeShows
  <2>2. PICK k \in 1 .. Len(rows) : e = rows[k]
    BY DEF UpTo
  <2>3. PICK f : f = After(EmptyGraph, rows, k - 1)
    OBVIOUS
  <2>4. Ready(f.nodes, e)
    BY <2>2, <2>3 DEF Told, Meets
  <2>5. e.object \in DOMAIN f.nodes
    BY <2>1, <2>4 DEF Ready, NeedsOf, Marks
  <2>6. k - 1 \in 0 .. Len(rows)
    BY <1>1
  <2>7. DOMAIN f.nodes \subseteq DOMAIN g.nodes
    BY <1>2, <2>3, <2>6, NodesStay
  <2> QED
    BY <2>1, <2>5, <2>7
<1> QED
  BY <1>4, <1>5 DEF LeadsOn

(* A merge that stands is seen.                                            *)
LEMMA MergesShowThrough ==
    ASSUME Told(AllMutations), NEW id \in DOMAIN Current.nodes,
           NEW x \in ToSet(MergesOf(Current, id)), MergedInto(id) = {x.to},
           ~ Current.nodes[CanonicalOf(Current, x.to)].merged
    PROVE  EquivalenceClass(Current, id) = EquivalenceClass(Current, x.to)
<1>1. PICK rows \in Seq(Events) : rows = AllMutations
  BY DEF Told
<1>2. PICK all : all = UpTo(rows, Len(rows))
  OBVIOUS
<1>3. PICK g : g = Current
  OBVIOUS
<1>4. g = Replay(rows) /\ Told(rows)
  BY <1>1, <1>3 DEF Current
<1>5. ToldAt(rows, Len(rows), g)
  <2>1. g = After(EmptyGraph, rows, Len(rows))
    BY <1>1, <1>4, AppliedOneByOne DEF Replay
  <2> QED
    BY <1>1, <1>4, <2>1, ToldAtAll
<1>6. GraphIsTyped(g) /\ ShowsMerges(g, all)
  BY <1>2, <1>5 DEF ToldAt, Made
<1>7. SameAsFrom(ToSet(g.edges), id) # {}
  BY <1>3, <1>6, MergesBySet
<1>8. g.nodes[id].merged
  BY <1>3, <1>6, <1>7 DEF ShowsMerges, NodeShows
<1>9. PICK e \in all : Marks(e, id) /\ g.nodes[id].canonical = e.object
  BY <1>3, <1>6, <1>8 DEF ShowsMerges, NodeShows
<1>10. MergedInto(id) = {f.object : f \in {f \in all : Marks(f, id)}}
  BY <1>1, <1>2, MergedIntoOnes
<1>11. g.nodes[id].canonical = x.to
  BY <1>9, <1>10
<1>12. LeadsOn(g)
  BY <1>4, MergesLeadOn
<1>13. CanonicalOf(g, id) = CanonicalOf(g, x.to)
  BY <1>3, <1>8, <1>11, <1>12, SeenAsOne
<1> QED
  BY <1>3, <1>13 DEF EquivalenceClass

(* Merges can be taken back and show while they stand.                     *)
LEMMA ToldRestores ==
    LedgerInv /\ KeptInv /\ ChosenInv => RollbackRestores
<1> SUFFICES ASSUME LedgerInv, KeptInv, ChosenInv PROVE RollbackRestores
  OBVIOUS
<1>1. Told(AllMutations)
  BY MutationsAreTold
<1>2. UnmergeRestores(Current)
  BY <1>1, UnmergesRestore
<1>3. AuditRestores(Current)
  <2>1. \A e \in ToSet(AllMutations) : e.key # <<"unmerge", 0>>
    <3>1. log \in Seq(Rows) /\ EditorRows(log, edited)
      BY DEF KeptInv, LedgerInv, StateIsTyped
    <3>2. ToSet(AllMutations) = Seen
      BY <3>1, SeenEvents
    <3> QED
      BY <3>1, <3>2, NoEditIsZero
  <2>2. ASSUME NEW id \in DOMAIN Current.nodes, NEW x \in ToSet(MergesOf(Current, id)),
               NEW merges, merges = {e \in EventsWith("merge_entity") : e.ref = x.ref}
        PROVE  NoTraceOf({Ends(x)}, AuditRollback(Current, id, x.ref), Without(merges))
    BY <1>1, <2>1, <2>2, RollbackRestoresOne
  <2> QED
    BY <2>2 DEF AuditRestores
<1>4. MergesAreSeen(Current)
  BY <1>1, MergesShowThrough, MarksFade DEF MergesAreSeen
<1> QED
  BY <1>2, <1>3, <1>4 DEF RollbackRestores

(* At any time merges can be taken back and show while they stand: an      *)
(* unmerge, and a rollback of an audited merge, leave the graph of the log *)
(* without the merge, and merged nodes are seen as one entity.             *)
THEOREM RollbackHolds == Spec => []RollbackRestores
<1>1. Spec => [](LedgerInv /\ KeptInv /\ ChosenInv)
  BY ChosenInvariance, PTL
<1> QED
  BY <1>1, ToldRestores, PTL

===============================================================================
