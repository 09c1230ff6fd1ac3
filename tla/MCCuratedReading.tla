----------------------------- MODULE MCCuratedReading -----------------------------
(***************************************************************************)
(* A bounded instance of CuratedReading for TLC.                           *)
(***************************************************************************)
EXTENDS CuratedReading

Found(word, type, from, ids) ==
    [word |-> word, type |-> type, from |-> from, to |-> from + 2, ids |-> ids]

Rule(predicate, from, to, text) ==
    [predicate |-> predicate, from |-> from, to |-> to, text |-> text]

(* Three documents about TSM: the third repeats the first with a sentence  *)
(* of its own, and calls NVDA by another name.  Its first claim comes      *)
(* between those of the others, which overlap; its last is the second's.   *)
Corpus == <<
    [found |-> {Found(4, "Organization", 0, {"TSM"}), Found(2, "Organization", 5, {"NVDA"})},
     segments |-> <<[words |-> {4, 2}, rules |-> <<Rule("supplies", 2, 5, 1), Rule("supplies", 3, 5, 2)>>]>>,
     sentences |-> <<1>>, long |-> TRUE, published |-> 1, trust |-> 1],
    [found |-> {Found(4, "Organization", 0, {"TSM"}), Found(3, "Technology", 5, {})},
     segments |-> <<[words |-> {4, 3}, rules |-> <<Rule("supplies", 4, 6, 5)>>],
                    [words |-> {4}, rules |-> <<Rule("announces", 4, 6, 4)>>]>>,
     sentences |-> <<2>>, long |-> FALSE, published |-> 0, trust |-> 0],
    [found |-> {Found(4, "Organization", 0, {"TSM"}), Found(2, "Organization", 5, {"NVDA"}),
                Found(1, "Organization", 9, {"NVDA"}), Found(2, "Organization", 8, {"NVDA"})},
     segments |-> <<[words |-> {4, 2}, rules |-> <<Rule("supplies", 3, 4, 3)>>],
                    [words |-> {4}, rules |-> <<Rule("announces", 0, 2, 4)>>]>>,
     sentences |-> <<1, 3>>, long |-> TRUE, published |-> 2, trust |-> 2]>>

MCDocument == [d \in Docs |-> Corpus[d]]

MCNear == {<<1, 3>>, <<3, 1>>} \cap (Docs \X Docs)

Ask(words, tokens, mode) ==
    [subject |-> None, words |-> words, tokens |-> tokens, mode |-> mode]

(* "TSM and TSMC", and a word no document has; the subject itself.         *)
MCRequests ==
    {Ask(<<4>>, <<[word |-> 4, within |-> {4}], [word |-> 9, within |-> {}]>>, "deterministic"),
     Ask(<<4, 3>>, <<>>, "llm"),
     [subject |-> [type |-> "Organization", name |-> 4, ids |-> {"TSM"}],
      words |-> <<>>, tokens |-> <<>>, mode |-> "deterministic"]}

Said(modality, claim) == [modality |-> modality, about |-> "model", claim |-> claim]

(* No answer; a claim that may be in the evidence, another, and an opinion *)
(* that cites one.                                                         *)
MCOutputs == {<<>>, <<Said("asserted", 1), Said("opinion", 2), Said("asserted", 3)>>}

Draft(summary, refs) ==
    [summary |-> summary, sections |-> <<[key |-> "limitations", refs |-> refs]>>]

Answered(draft) == [fault |-> "none", draft |-> draft]

MCAnswers ==
    {[fault |-> "llm_unavailable", draft |-> Draft(<<>>, <<>>)],
     [fault |-> "llm_provider_error", draft |-> Draft(<<>>, <<>>)]}
    \cup {Answered(d) : d \in {Draft(<<>>, <<>>), Draft(<<1>>, <<1>>), Draft(<<2>>, <<1>>),
                               Draft(<<1>>, <<2>>), Draft(<<>>, <<7>>)}}

Pair(a, b, label) == [a |-> a, b |-> b, label |-> label]

(* A reviewer who changes his mind of what the first claim is to the next. *)
MCCorrections ==
    {[ref |-> 1, kind |-> "claim", pair |-> Pair(1, 2, label)] :
        label \in {"equivalent", "contradicts", "unrelated"}}

MCLineage == {Pair(1, 3, "dup") @@ [split |-> "test"]}

(* The second's ontology is a major after the first's, the third has none. *)
MCVersions == {[id |-> 1, ontology |-> 1], [id |-> 2, ontology |-> 2],
               [id |-> 3, ontology |-> None]}

(* Bounds.  An investigation is followed to its end while it meets the     *)
(* first and the third document and at most two deliveries, rebuilds and   *)
(* faults.  Promotions of versions are followed to the end of the last     *)
(* one, about the first two documents, at once or the second last, in at   *)
(* most two deliveries and faults, or up to the reset of a rebuild, while  *)
(* the zone's tables are written or at rest (what is written before them   *)
(* no promotion reads), with approval for the decisions that correct       *)
(* nothing and without assignments (they bar no decision).                 *)
Followed ==
    /\ investigations > 0 =>
        /\ normalized \cup owed \subseteq {1, 3}
        /\ deliveries + rebuilds + faults <= 2
    /\ reviewed + runs > 0 =>
        /\ IF rebuilds = 0
           THEN /\ normalized \cup owed = {1, 2}
                /\ deliveries + faults <= 2
                /\ deliveries = 2 => batch \subseteq {2}
           ELSE deliveries = 1 /\ faults = 0 /\ pc \in {"reset", "rebuild"} /\ stream = <<>>
        /\ \A ref \in DOMAIN reviews : reviews[ref].status \in {"pending", "approved", "corrected"}
        /\ pc \in {"idle", "commit", "reset", "rebuild"}

(* The investigation, or the last promotion, has come to its end.          *)
AtAnEnd == stage = "done" \/ (runs = MaxRuns /\ run = None)

FollowedSpec == Init /\ [][~ AtAnEnd /\ Next /\ Followed']_vars
===============================================================================
