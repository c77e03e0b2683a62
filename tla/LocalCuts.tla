------------------------------- MODULE LocalCuts -------------------------------
(***************************************************************************)
(* enumerate_local_cuts: the cuts of a node from those of its children.     *)
(* A local cut has the nodes of the cut, the smallest level among them and  *)
(* the nodes between cut and node.  Of a cut and a cut it contains one is   *)
(* kept: the smaller one for XMGs, the larger one for AIGs and MIGs.        *)
(***************************************************************************)
EXTENDS Integers, Sequences, FiniteSets

SeqExt == INSTANCE SequencesExt

Unlevelled == 1000      \* numeric_limits<unsigned>::max(): the level of the empty cut

(* a is the one of a and b that is kept. *)
Subsumes(a, b, smaller) == IF smaller THEN a \subseteq b ELSE b \subseteq a

Back(s) == s[Len(s)]

(* One iteration of the loop over the cuts found before.  A cut that new      *)
(* subsumes is overwritten by new, the first time, or by the last one, which   *)
(* is not looked at again.                                                  *)
Overwritten(s, new) ==
    IF s.first THEN [s.cuts EXCEPT ![s.l] = new]
    ELSE SeqExt!Front([s.cuts EXCEPT ![s.l] = Back(s.cuts)])

CompareAt(s, new, smaller) ==
    IF s.stopped \/ s.l > Len(s.cuts) THEN s
    ELSE IF Subsumes(s.cuts[s.l].cut, new.cut, smaller)
    THEN [s EXCEPT !.add = FALSE, !.stopped = TRUE]
    ELSE IF Subsumes(new.cut, s.cuts[s.l].cut, smaller)
    THEN [s EXCEPT !.cuts = Overwritten(s, new), !.l = @ + 1, !.first = FALSE, !.add = FALSE]
    ELSE [s EXCEPT !.l = @ + 1]

Compared(cuts, new, smaller) ==
    SeqExt!FoldLeft(LAMBDA s, i : CompareAt(s, new, smaller),
                    [cuts |-> cuts, l |-> 1, first |-> TRUE, add |-> TRUE, stopped |-> FALSE],
                    cuts)

(* Mutant: the cuts that new subsumes go, but new does not take their place. *)
MergeCutForgetful(cuts, new, k, smaller) ==
    LET others == SelectSeq(cuts, LAMBDA c : ~Subsumes(new.cut, c.cut, smaller))
    IN  IF Cardinality(new.cut) > k \/ others # cuts THEN others ELSE Append(cuts, new)

MergeCut(cuts, new, k, smaller) ==
    IF Cardinality(new.cut) > k THEN cuts
    ELSE LET s == Compared(cuts, new, smaller)
         IN  IF s.add THEN Append(s.cuts, new) ELSE s.cuts

(* The choices of one cut per child, in the order of the nested loops.        *)
Extended(choices, list) ==
    SeqExt!FlattenSeq([i \in DOMAIN choices |->
                          [j \in DOMAIN list |-> Append(choices[i], list[j])]])

Combinations(lists) ==
    SeqExt!FoldLeft(LAMBDA choices, list : Extended(choices, list), <<<<>>>>, lists)

(* Mutant: the cut of the last child is forgotten. *)
JoinedShort(choice, level_of) ==
    LET cut == UNION {choice[i].cut : i \in 1..Len(choice) - 1}
    IN  [cut |-> cut, level |-> SeqExt!Min({level_of[n] : n \in cut} \cup {Unlevelled}),
         cone |-> cut]

(* Mutant: the cone is that of the first child. *)
JoinedOneCone(choice, level_of) ==
    LET cut == UNION {choice[i].cut : i \in DOMAIN choice}
    IN  [cut |-> cut, level |-> SeqExt!Min({level_of[n] : n \in cut} \cup {Unlevelled}),
         cone |-> choice[1].cone]

(* Mutant: the largest level of the nodes. *)
JoinedHigh(choice, level_of) ==
    LET cut == UNION {choice[i].cut : i \in DOMAIN choice}
    IN  [cut |-> cut, level |-> SeqExt!Max({level_of[n] : n \in cut} \cup {0}),
         cone |-> UNION {choice[i].cone : i \in DOMAIN choice}]

(* Children's cuts joined; level_of has the levels of the nodes.            *)
Joined(choice, level_of) ==
    LET cut == UNION {choice[i].cut : i \in DOMAIN choice}
    IN  [cut |-> cut,
         level |-> SeqExt!Min({level_of[n] : n \in cut} \cup {Unlevelled}),
         cone |-> UNION {choice[i].cone : i \in DOMAIN choice}]

(* Higher cuts first, then smaller ones first.  boost::sort keeps the order of  *)
(* equal elements for up to 16 of them.                                     *)
Before(a, b) ==
    a.level > b.level \/ (a.level = b.level /\ Cardinality(a.cut) < Cardinality(b.cut))

Placed(s, c) ==
    SeqExt!InsertAt(s, Cardinality({i \in DOMAIN s : ~Before(c, s[i])}) + 1, c)

Ordered(cuts) ==
    SeqExt!FoldLeft(LAMBDA s, c : Placed(s, c), <<>>, cuts)

Merged(lists, k, smaller, level_of) ==
    SeqExt!FoldLeft(LAMBDA cuts, choice : MergeCut(cuts, Joined(choice, level_of), k, smaller),
                    <<>>, Combinations(lists))

(* enumerate_local_cuts for the cuts of the children, at most priority of them. *)
LocalCutsOf(lists, k, priority, smaller, level_of) ==
    LET cuts == Ordered(Merged(lists, k, smaller, level_of))
    IN  SubSeq(cuts, 1, SeqExt!Min({priority, Len(cuts)}))
===============================================================================
