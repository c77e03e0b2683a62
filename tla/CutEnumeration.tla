---------------------------- MODULE CutEnumeration ----------------------------
(***************************************************************************)
(* enumerate and enumerate_partial of paged_aig_cuts, mig_cuts_paged and     *)
(* xmg_cuts_paged: node after node its cuts and, for MIGs and XMGs, its cut  *)
(* cones.  Nodes are numbered so that children come first, in which order    *)
(* topological_sort lists them; 0 is the constant.                          *)
(***************************************************************************)
EXTENDS PagedMemory, LocalCuts

SetExt == INSTANCE FiniteSetsExt

VARIABLES
    graph,      \* kind, children of every node, k, priority, boundary, levels
    data,       \* the cuts
    cones,      \* their cones
    work        \* todo: the nodes in order; for a partial enumeration the
                \* stack and the colors of the traversal, and the leafs left

enumerationVars == <<graph, data, cones, work>>

Children(n) == graph.children[n]
Vertices == DOMAIN graph.children
Gates == {n \in Vertices : Children(n) # <<>>}
Parents(children, n) ==
    {p \in DOMAIN children : \E i \in DOMAIN children[p] : children[p][i] = n}

(* The level of a gate is one more than the highest one of its children.     *)
Levels(children) ==
    LET level[n \in DOMAIN children] ==
            IF children[n] = <<>> THEN 0
            ELSE 1 + SetExt!Max({level[children[n][i]] : i \in DOMAIN children[n]})
    IN  level

(* compute_level_ranges: the level and the last level before the first parent; *)
(* paged_aig_cuts has the level only.                                        *)
LevelRanges(kind, children) ==
    LET level == Levels(children)
        max_level == SetExt!Max({level[n] : n \in DOMAIN children})
    IN  [n \in DOMAIN children |->
            <<level[n],
              IF kind = "aig" THEN level[n]
              ELSE IF Parents(children, n) = {} THEN max_level
              ELSE SetExt!Min({level[p] : p \in Parents(children, n)}) - 1>>]

LatestLevels == [n \in Vertices |-> graph.levels[n][2]]
HasCones == graph.kind # "aig"
ExtraOf(depth, size) == IF HasCones THEN <<depth, size>> ELSE <<>>

Start(kind, children, k, priority, boundary) ==
    /\ graph = [kind |-> kind, children |-> children, k |-> k, priority |-> priority,
                boundary |-> boundary, levels |-> LevelRanges(kind, children)]
    /\ data = Memory(Cardinality(DOMAIN children), IF kind = "aig" THEN 0 ELSE 2)
    /\ cones = Memory(Cardinality(DOMAIN children), 0)

StartAll(kind, children, k, priority) ==
    /\ Start(kind, children, k, priority, {})
    /\ work = [todo |-> Ascending(DOMAIN children), stack |-> <<>>,
               colors |-> [n \in DOMAIN children |-> 2], leafs |-> <<>>]

(* enumerate_partial for start nodes, of which the last is on top of the stack, *)
(* and a boundary below them.                                               *)
StartPartial(kind, children, k, priority, start, boundary) ==
    /\ Start(kind, children, k, priority, boundary \cup {0})
    /\ work = [todo |-> <<>>, stack |-> SeqExt!Reverse(start),
               colors |-> [n \in DOMAIN children |-> IF n \in boundary \cup {0} THEN 2 ELSE 0],
               leafs |-> Ascending(boundary \cup {0})]

-------------------------------------------------------------------------------
(* The constant or an input: the first nodes, or those of the boundary.       *)
AssignLeaf(n) ==
    /\ data' = IF n = 0 THEN AssignEmpty(data, 0, ExtraOf(0, 0))
               ELSE AssignSingleton(data, n, n, ExtraOf(0, 1))
    /\ cones' = IF ~HasCones THEN cones
                ELSE IF n = 0 THEN AssignEmpty(cones, 0, <<>>)
                ELSE AssignSingleton(cones, n, n, <<>>)

(* The cuts of a node with their cones, as boost::combine pairs them.        *)
CutsOf(n) ==
    [i \in 1..data.count[n] |->
        [cut |-> SetsOf(data, n)[i],
         cone |-> IF HasCones THEN SetsOf(cones, n)[i] ELSE {}]]

(* enumerate_node_with_bitsets between append_begin and append_singleton.     *)
AppendLocal(m, n, sets) ==
    AppendSingleton(
        SeqExt!FoldLeft(LAMBDA mm, s : AppendSet(mm, n, Ascending(s.elements), s.extra),
                 AppendBegin(m, n), sets),
        n, n, IF m.additional = 0 THEN <<>> ELSE <<0, 1>>)

Depth(n, c) == graph.levels[n][1] - c.level

LocalCutsAt(n) ==
    LocalCutsOf([i \in DOMAIN Children(n) |-> CutsOf(Children(n)[i])],
                graph.k, graph.priority, graph.kind = "xmg", LatestLevels)

EnumerateNode(n) ==
    \E cuts \in {LocalCutsAt(n)} :
        /\ data' = AppendLocal(data, n, [i \in DOMAIN cuts |->
                [elements |-> cuts[i].cut,
                 extra |-> ExtraOf(Depth(n, cuts[i]), Cardinality(cuts[i].cone \cup {n}))]])
        /\ cones' = IF ~HasCones THEN cones
                    ELSE AppendLocal(cones, n, [i \in DOMAIN cuts |->
                            [elements |-> cuts[i].cone \cup {n}, extra |-> <<>>]])

-------------------------------------------------------------------------------
AssignBoundary ==
    /\ work.leafs # <<>>
    /\ AssignLeaf(Head(work.leafs))
    /\ work' = [work EXCEPT !.leafs = Tail(@)]
    /\ UNCHANGED graph

(* The traversal from the start, in post-order: 0 is a new node, 1 one whose    *)
(* children are on the stack, 2 one that is finished.                        *)
Visit ==
    /\ work.leafs = <<>> /\ work.stack # <<>>
    /\ LET n == Head(work.stack)
       IN  work' =
            CASE work.colors[n] = 0 ->
                    [work EXCEPT !.colors[n] = 1, !.stack = Children(n) \o @]
              [] work.colors[n] = 1 ->
                    [work EXCEPT !.colors[n] = 2, !.todo = Append(@, n), !.stack = Tail(@)]
              [] work.colors[n] = 2 -> [work EXCEPT !.stack = Tail(@)]
    /\ UNCHANGED <<graph, data, cones>>

EnumerateNext ==
    /\ work.leafs = <<>> /\ work.stack = <<>> /\ work.todo # <<>>
    /\ LET n == Head(work.todo)
       IN  IF n \in Gates THEN EnumerateNode(n) ELSE AssignLeaf(n)
    /\ work' = [work EXCEPT !.todo = Tail(@)]
    /\ UNCHANGED graph

Enumerate == AssignBoundary \/ Visit \/ EnumerateNext

(* Any graph; for a partial enumeration any start nodes and boundary.        *)
EnumerationInit ==
    \E top, k, priority \in Nat, kind \in {"aig", "mig", "xmg"} :
        \E children \in [0..top -> Seq(0..top)] :
            /\ children[0] = <<>>
            /\ \A n \in 0..top : \A i \in DOMAIN children[n] : children[n][i] < n
            /\ \/ StartAll(kind, children, k, priority)
               \/ \E start \in Seq(0..top), boundary \in SUBSET (0..top) :
                    StartPartial(kind, children, k, priority, start, boundary)

EnumerationSpec == EnumerationInit /\ [][Enumerate]_enumerationVars

-------------------------------------------------------------------------------
(* A set of nodes cuts a node off from the inputs.                           *)
IsCut(n, cut) ==
    LET covered[m \in Vertices] ==
            m \in cut \cup {0} \/ (m \in Gates /\ \A i \in DOMAIN Children(m) : covered[Children(m)[i]])
    IN  covered[n]

(* The nodes whose cuts are there. *)
Finished == {n \in Vertices : data.count[n] > 0}

(* Every set stored for a node is a cut of it and small enough, and the last   *)
(* one is the node itself.                                                  *)
CutsAreCuts ==
    \A n \in Finished :
        LET cuts == SetsOf(data, n)
        IN  /\ \A i \in DOMAIN cuts : /\ IsCut(n, cuts[i])
                                      /\ Cardinality(cuts[i]) <= Larger(graph.k, 1)
            /\ n # 0 => cuts[Len(cuts)] = {n}
            /\ Len(cuts) <= graph.priority + 1

(* The cone stored with a cut is closed: a node of it that is not in the cut   *)
(* has its children there.  Its size is stored with the cut.                 *)
ConesFitCuts ==
    HasCones => \A n \in Finished : \A i \in 1..data.count[n] :
        LET cut == SetsOf(data, n)[i]
            cone == SetsOf(cones, n)[i]
        IN  /\ \A m \in cone \ cut : \A j \in DOMAIN Children(m) : Children(m)[j] \in cone \cup {0}
            /\ n # 0 => n \in cone
            /\ Extra(data, Addresses(data, n)[i], 1) = Cardinality(cone)

(* The longest path from a cut to the node. *)
PathLength(n, cut) ==
    LET length[m \in Vertices] ==
            IF m \in cut \cup {0} \/ m \notin Gates THEN 0
            ELSE 1 + SetExt!Max({length[Children(m)[i]] : i \in DOMAIN Children(m)})
    IN  length[n]

(* The depth stored with a cut is not less than the paths are long: it is a    *)
(* difference of unsigned levels and never wraps around.                     *)
DepthsAreBounds ==
    HasCones => \A n \in Finished : \A i \in 1..data.count[n] :
        PathLength(n, SetsOf(data, n)[i]) <= Extra(data, Addresses(data, n)[i], 0)

(* No cut is lost but by priority: each union of cuts of the children that is  *)
(* small enough is subsumed by a cut of the node.                            *)
NothingIsLost ==
    \A n \in (Finished \cap Gates) \ graph.boundary :
        LET cuts == SetsOf(data, n)
            smaller == graph.kind = "xmg"
        IN  Len(cuts) <= graph.priority =>
                \A choice \in {Combinations([i \in DOMAIN Children(n) |-> CutsOf(Children(n)[i])])} :
                    \A c \in DOMAIN choice :
                        LET union == UNION {choice[c][i].cut : i \in DOMAIN choice[c]}
                        IN  Cardinality(union) <= graph.k =>
                                \E i \in DOMAIN cuts : Subsumes(cuts[i], union, smaller)
===============================================================================
