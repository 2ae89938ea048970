-------------------------- MODULE GraphEdgesProofs --------------------------
(***************************************************************************)
(* What is proved of the edges of a Graph for every number of nodes and    *)
(* channels: the type invariant, that the edges name nodes that are there, *)
(* that direct edges never make a circle, that a change of them is always  *)
(* marked, and that they implement Connections.                            *)
(*                                                                         *)
(* The calls are compositions of a few operations on the fields of a       *)
(* Graph.  Each operation has one lemma, which says that it keeps the      *)
(* fields well formed (Sound) and what it changes; an action then follows  *)
(* from the lemmas of the operations that it is made of.                   *)
(*                                                                         *)
(* The second half is about what is heard.  How often an outlet is summed  *)
(* at a sink is a count over the edges behind it.  It is characterised     *)
(* first (Counts); then each operation has a lemma that says what becomes  *)
(* of the counts, and the calls follow as before.                          *)
(***************************************************************************)
EXTENDS GraphEdges, WellFoundedInduction, FiniteSetTheorems, TLAPS

-----------------------------------------------------------------------------
(***************************************************************************)
(* The invariant.                                                          *)
(***************************************************************************)
Fields == {"nodes", "math", "strong_dependent", "inputs", "params", "outputs", "pending",
           "recalculation_required"}

(* A math node has two inputs, a node of a feedback pair one. *)
Width(g, k) == IF k \in User THEN UserInputs ELSE IF k \in g.math THEN 2 ELSE 1

Shaped(g) ==
  /\ DOMAIN g = Fields
  /\ g.nodes \subseteq Key
  /\ g.pending \subseteq g.nodes
  /\ g.math \subseteq Own \cap g.nodes
  /\ DOMAIN g.inputs = Live(g)
  /\ DOMAIN g.params = Live(g)
  /\ \A k \in Live(g) : g.inputs[k] \in [1..Width(g, k) -> Edges]
  /\ \A k \in Live(g) : g.params[k] \in [Parameters -> Edges]
  /\ g.outputs \in [1..GraphOutputs -> Edges]
  /\ g.recalculation_required \in BOOLEAN

(* The nodes that the graph pushes are alone or in pairs. *)
Paired(g) ==
  /\ g.strong_dependent \in [Own -> Own]
  /\ \A k \in Own : LET d == g.strong_dependent[k]
                     IN  /\ g.strong_dependent[d] = k
                         /\ k \in g.pending <=> d \in g.pending
                         /\ k \notin g.nodes => d = k

(* What inputs and outputs read is there.  An edge to a parameter stays    *)
(* when its source goes, and a math node can inherit it: this holds while  *)
(* there are no edges to parameters.                                       *)
Linked(g) ==
  /\ \A k \in DOMAIN g.inputs : SourcesIn(g.inputs[k]) \subseteq Live(g)
  /\ SourcesIn(g.outputs) \subseteq Live(g)
  /\ \A k \in DOMAIN g.params : \A p \in Parameters : g.params[k][p] = NoEdge

Acyclic(inputs) ==
  \A S \in SUBSET DOMAIN inputs :
     S # {} => \E k \in S : SourcesIn(inputs[k]) \cap S = {}

Sound(g) == Shaped(g) /\ Paired(g)
Sane(g) == Linked(g) /\ Acyclic(g.inputs)

(* From g to h no request for an update is lost, and a change of the       *)
(* inputs makes one.                                                       *)
Marks(g, h) ==
  /\ g.recalculation_required => h.recalculation_required
  /\ h.inputs # g.inputs => h.recalculation_required

(* What an operation keeps. *)
Keeps(g, h) == Sound(h) /\ (Sane(g) => Sane(h)) /\ (Marks(g, h))

EdgesInv ==
  /\ Sound(graph)
  /\ calls \in CallSets
  /\ phase \in {"edit", "free_old", "panicked"}
  /\ keys \subseteq graph.nodes
  /\ phase = "edit" => keys = {}
  /\ sent_pending \subseteq graph.pending
  /\ unsent \subseteq {"inputs", "outputs", "params"}
  /\ phase # "panicked" /\ "inputs" \in unsent => graph.recalculation_required
  /\ "parameter" \notin calls => Sane(graph)

-----------------------------------------------------------------------------
(***************************************************************************)
(* Edges and rows of them.                                                 *)
(***************************************************************************)
LEMMA NamesApart == Graph \notin Key /\ "none" \notin Key
  BY KeysAssumption DEF Key, Graph

LEMMA NoEdgeFacts == NoEdge \in Edges /\ NoEdge.from \notin Key
  BY NamesApart DEF NoEdge, Edge, Edges

LEMMA EdgeTyped ==
  ASSUME NEW from \in Key \cup {Graph}, NEW c \in Nat, NEW b \in BOOLEAN
  PROVE  Edge(from, c, b) \in Edges /\ Edge(from, c, b).from = from
  BY DEF Edge, Edges

LEMMA UserEdgeTyped ==
  ASSUME NEW from \in Key \cup {Graph}, NEW c \in Nat
  PROVE  UserEdge(from, c) \in Edges /\ UserEdge(from, c).from = from
  BY DEF UserEdge, Edge, Edges

(* A source of a row is the source of one of its edges. *)
LEMMA SourceOfRow ==
  ASSUME NEW row, NEW k
  PROVE  k \in SourcesIn(row) <=> k \in Key /\ \E i \in DOMAIN row : row[i].from = k
  BY DEF SourcesIn

LEMMA EmptyRow ==
  ASSUME NEW D PROVE SourcesIn([i \in D |-> NoEdge]) = {}
  BY NoEdgeFacts DEF SourcesIn

-----------------------------------------------------------------------------
(***************************************************************************)
(* Circles.                                                                *)
(***************************************************************************)
(* Taking edges and nodes away makes no circle. *)
LEMMA FewerEdges ==
  ASSUME NEW inputs, NEW new, Acyclic(inputs), DOMAIN new \subseteq DOMAIN inputs,
         \A k \in DOMAIN new : SourcesIn(new[k]) \subseteq SourcesIn(inputs[k])
  PROVE  Acyclic(new)
  BY DEF Acyclic

(* Nor does a new node, which nothing reads yet. *)
LEMMA NodeAdded ==
  ASSUME NEW inputs, NEW new, NEW n, Acyclic(inputs),
         DOMAIN new = DOMAIN inputs \cup {n},
         \A k \in DOMAIN inputs \ {n} : SourcesIn(new[k]) \subseteq SourcesIn(inputs[k]),
         \A k \in DOMAIN new : n \notin SourcesIn(new[k])
  PROVE  Acyclic(new)
<1> SUFFICES ASSUME NEW S \in SUBSET DOMAIN new, S # {}
             PROVE  \E k \in S : SourcesIn(new[k]) \cap S = {}
  BY DEF Acyclic
<1> DEFINE T == S \ {n}
<1>1. CASE T = {}
  BY <1>1
<1>2. CASE T # {}
  <2>1. PICK k \in T : SourcesIn(inputs[k]) \cap T = {}
    BY <1>2 DEF Acyclic
  <2>2. SourcesIn(new[k]) \cap S = {}
    BY <2>1
  <2> QED BY <2>1, <2>2
<1> QED BY <1>1, <1>2

(* An edge into a set that is closed under sources makes none, if it comes *)
(* from a node outside.                                                    *)
LEMMA EdgeIntoClosed ==
  ASSUME NEW inputs, NEW new, NEW B, Acyclic(inputs),
         DOMAIN new = DOMAIN inputs,
         \A k \in DOMAIN inputs \cap B : SourcesIn(inputs[k]) \subseteq B,
         \A k \in DOMAIN inputs \cap B : SourcesIn(new[k]) \subseteq SourcesIn(inputs[k]),
         \A k \in DOMAIN inputs \ B : SourcesIn(new[k]) \subseteq SourcesIn(inputs[k]) \cup B
  PROVE  Acyclic(new)
<1> SUFFICES ASSUME NEW S \in SUBSET DOMAIN new, S # {}
             PROVE  \E k \in S : SourcesIn(new[k]) \cap S = {}
  BY DEF Acyclic
<1>1. CASE S \cap B = {}
  <2>1. PICK k \in S : SourcesIn(inputs[k]) \cap S = {}
    BY DEF Acyclic
  <2> QED BY <1>1, <2>1
<1>2. CASE S \cap B # {}
  <2>1. PICK k \in S \cap B : SourcesIn(inputs[k]) \cap (S \cap B) = {}
    BY <1>2 DEF Acyclic
  <2>2. SourcesIn(new[k]) \subseteq SourcesIn(inputs[k]) /\ SourcesIn(inputs[k]) \subseteq B
    BY <2>1
  <2>3. SourcesIn(new[k]) \cap S = {}
    BY <2>1, <2>2
  <2> QED BY <2>1, <2>3
<1> QED BY <1>1, <1>2

(* The same edge, summed with what m read before by a new node n. *)
LEMMA EdgeSummed ==
  ASSUME NEW inputs, NEW new, NEW n, NEW m, NEW B, Acyclic(inputs),
         n \notin DOMAIN inputs, m \in DOMAIN inputs,
         DOMAIN new = DOMAIN inputs \cup {n},
         \A k \in DOMAIN inputs : n \notin SourcesIn(inputs[k]),
         \A k \in DOMAIN inputs \cap B : SourcesIn(inputs[k]) \subseteq B,
         m \notin B, n \notin B,
         \A k \in DOMAIN inputs \ {m} : SourcesIn(new[k]) = SourcesIn(inputs[k]),
         SourcesIn(new[m]) \subseteq SourcesIn(inputs[m]) \cup {n},
         SourcesIn(new[n]) \subseteq SourcesIn(inputs[m]) \cup B
  PROVE  Acyclic(new)
<1> SUFFICES ASSUME NEW S \in SUBSET DOMAIN new, S # {}
             PROVE  \E k \in S : SourcesIn(new[k]) \cap S = {}
  BY DEF Acyclic
<1> DEFINE T == S \ {n}
<1>1. CASE n \notin S
  <2>1. PICK k \in S : SourcesIn(inputs[k]) \cap S = {}
    BY <1>1 DEF Acyclic
  <2> QED BY <1>1, <2>1
<1>2. CASE n \in S /\ S \cap B # {}
  <2> HIDE DEF T
  <2>0. S \cap B \in SUBSET DOMAIN inputs /\ S \cap B # {}
    BY <1>2
  <2>1. PICK k \in S \cap B : SourcesIn(inputs[k]) \cap (S \cap B) = {}
    BY <2>0 DEF Acyclic
  <2>2. SourcesIn(new[k]) = SourcesIn(inputs[k]) /\ SourcesIn(inputs[k]) \subseteq B
    BY <2>1
  <2>3. SourcesIn(new[k]) \cap S = {}
    BY <2>1, <2>2
  <2> QED BY <2>1, <2>3
<1>3. CASE n \in S /\ S \cap B = {} /\ T = {}
  <2>1. SourcesIn(new[n]) \cap S = {}
    BY <1>3
  <2> QED BY <1>3, <2>1
<1>4. CASE n \in S /\ S \cap B = {} /\ T # {}
  <2>1. PICK k \in T : SourcesIn(inputs[k]) \cap T = {}
    BY <1>4 DEF Acyclic
  <2>2. CASE k = m
    <3>1. SourcesIn(new[n]) \cap S = {}
      BY <1>4, <2>1, <2>2
    <3> QED BY <1>4, <3>1
  <2>3. CASE k # m
    <3>1. SourcesIn(new[k]) \cap S = {}
      BY <1>4, <2>1, <2>3
    <3> QED BY <2>1, <3>1
  <2> QED BY <2>2, <2>3
<1> QED BY <1>1, <1>2, <1>3, <1>4

(* A node that whatever read k reads one of the sources of k instead. *)
LEMMA NodeBypassed ==
  ASSUME NEW inputs, NEW new, NEW k, NEW h, Acyclic(inputs), k \in DOMAIN inputs,
         DOMAIN new = DOMAIN inputs,
         {h} \cap Key \subseteq SourcesIn(inputs[k]),
         \A j \in DOMAIN inputs : SourcesIn(new[j]) \subseteq SourcesIn(inputs[j]) \cup ({h} \cap Key),
         \A j \in DOMAIN inputs :
            k \notin SourcesIn(inputs[j]) => SourcesIn(new[j]) \subseteq SourcesIn(inputs[j])
  PROVE  Acyclic(new)
<1> SUFFICES ASSUME NEW S \in SUBSET DOMAIN new, S # {}
             PROVE  \E j \in S : SourcesIn(new[j]) \cap S = {}
  BY DEF Acyclic
<1>1. CASE h \notin S \cap Key
  <2>1. PICK j \in S : SourcesIn(inputs[j]) \cap S = {}
    BY DEF Acyclic
  <2> QED BY <1>1, <2>1
<1>2. CASE h \in S \cap Key
  <2> DEFINE T == S \cup {k}
  <2>1. PICK j \in T : SourcesIn(inputs[j]) \cap T = {}
    BY DEF Acyclic
  <2>2. h \in SourcesIn(inputs[k]) /\ h \in T
    BY <1>2
  <2>3. j \in S /\ k \notin SourcesIn(inputs[j])
    BY <2>1, <2>2
  <2>4. SourcesIn(new[j]) \cap S = {}
    BY <2>1, <2>3
  <2> QED BY <2>3, <2>4
<1> QED BY <1>1, <1>2

(* An edge put in a row, and the two edges of a math node. *)
LEMMA EdgePut ==
  ASSUME NEW row, NEW c, NEW e
  PROVE  SourcesIn([row EXCEPT ![c] = e]) \subseteq SourcesIn(row) \cup ({e.from} \cap Key)
  BY DEF SourcesIn

LEMMA EdgeOfRow ==
  ASSUME NEW row, NEW c \in DOMAIN row
  PROVE  {row[c].from} \cap Key \subseteq SourcesIn(row)
  BY DEF SourcesIn

LEMMA TwoEdges ==
  ASSUME NEW a \in Edges, NEW b \in Edges
  PROVE  /\ <<a, b>> \in [1..2 -> Edges]
         /\ SourcesIn(<<a, b>>) = {a.from, b.from} \cap Key
<1>1. DOMAIN <<a, b>> = 1..2 /\ <<a, b>>[1] = a /\ <<a, b>>[2] = b
  OBVIOUS
<1>2. 1..2 = {1, 2}
  OBVIOUS
<1>3. <<a, b>> \in [1..2 -> Edges]
  OBVIOUS
<1> QED BY <1>1, <1>2, <1>3 DEF SourcesIn

LEMMA OneEdge ==
  ASSUME NEW a \in Edges
  PROVE  /\ <<a>> \in [1..1 -> Edges]
         /\ SourcesIn(<<a>>) = {a.from} \cap Key
<1>1. DOMAIN <<a>> = 1..1 /\ <<a>>[1] = a
  OBVIOUS
<1>2. 1..1 = {1}
  OBVIOUS
<1>3. <<a>> \in [1..1 -> Edges]
  OBVIOUS
<1> QED BY <1>1, <1>2, <1>3 DEF SourcesIn
-----------------------------------------------------------------------------
(***************************************************************************)
(* Pushing nodes.                                                          *)
(***************************************************************************)
LEMMA RequiredKeeps ==
  ASSUME NEW g, Sound(g)
  PROVE  /\ Sound(Required(g))
         /\ Sane(g) => Sane(Required(g))
         /\ Required(g).recalculation_required = TRUE
         /\ Required(g).inputs = g.inputs
<1> DEFINE h == Required(g)
<1>1. /\ DOMAIN h = Fields /\ h.recalculation_required = TRUE
      /\ h.nodes = g.nodes /\ h.math = g.math /\ h.strong_dependent = g.strong_dependent
      /\ h.inputs = g.inputs /\ h.params = g.params /\ h.outputs = g.outputs
      /\ h.pending = g.pending
  BY DEF Required, Fields, Sound, Shaped
<1> HIDE DEF h
<1>2. Live(h) = Live(g) /\ \A k : Width(h, k) = Width(g, k)
  BY <1>1 DEF Live, Width
<1>3. Shaped(h)
  BY <1>1, <1>2 DEF Sound, Shaped
<1>4. Paired(h)
  BY <1>1 DEF Sound, Paired
<1>5. Sane(g) => Sane(h)
  BY <1>1, <1>2 DEF Sane, Linked
<1> QED BY <1>1, <1>3, <1>4, <1>5 DEF h, Sound

(* h is g with a new node, with or without that it sums. *)
IsPushed(g, h, k, row) ==
  /\ DOMAIN h = Fields
  /\ h.nodes = g.nodes \cup {k}
  /\ h.recalculation_required = TRUE
  /\ h.inputs = [j \in DOMAIN g.inputs \cup {k} |-> IF j = k THEN row ELSE g.inputs[j]]
  /\ h.params = [j \in DOMAIN g.params \cup {k} |->
                   IF j = k THEN [p \in Parameters |-> NoEdge] ELSE g.params[j]]
  /\ h.math = g.math \/ (k \in Own /\ h.math = g.math \cup {k})
  /\ h.strong_dependent = g.strong_dependent
  /\ h.outputs = g.outputs
  /\ h.pending = g.pending

LEMMA PushedIs ==
  ASSUME NEW g, DOMAIN g = Fields, NEW k, NEW row
  PROVE  IsPushed(g, Pushed(g, k, row), k, row) /\ Pushed(g, k, row).math = g.math
  BY DEF IsPushed, Pushed, Required, Fields, WithRow

LEMMA WithMathNodeIs ==
  ASSUME NEW g, DOMAIN g = Fields, NEW k \in Own, NEW a, NEW b
  PROVE  /\ IsPushed(g, WithMathNode(g, k, a, b), k, <<a, b>>)
         /\ WithMathNode(g, k, a, b).math = g.math \cup {k}
  BY DEF IsPushed, WithMathNode, Pushed, Required, Fields, WithRow

(* A key that is free gets a node, and its edges are there. *)
LEMMA PushedSound ==
  ASSUME NEW g, NEW h, NEW k, NEW row, Sound(g), k \in Key \ g.nodes,
         IsPushed(g, h, k, row), row \in [1..Width(h, k) -> Edges]
  PROVE  /\ Sound(h)
         /\ Marks(g, h)
         /\ Live(h) = Live(g) \cup {k}
         /\ k \notin Live(g)
<1>1. Live(h) = Live(g) \cup {k} /\ k \notin Live(g)
  BY DEF Live, Sound, Shaped, IsPushed
<1>2. \A j \in Live(g) : Width(h, j) = Width(g, j)
  BY <1>1 DEF Width, IsPushed
<1>3. \A j \in Live(h) : /\ h.inputs[j] \in [1..Width(h, j) -> Edges]
                         /\ h.params[j] \in [Parameters -> Edges]
  BY <1>1, <1>2, NoEdgeFacts DEF Sound, Shaped, IsPushed
<1>4. h.math \subseteq Own \cap h.nodes
  BY DEF Sound, Shaped, IsPushed
<1>5. Shaped(h)
  BY <1>1, <1>3, <1>4 DEF Sound, Shaped, IsPushed
<1>6. Paired(h)
  BY DEF Sound, Paired, IsPushed
<1> QED BY <1>1, <1>5, <1>6 DEF Sound, Marks, IsPushed

LEMMA PushedSane ==
  ASSUME NEW g, NEW h, NEW k, NEW row, Sound(g), Sane(g), k \in Key \ g.nodes,
         IsPushed(g, h, k, row), SourcesIn(row) \subseteq Live(g)
  PROVE  Sane(h)
<1>1. Live(h) = Live(g) \cup {k} /\ k \notin Live(g) /\ DOMAIN g.inputs = Live(g)
  BY DEF Live, Sound, Shaped, IsPushed
<1>2. \A j \in DOMAIN h.inputs : SourcesIn(h.inputs[j]) \subseteq Live(g)
  BY <1>1 DEF Sane, Linked, IsPushed
<1>3. Linked(h)
  BY <1>1, <1>2 DEF Sane, Linked, IsPushed
<1>4. DOMAIN h.inputs = DOMAIN g.inputs \cup {k}
  BY DEF IsPushed
<1>6. \A j \in DOMAIN g.inputs \ {k} : h.inputs[j] = g.inputs[j]
  BY DEF IsPushed
<1>7. \A j \in DOMAIN g.inputs \ {k} : SourcesIn(h.inputs[j]) \subseteq SourcesIn(g.inputs[j])
  BY <1>6
<1>8. \A j \in DOMAIN h.inputs : k \notin SourcesIn(h.inputs[j])
  BY <1>1, <1>2
<1>5. Acyclic(h.inputs)
  BY <1>4, <1>7, <1>8, NodeAdded DEF Sane
<1> QED BY <1>3, <1>5 DEF Sane

-----------------------------------------------------------------------------
(***************************************************************************)
(* Connecting to an input of a node.                                       *)
(***************************************************************************)
IsPut(g, h, m, c, e) ==
  /\ DOMAIN h = Fields
  /\ h.inputs = [j \in DOMAIN g.inputs |->
                   IF j = m THEN [g.inputs[j] EXCEPT ![c] = e] ELSE g.inputs[j]]
  /\ h.nodes = g.nodes /\ h.math = g.math /\ h.strong_dependent = g.strong_dependent
  /\ h.params = g.params /\ h.outputs = g.outputs /\ h.pending = g.pending
  /\ h.recalculation_required = g.recalculation_required

LEMMA PutInput ==
  ASSUME NEW g, DOMAIN g = Fields, NEW m \in DOMAIN g.inputs, NEW c, NEW e
  PROVE  /\ IsPut(g, Put(g, Input(m, c), e), m, c, e)
         /\ EdgeAt(g, Input(m, c)) = g.inputs[m][c]
<1>1. Input(m, c)[1] = "inputs" /\ Input(m, c)[2] = m /\ Input(m, c)[3] = c
  BY DEF Input
<1>2. /\ Put(g, Input(m, c), e) = [g EXCEPT !["inputs"][m][c] = e]
      /\ EdgeAt(g, Input(m, c)) = g.inputs[m][c]
  BY <1>1 DEF Put, EdgeAt
<1> QED BY <1>2 DEF IsPut, Fields

LEMMA PutInputSound ==
  ASSUME NEW g, NEW h, NEW m \in Live(g), NEW c \in 1..Width(g, m), NEW e \in Edges,
         Sound(g), IsPut(g, h, m, c, e)
  PROVE  /\ Sound(h)
         /\ Live(h) = Live(g)
<1>1. Live(h) = Live(g) /\ \A j : Width(h, j) = Width(g, j)
  BY DEF Live, Width, IsPut
<1>2. \A j \in Live(h) : h.inputs[j] \in [1..Width(h, j) -> Edges]
  BY <1>1 DEF Sound, Shaped, IsPut
<1>3. Shaped(h)
  BY <1>1, <1>2 DEF Sound, Shaped, IsPut
<1>4. Paired(h)
  BY DEF Sound, Paired, IsPut
<1> QED BY <1>1, <1>3, <1>4 DEF Sound

LEMMA PutInputSources ==
  ASSUME NEW g, NEW h, NEW m, NEW c, NEW e, IsPut(g, h, m, c, e)
  PROVE  /\ \A j \in DOMAIN g.inputs \ {m} : h.inputs[j] = g.inputs[j]
         /\ m \in DOMAIN g.inputs =>
              SourcesIn(h.inputs[m]) \subseteq SourcesIn(g.inputs[m]) \cup ({e.from} \cap Key)
         /\ DOMAIN h.inputs = DOMAIN g.inputs
<1>1. ASSUME m \in DOMAIN g.inputs PROVE h.inputs[m] = [g.inputs[m] EXCEPT ![c] = e]
  BY <1>1 DEF IsPut
<1>2. ASSUME m \in DOMAIN g.inputs
      PROVE  SourcesIn(h.inputs[m]) \subseteq SourcesIn(g.inputs[m]) \cup ({e.from} \cap Key)
  BY <1>1, <1>2, EdgePut
<1>3. \A j \in DOMAIN g.inputs \ {m} : h.inputs[j] = g.inputs[j]
  BY DEF IsPut
<1>4. DOMAIN h.inputs = DOMAIN g.inputs
  BY DEF IsPut
<1> QED BY <1>2, <1>3, <1>4

(* B is a set closed under sources into which the edge goes: what ~HasPath *)
(* says there is.                                                          *)
LEMMA InputReplaced ==
  ASSUME NEW g, NEW m \in Live(g), NEW c \in 1..Width(g, m), NEW e \in Edges, NEW B,
         Sound(g), ClosedUnderSources(g, B), m \notin B, {e.from} \cap Key \subseteq B \cap Live(g)
  PROVE  /\ Sound(Put(g, Input(m, c), e))
         /\ Sane(g) => Sane(Put(g, Input(m, c), e))
         /\ Put(g, Input(m, c), e).recalculation_required = g.recalculation_required
         /\ Put(g, Input(m, c), e).pending = g.pending
<1> DEFINE h == Put(g, Input(m, c), e)
<1>1. DOMAIN g = Fields /\ DOMAIN g.inputs = Live(g)
  BY DEF Sound, Shaped
<1>2. IsPut(g, h, m, c, e)
  BY <1>1, PutInput
<1> HIDE DEF h
<1>3. Sound(h) /\ Live(h) = Live(g)
  BY <1>2, PutInputSound
<1>4. ASSUME Sane(g) PROVE Sane(h)
  <2>1. /\ \A j \in DOMAIN g.inputs \ {m} : h.inputs[j] = g.inputs[j]
        /\ SourcesIn(h.inputs[m]) \subseteq SourcesIn(g.inputs[m]) \cup ({e.from} \cap Key)
        /\ DOMAIN h.inputs = DOMAIN g.inputs
    BY <1>1, <1>2, PutInputSources
  <2>2. \A j \in DOMAIN h.inputs : SourcesIn(h.inputs[j]) \subseteq Live(g)
    BY <2>1, <1>4 DEF Sane, Linked
  <2>3. Linked(h)
    BY <2>2, <1>2, <1>3, <1>4 DEF Sane, Linked, IsPut
  <2>4. \A j \in DOMAIN g.inputs \cap B : SourcesIn(g.inputs[j]) \subseteq B
    BY DEF ClosedUnderSources
  <2>5. \A j \in DOMAIN g.inputs \cap B : SourcesIn(h.inputs[j]) \subseteq SourcesIn(g.inputs[j])
    BY <2>1
  <2>6. \A j \in DOMAIN g.inputs \ B : SourcesIn(h.inputs[j]) \subseteq SourcesIn(g.inputs[j]) \cup B
    BY <2>1
  <2>7. Acyclic(h.inputs)
    BY <2>1, <2>4, <2>5, <2>6, <1>4, EdgeIntoClosed DEF Sane
  <2> QED BY <2>3, <2>7 DEF Sane
<1> QED BY <1>2, <1>3, <1>4 DEF h, IsPut

(* A sink reads a new node that sums the edge with what it read before. *)
Summed(g, s, e, n) == Put(WithMathNode(g, n, EdgeAt(g, s), e), s, Edge(n, 1, FALSE))

LEMMA InputSummed ==
  ASSUME NEW g, NEW m \in User \cap Live(g), NEW c \in 1..UserInputs, NEW e \in Edges, NEW B,
         NEW n \in Unused(g),
         Sound(g), ClosedUnderSources(g, B), m \notin B, {e.from} \cap Key \subseteq B \cap Live(g)
  PROVE  /\ Sound(Summed(g, Input(m, c), e, n))
         /\ Sane(g) => Sane(Summed(g, Input(m, c), e, n))
         /\ Summed(g, Input(m, c), e, n).recalculation_required
         /\ Summed(g, Input(m, c), e, n).pending = g.pending
<1> DEFINE old == EdgeAt(g, Input(m, c))
           w == WithMathNode(g, n, old, e)
           row == <<old, e>>
           ed == Edge(n, 1, FALSE)
           h == Put(w, Input(m, c), ed)
<1>1. DOMAIN g = Fields /\ DOMAIN g.inputs = Live(g)
  BY DEF Sound, Shaped
<1>2. n \in Key \ g.nodes /\ n \in Own /\ n \notin User
  BY KeysAssumption DEF Unused, Key
<1>3. g.inputs[m] \in [1..UserInputs -> Edges]
  BY DEF Sound, Shaped, Width
<1>14. old = g.inputs[m][c]
  BY <1>1, PutInput
<1>15. c \in DOMAIN g.inputs[m] /\ g.inputs[m][c] \in Edges
  BY <1>3
<1>4. old \in Edges /\ {old.from} \cap Key \subseteq SourcesIn(g.inputs[m])
  BY <1>14, <1>15, EdgeOfRow
<1>5. IsPushed(g, w, n, row) /\ w.math = g.math \cup {n}
  BY <1>1, <1>2, WithMathNodeIs
<1>16. row \in [1..2 -> Edges] /\ SourcesIn(row) = {old.from, e.from} \cap Key
  BY <1>4, TwoEdges
<1> HIDE DEF w, old, row, ed
<1>6. row \in [1..Width(w, n) -> Edges]
  BY <1>2, <1>5, <1>16 DEF Width
<1>7. Sound(w) /\ Live(w) = Live(g) \cup {n} /\ n \notin Live(g)
  BY <1>2, <1>5, <1>6, PushedSound
<1>8. ed \in Edges /\ ed.from = n
  BY <1>2, EdgeTyped DEF ed
<1>9. DOMAIN w = Fields /\ m \in DOMAIN w.inputs /\ m \in Live(w) /\ Width(w, m) = UserInputs
  BY <1>7 DEF Sound, Shaped, Width
<1>10. IsPut(w, h, m, c, ed)
  BY <1>9, PutInput
<1> HIDE DEF h
<1>11. Sound(h) /\ Live(h) = Live(w)
  BY <1>7, <1>8, <1>9, <1>10, PutInputSound
<1>12. ASSUME Sane(g) PROVE Sane(h)
  <2> DEFINE D == B \cap Live(g)
  <2>1. /\ DOMAIN w.inputs = DOMAIN g.inputs \cup {n}
        /\ \A j \in DOMAIN g.inputs : w.inputs[j] = g.inputs[j]
        /\ w.inputs[n] = row
    BY <1>1, <1>5, <1>7 DEF IsPushed
  <2>2. /\ \A j \in DOMAIN w.inputs \ {m} : h.inputs[j] = w.inputs[j]
        /\ SourcesIn(h.inputs[m]) \subseteq SourcesIn(w.inputs[m]) \cup ({ed.from} \cap Key)
        /\ DOMAIN h.inputs = DOMAIN w.inputs
    BY <1>9, <1>10, PutInputSources
  <2>3. DOMAIN h.inputs = DOMAIN g.inputs \cup {n} /\ n \notin DOMAIN g.inputs /\ m \in DOMAIN g.inputs
    BY <2>1, <2>2, <1>1, <1>7
  <2>4. \A j \in DOMAIN g.inputs : n \notin SourcesIn(g.inputs[j]) /\ SourcesIn(g.inputs[j]) \subseteq Live(g)
    BY <1>7, <1>12 DEF Sane, Linked
  <2>5. \A j \in DOMAIN g.inputs \cap D : SourcesIn(g.inputs[j]) \subseteq D
    BY <2>4 DEF ClosedUnderSources
  <2>6. \A j \in DOMAIN g.inputs \ {m} : SourcesIn(h.inputs[j]) = SourcesIn(g.inputs[j])
    BY <2>1, <2>2
  <2>7. SourcesIn(h.inputs[m]) \subseteq SourcesIn(g.inputs[m]) \cup {n}
    BY <2>1, <2>2, <2>3, <1>8
  <2>8. SourcesIn(h.inputs[n]) \subseteq SourcesIn(g.inputs[m]) \cup D
    BY <2>1, <2>2, <2>3, <1>4, <1>16
  <2>9. m \notin D /\ n \notin D
    BY <1>7
  <2> HIDE DEF D
  <2>10. Acyclic(h.inputs)
    BY <2>3, <2>4, <2>5, <2>6, <2>7, <2>8, <2>9, <1>12, EdgeSummed DEF Sane
  <2>11. \A j \in DOMAIN h.inputs : SourcesIn(h.inputs[j]) \subseteq Live(g) \cup {n}
    BY <2>3, <2>4, <2>6, <2>7, <2>8 DEF D
  <2>12. /\ h.outputs = g.outputs
         /\ \A j \in DOMAIN h.params : \A p \in Parameters : h.params[j][p] = NoEdge
    BY <1>5, <1>10, <1>12 DEF Sane, Linked, IsPut, IsPushed
  <2>13. Linked(h)
    BY <2>11, <2>12, <1>7, <1>11, <1>12 DEF Sane, Linked
  <2> QED BY <2>10, <2>13 DEF Sane
<1>13. h.recalculation_required /\ h.pending = g.pending
  BY <1>5, <1>10 DEF IsPut, IsPushed
<1>17. Summed(g, Input(m, c), e, n) = h
  BY DEF Summed, h, w, old, row, ed
<1> QED BY <1>11, <1>12, <1>13, <1>17

-----------------------------------------------------------------------------
(***************************************************************************)
(* Connecting to an output of the graph or to a parameter.                 *)
(***************************************************************************)
LEMMA PutOutput ==
  ASSUME NEW g, NEW c \in 1..GraphOutputs, NEW e \in Edges, Sound(g)
  PROVE  LET h == Put(g, Output(c), e)
         IN  /\ Sound(h)
             /\ Sane(g) /\ {e.from} \cap Key \subseteq Live(g) => Sane(h)
             /\ h.inputs = g.inputs /\ h.recalculation_required = g.recalculation_required
             /\ h.outputs = [g.outputs EXCEPT ![c] = e]
             /\ EdgeAt(g, Output(c)) = g.outputs[c]
             /\ h.pending = g.pending
<1> DEFINE h == Put(g, Output(c), e)
<1>1. Output(c)[1] = "outputs" /\ Output(c)[3] = c
  BY DEF Output
<1>2. EdgeAt(g, Output(c)) = g.outputs[c] /\ h = [g EXCEPT !.outputs[c] = e]
  BY <1>1 DEF Put, EdgeAt
<1>3. /\ DOMAIN h = Fields
      /\ h.outputs = [g.outputs EXCEPT ![c] = e]
      /\ h.nodes = g.nodes /\ h.math = g.math /\ h.strong_dependent = g.strong_dependent
      /\ h.params = g.params /\ h.inputs = g.inputs /\ h.pending = g.pending
      /\ h.recalculation_required = g.recalculation_required
  BY <1>2 DEF Fields, Sound, Shaped
<1> HIDE DEF h
<1>4. Live(h) = Live(g) /\ \A j : Width(h, j) = Width(g, j)
  BY <1>3 DEF Live, Width
<1>5. h.outputs \in [1..GraphOutputs -> Edges]
  BY <1>3 DEF Sound, Shaped
<1>6. Shaped(h)
  BY <1>3, <1>4, <1>5 DEF Sound, Shaped
<1>7. Paired(h)
  BY <1>3 DEF Sound, Paired
<1>10. SourcesIn([g.outputs EXCEPT ![c] = e]) \subseteq SourcesIn(g.outputs) \cup ({e.from} \cap Key)
  BY EdgePut
<1>8. SourcesIn(h.outputs) \subseteq SourcesIn(g.outputs) \cup ({e.from} \cap Key)
  BY <1>3, <1>10
<1>9. ASSUME Sane(g), {e.from} \cap Key \subseteq Live(g) PROVE Sane(h)
  BY <1>3, <1>4, <1>8, <1>9 DEF Sane, Linked
<1> QED BY <1>2, <1>3, <1>6, <1>7, <1>9 DEF h, Sound

LEMMA PutParam ==
  ASSUME NEW g, NEW k \in Live(g), NEW p \in Parameters, NEW e \in Edges, Sound(g)
  PROVE  LET h == Put(g, Param(k, p), e)
         IN  /\ Sound(h)
             /\ h.inputs = g.inputs /\ h.recalculation_required = g.recalculation_required
             /\ EdgeAt(g, Param(k, p)) = g.params[k][p]
             /\ h.pending = g.pending
<1> DEFINE h == Put(g, Param(k, p), e)
<1>1. Param(k, p)[1] = "params" /\ Param(k, p)[2] = k /\ Param(k, p)[3] = p
  BY DEF Param
<1>2. EdgeAt(g, Param(k, p)) = g.params[k][p] /\ h = [g EXCEPT !.params[k][p] = e]
  BY <1>1 DEF Put, EdgeAt
<1>3. /\ DOMAIN h = Fields
      /\ h.params = [g.params EXCEPT ![k][p] = e]
      /\ h.nodes = g.nodes /\ h.math = g.math /\ h.strong_dependent = g.strong_dependent
      /\ h.outputs = g.outputs /\ h.inputs = g.inputs /\ h.pending = g.pending
      /\ h.recalculation_required = g.recalculation_required
  BY <1>2 DEF Fields, Sound, Shaped
<1> HIDE DEF h
<1>4. Live(h) = Live(g) /\ \A j : Width(h, j) = Width(g, j)
  BY <1>3 DEF Live, Width
<1>5. /\ DOMAIN h.params = Live(h)
      /\ \A j \in Live(h) : h.params[j] \in [Parameters -> Edges]
  BY <1>3, <1>4 DEF Sound, Shaped
<1>6. Shaped(h)
  BY <1>3, <1>4, <1>5 DEF Sound, Shaped
<1>7. Paired(h)
  BY <1>3 DEF Sound, Paired
<1> QED BY <1>2, <1>3, <1>6, <1>7 DEF h, Sound

(* A math node that nothing reads yet. *)
LEMMA MathAdded ==
  ASSUME NEW g, NEW n \in Unused(g), NEW a \in Edges, NEW b \in Edges, Sound(g)
  PROVE  LET w == WithMathNode(g, n, a, b)
         IN  /\ Sound(w)
             /\ Sane(g) /\ {a.from, b.from} \cap Key \subseteq Live(g) => Sane(w)
             /\ w.recalculation_required
             /\ Live(w) = Live(g) \cup {n}
             /\ w.outputs = g.outputs
             /\ w.pending = g.pending
             /\ n \in Own
<1> DEFINE w == WithMathNode(g, n, a, b)
           row == <<a, b>>
<1>1. DOMAIN g = Fields
  BY DEF Sound, Shaped
<1>2. n \in Key \ g.nodes /\ n \in Own /\ n \notin User
  BY KeysAssumption DEF Unused, Key
<1>3. row \in [1..2 -> Edges] /\ SourcesIn(row) = {a.from, b.from} \cap Key
  BY TwoEdges
<1>4. IsPushed(g, w, n, row) /\ w.math = g.math \cup {n}
  BY <1>1, <1>2, WithMathNodeIs
<1> HIDE DEF w, row
<1>5. row \in [1..Width(w, n) -> Edges]
  BY <1>2, <1>3, <1>4 DEF Width
<1>6. Sound(w) /\ Live(w) = Live(g) \cup {n}
  BY <1>2, <1>4, <1>5, PushedSound
<1>7. ASSUME Sane(g), {a.from, b.from} \cap Key \subseteq Live(g) PROVE Sane(w)
  BY <1>2, <1>3, <1>4, <1>7, PushedSane
<1>8. w.outputs = g.outputs /\ w.pending = g.pending /\ w.recalculation_required
  BY <1>4 DEF IsPushed
<1> QED BY <1>2, <1>6, <1>7, <1>8 DEF w

-----------------------------------------------------------------------------
(***************************************************************************)
(* What connecting may result in.                                          *)
(***************************************************************************)
(* Connected, for additive and for other connections. *)
Joined(g, s, e) ==
  {Put(g, s, e)} \cup {Summed(g, s, Edge(e.from, e.channel, FALSE), n) : n \in Unused(g)}

LEMMA DirectEdge ==
  ASSUME NEW e \in Edges
  PROVE  /\ Edge(e.from, e.channel, FALSE) \in Edges
         /\ Edge(e.from, e.channel, FALSE).from = e.from
<1>1. CASE e \in [from : Key \cup {Graph}, channel : Nat, is_feedback : BOOLEAN]
  BY <1>1 DEF Edge, Edges
<1>2. CASE e = NoEdge
  BY <1>2, NoEdgeFacts DEF Edge, NoEdge
<1> QED BY <1>1, <1>2 DEF Edges

LEMMA InputConnected ==
  ASSUME NEW g, NEW m \in User \cap Live(g), NEW c \in 1..UserInputs, NEW e \in Edges, NEW B,
         NEW h \in Joined(g, Input(m, c), e),
         Sound(g), ClosedUnderSources(g, B), m \notin B, {e.from} \cap Key \subseteq B \cap Live(g)
  PROVE  /\ Sound(h)
         /\ Sane(g) => Sane(h)
         /\ g.recalculation_required => h.recalculation_required
         /\ h.pending = g.pending
<1> DEFINE d == Edge(e.from, e.channel, FALSE)
<1>1. d \in Edges /\ {d.from} \cap Key \subseteq B \cap Live(g)
  BY DirectEdge
<1> HIDE DEF d
<1>2. h = Put(g, Input(m, c), e) \/ \E n \in Unused(g) : h = Summed(g, Input(m, c), d, n)
  BY DEF Joined, d
<1>3. Width(g, m) = UserInputs
  BY DEF Width
<1>4. CASE h = Put(g, Input(m, c), e)
  BY <1>3, <1>4, InputReplaced
<1>5. ASSUME NEW n \in Unused(g), h = Summed(g, Input(m, c), d, n)
      PROVE  Sound(h) /\ (Sane(g) => Sane(h)) /\ h.recalculation_required /\ h.pending = g.pending
  BY <1>1, <1>5, InputSummed
<1> QED BY <1>2, <1>4, <1>5

LEMMA OutputConnected ==
  ASSUME NEW g, NEW c \in 1..GraphOutputs, NEW e \in Edges, NEW h \in Joined(g, Output(c), e),
         Sound(g), {e.from} \cap Key \subseteq Live(g)
  PROVE  /\ Sound(h)
         /\ Sane(g) => Sane(h)
         /\ h.pending = g.pending
<1> DEFINE d == Edge(e.from, e.channel, FALSE)
<1>1. d \in Edges /\ {d.from} \cap Key \subseteq Live(g)
  BY DirectEdge
<1> HIDE DEF d
<1>2. h = Put(g, Output(c), e) \/ \E n \in Unused(g) : h = Summed(g, Output(c), d, n)
  BY DEF Joined, d
<1>3. CASE h = Put(g, Output(c), e)
  BY <1>3, PutOutput
<1>4. ASSUME NEW n \in Unused(g), h = Summed(g, Output(c), d, n)
      PROVE  Sound(h) /\ (Sane(g) => Sane(h)) /\ h.pending = g.pending
  <2> DEFINE old == EdgeAt(g, Output(c))
             w == WithMathNode(g, n, old, d)
             ed == Edge(n, 1, FALSE)
  <2>1. old = g.outputs[c]
    BY <1>1, PutOutput
  <2>2. c \in DOMAIN g.outputs /\ g.outputs[c] \in Edges
    BY DEF Sound, Shaped
  <2>3. old \in Edges /\ {old.from} \cap Key \subseteq SourcesIn(g.outputs)
    BY <2>1, <2>2, EdgeOfRow
  <2> HIDE DEF old
  <2>4. /\ Sound(w) /\ w.pending = g.pending /\ Live(w) = Live(g) \cup {n} /\ n \in Own
        /\ Sane(g) /\ {old.from, d.from} \cap Key \subseteq Live(g) => Sane(w)
    BY <1>1, <2>3, MathAdded
  <2>5. Sane(g) => Sane(w)
    BY <1>1, <2>3, <2>4 DEF Sane, Linked
  <2>6. ed \in Edges /\ ed.from = n
    BY <2>4, EdgeTyped DEF Key
  <2> HIDE DEF w, ed
  <2>7. h = Put(w, Output(c), ed)
    BY <1>4 DEF Summed, w, ed, old
  <2>8. h.pending = w.pending /\ Sound(h) /\ (Sane(w) /\ {ed.from} \cap Key \subseteq Live(w) => Sane(h))
    BY <2>4, <2>6, <2>7, PutOutput
  <2> QED BY <2>4, <2>5, <2>6, <2>8
<1> QED BY <1>2, <1>3, <1>4

LEMMA ParamConnected ==
  ASSUME NEW g, NEW k \in Live(g), NEW p \in Parameters, NEW e \in Edges,
         NEW h \in Joined(g, Param(k, p), e), Sound(g)
  PROVE  Sound(h) /\ Marks(g, h) /\ h.pending = g.pending
<1> DEFINE d == Edge(e.from, e.channel, FALSE)
<1>1. d \in Edges
  BY DirectEdge
<1> HIDE DEF d
<1>2. h = Put(g, Param(k, p), e) \/ \E n \in Unused(g) : h = Summed(g, Param(k, p), d, n)
  BY DEF Joined, d
<1>3. CASE h = Put(g, Param(k, p), e)
  BY <1>3, PutParam DEF Marks
<1>4. ASSUME NEW n \in Unused(g), h = Summed(g, Param(k, p), d, n)
      PROVE  Sound(h) /\ Marks(g, h) /\ h.pending = g.pending
  <2> DEFINE old == EdgeAt(g, Param(k, p))
             w == WithMathNode(g, n, old, d)
             ed == Edge(n, 1, FALSE)
  <2>1. old = g.params[k][p]
    BY <1>1, PutParam
  <2>2. old \in Edges
    BY <2>1 DEF Sound, Shaped
  <2> HIDE DEF old
  <2>3. /\ Sound(w) /\ w.pending = g.pending /\ w.recalculation_required
        /\ Live(w) = Live(g) \cup {n} /\ n \in Own
    BY <1>1, <2>2, MathAdded
  <2>4. ed \in Edges
    BY <2>3, EdgeTyped DEF Key
  <2> HIDE DEF w, ed
  <2>5. h = Put(w, Param(k, p), ed)
    BY <1>4 DEF Summed, w, ed, old
  <2>6. Sound(h) /\ h.pending = w.pending /\ h.recalculation_required = w.recalculation_required
    BY <2>3, <2>4, <2>5, PutParam
  <2> QED BY <2>3, <2>6 DEF Marks
<1> QED BY <1>2, <1>3, <1>4

-----------------------------------------------------------------------------
(***************************************************************************)
(* The two nodes of a feedback connection.                                 *)
(***************************************************************************)
LEMMA SingleAdded ==
  ASSUME NEW g, NEW n \in Unused(g), NEW e \in Edges, Sound(g)
  PROVE  LET h == Pushed(g, n, <<e>>)
         IN  /\ Sound(h)
             /\ Sane(g) /\ {e.from} \cap Key \subseteq Live(g) => Sane(h)
             /\ h.recalculation_required
             /\ Live(h) = Live(g) \cup {n}
             /\ h.nodes = g.nodes \cup {n}
             /\ h.inputs[n] = <<e>>
             /\ h.pending = g.pending
<1> DEFINE row == <<e>>
           h == Pushed(g, n, row)
<1>1. DOMAIN g = Fields
  BY DEF Sound, Shaped
<1>2. n \in Key \ g.nodes /\ n \in Own /\ n \notin User
  BY KeysAssumption DEF Unused, Key
<1>3. row \in [1..1 -> Edges] /\ SourcesIn(row) = {e.from} \cap Key
  BY OneEdge
<1> HIDE DEF row
<1>4. IsPushed(g, h, n, row) /\ h.math = g.math
  BY <1>1, PushedIs
<1> HIDE DEF h
<1>5. n \notin g.math
  BY <1>2 DEF Sound, Shaped
<1>6. row \in [1..Width(h, n) -> Edges]
  BY <1>2, <1>3, <1>4, <1>5 DEF Width
<1>7. Sound(h) /\ Live(h) = Live(g) \cup {n}
  BY <1>2, <1>4, <1>6, PushedSound
<1>8. ASSUME Sane(g), {e.from} \cap Key \subseteq Live(g) PROVE Sane(h)
  BY <1>2, <1>3, <1>4, <1>8, PushedSane
<1>9. h.recalculation_required /\ h.nodes = g.nodes \cup {n} /\ h.inputs[n] = row /\ h.pending = g.pending
  BY <1>4 DEF IsPushed
<1> QED BY <1>7, <1>8, <1>9 DEF h, row

IsFedBack(g, h, source, sink, k, c) ==
  /\ Sound(h)
  /\ Sane(g) /\ k \in Live(g) => Sane(h)
  /\ h.recalculation_required
  /\ Live(h) = Live(g) \cup {sink, source}
  /\ h.inputs[source] = <<NoEdge>> /\ h.inputs[sink] = <<Edge(k, c, TRUE)>>
  /\ \A j \in Live(g) : h.inputs[j] = g.inputs[j]
  /\ h.pending = g.pending /\ h.math = g.math /\ h.outputs = g.outputs
  /\ h.strong_dependent = [g.strong_dependent EXCEPT ![source] = sink, ![sink] = source]

LEMMA FeedbackAdded ==
  ASSUME NEW g, NEW source \in Unused(g), NEW sink \in Unused(g), source # sink,
         NEW k \in Key, NEW c \in Nat, Sound(g)
  PROVE  IsFedBack(g, WithFeedbackNodes(g, source, sink, UserEdge(k, c)), source, sink, k, c)
<1> DEFINE e == UserEdge(k, c)
           read == Edge(e.from, e.channel, TRUE)
           one == Pushed(g, sink, <<read>>)
           two == Pushed(one, source, <<NoEdge>>)
           h == [two EXCEPT !.strong_dependent[source] = sink, !.strong_dependent[sink] = source]
<1>1. k \in Key
  OBVIOUS
<1>2. read \in Edges /\ read.from = k
  BY <1>1 DEF UserEdge, Edge, Edges
<1> HIDE DEF read
<1>3. /\ Sound(one)
      /\ Sane(g) /\ k \in Live(g) => Sane(one)
      /\ Live(one) = Live(g) \cup {sink}
      /\ one.nodes = g.nodes \cup {sink}
  BY <1>2, SingleAdded
<1> HIDE DEF one
<1>4. source \in Unused(one)
  BY <1>3 DEF Unused
<1>5. /\ Sound(two)
      /\ Sane(one) => Sane(two)
      /\ two.recalculation_required
      /\ Live(two) = Live(one) \cup {source}
      /\ two.nodes = one.nodes \cup {source}
      /\ two.inputs[source] = <<NoEdge>>
  <2>1. NoEdge \in Edges /\ {NoEdge.from} \cap Key \subseteq Live(one)
    BY NoEdgeFacts
  <2>2. Sound(one) /\ source \in Unused(one)
    BY <1>3, <1>4
  <2> QED BY <2>1, <2>2, SingleAdded
<1> HIDE DEF two
<1>6. /\ DOMAIN h = Fields
      /\ h.strong_dependent = [two.strong_dependent EXCEPT ![source] = sink, ![sink] = source]
      /\ h.nodes = two.nodes /\ h.math = two.math /\ h.inputs = two.inputs
      /\ h.params = two.params /\ h.outputs = two.outputs /\ h.pending = two.pending
      /\ h.recalculation_required = two.recalculation_required
  BY <1>5 DEF Sound, Shaped, Fields
<1> HIDE DEF h
<1>7. Live(h) = Live(two) /\ \A j : Width(h, j) = Width(two, j)
  BY <1>6 DEF Live, Width
<1>8. Shaped(h)
  BY <1>5, <1>6, <1>7 DEF Sound, Shaped
<1>9. /\ source \in Own /\ sink \in Own
      /\ source \notin g.nodes /\ sink \notin g.nodes
  BY DEF Unused
<1>10. /\ g.strong_dependent[source] = source /\ g.strong_dependent[sink] = sink
       /\ two.strong_dependent = g.strong_dependent /\ two.pending = g.pending
       /\ two.math = g.math /\ two.outputs = g.outputs /\ two.inputs[sink] = <<read>>
       /\ \A j \in Live(g) : two.inputs[j] = g.inputs[j]
  <2>1. DOMAIN g = Fields /\ DOMAIN one = Fields
    BY <1>3 DEF Sound, Shaped
  <2>2. IsPushed(g, one, sink, <<read>>) /\ IsPushed(one, two, source, <<NoEdge>>)
    BY <2>1, PushedIs DEF one, two
  <2>3. g.strong_dependent[source] = source /\ g.strong_dependent[sink] = sink
    BY <1>9 DEF Sound, Paired
  <2>4. /\ two.strong_dependent = g.strong_dependent /\ two.pending = g.pending
        /\ two.math = g.math /\ two.outputs = g.outputs
        /\ two.inputs = [j \in DOMAIN one.inputs \cup {source} |->
                           IF j = source THEN <<NoEdge>> ELSE one.inputs[j]]
        /\ one.inputs = [j \in DOMAIN g.inputs \cup {sink} |->
                           IF j = sink THEN <<read>> ELSE g.inputs[j]]
    <3>1. one.math = g.math /\ two.math = one.math
      BY <2>1, PushedIs DEF one, two
    <3> QED BY <2>2, <3>1 DEF IsPushed
  <2>5. DOMAIN g.inputs = Live(g) /\ source \notin Live(g) /\ sink \notin Live(g)
    BY <1>9 DEF Sound, Shaped, Live
  <2> QED BY <2>3, <2>4, <2>5
<1>14. read = Edge(k, c, TRUE)
  BY DEF read, UserEdge, Edge
<1>11. Paired(h)
  <2>1. h.strong_dependent \in [Own -> Own]
    BY <1>5, <1>6, <1>9 DEF Sound, Paired
  <2>2. source \notin h.pending /\ sink \notin h.pending
    BY <1>6, <1>9, <1>10 DEF Sound, Shaped
  <2>3. \A j \in Own \ {source, sink} :
          /\ h.strong_dependent[j] = g.strong_dependent[j]
          /\ g.strong_dependent[j] \in Own \ {source, sink}
    BY <1>6, <1>9, <1>10 DEF Sound, Paired
  <2>4. h.strong_dependent[source] = sink /\ h.strong_dependent[sink] = source
    BY <1>6, <1>9, <1>10 DEF Sound, Paired
  <2>5. h.nodes = g.nodes \cup {sink, source} /\ h.pending = g.pending
    BY <1>3, <1>5, <1>6, <1>10
  <2> QED BY <2>1, <2>2, <2>3, <2>4, <2>5, <1>9 DEF Sound, Paired
<1>12. Sane(g) /\ k \in Live(g) => Sane(h)
  BY <1>3, <1>5, <1>6, <1>7 DEF Sane, Linked
<1>13. /\ h.pending = g.pending /\ Sound(h) /\ h.recalculation_required /\ h.inputs[source] = <<NoEdge>>
       /\ Live(h) = Live(g) \cup {sink, source}
       /\ h.math = g.math /\ h.outputs = g.outputs
       /\ h.inputs[sink] = <<Edge(k, c, TRUE)>>
       /\ \A j \in Live(g) : h.inputs[j] = g.inputs[j]
       /\ h.strong_dependent = [g.strong_dependent EXCEPT ![source] = sink, ![sink] = source]
  BY <1>3, <1>5, <1>6, <1>7, <1>8, <1>10, <1>11, <1>14 DEF Sound
<1>15. IsFedBack(g, h, source, sink, k, c)
  BY <1>12, <1>13 DEF IsFedBack
<1> QED BY <1>15 DEF WithFeedbackNodes, h, two, one, read

-----------------------------------------------------------------------------
(***************************************************************************)
(* Freeing and disconnecting.                                              *)
(***************************************************************************)
LEMMA WithoutFacts ==
  ASSUME NEW n, NEW row \in [1..n -> Edges], NEW K
  PROVE  /\ Without(row, K) \in [1..n -> Edges]
         /\ SourcesIn(Without(row, K)) \subseteq SourcesIn(row) \ K
<1>1. Without(row, K) \in [1..n -> Edges]
  BY NoEdgeFacts DEF Without
<1>2. ASSUME NEW j \in SourcesIn(Without(row, K)) PROVE j \in SourcesIn(row) \ K
  <2>1. PICK i \in 1..n : Without(row, K)[i].from = j /\ j \in Key
    BY DEF SourcesIn, Without
  <2>2. row[i].from \notin K /\ Without(row, K)[i] = row[i]
    BY <2>1, NoEdgeFacts DEF Without
  <2> QED BY <2>1, <2>2, SourceOfRow
<1> QED BY <1>1, <1>2

LEMMA DisconnectedFacts ==
  ASSUME NEW n, NEW row \in [1..n -> Edges], NEW from, NEW c
  PROVE  /\ Disconnected(row, from, c) \in [1..n -> Edges]
         /\ SourcesIn(Disconnected(row, from, c)) \subseteq SourcesIn(row)
<1>1. Disconnected(row, from, c) \in [1..n -> Edges]
  BY NoEdgeFacts DEF Disconnected
<1>2. ASSUME NEW j \in SourcesIn(Disconnected(row, from, c)) PROVE j \in SourcesIn(row)
  <2>1. PICK i \in 1..n : Disconnected(row, from, c)[i].from = j /\ j \in Key
    BY DEF SourcesIn, Disconnected
  <2>2. Disconnected(row, from, c)[i] = row[i]
    BY <2>1, NoEdgeFacts DEF Disconnected
  <2> QED BY <2>1, <2>2, SourceOfRow
<1> QED BY <1>1, <1>2

(* Edges taken away from a graph with the same nodes. *)
LEMMA OutputDisconnectedKeeps ==
  ASSUME NEW g, NEW from, NEW c, Sound(g)
  PROVE  /\ Keeps(g, OutputDisconnected(g, from, c))
         /\ OutputDisconnected(g, from, c).pending = g.pending
<1> DEFINE h == OutputDisconnected(g, from, c)
<1>1. /\ DOMAIN h = Fields /\ h.recalculation_required = TRUE
      /\ h.nodes = g.nodes /\ h.math = g.math /\ h.strong_dependent = g.strong_dependent
      /\ h.params = g.params /\ h.pending = g.pending
      /\ h.inputs = [j \in DOMAIN g.inputs |-> Disconnected(g.inputs[j], from, c)]
      /\ h.outputs = Disconnected(g.outputs, from, c)
  BY DEF OutputDisconnected, Required, Fields, Sound, Shaped
<1> HIDE DEF h
<1>2. Live(h) = Live(g) /\ \A j : Width(h, j) = Width(g, j)
  BY <1>1 DEF Live, Width
<1>3. \A j \in Live(g) : /\ h.inputs[j] \in [1..Width(h, j) -> Edges]
                         /\ SourcesIn(h.inputs[j]) \subseteq SourcesIn(g.inputs[j])
  <2> SUFFICES ASSUME NEW j \in Live(g)
               PROVE  /\ h.inputs[j] \in [1..Width(h, j) -> Edges]
                      /\ SourcesIn(h.inputs[j]) \subseteq SourcesIn(g.inputs[j])
    OBVIOUS
  <2>1. g.inputs[j] \in [1..Width(g, j) -> Edges] /\ j \in DOMAIN g.inputs
    BY DEF Sound, Shaped
  <2>2. h.inputs[j] = Disconnected(g.inputs[j], from, c)
    BY <1>1, <2>1
  <2> QED BY <1>2, <2>1, <2>2, DisconnectedFacts
<1>4. /\ h.outputs \in [1..GraphOutputs -> Edges]
      /\ SourcesIn(h.outputs) \subseteq SourcesIn(g.outputs)
  BY <1>1, DisconnectedFacts DEF Sound, Shaped
<1>5. DOMAIN h.inputs = Live(g) /\ DOMAIN g.inputs = Live(g)
  BY <1>1 DEF Sound, Shaped
<1>6. Shaped(h)
  BY <1>1, <1>2, <1>3, <1>4, <1>5 DEF Sound, Shaped
<1>7. Paired(h)
  BY <1>1 DEF Sound, Paired
<1>8. ASSUME Sane(g) PROVE Sane(h)
  <2>1. Acyclic(h.inputs)
    BY <1>3, <1>5, <1>8, FewerEdges DEF Sane
  <2>2. \A j \in DOMAIN h.inputs : SourcesIn(h.inputs[j]) \subseteq Live(h)
    BY <1>2, <1>3, <1>5, <1>8 DEF Sane, Linked
  <2>3. SourcesIn(h.outputs) \subseteq Live(h)
    BY <1>2, <1>4, <1>8 DEF Sane, Linked
  <2>4. Linked(h)
    BY <1>1, <2>2, <2>3, <1>8 DEF Sane, Linked
  <2> QED BY <2>1, <2>4 DEF Sane
<1> QED BY <1>1, <1>6, <1>7, <1>8 DEF h, Keeps, Marks, Sound

LEMMA DependentFacts ==
  ASSUME NEW g, NEW k, Sound(g), k \in g.nodes \/ Dependent(g, k) # k
  PROVE  /\ k \in g.nodes /\ Dependent(g, k) \in g.nodes
         /\ Dependent(g, k) \in g.pending <=> k \in g.pending
<1>1. CASE k \in Own
  <2>1. /\ g.strong_dependent[k] \in Own
        /\ g.strong_dependent[g.strong_dependent[k]] = k
        /\ k \in g.pending <=> g.strong_dependent[k] \in g.pending
        /\ k \notin g.nodes => g.strong_dependent[k] = k
        /\ g.strong_dependent[k] \notin g.nodes =>
             g.strong_dependent[g.strong_dependent[k]] = g.strong_dependent[k]
    BY <1>1 DEF Sound, Paired
  <2>2. Dependent(g, k) = g.strong_dependent[k]
    BY <1>1 DEF Dependent
  <2> QED BY <2>1, <2>2
<1>2. CASE k \notin Own
  BY <1>2 DEF Dependent
<1> QED BY <1>1, <1>2

LEMMA FreedKeeps ==
  ASSUME NEW g, NEW k, Sound(g), k \in g.nodes \/ Dependent(g, k) # k
  PROVE  /\ Keeps(g, Freed(g, k))
         /\ k \notin g.pending => Freed(g, k).recalculation_required
         /\ g.pending \subseteq Freed(g, k).pending
         /\ Freed(g, k).nodes = g.nodes
<1> DEFINE h == Freed(g, k)
           K == {k, Dependent(g, k)} \ g.pending
<1>1. CASE k \in g.pending
  BY <1>1 DEF Freed, Keeps, Marks
<1>2. CASE k \notin g.pending
  <2>1. /\ DOMAIN h = Fields /\ h.recalculation_required = TRUE
        /\ h.nodes = g.nodes /\ h.math = g.math /\ h.strong_dependent = g.strong_dependent
        /\ h.inputs = [j \in DOMAIN g.inputs \ K |-> Without(g.inputs[j], K)]
        /\ h.params = [j \in DOMAIN g.params \ K |-> g.params[j]]
        /\ h.outputs = Without(g.outputs, K)
        /\ h.pending = g.pending \cup K
    BY <1>2 DEF Freed, Restricted, Required, Fields, Sound, Shaped
  <2>2. /\ K = {k, Dependent(g, k)} /\ K \subseteq g.nodes
    BY <1>2, DependentFacts
  <2> HIDE DEF h
  <2>3. Live(h) = Live(g) \ K /\ \A j : Width(h, j) = Width(g, j)
    BY <2>1 DEF Live, Width
  <2>4. \A j \in Live(h) : /\ h.inputs[j] \in [1..Width(h, j) -> Edges]
                           /\ SourcesIn(h.inputs[j]) \subseteq SourcesIn(g.inputs[j]) \ K
    <3> SUFFICES ASSUME NEW j \in Live(h)
                 PROVE  /\ h.inputs[j] \in [1..Width(h, j) -> Edges]
                        /\ SourcesIn(h.inputs[j]) \subseteq SourcesIn(g.inputs[j]) \ K
      OBVIOUS
    <3>1. g.inputs[j] \in [1..Width(g, j) -> Edges] /\ j \in DOMAIN g.inputs \ K
      BY <2>3 DEF Sound, Shaped
    <3>2. h.inputs[j] = Without(g.inputs[j], K)
      BY <2>1, <3>1
    <3> HIDE DEF K
    <3> QED BY <2>3, <3>1, <3>2, WithoutFacts
  <2>5. /\ h.outputs \in [1..GraphOutputs -> Edges]
        /\ SourcesIn(h.outputs) \subseteq SourcesIn(g.outputs) \ K
    <3> HIDE DEF K
    <3> QED BY <2>1, WithoutFacts DEF Sound, Shaped
  <2>6. /\ DOMAIN h.inputs = Live(h) /\ DOMAIN g.inputs = Live(g)
        /\ DOMAIN h.params = Live(h) /\ DOMAIN g.params = Live(g)
        /\ \A j \in Live(h) : h.params[j] = g.params[j]
    BY <2>1, <2>3 DEF Sound, Shaped
  <2>7. Shaped(h)
    <3>1. \A j \in Live(h) : h.params[j] \in [Parameters -> Edges]
      BY <2>3, <2>6 DEF Sound, Shaped
    <3>2. h.pending \subseteq h.nodes /\ h.nodes \subseteq Key /\ h.math \subseteq Own \cap h.nodes
      BY <2>1, <2>2 DEF Sound, Shaped
    <3> QED BY <2>1, <2>4, <2>5, <2>6, <3>1, <3>2 DEF Shaped
  <2>8. Paired(h)
    <3>1. CASE k \in Own
      <4>1. Dependent(g, k) = g.strong_dependent[k]
        BY <3>1 DEF Dependent
      <4>2. h.pending = g.pending \cup {k, g.strong_dependent[k]}
        BY <2>1, <2>2, <4>1
      <4> QED BY <2>1, <3>1, <4>2 DEF Sound, Paired
    <3>2. CASE k \notin Own
      <4>1. h.pending = g.pending \cup {k}
        BY <2>1, <2>2, <3>2 DEF Dependent
      <4> QED BY <2>1, <3>2, <4>1 DEF Sound, Paired
    <3> QED BY <3>1, <3>2
  <2>9. ASSUME Sane(g) PROVE Sane(h)
    <3>1. Acyclic(h.inputs)
      <4>1. DOMAIN h.inputs \subseteq DOMAIN g.inputs
        BY <2>3, <2>6
      <4>2. \A j \in DOMAIN h.inputs : SourcesIn(h.inputs[j]) \subseteq SourcesIn(g.inputs[j])
        BY <2>4, <2>6
      <4> QED BY <4>1, <4>2, <2>9, FewerEdges DEF Sane
    <3>2. Linked(h)
      <4>1. \A j \in DOMAIN h.inputs : SourcesIn(h.inputs[j]) \subseteq Live(h)
        BY <2>3, <2>4, <2>6, <2>9 DEF Sane, Linked
      <4>2. SourcesIn(h.outputs) \subseteq Live(h)
        BY <2>3, <2>5, <2>9 DEF Sane, Linked
      <4>3. \A j \in DOMAIN h.params : \A p \in Parameters : h.params[j][p] = NoEdge
        BY <2>3, <2>6, <2>9 DEF Sane, Linked
      <4> QED BY <4>1, <4>2, <4>3 DEF Linked
    <3> QED BY <3>1, <3>2 DEF Sane
  <2> QED BY <2>1, <2>7, <2>8, <2>9 DEF h, Keeps, Marks, Sound
<1> QED BY <1>1, <1>2

-----------------------------------------------------------------------------
(***************************************************************************)
(* Evaluating a node.                                                      *)
(***************************************************************************)
LEMMA RedirectedFacts ==
  ASSUME NEW n, NEW row \in [1..n -> Edges], NEW k \in Key, NEW e \in Edges
  PROVE  /\ Redirected(row, k, e) \in [1..n -> Edges]
         /\ SourcesIn(Redirected(row, k, e)) \subseteq SourcesIn(row) \cup ({e.from} \cap Key)
         /\ k \notin SourcesIn(row) => SourcesIn(Redirected(row, k, e)) \subseteq SourcesIn(row)
<1>1. Redirected(row, k, e) \in [1..n -> Edges]
  BY DEF Redirected
<1>2. ASSUME NEW j \in SourcesIn(Redirected(row, k, e))
      PROVE  j \in SourcesIn(row) \/ (k \in SourcesIn(row) /\ j \in {e.from} \cap Key)
  <2>1. PICK i \in 1..n : Redirected(row, k, e)[i].from = j /\ j \in Key
    BY DEF SourcesIn, Redirected
  <2>2. CASE row[i].from = k
    BY <2>1, <2>2 DEF SourcesIn, Redirected
  <2>3. CASE row[i].from # k
    BY <2>1, <2>3 DEF SourcesIn, Redirected
  <2> QED BY <2>2, <2>3
<1> QED BY <1>1, <1>2

LEMMA BypassedSound ==
  ASSUME NEW g, NEW k \in g.math \cap DOMAIN g.inputs, Sound(g)
  PROVE  LET h == Bypassed(g, k)
         IN  /\ Sound(h)
             /\ Sane(g) => Sane(h)
             /\ h.nodes = g.nodes /\ h.pending = g.pending
             /\ h.recalculation_required = g.recalculation_required
             /\ h.strong_dependent = g.strong_dependent
<1> DEFINE h == Bypassed(g, k)
           e == Inherited(g, k)
<1>1. /\ k \in Own /\ k \in Key /\ k \notin User /\ k \in Live(g) /\ DOMAIN g.inputs = Live(g)
  BY KeysAssumption DEF Sound, Shaped, Key
<1>2. g.inputs[k] \in [1..2 -> Edges]
  BY <1>1 DEF Sound, Shaped, Width
<1>3. e = g.inputs[k][1] \/ e = g.inputs[k][2]
  BY DEF Inherited
<1>4. e \in Edges /\ {e.from} \cap Key \subseteq SourcesIn(g.inputs[k])
  <2>1. 1 \in DOMAIN g.inputs[k] /\ 2 \in DOMAIN g.inputs[k]
    BY <1>2
  <2> HIDE DEF e
  <2> QED BY <1>2, <1>3, <2>1, EdgeOfRow
<1>5. /\ DOMAIN h = Fields
      /\ h.nodes = g.nodes /\ h.math = g.math /\ h.strong_dependent = g.strong_dependent
      /\ h.params = g.params /\ h.pending = g.pending
      /\ h.recalculation_required = g.recalculation_required
      /\ h.inputs = [j \in DOMAIN g.inputs |-> Redirected(g.inputs[j], k, e)]
      /\ h.outputs = [i \in DOMAIN g.outputs |->
               IF g.outputs[i].from = k /\ \A j \in 1..i : g.outputs[j] # NoEdge
               THEN e ELSE g.outputs[i]]
  BY DEF Bypassed, Fields, Sound, Shaped
<1> HIDE DEF h, e
<1>6. Live(h) = Live(g) /\ \A j : Width(h, j) = Width(g, j)
  BY <1>5 DEF Live, Width
<1>7. \A j \in Live(g) :
         /\ h.inputs[j] \in [1..Width(h, j) -> Edges]
         /\ SourcesIn(h.inputs[j]) \subseteq SourcesIn(g.inputs[j]) \cup ({e.from} \cap Key)
         /\ k \notin SourcesIn(g.inputs[j]) => SourcesIn(h.inputs[j]) \subseteq SourcesIn(g.inputs[j])
  <2> TAKE j \in Live(g)
  <2>1. g.inputs[j] \in [1..Width(g, j) -> Edges] /\ j \in DOMAIN g.inputs
    BY DEF Sound, Shaped
  <2>2. h.inputs[j] = Redirected(g.inputs[j], k, e)
    BY <1>5, <2>1
  <2> QED BY <1>1, <1>4, <1>6, <2>1, <2>2, RedirectedFacts
<1>8. /\ h.outputs \in [1..GraphOutputs -> Edges]
      /\ SourcesIn(h.outputs) \subseteq SourcesIn(g.outputs) \cup ({e.from} \cap Key)
  <2>1. g.outputs \in [1..GraphOutputs -> Edges]
    BY DEF Sound, Shaped
  <2>2. h.outputs \in [1..GraphOutputs -> Edges]
    BY <1>4, <1>5, <2>1
  <2>3. \A i \in 1..GraphOutputs : h.outputs[i] = e \/ h.outputs[i] = g.outputs[i]
    BY <1>5, <2>1
  <2> QED BY <2>1, <2>2, <2>3 DEF SourcesIn
<1>9. DOMAIN h.inputs = Live(g)
  BY <1>1, <1>5
<1>10. Shaped(h)
  BY <1>5, <1>6, <1>7, <1>8, <1>9 DEF Sound, Shaped
<1>11. Paired(h)
  BY <1>5 DEF Sound, Paired
<1>12. ASSUME Sane(g) PROVE Sane(h)
  <2> DEFINE src == e.from
  <2>6. /\ {src} \cap Key \subseteq SourcesIn(g.inputs[k])
        /\ \A j \in DOMAIN g.inputs :
              /\ SourcesIn(h.inputs[j]) \subseteq SourcesIn(g.inputs[j]) \cup ({src} \cap Key)
              /\ k \notin SourcesIn(g.inputs[j]) =>
                   SourcesIn(h.inputs[j]) \subseteq SourcesIn(g.inputs[j])
    BY <1>1, <1>4, <1>7
  <2>7. k \in DOMAIN g.inputs /\ DOMAIN h.inputs = DOMAIN g.inputs /\ Acyclic(g.inputs)
    BY <1>1, <1>9, <1>12 DEF Sane
  <2> HIDE DEF src
  <2>1. Acyclic(h.inputs)
    BY <2>6, <2>7, NodeBypassed
  <2>2. {e.from} \cap Key \subseteq Live(g)
    BY <1>1, <1>4, <1>12 DEF Sane, Linked
  <2>3. \A j \in DOMAIN h.inputs : SourcesIn(h.inputs[j]) \subseteq Live(h)
    BY <1>1, <1>6, <1>7, <1>9, <1>12, <2>2 DEF Sane, Linked
  <2>4. SourcesIn(h.outputs) \subseteq Live(h)
    BY <1>6, <1>8, <1>12, <2>2 DEF Sane, Linked
  <2>5. Linked(h)
    BY <1>5, <1>12, <2>3, <2>4 DEF Sane, Linked
  <2> QED BY <2>1, <2>5 DEF Sane
<1> QED BY <1>5, <1>10, <1>11, <1>12 DEF h, Sound

LEMMA EvaluatedKeeps ==
  ASSUME NEW g, NEW k, Sound(g)
  PROVE  /\ Sound(Evaluated(g, k))
         /\ Sane(g) => Sane(Evaluated(g, k))
         /\ ~Panics(g, k) => Marks(g, Evaluated(g, k))
         /\ g.recalculation_required => Evaluated(g, k).recalculation_required
         /\ Evaluated(g, k).nodes = g.nodes
         /\ g.pending \subseteq Evaluated(g, k).pending
<1> DEFINE h == Evaluated(g, k)
           b == Bypassed(g, k)
<1>1. CASE Panics(g, k)
  <2>1. h = b /\ k \in g.math \cap DOMAIN g.inputs
    BY <1>1 DEF Evaluated, Panics, IsLoneMath
  <2> QED BY <1>1, <2>1, BypassedSound
<1>2. CASE IsLoneMath(g, k) /\ ~Panics(g, k)
  <2>1. h = Freed(b, k) /\ k \in g.math \cap DOMAIN g.inputs
    BY <1>2 DEF Evaluated, IsLoneMath
  <2>2. /\ Sound(b) /\ (Sane(g) => Sane(b)) /\ b.nodes = g.nodes /\ b.pending = g.pending
        /\ b.recalculation_required = g.recalculation_required
    BY <2>1, BypassedSound
  <2>3. k \in g.nodes /\ k \notin g.pending
    BY <2>1 DEF Sound, Shaped, Live
  <2> HIDE DEF b, h
  <2>4. /\ Keeps(b, h) /\ h.recalculation_required /\ b.pending \subseteq h.pending
        /\ h.nodes = b.nodes
    BY <2>1, <2>2, <2>3, FreedKeeps
  <2> QED BY <2>2, <2>4 DEF Keeps, Marks, h
<1>3. CASE ~IsLoneMath(g, k) /\ (IsDeadMath(g, k) \/ IsUnconnectedFeedback(g, k))
  <2>1. h = Freed(g, k)
    BY <1>3 DEF Evaluated, Panics
  <2>2. k \in g.nodes \/ Dependent(g, k) # k
    BY <1>3 DEF IsDeadMath, IsUnconnectedFeedback, Sound, Shaped
  <2> HIDE DEF h
  <2>3. Keeps(g, h) /\ g.pending \subseteq h.pending /\ h.nodes = g.nodes
    BY <2>1, <2>2, FreedKeeps
  <2> QED BY <2>3 DEF Keeps, Marks, h
<1>4. CASE ~IsLoneMath(g, k) /\ ~IsDeadMath(g, k) /\ ~IsUnconnectedFeedback(g, k)
  <2>1. h = g
    BY <1>4 DEF Evaluated, Panics
  <2> QED BY <2>1 DEF Marks
<1> QED BY <1>1, <1>2, <1>3, <1>4

-----------------------------------------------------------------------------
(***************************************************************************)
(* Removing nodes that were pending.                                       *)
(***************************************************************************)
LEMMA RemovedKeeps ==
  ASSUME NEW g, NEW K \in SUBSET g.pending, \A k \in K : Dependent(g, k) \in K, Sound(g)
  PROVE  LET h == Removed(g, K)
         IN  /\ Sound(h)
             /\ Sane(g) => Sane(h)
             /\ h.inputs = g.inputs
             /\ h.recalculation_required = g.recalculation_required
             /\ h.pending = g.pending \ K
             /\ h.outputs = g.outputs /\ h.params = g.params
<1> DEFINE h == Removed(g, K)
<1>1. /\ DOMAIN h = Fields
      /\ h.nodes = g.nodes \ K /\ h.math = g.math \ K /\ h.pending = g.pending \ K
      /\ h.strong_dependent = [k \in Own |-> IF k \in K THEN k ELSE g.strong_dependent[k]]
      /\ h.inputs = g.inputs /\ h.params = g.params /\ h.outputs = g.outputs
      /\ h.recalculation_required = g.recalculation_required
  BY DEF Removed, Fields, Sound, Shaped
<1> HIDE DEF h
<1>2. Live(h) = Live(g) /\ \A j \in Live(g) : Width(h, j) = Width(g, j)
  BY <1>1 DEF Live, Width
<1>3. Shaped(h)
  BY <1>1, <1>2 DEF Sound, Shaped
<1>4. Paired(h)
  <2>1. \A j \in Own \cap K : g.strong_dependent[j] \in K
    BY DEF Dependent
  <2>2. \A j \in Own \ K : g.strong_dependent[j] \in Own \ K
    BY <2>1 DEF Sound, Paired
  <2> QED BY <1>1, <2>1, <2>2 DEF Sound, Paired
<1>5. Sane(g) => Sane(h)
  BY <1>1, <1>2 DEF Sane, Linked
<1> QED BY <1>1, <1>3, <1>4, <1>5 DEF h, Sound

-----------------------------------------------------------------------------
(***************************************************************************)
(* The steps.                                                              *)
(***************************************************************************)
LEMMA UpdateInv ==
  ASSUME EdgesInv, NEW g, Update(g), Sound(g), "parameter" \notin calls /\ Sane(graph) => Sane(g),
         phase # "panicked", phase' # "panicked" => Marks(graph, g), graph.pending \subseteq g.pending,
         UNCHANGED <<calls, sent_pending>>,
         phase' \in {phase, "panicked"}, keys' \subseteq g.nodes, keys = {} => keys' = {}
  PROVE  EdgesInv'
<1>1. graph' = g /\ unsent' = unsent \cup {f \in {"inputs", "outputs", "params"} : g[f] # graph[f]}
  BY DEF Update
<1>2. Sound(graph)' /\ calls' \in CallSets /\ phase' \in {"edit", "free_old", "panicked"}
  BY <1>1 DEF EdgesInv
<1>3. keys' \subseteq graph'.nodes /\ (phase' = "edit" => keys' = {})
  BY <1>1 DEF EdgesInv
<1>4. sent_pending' \subseteq graph'.pending
  BY <1>1 DEF EdgesInv
<1>5. unsent' \subseteq {"inputs", "outputs", "params"}
  BY <1>1 DEF EdgesInv
<1>6. ASSUME phase' # "panicked", "inputs" \in unsent' PROVE graph'.recalculation_required
  <2>1. "inputs" \in unsent \/ g.inputs # graph.inputs
    BY <1>1, <1>6
  <2> QED BY <1>1, <1>6, <2>1 DEF EdgesInv, Marks
<1>7. "parameter" \notin calls' => Sane(graph)'
  BY <1>1 DEF EdgesInv
<1> QED BY <1>2, <1>3, <1>4, <1>5, <1>6, <1>7 DEF EdgesInv

(* A call between two commits, which does not panic. *)
LEMMA CallInv ==
  ASSUME EdgesInv, NEW g, Update(g), Sound(g), "parameter" \notin calls /\ Sane(graph) => Sane(g),
         phase = "edit", Marks(graph, g), graph.pending \subseteq g.pending,
         UNCHANGED <<calls, phase, keys, sent_pending>>
  PROVE  EdgesInv'
<1>1. keys = {}
  BY DEF EdgesInv
<1> QED BY <1>1, UpdateInv

LEMMA InputSinkIs ==
  ASSUME NEW g, NEW s \in InputSinks(g)
  PROVE  \E m \in User \cap Live(g), c \in 1..UserInputs : s = Input(m, c) /\ s[2] = m
  BY DEF InputSinks, Input

LEMMA PushNodeInv ==
  ASSUME EdgesInv, NEW k \in User, PushNode(k) PROVE EdgesInv'
<1> DEFINE row == [i \in 1..UserInputs |-> NoEdge]
           g == Pushed(graph, k, row)
<1>1. phase = "edit" /\ k \in User \ graph.nodes /\ Update(g)
      /\ UNCHANGED <<calls, phase, keys, sent_pending>>
  BY DEF PushNode
<1>2. Sound(graph) /\ k \in Key
  BY DEF EdgesInv, Key
<1>3. row \in [1..UserInputs -> Edges] /\ SourcesIn(row) = {}
  BY NoEdgeFacts, EmptyRow
<1> HIDE DEF row
<1>4. IsPushed(graph, g, k, row)
  BY <1>2, PushedIs DEF Sound, Shaped
<1> HIDE DEF g
<1>5. Width(g, k) = UserInputs
  BY DEF Width
<1>6. Sound(g) /\ Marks(graph, g)
  BY <1>1, <1>2, <1>3, <1>4, <1>5, PushedSound
<1>7. Sane(graph) => Sane(g)
  BY <1>1, <1>2, <1>3, <1>4, PushedSane
<1>8. g.pending = graph.pending
  BY <1>4 DEF IsPushed
<1> QED BY <1>1, <1>6, <1>7, <1>8, CallInv

(* Connect, given what the graph may become. *)
LEMMA ConnectInv ==
  ASSUME EdgesInv, NEW s, NEW e, NEW additive \in BOOLEAN, Connect(s, e, additive),
         \A g \in Joined(graph, s, e) :
            Sound(g) /\ (Sane(graph) => Sane(g)) /\ g.pending = graph.pending
  PROVE  EdgesInv'
<1>1. PICK g \in Connected(graph, s, e, additive) : Update(Required(g))
  BY DEF Connect
<1>2. phase = "edit" /\ UNCHANGED <<calls, phase, keys, sent_pending>>
  BY DEF Connect
<1>3. Sound(g) /\ (Sane(graph) => Sane(g)) /\ g.pending = graph.pending
  BY <1>1 DEF Connected, Added, Replaced, Joined, Summed
<1>4. /\ Sound(Required(g))
      /\ Sane(g) => Sane(Required(g))
      /\ Required(g).recalculation_required = TRUE
  BY <1>3, RequiredKeeps
<1>5. Required(g).pending = g.pending
  BY <1>3 DEF Required, Sound, Shaped, Fields
<1>6. Marks(graph, Required(g))
  BY <1>4 DEF Marks
<1> QED BY <1>1, <1>2, <1>3, <1>4, <1>5, <1>6, CallInv

LEMMA ConnectNodesJoins ==
  ASSUME EdgesInv, NEW k \in User \cap Live(graph), NEW c \in 1..UserOutputs, NEW s,
         NEW additive \in BOOLEAN, ConnectNodes(k, c, s, additive)
  PROVE  /\ Connect(s, UserEdge(k, c), additive)
         /\ \A g \in Joined(graph, s, UserEdge(k, c)) :
              Sound(g) /\ (Sane(graph) => Sane(g)) /\ g.pending = graph.pending
<1>1. s \in InputSinks(graph) /\ ~HasPath(graph, s[2], k) /\ Connect(s, UserEdge(k, c), additive)
  BY DEF ConnectNodes
<1>2. PICK m \in User \cap Live(graph) : \E d \in 1..UserInputs : s = Input(m, d) /\ s[2] = m
  BY <1>1, InputSinkIs
<1>3. PICK d \in 1..UserInputs : s = Input(m, d) /\ s[2] = m
  BY <1>2
<1>4. PICK B \in SUBSET Key : k \in B /\ ClosedUnderSources(graph, B) /\ m \notin B
  BY <1>1, <1>3 DEF HasPath
<1>5. Sound(graph) /\ UserEdge(k, c) \in Edges /\ UserEdge(k, c).from = k
  <2>1. c \in Nat /\ k \in Key
    BY ChannelsAssumption DEF Key
  <2> QED BY <2>1, UserEdgeTyped DEF EdgesInv
<1>6. \A g \in Joined(graph, s, UserEdge(k, c)) :
         Sound(g) /\ (Sane(graph) => Sane(g)) /\ g.pending = graph.pending
  BY <1>3, <1>4, <1>5, InputConnected
<1> QED BY <1>1, <1>6

LEMMA ConnectNodesInv ==
  ASSUME EdgesInv, NEW k \in User \cap Live(graph), NEW c \in 1..UserOutputs, NEW s,
         NEW additive \in BOOLEAN, ConnectNodes(k, c, s, additive)
  PROVE  EdgesInv'
  BY ConnectNodesJoins, ConnectInv

LEMMA ConnectNodeToOutputJoins ==
  ASSUME EdgesInv, NEW k \in User \cap Live(graph), NEW c \in 1..UserOutputs, NEW s,
         NEW additive \in BOOLEAN, ConnectNodeToOutput(k, c, s, additive)
  PROVE  /\ Connect(s, UserEdge(k, c), additive)
         /\ \A g \in Joined(graph, s, UserEdge(k, c)) :
              Sound(g) /\ (Sane(graph) => Sane(g)) /\ g.pending = graph.pending
<1>1. s \in OutputSinks /\ Connect(s, UserEdge(k, c), additive)
  BY DEF ConnectNodeToOutput
<1>2. PICK d \in 1..GraphOutputs : s = Output(d)
  BY <1>1 DEF OutputSinks
<1>3. Sound(graph) /\ UserEdge(k, c) \in Edges /\ UserEdge(k, c).from = k
  <2>1. c \in Nat /\ k \in Key
    BY ChannelsAssumption DEF Key
  <2> QED BY <2>1, UserEdgeTyped DEF EdgesInv
<1>4. \A g \in Joined(graph, s, UserEdge(k, c)) :
         Sound(g) /\ (Sane(graph) => Sane(g)) /\ g.pending = graph.pending
  BY <1>2, <1>3, OutputConnected
<1> QED BY <1>1, <1>4

LEMMA ConnectNodeToOutputInv ==
  ASSUME EdgesInv, NEW k \in User \cap Live(graph), NEW c \in 1..UserOutputs, NEW s,
         NEW additive \in BOOLEAN, ConnectNodeToOutput(k, c, s, additive)
  PROVE  EdgesInv'
  BY ConnectNodeToOutputJoins, ConnectInv

LEMMA ConnectGraphInputJoins ==
  ASSUME EdgesInv, NEW c \in 1..GraphInputs, NEW s,
         NEW additive \in BOOLEAN, ConnectGraphInput(c, s, additive)
  PROVE  /\ s \in InputSinks(graph) \cup OutputSinks /\ Connect(s, UserEdge(Graph, c), additive)
         /\ \A g \in Joined(graph, s, UserEdge(Graph, c)) :
              Sound(g) /\ (Sane(graph) => Sane(g)) /\ g.pending = graph.pending
<1>1. s \in InputSinks(graph) \cup OutputSinks /\ Connect(s, UserEdge(Graph, c), additive)
  BY DEF ConnectGraphInput
<1>2. /\ Sound(graph) /\ UserEdge(Graph, c) \in Edges /\ UserEdge(Graph, c).from = Graph
      /\ {Graph} \cap Key = {}
  <2>1. c \in Nat
    BY ChannelsAssumption
  <2> QED BY <2>1, NamesApart, UserEdgeTyped DEF EdgesInv
<1>3. ClosedUnderSources(graph, {})
  BY DEF ClosedUnderSources
<1>4. CASE s \in InputSinks(graph)
  <2>1. PICK m \in User \cap Live(graph) : \E d \in 1..UserInputs : s = Input(m, d)
    BY <1>4, InputSinkIs
  <2>2. PICK d \in 1..UserInputs : s = Input(m, d)
    BY <2>1
  <2>3. \A g \in Joined(graph, s, UserEdge(Graph, c)) :
           Sound(g) /\ (Sane(graph) => Sane(g)) /\ g.pending = graph.pending
    BY <1>2, <1>3, <2>2, InputConnected
  <2> QED BY <1>1, <2>3
<1>5. CASE s \in OutputSinks
  <2>1. PICK d \in 1..GraphOutputs : s = Output(d)
    BY <1>5 DEF OutputSinks
  <2>2. \A g \in Joined(graph, s, UserEdge(Graph, c)) :
           Sound(g) /\ (Sane(graph) => Sane(g)) /\ g.pending = graph.pending
    BY <1>2, <2>1, OutputConnected
  <2> QED BY <1>1, <2>2
<1> QED BY <1>1, <1>4, <1>5

LEMMA ConnectGraphInputInv ==
  ASSUME EdgesInv, NEW c \in 1..GraphInputs, NEW s,
         NEW additive \in BOOLEAN, ConnectGraphInput(c, s, additive)
  PROVE  EdgesInv'
  BY ConnectGraphInputJoins, ConnectInv

LEMMA ConnectFeedbackInv ==
  ASSUME EdgesInv, NEW k \in User \cap Live(graph), NEW c \in 1..UserOutputs, NEW s,
         NEW additive \in BOOLEAN, ConnectFeedback(k, c, s, additive)
  PROVE  EdgesInv'
<1>1. /\ phase = "edit" /\ s \in InputSinks(graph)
      /\ UNCHANGED <<calls, phase, keys, sent_pending>>
  BY DEF ConnectFeedback
<1>2. PICK source \in Unused(graph) : \E sink \in Unused(graph) :
         /\ source # sink
         /\ \E g \in Connected(WithFeedbackNodes(graph, source, sink, UserEdge(k, c)),
                                s, Edge(source, c, additive), additive) : Update(g)
  BY DEF ConnectFeedback
<1>3. PICK sink \in Unused(graph) :
         /\ source # sink
         /\ \E g \in Connected(WithFeedbackNodes(graph, source, sink, UserEdge(k, c)),
                                s, Edge(source, c, additive), additive) : Update(g)
  BY <1>2
<1> DEFINE f == WithFeedbackNodes(graph, source, sink, UserEdge(k, c))
           e == Edge(source, c, additive)
<1>4. PICK g : g \in Connected(f, s, e, additive) /\ Update(g)
  BY <1>3
<1>5. g \in Joined(f, s, e)
  BY <1>4 DEF Connected, Added, Replaced, Joined, Summed
<1>6. PICK m \in User \cap Live(graph) : \E d \in 1..UserInputs : s = Input(m, d)
  BY <1>1, InputSinkIs
<1>7. PICK d \in 1..UserInputs : s = Input(m, d)
  BY <1>6
<1>8. Sound(graph) /\ c \in Nat /\ k \in Key
  BY ChannelsAssumption DEF EdgesInv, Key
<1>9. /\ Sound(f) /\ (Sane(graph) => Sane(f)) /\ f.recalculation_required
      /\ Live(f) = Live(graph) \cup {sink, source}
      /\ f.inputs[source] = <<NoEdge>>
      /\ f.pending = graph.pending
  <2>1. IsFedBack(graph, f, source, sink, k, c)
    BY <1>3, <1>8, FeedbackAdded
  <2> QED BY <2>1 DEF IsFedBack
<1>10. source \in Own /\ source \in Key /\ source \notin User
  BY KeysAssumption DEF Unused, Key
<1>11. e \in Edges /\ e.from = source
  BY <1>8, <1>10 DEF Edge, Edges
<1> HIDE DEF f, e
<1>12. ClosedUnderSources(f, {source})
  BY <1>9, OneEdge, NoEdgeFacts DEF ClosedUnderSources
<1>13. m \in User \cap Live(f) /\ m \notin {source} /\ {e.from} \cap Key \subseteq {source} \cap Live(f)
  BY <1>9, <1>10, <1>11
<1>14. /\ Sound(g) /\ (Sane(f) => Sane(g)) /\ g.pending = f.pending
       /\ (f.recalculation_required => g.recalculation_required)
  BY <1>5, <1>7, <1>9, <1>11, <1>12, <1>13, InputConnected
<1>15. Marks(graph, g)
  BY <1>9, <1>14 DEF Marks
<1> QED BY <1>1, <1>4, <1>9, <1>14, <1>15, CallInv

LEMMA ConnectParameterInv ==
  ASSUME EdgesInv, NEW k \in User \cap Live(graph), NEW c \in 1..UserOutputs, NEW s,
         NEW additive \in BOOLEAN, ConnectParameter(k, c, s, additive)
  PROVE  EdgesInv'
<1>1. /\ phase = "edit" /\ s \in ParamSinks(graph) /\ "parameter" \in calls
      /\ UNCHANGED <<calls, phase, keys, sent_pending>>
  BY DEF ConnectParameter
<1>2. PICK g \in Connected(graph, s, UserEdge(k, c), additive) : Update(g)
  BY DEF ConnectParameter
<1>3. g \in Joined(graph, s, UserEdge(k, c))
  BY <1>2 DEF Connected, Added, Replaced, Joined, Summed
<1>4. PICK m \in User \cap Live(graph) : \E p \in Parameters : s = Param(m, p)
  BY <1>1 DEF ParamSinks
<1>5. PICK p \in Parameters : s = Param(m, p)
  BY <1>4
<1>6. Sound(graph) /\ UserEdge(k, c) \in Edges
  <2>1. c \in Nat /\ k \in Key
    BY ChannelsAssumption DEF Key
  <2> QED BY <2>1, UserEdgeTyped DEF EdgesInv
<1>7. Sound(g) /\ Marks(graph, g) /\ g.pending = graph.pending
  BY <1>3, <1>5, <1>6, ParamConnected
<1> QED BY <1>1, <1>2, <1>7, CallInv

LEMMA FreeNodeInv ==
  ASSUME EdgesInv, NEW k \in User, FreeNode(k) PROVE EdgesInv'
<1> DEFINE g == Freed(graph, k)
<1>1. phase = "edit" /\ Update(g) /\ UNCHANGED <<calls, phase, keys, sent_pending>>
  BY DEF FreeNode
<1>2. Sound(graph) /\ k \in graph.nodes
  BY DEF EdgesInv, FreeNode, Live
<1> HIDE DEF g
<1>3. Keeps(graph, g) /\ graph.pending \subseteq g.pending
  BY <1>2, FreedKeeps DEF g
<1> QED BY <1>1, <1>3, CallInv DEF Keeps

LEMMA DisconnectOutputInv ==
  ASSUME EdgesInv, NEW k, NEW c, DisconnectOutput(k, c) PROVE EdgesInv'
<1> DEFINE g == OutputDisconnected(graph, k, c)
<1>1. phase = "edit" /\ Update(g) /\ UNCHANGED <<calls, phase, keys, sent_pending>>
  BY DEF DisconnectOutput
<1>2. Sound(graph)
  BY DEF EdgesInv
<1> HIDE DEF g
<1>3. Keeps(graph, g) /\ g.pending = graph.pending
  BY <1>2, OutputDisconnectedKeeps DEF g
<1> QED BY <1>1, <1>3, CallInv DEF Keeps

(* An edge taken out of the graph and its source evaluated.  A panic stops *)
(* the graph before it asks for the update.                                *)
LEMMA EvaluateNodeInv ==
  ASSUME EdgesInv, NEW g, NEW k, EvaluateNode(g, k), UNCHANGED <<calls, sent_pending>>,
         phase # "panicked", keys' \subseteq keys, phase = "edit" \/ g = graph,
         Sound(g), Sane(graph) => Sane(g), Marks(graph, g), g.pending = graph.pending
  PROVE  EdgesInv'
<1> DEFINE h == Evaluated(g, k)
<1>1. /\ Update(h) /\ phase' \in {phase, "panicked"}
      /\ phase' # "panicked" => ~Panics(g, k)
  BY DEF EvaluateNode
<1> HIDE DEF h
<1>2. /\ Sound(h) /\ (Sane(g) => Sane(h)) /\ (~Panics(g, k) => Marks(g, h))
      /\ h.nodes = g.nodes /\ g.pending \subseteq h.pending
  BY EvaluatedKeeps DEF h
<1>3. phase' # "panicked" => Marks(graph, h)
  BY <1>1, <1>2 DEF Marks
<1>4. keys' \subseteq h.nodes /\ (keys = {} => keys' = {})
  BY <1>2 DEF EdgesInv
<1> QED BY <1>1, <1>2, <1>3, <1>4, UpdateInv

LEMMA DisconnectInputInv ==
  ASSUME EdgesInv, NEW s, DisconnectInput(s) PROVE EdgesInv'
<1> DEFINE g == Put(graph, s, NoEdge)
           r == IF s[1] = "inputs" THEN Required(g) ELSE g
<1>1. /\ phase = "edit" /\ s \in InputSinks(graph) \cup OutputSinks
      /\ EvaluateNode(r, EdgeAt(graph, s).from)
      /\ UNCHANGED <<calls, keys, sent_pending>>
  BY DEF DisconnectInput
<1>2. Sound(graph) /\ NoEdge \in Edges /\ {NoEdge.from} \cap Key = {}
  BY NoEdgeFacts DEF EdgesInv
<1>3. /\ Sound(r) /\ (Sane(graph) => Sane(r)) /\ Marks(graph, r)
      /\ r.pending = graph.pending
  <2>1. CASE s \in InputSinks(graph)
    <3>1. PICK m \in User \cap Live(graph) : \E d \in 1..UserInputs : s = Input(m, d)
      BY <2>1, InputSinkIs
    <3>2. PICK d \in 1..UserInputs : s = Input(m, d)
      BY <3>1
    <3>3. s[1] = "inputs" /\ r = Required(g)
      BY <3>2 DEF Input
    <3>4. ClosedUnderSources(graph, {}) /\ m \notin {} /\ Width(graph, m) = UserInputs
      BY DEF ClosedUnderSources, Width
    <3>5. Sound(g) /\ (Sane(graph) => Sane(g)) /\ g.pending = graph.pending
      BY <1>2, <3>2, <3>4, InputReplaced
    <3> HIDE DEF g
    <3>6. Sound(r) /\ (Sane(g) => Sane(r)) /\ r.recalculation_required = TRUE
      BY <3>3, <3>5, RequiredKeeps
    <3>7. r.pending = g.pending
      BY <3>3, <3>5 DEF Required, Sound, Shaped, Fields
    <3> QED BY <3>5, <3>6, <3>7 DEF Marks
  <2>2. CASE s \in OutputSinks
    <3>1. PICK d \in 1..GraphOutputs : s = Output(d)
      BY <2>2 DEF OutputSinks
    <3>2. s[1] = "outputs" /\ r = g
      BY <3>1 DEF Output
    <3> DEFINE p == Put(graph, Output(d), NoEdge)
    <3>4. /\ Sound(p) /\ (Sane(graph) => Sane(p)) /\ p.pending = graph.pending
          /\ p.inputs = graph.inputs /\ p.recalculation_required = graph.recalculation_required
      BY <1>2, <3>1, PutOutput
    <3> HIDE DEF p
    <3>5. g = p
      BY <3>1 DEF p
    <3>3. /\ Sound(g) /\ (Sane(graph) => Sane(g)) /\ g.pending = graph.pending
          /\ g.inputs = graph.inputs /\ g.recalculation_required = graph.recalculation_required
      BY <3>4, <3>5
    <3> HIDE DEF g
    <3> QED BY <3>2, <3>3 DEF Marks
  <2> QED BY <1>1, <2>1, <2>2
<1> HIDE DEF r
<1> QED BY <1>1, <1>3, EvaluateNodeInv

LEMMA DisconnectGraphInputInv ==
  ASSUME EdgesInv, NEW c, DisconnectGraphInput(c) PROVE EdgesInv'
<1>1. /\ phase = "edit" /\ c \in 1..GraphInputs
      /\ UNCHANGED <<calls, keys, sent_pending>>
  BY DEF DisconnectGraphInput
<1>2. Sound(graph) /\ keys = {}
  BY <1>1 DEF EdgesInv
<1>3. CASE c > GraphOutputs
  <2>1. Update(graph) /\ phase' = "panicked"
    BY <1>3 DEF DisconnectGraphInput
  <2> QED BY <1>1, <1>2, <2>1, UpdateInv
<1>4. CASE ~(c > GraphOutputs)
  <2> DEFINE g == Put(graph, Output(c), NoEdge)
             k == graph.outputs[c].from
             v == Evaluated(g, k)
             h == OutputDisconnected(v, Graph, c)
  <2>1. IF Panics(g, k) THEN EvaluateNode(g, k) ELSE Update(h) /\ UNCHANGED phase
    BY <1>4 DEF DisconnectGraphInput
  <2>2. c \in 1..GraphOutputs
    BY <1>1, <1>4, ChannelsAssumption
  <2>3. /\ Sound(g) /\ (Sane(graph) => Sane(g)) /\ g.pending = graph.pending
        /\ g.inputs = graph.inputs /\ g.recalculation_required = graph.recalculation_required
    BY <1>2, <2>2, NoEdgeFacts, PutOutput
  <2> HIDE DEF g, k
  <2>4. Marks(graph, g)
    BY <2>3 DEF Marks
  <2>5. CASE Panics(g, k)
    <3>1. EvaluateNode(g, k)
      BY <2>1, <2>5
    <3> QED BY <1>1, <2>3, <2>4, <3>1, EvaluateNodeInv
  <2>6. CASE ~Panics(g, k)
    <3>1. Sound(v) /\ (Sane(g) => Sane(v)) /\ Marks(g, v) /\ g.pending \subseteq v.pending
      BY <2>3, <2>6, EvaluatedKeeps
    <3> HIDE DEF v
    <3>2. Keeps(v, h) /\ h.pending = v.pending
      BY <3>1, OutputDisconnectedKeeps
    <3> HIDE DEF h
    <3>3. Update(h) /\ UNCHANGED phase
      BY <2>1, <2>6
    <3>4. Marks(graph, h)
      BY <2>4, <3>1, <3>2 DEF Keeps, Marks
    <3> QED BY <1>1, <2>3, <3>1, <3>2, <3>3, <3>4, CallInv DEF Keeps
  <2> QED BY <2>5, <2>6
<1> QED BY <1>3, <1>4

LEMMA BeginCommitInv == EdgesInv /\ BeginCommit => EdgesInv'
<1> SUFFICES ASSUME EdgesInv, BeginCommit PROVE EdgesInv'
  OBVIOUS
<1> QED BY DEF BeginCommit, EdgesInv

LEMMA EvaluateInv ==
  ASSUME EdgesInv, NEW k, Evaluate(k) PROVE EdgesInv'
<1>1. /\ phase = "free_old" /\ EvaluateNode(graph, k) /\ keys' = keys \ {k}
      /\ UNCHANGED <<calls, sent_pending>>
  BY DEF Evaluate
<1>2. Sound(graph) /\ Marks(graph, graph)
  BY DEF EdgesInv, Marks
<1> QED BY <1>1, <1>2, EvaluateNodeInv

LEMMA EndCommitInv == EdgesInv /\ EndCommit => EdgesInv'
<1> SUFFICES ASSUME EdgesInv, EndCommit PROVE EdgesInv'
  OBVIOUS
<1>1. phase = "free_old" /\ keys = {} /\ UNCHANGED <<calls, keys>>
  BY DEF EndCommit
<1>2. PICK gone \in SUBSET sent_pending :
         /\ \A k \in gone : Dependent(graph, k) \in gone
         /\ LET g == Removed(graph, gone)
            IN  \/ /\ graph' = g
                   /\ phase' \in {"edit", "panicked"}
                   /\ sent_pending' = sent_pending \ gone
                   /\ UNCHANGED unsent
                \/ /\ graph' = [g EXCEPT !.recalculation_required = FALSE]
                   /\ phase' = "edit"
                   /\ sent_pending' = g.pending
                   /\ unsent' = {}
  BY DEF EndCommit
<1> DEFINE g == Removed(graph, gone)
           h == [g EXCEPT !.recalculation_required = FALSE]
<1>3. gone \in SUBSET graph.pending /\ Sound(graph)
  BY DEF EdgesInv
<1>4. /\ Sound(g) /\ (Sane(graph) => Sane(g))
      /\ g.inputs = graph.inputs /\ g.recalculation_required = graph.recalculation_required
      /\ g.pending = graph.pending \ gone
  BY <1>2, <1>3, RemovedKeeps
<1> HIDE DEF g
<1>5. CASE graph' = g /\ phase' \in {"edit", "panicked"} /\ sent_pending' = sent_pending \ gone
           /\ UNCHANGED unsent
  BY <1>1, <1>4, <1>5 DEF EdgesInv
<1>6. CASE graph' = h /\ phase' = "edit" /\ sent_pending' = g.pending /\ unsent' = {}
  <2>1. /\ DOMAIN h = Fields /\ h.recalculation_required = FALSE
        /\ h.nodes = g.nodes /\ h.math = g.math /\ h.strong_dependent = g.strong_dependent
        /\ h.inputs = g.inputs /\ h.params = g.params /\ h.outputs = g.outputs
        /\ h.pending = g.pending
    BY <1>4 DEF Fields, Sound, Shaped
  <2> HIDE DEF h
  <2>2. Live(h) = Live(g) /\ \A k : Width(h, k) = Width(g, k)
    BY <2>1 DEF Live, Width
  <2>3. Shaped(h)
    BY <1>4, <2>1, <2>2 DEF Sound, Shaped
  <2>4. Paired(h)
    BY <1>4, <2>1 DEF Sound, Paired
  <2>5. Sane(g) => Sane(h)
    BY <2>1, <2>2 DEF Sane, Linked
  <2> QED BY <1>1, <1>4, <1>6, <2>1, <2>3, <2>4, <2>5 DEF EdgesInv, Sound
<1> QED BY <1>2, <1>5, <1>6 DEF g

-----------------------------------------------------------------------------
(***************************************************************************)
(* The theorems.                                                           *)
(***************************************************************************)
LEMMA InitEdges == Init => EdgesInv
<1> SUFFICES ASSUME Init PROVE EdgesInv
  OBVIOUS
<1>1. PICK nodes \in SUBSET User :
        graph = [nodes |-> nodes,
                 math |-> {},
                 strong_dependent |-> [k \in Own |-> k],
                 inputs |-> [k \in nodes |-> [i \in 1..UserInputs |-> NoEdge]],
                 params |-> [k \in nodes |-> [p \in Parameters |-> NoEdge]],
                 outputs |-> [i \in 1..GraphOutputs |-> NoEdge],
                 pending |-> {},
                 recalculation_required |-> FALSE]
  BY DEF Init
<1>2. Live(graph) = nodes
  BY <1>1 DEF Live
<1>3. Shaped(graph)
  BY <1>1, <1>2, NoEdgeFacts DEF Shaped, Fields, Key, Width
<1>4. Paired(graph)
  BY <1>1 DEF Paired
<1>5. \A k \in nodes : SourcesIn(graph.inputs[k]) = {}
  BY <1>1, EmptyRow
<1>6. SourcesIn(graph.outputs) = {}
  BY <1>1, EmptyRow
<1>7. DOMAIN graph.inputs = nodes
  BY <1>1
<1>8. Acyclic(graph.inputs)
  BY <1>5, <1>7 DEF Acyclic
<1>9. Linked(graph)
  <2>1. \A k \in DOMAIN graph.params : \A p \in Parameters : graph.params[k][p] = NoEdge
    BY <1>1
  <2> QED BY <1>5, <1>6, <1>7, <2>1 DEF Linked
<1> QED BY <1>1, <1>3, <1>4, <1>8, <1>9 DEF Init, EdgesInv, Sound, Sane

LEMMA NextEdges == EdgesInv /\ [Next]_vars => EdgesInv'
<1> SUFFICES ASSUME EdgesInv, [Next]_vars PROVE EdgesInv'
  OBVIOUS
<1>1. CASE UNCHANGED vars
  BY <1>1 DEF vars, EdgesInv, Sound, Shaped, Paired, Sane, Linked, Acyclic, Live, Width
<1>2. ASSUME NEW k \in User, PushNode(k) PROVE EdgesInv'
  BY <1>2, PushNodeInv
<1>3. ASSUME NEW k \in User, FreeNode(k) PROVE EdgesInv'
  BY <1>3, FreeNodeInv
<1>4. ASSUME NEW k \in User \cap Live(graph), NEW c \in 1..UserOutputs, NEW additive \in BOOLEAN,
             NEW s, ConnectNodes(k, c, s, additive)
      PROVE  EdgesInv'
  BY <1>4, ConnectNodesInv
<1>5. ASSUME NEW k \in User \cap Live(graph), NEW c \in 1..UserOutputs, NEW additive \in BOOLEAN,
             NEW s, ConnectFeedback(k, c, s, additive)
      PROVE  EdgesInv'
  BY <1>5, ConnectFeedbackInv
<1>6. ASSUME NEW k \in User \cap Live(graph), NEW c \in 1..UserOutputs, NEW additive \in BOOLEAN,
             NEW s, ConnectNodeToOutput(k, c, s, additive)
      PROVE  EdgesInv'
  BY <1>6, ConnectNodeToOutputInv
<1>7. ASSUME NEW k \in User \cap Live(graph), NEW c \in 1..UserOutputs, NEW additive \in BOOLEAN,
             NEW s, ConnectParameter(k, c, s, additive)
      PROVE  EdgesInv'
  BY <1>7, ConnectParameterInv
<1>8. ASSUME NEW c \in 1..GraphInputs, NEW additive \in BOOLEAN, NEW s,
             ConnectGraphInput(c, s, additive)
      PROVE  EdgesInv'
  BY <1>8, ConnectGraphInputInv
<1>9. ASSUME NEW s, DisconnectInput(s) PROVE EdgesInv'
  BY <1>9, DisconnectInputInv
<1>10. ASSUME NEW k, NEW c, DisconnectOutput(k, c) PROVE EdgesInv'
  BY <1>10, DisconnectOutputInv
<1>11. ASSUME NEW c, DisconnectGraphInput(c) PROVE EdgesInv'
  BY <1>11, DisconnectGraphInputInv
<1>12. CASE BeginCommit
  BY <1>12, BeginCommitInv
<1>13. ASSUME NEW k, Evaluate(k) PROVE EdgesInv'
  BY <1>13, EvaluateInv
<1>14. CASE EndCommit
  BY <1>14, EndCommitInv
<1> QED BY <1>1, <1>2, <1>3, <1>4, <1>5, <1>6, <1>7, <1>8, <1>9, <1>10, <1>11, <1>12, <1>13, <1>14
        DEF Next

(* The invariant of all of them: whatever calls are made and whichever     *)
(* nodes free_old takes out, the edges have the shape of the nodes, the    *)
(* pairs go together and, without edges to parameters, what is read is     *)
(* there and makes no circle.                                              *)
THEOREM EdgesKept == Spec => []EdgesInv
<1>1. Init => EdgesInv
  BY InitEdges
<1>2. EdgesInv /\ [Next]_vars => EdgesInv'
  BY NextEdges
<1> QED BY <1>1, <1>2, PTL DEF Spec

(* The fields of a Graph keep their types through every call and commit,   *)
(* those to parameters and those after which a commit panics included.     *)
THEOREM EdgesTyped == Spec => []TypeOK
<1>1. EdgesInv => TypeOK
  <2> SUFFICES ASSUME EdgesInv PROVE TypeOK
    OBVIOUS
  <2>1. Sound(graph)
    BY DEF EdgesInv
  <2>2. \A k \in DOMAIN graph.inputs : graph.inputs[k] \in Seq(Edges)
    <3> SUFFICES ASSUME NEW k \in Live(graph) PROVE graph.inputs[k] \in Seq(Edges)
      BY <2>1 DEF Sound, Shaped
    <3>1. graph.inputs[k] \in [1..Width(graph, k) -> Edges]
      BY <2>1 DEF Sound, Shaped
    <3>2. Width(graph, k) \in Nat
      BY ChannelsAssumption DEF Width
    <3> QED BY <3>1, <3>2
  <2>3. \A k \in DOMAIN graph.params : graph.params[k] \in [Parameters -> Edges]
    BY <2>1 DEF Sound, Shaped
  <2> QED BY <2>1, <2>2, <2>3 DEF TypeOK, EdgesInv, Sound, Shaped, Paired
<1> QED BY <1>1, EdgesKept, PTL

(* free_node_from_key and free_old leave no edge to or from a node that is *)
(* gone, and take the two nodes of a feedback connection together.  An     *)
(* edge to a parameter does stay, so this is for behaviours without them.  *)
THEOREM NamesNodes == Spec => []("parameter" \notin calls => EdgesNameNodes)
<1>1. EdgesInv => ("parameter" \notin calls => EdgesNameNodes)
  <2> SUFFICES ASSUME EdgesInv, "parameter" \notin calls PROVE EdgesNameNodes
    OBVIOUS
  <2>1. Sound(graph) /\ Linked(graph)
    BY DEF EdgesInv, Sane
  <2>2. DOMAIN graph.inputs = Live(graph) /\ DOMAIN graph.params = Live(graph)
    BY <2>1 DEF Sound, Shaped
  <2>3. \A k \in DOMAIN graph.params : SourcesIn(graph.params[k]) = {}
    <3> SUFFICES ASSUME NEW k \in Live(graph) PROVE SourcesIn(graph.params[k]) = {}
      BY <2>2
    <3>1. \A p \in DOMAIN graph.params[k] : graph.params[k][p] = NoEdge
      BY <2>1, <2>2 DEF Sound, Shaped, Linked
    <3> QED BY <3>1, NoEdgeFacts DEF SourcesIn
  <2>4. Sources(graph) \subseteq Live(graph)
    BY <2>1, <2>3 DEF Sources, Linked
  <2> QED BY <2>1, <2>2, <2>4 DEF EdgesNameNodes, Sound, Paired
<1> QED BY <1>1, EdgesKept, PTL

(* has_path refuses what would make a circle of direct edges, and neither  *)
(* math nodes, as they come and as they are bypassed, nor feedback pairs   *)
(* make one.                                                               *)
THEOREM NoCircles == Spec => []("parameter" \notin calls => InputsAcyclic)
<1>1. EdgesInv => ("parameter" \notin calls => InputsAcyclic)
  BY DEF EdgesInv, Sane, Acyclic, InputsAcyclic
<1> QED BY <1>1, EdgesKept, PTL

(* No call and no commit changes an edge between nodes and forgets that an *)
(* update is due.                                                          *)
THEOREM ChangesMarked == Spec => []InputChangesMarked
<1>1. EdgesInv => InputChangesMarked
  BY DEF EdgesInv, InputChangesMarked
<1> QED BY <1>1, EdgesKept, PTL

-----------------------------------------------------------------------------
(***************************************************************************)
(* Counting.  What a sink hears is a recursive function of the edges that  *)
(* is cut off at the number of own nodes.  As there are no circles it is   *)
(* the only function that is the sum of the two inputs at each math node.  *)
(***************************************************************************)
Smaller == {pair \in Nat \X Nat : pair[1] < pair[2]}

(* Induction, for a set of numbers. *)
LEMMA SetInduction ==
  ASSUME NEW S, 0 \in S, \A n \in Nat : n \in S => n + 1 \in S
  PROVE  Nat \subseteq S
<1> SUFFICES ASSUME Nat \ S # {} PROVE FALSE
  OBVIOUS
<1>1. IsWellFoundedOn(Smaller, Nat)
  BY NatLessThanWellFounded DEF OpToRel, Smaller
<1>2. \E x \in Nat \ S : \A y \in Nat \ S : ~ (<<y, x>> \in Smaller)
  BY <1>1, WFMin
<1>3. PICK x \in Nat \ S : \A y \in Nat \ S : ~ (<<y, x>> \in Smaller)
  BY <1>2
<1>4. x # 0 /\ x - 1 \in Nat /\ x - 1 + 1 = x /\ x - 1 < x
  BY <1>3
<1>5. <<x - 1, x>> \in Smaller
  BY <1>3, <1>4 DEF Smaller
<1>6. x - 1 \in S
  BY <1>3, <1>4, <1>5
<1>. QED  BY <1>3, <1>4, <1>6

Mathy(g) == g.math \cap DOMAIN g.inputs

(* What an edge that is not from a math node counts. *)
Direct(g, o, e) ==
  IF e.from \in Own \cap DOMAIN g.inputs
  THEN IF OutletOf(DelayedEdge(g, e.from), TRUE) = o THEN 1 ELSE 0
  ELSE IF OutletOf(e, FALSE) = o THEN 1 ELSE 0

Level(g, o, f, n) ==
  [e \in Edges |->
     IF e.from \in Mathy(g)
     THEN IF n = 0 THEN 0 ELSE f[n - 1][g.inputs[e.from][1]] + f[n - 1][g.inputs[e.from][2]]
     ELSE Direct(g, o, e)]

Prefix(g, o, f, n) ==
  /\ DOMAIN f = 0..n
  /\ \A m \in 0..n : f[m] = Level(g, o, f, m)

LEMMA LevelOfBefore ==
  ASSUME NEW g, NEW o, NEW f, NEW h, NEW n \in Nat, n # 0 => f[n - 1] = h[n - 1]
  PROVE  Level(g, o, f, n) = Level(g, o, h, n)
<1>1. CASE n = 0
  BY <1>1 DEF Level
<1>2. CASE n # 0
  BY <1>2 DEF Level
<1>. QED  BY <1>1, <1>2

LEMMA PrefixExists ==
  ASSUME NEW g, NEW o, NEW n \in Nat
  PROVE  \E f : Prefix(g, o, f, n)
<1> DEFINE S == {m \in Nat : \E f : Prefix(g, o, f, m)}
<1>1. 0 \in S
  <2> DEFINE f == [m \in 0..0 |-> Level(g, o, <<>>, 0)]
  <2>1. DOMAIN f = 0..0 /\ f[0] = Level(g, o, <<>>, 0)
    OBVIOUS
  <2>2. \A m \in 0..0 : m = 0
    OBVIOUS
  <2>. HIDE DEF f
  <2>3. f[0] = Level(g, o, f, 0)
    BY <2>1, LevelOfBefore
  <2>4. Prefix(g, o, f, 0)
    BY <2>1, <2>2, <2>3 DEF Prefix
  <2>. QED  BY <2>4
<1>2. ASSUME NEW m \in Nat, m \in S PROVE m + 1 \in S
  <2>1. PICK f : Prefix(g, o, f, m)
    BY <1>2
  <2> DEFINE h == [i \in 0..(m + 1) |-> IF i = m + 1 THEN Level(g, o, f, m + 1) ELSE f[i]]
  <2>2. /\ DOMAIN h = 0..(m + 1) /\ h[m + 1] = Level(g, o, f, m + 1)
        /\ \A i \in 0..m : h[i] = f[i]
    OBVIOUS
  <2>. HIDE DEF h
  <2>3. \A i \in 0..(m + 1) : i \in Nat /\ (i # 0 => i - 1 \in 0..m) /\ (i # m + 1 => i \in 0..m)
    OBVIOUS
  <2>4. ASSUME NEW i \in 0..(m + 1) PROVE h[i] = Level(g, o, h, i)
    <3>1. Level(g, o, f, i) = Level(g, o, h, i)
      BY <2>2, <2>3, LevelOfBefore
    <3>2. CASE i = m + 1
      BY <2>2, <3>1, <3>2
    <3>3. CASE i # m + 1
      BY <2>1, <2>2, <2>3, <3>1, <3>3 DEF Prefix
    <3>. QED  BY <3>2, <3>3
  <2>5. Prefix(g, o, h, m + 1)
    BY <2>2, <2>4 DEF Prefix
  <2>. QED  BY <2>5
<1>. HIDE DEF S
<1>3. n \in S
  BY <1>1, <1>2, SetInduction
<1>. QED  BY <1>3 DEF S

LEMMA PrefixUnique ==
  ASSUME NEW g, NEW o, NEW n \in Nat, NEW f, Prefix(g, o, f, n), NEW k \in Nat, NEW h,
         Prefix(g, o, h, k), NEW m \in Nat, m <= n, m <= k
  PROVE  f[m] = h[m]
<1> DEFINE S == {i \in Nat : i <= n /\ i <= k => f[i] = h[i]}
<1>0. \A i \in Nat : i <= n /\ i <= k => f[i] = Level(g, o, f, i) /\ h[i] = Level(g, o, h, i)
  BY DEF Prefix
<1>1. 0 \in S
  <2>1. Level(g, o, f, 0) = Level(g, o, h, 0)
    BY LevelOfBefore
  <2>. QED  BY <1>0, <2>1
<1>2. ASSUME NEW i \in Nat, i \in S PROVE i + 1 \in S
  <2>1. SUFFICES ASSUME i + 1 <= n, i + 1 <= k PROVE f[i + 1] = h[i + 1]
    OBVIOUS
  <2>2. f[i] = h[i] /\ i + 1 - 1 = i /\ i + 1 \in Nat
    BY <1>2, <2>1
  <2>3. Level(g, o, f, i + 1) = Level(g, o, h, i + 1)
    BY <2>2, LevelOfBefore
  <2>. QED  BY <1>0, <2>1, <2>2, <2>3
<1>. HIDE DEF S
<1>3. m \in S
  BY <1>1, <1>2, SetInduction
<1>. QED  BY <1>3 DEF S

(* The function in CountIn is what its equation says. *)
CountFun(g, o) == CHOOSE count : count = [n \in Nat |-> Level(g, o, count, n)]

LEMMA CountExists ==
  ASSUME NEW g, NEW o
  PROVE  CountFun(g, o) = [n \in Nat |-> Level(g, o, CountFun(g, o), n)]
<1> DEFINE prefix(n) == CHOOSE f : Prefix(g, o, f, n)
           F == [n \in Nat |-> prefix(n)[n]]
<1>1. \A n \in Nat : Prefix(g, o, prefix(n), n)
  BY PrefixExists
<1>2. \A n \in Nat : F[n] = prefix(n)[n]
  OBVIOUS
<1>3. F = [n \in Nat |-> F[n]]
  OBVIOUS
<1>. HIDE DEF prefix, F
<1>4. ASSUME NEW n \in Nat PROVE F[n] = Level(g, o, F, n)
  <2>1. F[n] = Level(g, o, prefix(n), n)
    BY <1>1, <1>2 DEF Prefix
  <2>2. n # 0 => F[n - 1] = prefix(n)[n - 1]
    <3> SUFFICES ASSUME n # 0 PROVE F[n - 1] = prefix(n)[n - 1]
      OBVIOUS
    <3>1. n - 1 \in Nat /\ n - 1 <= n /\ n - 1 <= n - 1
      OBVIOUS
    <3>2. prefix(n - 1)[n - 1] = prefix(n)[n - 1]
      BY <1>1, <3>1, PrefixUnique
    <3>. QED  BY <1>2, <3>1, <3>2
  <2>3. Level(g, o, prefix(n), n) = Level(g, o, F, n)
    BY <2>2, LevelOfBefore
  <2>. QED  BY <2>1, <2>3
<1>5. F = [n \in Nat |-> Level(g, o, F, n)]
  BY <1>3, <1>4
<1>. QED  BY <1>5 DEF CountFun

LEMMA CountInIs == ASSUME NEW g, NEW o PROVE CountIn(g, o) = CountFun(g, o)[Cardinality(Own)]
  BY DEF CountIn, CountFun, Level, Mathy, Direct

-----------------------------------------------------------------------------
(* h counts an outlet at every edge: at math nodes it is the sum.          *)
Counts(g, o, h) ==
  /\ h \in [Edges -> Nat]
  /\ \A e \in Edges : e.from \in Mathy(g)
                       => h[e] = h[g.inputs[e.from][1]] + h[g.inputs[e.from][2]]
  /\ \A e \in Edges : e.from \notin Mathy(g) => h[e] = Direct(g, o, e)

LEMMA MathInputs ==
  ASSUME NEW g, Shaped(g), NEW k \in Mathy(g)
  PROVE  /\ k \in Own /\ k \in Live(g) /\ DOMAIN g.inputs[k] = {1, 2}
         /\ g.inputs[k][1] \in Edges /\ g.inputs[k][2] \in Edges
<1>1. k \in Own /\ k \in Live(g) /\ k \in g.math /\ k \notin User
  BY KeysAssumption DEF Mathy, Shaped
<1>2. Width(g, k) = 2
  BY <1>1 DEF Width
<1>3. g.inputs[k] \in [1..2 -> Edges]
  BY <1>1, <1>2 DEF Shaped
<1>4. 1..2 = {1, 2}
  OBVIOUS
<1>. QED  BY <1>1, <1>3, <1>4

LEMMA MathSources ==
  ASSUME NEW g, Shaped(g), NEW k \in Mathy(g), NEW S, S \subseteq Own,
         SourcesIn(g.inputs[k]) \cap S = {}
  PROVE  g.inputs[k][1].from \notin S /\ g.inputs[k][2].from \notin S
<1>1. DOMAIN g.inputs[k] = {1, 2}
  BY MathInputs
<1>2. S \subseteq Key
  BY DEF Key
<1>. QED  BY <1>1, <1>2 DEF SourcesIn

LEMMA DirectTyped == ASSUME NEW g, NEW o, NEW e PROVE Direct(g, o, e) \in Nat
  BY DEF Direct

LEMMA CountsUnique ==
  ASSUME NEW g, Shaped(g), Acyclic(g.inputs), NEW o, NEW h, Counts(g, o, h),
         NEW f, Counts(g, o, f)
  PROVE  h = f
<1> DEFINE S == {k \in Mathy(g) : \E e \in Edges : e.from = k /\ h[e] # f[e]}
<1>1. ASSUME S # {} PROVE FALSE
  <2>1. S \in SUBSET DOMAIN g.inputs
    BY DEF Mathy
  <2>2. PICK k \in S : SourcesIn(g.inputs[k]) \cap S = {}
    <3>. HIDE DEF S
    <3>. QED  BY <1>1, <2>1 DEF Acyclic
  <2>3. k \in Mathy(g) /\ S \subseteq Own
    BY MathInputs
  <2>4. PICK e \in Edges : e.from = k /\ h[e] # f[e]
    OBVIOUS
  <2> DEFINE a == g.inputs[k][1]
             b == g.inputs[k][2]
  <2>5. a \in Edges /\ b \in Edges
    BY <2>3, MathInputs
  <2>6. a.from \notin S /\ b.from \notin S
    <3>. HIDE DEF S
    <3>. QED  BY <2>2, <2>3, MathSources
  <2>. HIDE DEF a, b
  <2>7. \A x \in Edges : x.from \notin S => h[x] = f[x]
    BY DEF Counts
  <2>8. h[a] = f[a] /\ h[b] = f[b]
    BY <2>5, <2>6, <2>7
  <2>9. h[e] = h[a] + h[b] /\ f[e] = f[a] + f[b]
    BY <2>3, <2>4 DEF Counts, a, b
  <2>. QED  BY <2>4, <2>8, <2>9
<1>2. \A e \in Edges : h[e] = f[e]
  BY <1>1 DEF Counts
<1>3. h = [e \in Edges |-> h[e]] /\ f = [e \in Edges |-> f[e]]
  BY DEF Counts
<1>. QED  BY <1>2, <1>3

LEMMA CountLevels ==
  ASSUME NEW g, Shaped(g), NEW o, NEW n \in Nat
  PROVE  /\ CountFun(g, o)[n] \in [Edges -> Nat]
         /\ \A e \in Edges : e.from \notin Mathy(g) => CountFun(g, o)[n][e] = Direct(g, o, e)
         /\ \A e \in Edges : e.from \in Mathy(g)
              => CountFun(g, o)[n + 1][e] = CountFun(g, o)[n][g.inputs[e.from][1]]
                                            + CountFun(g, o)[n][g.inputs[e.from][2]]
<1> DEFINE F == CountFun(g, o)
<1>1. \A m \in Nat : F[m] = Level(g, o, F, m)
  BY CountExists
<1>. HIDE DEF F
<1>2. \A m \in Nat : \A e \in Edges : e.from \notin Mathy(g) => F[m][e] = Direct(g, o, e)
  BY <1>1 DEF Level
<1>3. ASSUME NEW m \in Nat, NEW e \in Edges, e.from \in Mathy(g)
      PROVE  F[m + 1][e] = F[m][g.inputs[e.from][1]] + F[m][g.inputs[e.from][2]]
  <2>1. m + 1 \in Nat /\ m + 1 # 0 /\ m + 1 - 1 = m
    OBVIOUS
  <2>2. F[m + 1] = Level(g, o, F, m + 1)
    BY <1>1, <2>1
  <2>3. Level(g, o, F, m + 1)[e]
          = F[m + 1 - 1][g.inputs[e.from][1]] + F[m + 1 - 1][g.inputs[e.from][2]]
    BY <1>3, <2>1 DEF Level
  <2>. QED  BY <2>1, <2>2, <2>3
<1> DEFINE S == {m \in Nat : F[m] \in [Edges -> Nat]}
<1>4. 0 \in S
  <2>1. F[0] = Level(g, o, F, 0)
    BY <1>1
  <2>2. Level(g, o, F, 0) \in [Edges -> Nat]
    BY DirectTyped DEF Level
  <2>. QED  BY <2>1, <2>2
<1>5. ASSUME NEW m \in Nat, m \in S PROVE m + 1 \in S
  <2>1. m + 1 \in Nat /\ F[m + 1] = Level(g, o, F, m + 1)
    BY <1>1
  <2>2. F[m] \in [Edges -> Nat]
    BY <1>5
  <2>3. \A e \in Edges : F[m + 1][e] \in Nat
    <3>. TAKE e \in Edges
    <3>1. CASE e.from \in Mathy(g)
      <4>1. g.inputs[e.from][1] \in Edges /\ g.inputs[e.from][2] \in Edges
        BY <3>1, MathInputs
      <4>2. F[m][g.inputs[e.from][1]] \in Nat /\ F[m][g.inputs[e.from][2]] \in Nat
        BY <2>2, <4>1
      <4>3. F[m + 1][e] = F[m][g.inputs[e.from][1]] + F[m][g.inputs[e.from][2]]
        BY <1>3, <3>1
      <4>. QED  BY <4>2, <4>3
    <3>2. CASE e.from \notin Mathy(g)
      BY <1>2, <2>1, <3>2, DirectTyped
    <3>. QED  BY <3>1, <3>2
  <2>4. F[m + 1] = [e \in Edges |-> F[m + 1][e]]
    BY <2>1 DEF Level
  <2>5. F[m + 1] \in [Edges -> Nat]
    BY <2>3, <2>4
  <2>. QED  BY <2>1, <2>5
<1>6. n \in S
  <2>. HIDE DEF S
  <2>. QED  BY <1>4, <1>5, SetInduction
<1>. QED  BY <1>2, <1>3, <1>6 DEF F

(* The math nodes whose count no longer changes from level n on: at each   *)
(* level there is one more, as there are no circles.                       *)
Settled(g, o, n) ==
  {k \in Mathy(g) : \A m \in Nat : m >= n =>
     \A e \in Edges : e.from = k => CountFun(g, o)[m + 1][e] = CountFun(g, o)[m][e]}

LEMMA SettledGrows ==
  ASSUME NEW g, Shaped(g), Acyclic(g.inputs), NEW o, NEW n \in Nat
  PROVE  /\ Settled(g, o, n) \subseteq Settled(g, o, n + 1)
         /\ Settled(g, o, n) # Mathy(g) =>
              \E k \in Settled(g, o, n + 1) : k \notin Settled(g, o, n)
<1> DEFINE F == CountFun(g, o)
<1>1. Settled(g, o, n) \subseteq Settled(g, o, n + 1)
  <2>1. \A m \in Nat : m >= n + 1 => m >= n
    OBVIOUS
  <2>. QED  BY <2>1 DEF Settled
<1>2. ASSUME Settled(g, o, n) # Mathy(g)
      PROVE  \E k \in Settled(g, o, n + 1) : k \notin Settled(g, o, n)
  <2> DEFINE S == Mathy(g) \ Settled(g, o, n)
  <2>1. S # {} /\ S \in SUBSET DOMAIN g.inputs /\ S \subseteq Own
    <3>1. Settled(g, o, n) \subseteq Mathy(g)
      BY DEF Settled
    <3>2. Mathy(g) \subseteq DOMAIN g.inputs /\ Mathy(g) \subseteq Own
      BY MathInputs DEF Mathy
    <3>. QED  BY <1>2, <3>1, <3>2
  <2>2. PICK k \in S : SourcesIn(g.inputs[k]) \cap S = {}
    <3>. HIDE DEF S
    <3>. QED  BY <2>1 DEF Acyclic
  <2> DEFINE a == g.inputs[k][1]
             b == g.inputs[k][2]
  <2>3. k \in Mathy(g) /\ a \in Edges /\ b \in Edges
    BY MathInputs
  <2>4. a.from \notin S /\ b.from \notin S
    <3>. HIDE DEF S
    <3>. QED  BY <2>1, <2>2, <2>3, MathSources
  <2>5. ASSUME NEW x \in Edges, x.from \notin S, NEW m \in Nat, m >= n
        PROVE  F[m + 1][x] = F[m][x]
    <3>1. CASE x.from \in Mathy(g)
      BY <2>5, <3>1 DEF Settled
    <3>2. CASE x.from \notin Mathy(g)
      <4>1. m + 1 \in Nat
        OBVIOUS
      <4>. QED  BY <3>2, <4>1, CountLevels
    <3>. QED  BY <3>1, <3>2
  <2>6. ASSUME NEW m \in Nat, m >= n + 1, NEW e \in Edges, e.from = k
        PROVE  F[m + 1][e] = F[m][e]
    <3> DEFINE i == m - 1
    <3>1. i \in Nat /\ i >= n /\ i + 1 = m
      BY <2>6
    <3>. HIDE DEF i
    <3>2. F[i + 1][a] = F[i][a] /\ F[i + 1][b] = F[i][b]
      <4>. HIDE DEF F, S, a, b
      <4>. QED  BY <2>3, <2>4, <2>5, <3>1
    <3>3. F[i + 1][e] = F[i][a] + F[i][b]
      BY <2>3, <2>6, <3>1, CountLevels
    <3>4. F[m + 1][e] = F[m][a] + F[m][b]
      BY <2>3, <2>6, CountLevels
    <3>. HIDE DEF F, a, b
    <3>. QED  BY <3>1, <3>2, <3>3, <3>4
  <2>7. k \in Settled(g, o, n + 1)
    BY <2>3, <2>6 DEF Settled
  <2>. QED  BY <2>7
<1>. QED  BY <1>1, <1>2

LEMMA OwnFinite == IsFiniteSet(Own) /\ Cardinality(Own) \in Nat
<1>1. IsFiniteSet(Own)
  BY KeysAssumption, FS_Subset
<1>. QED  BY <1>1, FS_CardinalityType

LEMMA AllSettle ==
  ASSUME NEW g, Shaped(g), Acyclic(g.inputs), NEW o
  PROVE  Settled(g, o, Cardinality(Own)) = Mathy(g)
<1> DEFINE T(n) == Settled(g, o, n)
           S == {n \in Nat : T(n) = Mathy(g) \/ n <= Cardinality(T(n))}
<1>0. Mathy(g) \subseteq Own /\ \A n \in Nat : T(n) \subseteq Mathy(g)
  BY MathInputs DEF Settled
<1>1. /\ IsFiniteSet(Mathy(g))
      /\ \A n \in Nat : IsFiniteSet(T(n)) /\ Cardinality(T(n)) \in Nat
  <2>1. IsFiniteSet(Mathy(g))
    BY <1>0, OwnFinite, FS_Subset
  <2>2. \A n \in Nat : IsFiniteSet(T(n))
    BY <1>0, <2>1, FS_Subset
  <2>. QED  BY <2>1, <2>2, FS_CardinalityType
<1>2. 0 \in S
  BY <1>1
<1>3. ASSUME NEW n \in Nat, n \in S PROVE n + 1 \in S
  <2>0. /\ T(n) \subseteq T(n + 1) /\ n + 1 \in Nat
        /\ T(n) # Mathy(g) => \E k \in T(n + 1) : k \notin T(n)
    BY SettledGrows
  <2>1. CASE T(n) = Mathy(g)
    <3>1. T(n + 1) = Mathy(g)
      BY <1>0, <2>0, <2>1
    <3>. QED  BY <2>0, <3>1
  <2>2. CASE T(n) # Mathy(g)
    <3>1. n <= Cardinality(T(n))
      BY <1>3, <2>2
    <3>2. T(n) # T(n + 1)
      BY <2>0, <2>2
    <3>. HIDE DEF T
    <3>3. Cardinality(T(n)) <= Cardinality(T(n + 1)) /\ Cardinality(T(n)) # Cardinality(T(n + 1))
      BY <1>1, <2>0, <3>2, FS_Subset
    <3>4. n + 1 <= Cardinality(T(n + 1))
      BY <1>1, <2>0, <3>1, <3>3
    <3>. QED  BY <2>0, <3>4
  <2>. QED  BY <2>1, <2>2
<1>4. Cardinality(Own) \in S
  <2>. HIDE DEF S
  <2>. QED  BY <1>2, <1>3, OwnFinite, SetInduction
<1> DEFINE N == Cardinality(Own)
<1>5. CASE T(N) # Mathy(g)
  <2>1. N <= Cardinality(T(N)) /\ N \in Nat
    BY <1>4, <1>5, OwnFinite
  <2>2. T(N) \subseteq Own /\ T(N) # Own
    BY <1>0, <1>5, <2>1
  <2>3. Cardinality(T(N)) <= N /\ Cardinality(T(N)) # N /\ Cardinality(T(N)) \in Nat
    <3>. HIDE DEF T
    <3>. QED  BY <1>1, <2>1, <2>2, OwnFinite, FS_Subset
  <2>. HIDE DEF T, N
  <2>. QED  BY <2>1, <2>3
<1>. QED  BY <1>5

LEMMA CountInCounts ==
  ASSUME NEW g, Shaped(g), Acyclic(g.inputs), NEW o
  PROVE  Counts(g, o, CountIn(g, o))
<1> DEFINE N == Cardinality(Own)
           F == CountFun(g, o)
<1>1. N \in Nat /\ N + 1 \in Nat /\ N >= N
  BY OwnFinite
<1>2. CountIn(g, o) = F[N]
  BY CountInIs
<1>3. ASSUME NEW e \in Edges, e.from \in Mathy(g)
      PROVE  F[N][e] = F[N][g.inputs[e.from][1]] + F[N][g.inputs[e.from][2]]
  <2>1. F[N + 1][e] = F[N][e]
    BY <1>1, <1>3, AllSettle DEF Settled
  <2>2. F[N + 1][e] = F[N][g.inputs[e.from][1]] + F[N][g.inputs[e.from][2]]
    BY <1>1, <1>3, CountLevels
  <2>. QED  BY <2>1, <2>2
<1>4. /\ F[N] \in [Edges -> Nat]
      /\ \A e \in Edges : e.from \notin Mathy(g) => F[N][e] = Direct(g, o, e)
  BY <1>1, CountLevels
<1>. HIDE DEF N, F
<1>. QED  BY <1>2, <1>3, <1>4 DEF Counts

(* So whatever counts an outlet is what CountIn counts. *)
LEMMA CountsAre ==
  ASSUME NEW g, Shaped(g), Acyclic(g.inputs), NEW o, NEW h, Counts(g, o, h)
  PROVE  CountIn(g, o) = h
  BY CountInCounts, CountsUnique

-----------------------------------------------------------------------------
(***************************************************************************)
(* What is heard.                                                          *)
(***************************************************************************)
OwnRows(g) == Own \cap DOMAIN g.inputs
LiveSink(g, t) == t[1] = "outputs" \/ t[2] \in Live(g)

(* What else has to hold of the nodes that the graph pushes: a math node   *)
(* is freed alone, what is heard in a graph output has not gone through a  *)
(* feedback node, and a feedback node delays an output of the user's.      *)
Tidy(g) ==
  /\ \A k \in Mathy(g) : g.strong_dependent[k] = k
  /\ \E B \in SUBSET Mathy(g) :
       /\ SourcesIn(g.outputs) \cap Own \subseteq B
       /\ \A k \in B : SourcesIn(g.inputs[k]) \cap Own \subseteq B
  /\ \A k \in OwnRows(g) \ Mathy(g) : g.inputs[k][1].from \notin Own

Fine(g) == Sound(g) /\ Sane(g) /\ Tidy(g)

LEMMA OutletFacts ==
  ASSUME NEW o \in Outlet
  PROVE  /\ \A e, b : OutletOf(e, b) = o => e.from = o.from /\ o.from \in User \cup {Graph}
         /\ \A b : OutletOf(NoEdge, b) # o
         /\ \A e, b : e.from \in Own => OutletOf(e, b) # o
         /\ o.from \notin Own
<1>1. o.from \in User \cup {Graph}
  BY DEF Outlet
<1>2. "none" \notin User \cup {Graph} /\ \A k \in Own : k \notin User \cup {Graph}
  BY KeysAssumption DEF Graph
<1>3. \A e, b : OutletOf(e, b).from = e.from
  BY DEF OutletOf
<1>4. NoEdge.from = "none"
  BY DEF NoEdge, Edge
<1>. QED  BY <1>1, <1>2, <1>3, <1>4

LEMMA NothingCounts ==
  ASSUME NEW g, Sound(g), NEW o \in Outlet, NEW f, Counts(g, o, f)
  PROVE  f[NoEdge] = 0
<1>1. NoEdge \in Edges /\ NoEdge.from \notin Mathy(g) /\ NoEdge.from \notin Own
  BY NoEdgeFacts, MathInputs DEF Key, Sound
<1>2. Direct(g, o, NoEdge) = 0
  BY <1>1, OutletFacts DEF Direct
<1>. QED  BY <1>1, <1>2 DEF Counts

LEMMA SinkIs ==
  ASSUME NEW t \in Sink
  PROVE  \/ \E k \in User, c \in 1..UserInputs : t = Input(k, c)
         \/ \E c \in 1..GraphOutputs : t = Output(c)
         \/ \E k \in User, p \in Parameters : t = Param(k, p)
  BY DEF Sink, OutputSinks

LEMMA SinkParts ==
  /\ \A k, c : Input(k, c)[1] = "inputs" /\ Input(k, c)[2] = k /\ Input(k, c)[3] = c
  /\ \A c : Output(c)[1] = "outputs" /\ Output(c)[2] = Graph /\ Output(c)[3] = c
  /\ \A k, p : Param(k, p)[1] = "params" /\ Param(k, p)[2] = k /\ Param(k, p)[3] = p
  BY DEF Input, Output, Param

LEMMA EdgeAtSinks ==
  ASSUME NEW g
  PROVE  /\ \A k, c : EdgeAt(g, Input(k, c)) = g.inputs[k][c]
         /\ \A c : EdgeAt(g, Output(c)) = g.outputs[c]
         /\ \A k, p : EdgeAt(g, Param(k, p)) = g.params[k][p]
  BY SinkParts DEF EdgeAt

LEMMA LiveSinks ==
  ASSUME NEW g
  PROVE  /\ \A k, c : LiveSink(g, Input(k, c)) <=> k \in Live(g)
         /\ \A c : LiveSink(g, Output(c))
         /\ \A k, p : LiveSink(g, Param(k, p)) <=> k \in Live(g)
  BY SinkParts DEF LiveSink

(* What is at a sink, and nothing is at a parameter. *)
LEMMA SinkEdge ==
  ASSUME NEW g, Sound(g), Sane(g), NEW t \in Sink, LiveSink(g, t)
  PROVE  /\ EdgeAt(g, t) \in Edges
         /\ t \in {Param(k, p) : k \in User, p \in Parameters} => EdgeAt(g, t) = NoEdge
<1>1. CASE \E k \in User, c \in 1..UserInputs : t = Input(k, c)
  <2>1. PICK k \in User, c \in 1..UserInputs : t = Input(k, c)
    BY <1>1
  <2>2. k \in Live(g) /\ Width(g, k) = UserInputs
    BY <2>1, LiveSinks DEF Width
  <2>3. g.inputs[k][c] \in Edges
    BY <2>2 DEF Sound, Shaped
  <2>4. \A j, p : t # Param(j, p)
    BY <2>1, SinkParts
  <2>. QED  BY <2>1, <2>3, <2>4, EdgeAtSinks
<1>2. CASE \E c \in 1..GraphOutputs : t = Output(c)
  <2>1. PICK c \in 1..GraphOutputs : t = Output(c)
    BY <1>2
  <2>2. g.outputs[c] \in Edges
    BY DEF Sound, Shaped
  <2>3. \A j, p : t # Param(j, p)
    BY <2>1, SinkParts
  <2>. QED  BY <2>1, <2>2, <2>3, EdgeAtSinks
<1>3. CASE \E k \in User, p \in Parameters : t = Param(k, p)
  <2>1. PICK k \in User, p \in Parameters : t = Param(k, p)
    BY <1>3
  <2>2. k \in Live(g) /\ DOMAIN g.params = Live(g)
    BY <2>1, LiveSinks DEF Sound, Shaped
  <2>3. g.params[k][p] = NoEdge
    BY <2>2 DEF Sane, Linked
  <2>. QED  BY <2>1, <2>3, EdgeAtSinks, NoEdgeFacts
<1>. QED  BY <1>1, <1>2, <1>3, SinkIs

(* Whatever counts an outlet says what is heard of it at the sinks. *)
LEMMA HeardIs ==
  ASSUME NEW g, Sound(g), Sane(g), NEW o \in Outlet, NEW f, Counts(g, o, f), NEW t \in Sink
  PROVE  ConnectedIn(g)[t][o] = IF LiveSink(g, t) THEN f[EdgeAt(g, t)] ELSE 0
<1>1. CountIn(g, o) = f
  BY CountsAre DEF Sound, Sane
<1>2. ConnectedIn(g)[t][o] = IF LiveSink(g, t) THEN CountIn(g, o)[EdgeAt(g, t)] ELSE 0
  BY DEF ConnectedIn, LiveSink
<1>. QED  BY <1>1, <1>2

LEMMA HeardExists ==
  ASSUME NEW g, Sound(g), Sane(g), NEW o
  PROVE  Counts(g, o, CountIn(g, o))
  BY CountInCounts DEF Sound, Sane

(* Two graphs are heard alike if they are at every sink, for every outlet. *)
LEMMA HeardAlike ==
  ASSUME NEW g, NEW h, \A t \in Sink, o \in Outlet : ConnectedIn(h)[t][o] = ConnectedIn(g)[t][o]
  PROVE  ConnectedIn(h) = ConnectedIn(g)
<1>1. \A x : ConnectedIn(x) = [t \in Sink |-> [o \in Outlet |-> ConnectedIn(x)[t][o]]]
  BY DEF ConnectedIn
<1>. QED  BY <1>1, Zenon

-----------------------------------------------------------------------------
(* Changes that leave the nodes of the graph alone.                        *)
SameOwn(g, h) ==
  /\ OwnRows(h) = OwnRows(g) /\ Mathy(h) = Mathy(g)
  /\ \A k \in OwnRows(g) : /\ h.inputs[k] = g.inputs[k]
                           /\ h.strong_dependent[k] = g.strong_dependent[k]

LEMMA DelayedIs ==
  ASSUME NEW g, Sound(g), NEW k \in OwnRows(g)
  PROVE  /\ g.strong_dependent[k] \in Own
         /\ DelayedEdge(g, k) = IF g.strong_dependent[k] \in OwnRows(g)
                                THEN g.inputs[g.strong_dependent[k]][1] ELSE NoEdge
<1>1. g.strong_dependent[k] \in Own
  BY DEF Sound, Paired, OwnRows
<1>. QED  BY <1>1 DEF DelayedEdge, OwnRows

LEMMA SameCounts ==
  ASSUME NEW g, NEW h, Sound(g), Sound(h), SameOwn(g, h), NEW o, NEW f, Counts(g, o, f)
  PROVE  Counts(h, o, f)
<1>1. \A k \in OwnRows(g) : DelayedEdge(h, k) = DelayedEdge(g, k)
  <2>. TAKE k \in OwnRows(g)
  <2>1. k \in OwnRows(h) /\ h.strong_dependent[k] = g.strong_dependent[k]
    BY DEF SameOwn
  <2>. QED  BY <2>1, DelayedIs DEF SameOwn
<1>2. \A e \in Edges : Direct(h, o, e) = Direct(g, o, e)
  <2>1. OwnRows(h) = OwnRows(g)
    BY DEF SameOwn
  <2>2. \A x, e : Direct(x, o, e) = IF e.from \in OwnRows(x)
                                    THEN IF OutletOf(DelayedEdge(x, e.from), TRUE) = o THEN 1 ELSE 0
                                    ELSE IF OutletOf(e, FALSE) = o THEN 1 ELSE 0
    BY DEF Direct, OwnRows
  <2>. QED  BY <1>1, <2>1, <2>2
<1>3. \A k \in Mathy(g) : k \in OwnRows(g) /\ k \in Mathy(h) /\ h.inputs[k] = g.inputs[k]
  <2>1. Mathy(g) \subseteq OwnRows(g)
    BY MathInputs DEF Sound, Mathy, OwnRows
  <2>. QED  BY <2>1 DEF SameOwn
<1>4. Mathy(h) = Mathy(g)
  BY DEF SameOwn
<1>. QED  BY <1>2, <1>3, <1>4 DEF Counts

LEMMA SameTidy ==
  ASSUME NEW g, NEW h, Sound(g), SameOwn(g, h), Tidy(g),
         SourcesIn(h.outputs) \cap Own \subseteq SourcesIn(g.outputs) \cap Own
  PROVE  Tidy(h)
<1>1. Mathy(g) \subseteq OwnRows(g)
  BY MathInputs DEF Sound, Mathy, OwnRows
<1>2. \A k \in Mathy(h) : h.strong_dependent[k] = k
  BY <1>1 DEF SameOwn, Tidy
<1>3. PICK B \in SUBSET Mathy(g) :
         /\ SourcesIn(g.outputs) \cap Own \subseteq B
         /\ \A k \in B : SourcesIn(g.inputs[k]) \cap Own \subseteq B
  BY DEF Tidy
<1>4. \A k \in B : h.inputs[k] = g.inputs[k]
  BY <1>1 DEF SameOwn
<1>5. B \in SUBSET Mathy(h) /\ SourcesIn(h.outputs) \cap Own \subseteq B
      /\ \A k \in B : SourcesIn(h.inputs[k]) \cap Own \subseteq B
  BY <1>3, <1>4 DEF SameOwn
<1>6. \A k \in OwnRows(h) \ Mathy(h) : h.inputs[k][1].from \notin Own
  BY DEF SameOwn, Tidy
<1>. QED  BY <1>2, <1>5, <1>6 DEF Tidy

(* ... are heard alike if the sinks are the same. *)
LEMMA SameHeard ==
  ASSUME NEW g, NEW h, Fine(g), Sound(h), Sane(h), SameOwn(g, h),
         \A t \in Sink : LiveSink(g, t) => LiveSink(h, t) /\ EdgeAt(h, t) = EdgeAt(g, t),
         \A t \in Sink : ~LiveSink(g, t) /\ LiveSink(h, t) => EdgeAt(h, t) = NoEdge,
         SourcesIn(h.outputs) \cap Own \subseteq SourcesIn(g.outputs) \cap Own
  PROVE  ConnectedIn(h) = ConnectedIn(g) /\ Tidy(h)
<1>1. ASSUME NEW t \in Sink, NEW o \in Outlet
      PROVE  ConnectedIn(h)[t][o] = ConnectedIn(g)[t][o]
  <2> DEFINE f == CountIn(g, o)
  <2>1. Counts(g, o, f)
    BY HeardExists DEF Fine
  <2>. HIDE DEF f
  <2>2. Counts(h, o, f)
    BY <2>1, SameCounts DEF Fine
  <2>3. ConnectedIn(g)[t][o] = IF LiveSink(g, t) THEN f[EdgeAt(g, t)] ELSE 0
    BY <2>1, HeardIs DEF Fine
  <2>4. ConnectedIn(h)[t][o] = IF LiveSink(h, t) THEN f[EdgeAt(h, t)] ELSE 0
    BY <2>2, HeardIs
  <2>5. f[NoEdge] = 0
    BY <2>1, NothingCounts DEF Fine
  <2>. QED  BY <2>3, <2>4, <2>5
<1>. QED  BY <1>1, HeardAlike, SameTidy DEF Fine

-----------------------------------------------------------------------------
(* Changes that take edges and own nodes K away, or redirect edges: what   *)
(* they leave counts as before.                                            *)
LEMMA PairFacts ==
  ASSUME NEW g, Sound(g), NEW k \in OwnRows(g)
  PROVE  /\ g.strong_dependent[k] \in OwnRows(g)
         /\ DelayedEdge(g, k) = g.inputs[g.strong_dependent[k]][1]
         /\ g.strong_dependent[g.strong_dependent[k]] = k
<1>1. k \in Own /\ k \in Live(g) /\ DOMAIN g.inputs = Live(g)
  BY DEF Sound, Shaped, OwnRows
<1> DEFINE d == g.strong_dependent[k]
<1>2. /\ d \in Own /\ g.strong_dependent[d] = k
      /\ k \in g.pending <=> d \in g.pending
      /\ d \notin g.nodes => g.strong_dependent[d] = d
  BY <1>1 DEF Sound, Paired
<1>3. d \in Live(g)
  BY <1>1, <1>2 DEF Live
<1>. QED  BY <1>1, <1>2, <1>3 DEF OwnRows, DelayedEdge

LEMMA DirectIs ==
  ASSUME NEW g, NEW o, NEW e
  PROVE  Direct(g, o, e) = IF e.from \in OwnRows(g)
                           THEN IF OutletOf(DelayedEdge(g, e.from), TRUE) = o THEN 1 ELSE 0
                           ELSE IF OutletOf(e, FALSE) = o THEN 1 ELSE 0
  BY DEF Direct, OwnRows

LEMMA MathRows ==
  ASSUME NEW g, Sound(g)
  PROVE  Mathy(g) \subseteq OwnRows(g) /\ OwnRows(g) \subseteq Own
  BY MathInputs DEF Sound, Mathy, OwnRows

Cut(g, h, K, o, f) ==
  /\ OwnRows(h) = OwnRows(g) \ K /\ Mathy(h) = Mathy(g) \ K
  /\ \A k \in OwnRows(h) : h.strong_dependent[k] = g.strong_dependent[k]
  /\ \A k \in Mathy(h) : \A i \in {1, 2} : /\ f[h.inputs[k][i]] = f[g.inputs[k][i]]
                                           /\ h.inputs[k][i].from \notin K
  /\ \A k \in OwnRows(h) \ Mathy(h) :
        OutletOf(h.inputs[k][1], TRUE) = o <=> OutletOf(g.inputs[k][1], TRUE) = o

CutTo(f, K) == [e \in Edges |-> IF e.from \in K THEN 0 ELSE f[e]]

LEMMA CutCounts ==
  ASSUME NEW g, NEW h, Fine(g), Sound(h), NEW K \in SUBSET Own, NEW o \in Outlet,
         NEW f, Counts(g, o, f), Cut(g, h, K, o, f)
  PROVE  Counts(h, o, CutTo(f, K))
<1> DEFINE c == CutTo(f, K)
<1>1. /\ OwnRows(h) = OwnRows(g) \ K /\ Mathy(h) = Mathy(g) \ K
      /\ Mathy(g) \subseteq OwnRows(g) /\ OwnRows(g) \subseteq Own
  BY MathRows DEF Cut, Fine
<1>2. f \in [Edges -> Nat]
  BY DEF Counts
<1>3. \A e \in Edges : c[e] = IF e.from \in K THEN 0 ELSE f[e]
  BY DEF CutTo
<1>4. c \in [Edges -> Nat]
  BY <1>2 DEF CutTo
<1>. HIDE DEF c
<1>5. ASSUME NEW e \in Edges, e.from \in Mathy(h)
      PROVE  c[e] = c[h.inputs[e.from][1]] + c[h.inputs[e.from][2]]
  <2> DEFINE k == e.from
  <2>1. k \in Mathy(g) /\ k \notin K
    BY <1>1, <1>5
  <2>2. h.inputs[k][1] \in Edges /\ h.inputs[k][2] \in Edges
    BY <1>5, MathInputs DEF Sound
  <2>3. /\ f[h.inputs[k][1]] = f[g.inputs[k][1]] /\ h.inputs[k][1].from \notin K
        /\ f[h.inputs[k][2]] = f[g.inputs[k][2]] /\ h.inputs[k][2].from \notin K
    BY <1>5 DEF Cut
  <2>4. f[e] = f[g.inputs[k][1]] + f[g.inputs[k][2]]
    BY <2>1 DEF Counts
  <2>. QED  BY <1>3, <2>1, <2>2, <2>3, <2>4
<1>6. ASSUME NEW e \in Edges, e.from \notin Mathy(h)
      PROVE  c[e] = Direct(h, o, e)
  <2>1. CASE e.from \in K
    <3>1. e.from \in Own /\ e.from \notin OwnRows(h)
      BY <1>1, <2>1
    <3>2. OutletOf(e, FALSE) # o
      BY <3>1, OutletFacts
    <3>. QED  BY <1>3, <2>1, <3>1, <3>2, DirectIs
  <2>2. CASE e.from \notin K /\ e.from \in OwnRows(h)
    <3> DEFINE k == e.from
               d == g.strong_dependent[k]
    <3>1. k \in OwnRows(g) /\ k \notin Mathy(g) /\ h.strong_dependent[k] = d
      BY <1>1, <1>6, <2>2 DEF Cut
    <3>2. d \in OwnRows(g) /\ DelayedEdge(g, k) = g.inputs[d][1] /\ g.strong_dependent[d] = k
      BY <3>1, PairFacts DEF Fine
    <3>3. d \in OwnRows(h) /\ DelayedEdge(h, k) = h.inputs[d][1]
      BY <2>2, <3>1, PairFacts
    <3>4. d \notin Mathy(g)
      BY <3>1, <3>2 DEF Fine, Tidy
    <3>5. OutletOf(h.inputs[d][1], TRUE) = o <=> OutletOf(g.inputs[d][1], TRUE) = o
      BY <1>1, <3>3, <3>4 DEF Cut
    <3>6. f[e] = Direct(g, o, e)
      BY <3>1 DEF Counts
    <3>. HIDE DEF d
    <3>. QED  BY <1>3, <2>2, <3>1, <3>2, <3>3, <3>5, <3>6, DirectIs
  <2>3. CASE e.from \notin K /\ e.from \notin OwnRows(h)
    <3>1. e.from \notin OwnRows(g) /\ e.from \notin Mathy(g)
      BY <1>1, <2>3
    <3>2. f[e] = Direct(g, o, e)
      BY <3>1 DEF Counts
    <3>. QED  BY <1>3, <2>3, <3>1, <3>2, DirectIs
  <2>. QED  BY <2>1, <2>2, <2>3
<1>. QED  BY <1>4, <1>5, <1>6 DEF Counts, c

SinkCut(g, h, K, f, t) ==
  LiveSink(h, t) => /\ LiveSink(g, t)
                    /\ f[EdgeAt(h, t)] = f[EdgeAt(g, t)]
                    /\ EdgeAt(h, t).from \notin K

LEMMA CutHears ==
  ASSUME NEW g, NEW h, Fine(g), Sound(h), Sane(h), NEW K \in SUBSET Own, NEW o \in Outlet,
         NEW f, Counts(g, o, f), Cut(g, h, K, o, f), NEW t \in Sink,
         SinkCut(g, h, K, f, t)
  PROVE  ConnectedIn(h)[t][o] = IF LiveSink(h, t) THEN ConnectedIn(g)[t][o] ELSE 0
<1>1. Counts(h, o, CutTo(f, K))
  BY CutCounts
<1>2. ConnectedIn(h)[t][o] = IF LiveSink(h, t) THEN CutTo(f, K)[EdgeAt(h, t)] ELSE 0
  BY <1>1, HeardIs
<1>3. ConnectedIn(g)[t][o] = IF LiveSink(g, t) THEN f[EdgeAt(g, t)] ELSE 0
  BY HeardIs DEF Fine
<1>4. LiveSink(h, t) => EdgeAt(h, t) \in Edges
  BY SinkEdge
<1>. QED  BY <1>2, <1>3, <1>4 DEF CutTo, SinkCut

LEMMA OwnRowOne ==
  ASSUME NEW g, Sound(g), NEW k \in OwnRows(g) \ Mathy(g)
  PROVE  DOMAIN g.inputs[k] = 1..1 /\ g.inputs[k][1] \in Edges
<1>1. k \in Own /\ k \in Live(g) /\ k \notin g.math /\ k \notin User
  BY KeysAssumption DEF Sound, Shaped, OwnRows, Mathy
<1>2. Width(g, k) = 1
  BY <1>1 DEF Width
<1>3. g.inputs[k] \in [1..1 -> Edges]
  BY <1>1, <1>2 DEF Sound, Shaped
<1>. QED  BY <1>3

(* Fewer edges are tidy too. *)
LEMMA FewerTidy ==
  ASSUME NEW g, NEW h, Sound(g), Sound(h), Tidy(g), NEW K \in SUBSET Own,
         OwnRows(h) = OwnRows(g) \ K, Mathy(h) = Mathy(g) \ K,
         \A k \in OwnRows(h) : h.strong_dependent[k] = g.strong_dependent[k],
         \A k \in OwnRows(h) : SourcesIn(h.inputs[k]) \subseteq SourcesIn(g.inputs[k]) \ K,
         SourcesIn(h.outputs) \subseteq SourcesIn(g.outputs) \ K
  PROVE  Tidy(h)
<1>1. Mathy(g) \subseteq OwnRows(g) /\ OwnRows(g) \subseteq Own /\ Mathy(h) \subseteq OwnRows(h)
  BY MathRows
<1>2. \A k \in Mathy(h) : h.strong_dependent[k] = k
  BY <1>1 DEF Tidy
<1>3. PICK B \in SUBSET Mathy(g) :
         /\ SourcesIn(g.outputs) \cap Own \subseteq B
         /\ \A k \in B : SourcesIn(g.inputs[k]) \cap Own \subseteq B
  BY DEF Tidy
<1>4. /\ B \ K \in SUBSET Mathy(h)
      /\ SourcesIn(h.outputs) \cap Own \subseteq B \ K
      /\ \A k \in B \ K : SourcesIn(h.inputs[k]) \cap Own \subseteq B \ K
  BY <1>1, <1>3
<1>5. ASSUME NEW k \in OwnRows(h) \ Mathy(h) PROVE h.inputs[k][1].from \notin Own
  <2>1. k \in OwnRows(g) \ Mathy(g)
    BY <1>1
  <2>2. g.inputs[k][1].from \notin Own
    BY <2>1 DEF Tidy
  <2>3. DOMAIN g.inputs[k] = 1..1 /\ DOMAIN h.inputs[k] = 1..1
    BY <1>1, <2>1, OwnRowOne
  <2>4. SourcesIn(g.inputs[k]) \cap Own = {}
    <3>1. \A i \in 1..1 : i = 1
      OBVIOUS
    <3>. QED  BY <2>2, <2>3, <3>1, SourceOfRow
  <2>5. SourcesIn(h.inputs[k]) \cap Own = {}
    BY <2>4
  <2>6. 1 \in DOMAIN h.inputs[k] /\ Own \subseteq Key
    BY <2>3 DEF Key
  <2>. QED  BY <2>5, <2>6, SourceOfRow
<1>. QED  BY <1>2, <1>4, <1>5 DEF Tidy

-----------------------------------------------------------------------------
(* The edge at a sink, by the kind of the sink. *)
LEMMA SinkCases ==
  ASSUME NEW g, Sound(g), Sane(g), NEW t \in Sink, LiveSink(g, t)
  PROVE  \/ \E k \in User \cap Live(g), c \in 1..UserInputs :
               /\ t = Input(k, c) /\ EdgeAt(g, t) = g.inputs[k][c]
               /\ k \in DOMAIN g.inputs /\ c \in DOMAIN g.inputs[k]
         \/ \E c \in 1..GraphOutputs : t = Output(c) /\ EdgeAt(g, t) = g.outputs[c]
         \/ \E k \in User, p \in Parameters : t = Param(k, p) /\ EdgeAt(g, t) = NoEdge
<1>1. ASSUME NEW k \in User, NEW c \in 1..UserInputs, t = Input(k, c)
      PROVE  /\ EdgeAt(g, t) = g.inputs[k][c] /\ k \in Live(g)
             /\ k \in DOMAIN g.inputs /\ c \in DOMAIN g.inputs[k]
  <2>1. k \in Live(g) /\ Width(g, k) = UserInputs
    BY <1>1, LiveSinks DEF Width
  <2>2. k \in DOMAIN g.inputs /\ DOMAIN g.inputs[k] = 1..UserInputs
    BY <2>1 DEF Sound, Shaped
  <2>. QED  BY <1>1, <2>1, <2>2, EdgeAtSinks
<1>2. ASSUME NEW c \in 1..GraphOutputs, t = Output(c) PROVE EdgeAt(g, t) = g.outputs[c]
  BY <1>2, EdgeAtSinks
<1>3. ASSUME NEW k \in User, NEW p \in Parameters, t = Param(k, p) PROVE EdgeAt(g, t) = NoEdge
  BY <1>3, SinkEdge
<1>. QED  BY <1>1, <1>2, <1>3, SinkIs

LEMMA LiveSinkIs ==
  ASSUME NEW g, NEW t \in Sink
  PROVE  /\ LiveSink(g, t) <=> t[2] = Graph \/ t[2] \in Live(g)
         /\ t[2] = Graph <=> t[1] = "outputs"
<1>1. Graph \notin User
  BY NamesApart DEF Key
<1>2. (t[1] = "outputs" /\ t[2] = Graph) \/ (t[1] # "outputs" /\ t[2] \in User)
  BY SinkIs, SinkParts
<1>. QED  BY <1>1, <1>2 DEF LiveSink

-----------------------------------------------------------------------------
(* From g to h nodes R are gone, and the edges of X.                       *)
IsStruck(g, h, R, X) ==
  /\ Live(h) = Live(g) \ R /\ h.math = g.math /\ h.strong_dependent = g.strong_dependent
  /\ \A k \in Live(h) :
        /\ DOMAIN h.inputs[k] = DOMAIN g.inputs[k]
        /\ \A i \in DOMAIN g.inputs[k] :
              h.inputs[k][i] = IF g.inputs[k][i] \in X THEN NoEdge ELSE g.inputs[k][i]
  /\ \A i \in 1..GraphOutputs :
        h.outputs[i] = IF g.outputs[i] \in X THEN NoEdge ELSE g.outputs[i]

EdgesFrom(K) == {e \in Edges : e.from \in K}

LEMMA StruckOwn ==
  ASSUME NEW g, NEW h, Sound(g), Sound(h), NEW R, NEW X, IsStruck(g, h, R, X)
  PROVE  /\ OwnRows(h) = OwnRows(g) \ (R \cap Own)
         /\ Mathy(h) = Mathy(g) \ (R \cap Own)
<1>1. DOMAIN g.inputs = Live(g) /\ DOMAIN h.inputs = Live(g) \ R /\ h.math = g.math
  BY DEF Sound, Shaped, IsStruck
<1>2. g.math \subseteq Own
  BY DEF Sound, Shaped
<1>. QED  BY <1>1, <1>2 DEF OwnRows, Mathy

LEMMA StruckTidy ==
  ASSUME NEW g, NEW h, Fine(g), Sound(h), NEW R, NEW X, IsStruck(g, h, R, X),
         EdgesFrom(R \cap Own) \subseteq X
  PROVE  Tidy(h)
<1> DEFINE K == R \cap Own
<1>1. OwnRows(h) = OwnRows(g) \ K /\ Mathy(h) = Mathy(g) \ K
  BY StruckOwn DEF Fine
<1>2. NoEdge.from \notin Key
  BY NoEdgeFacts
<1>3. ASSUME NEW k \in OwnRows(h)
      PROVE  SourcesIn(h.inputs[k]) \subseteq SourcesIn(g.inputs[k]) \ K
  <2>1. k \in Live(h) /\ k \in Live(g)
    BY <1>1 DEF Sound, Shaped, OwnRows, Fine
  <2>2. \A i \in DOMAIN g.inputs[k] : g.inputs[k][i] \in Edges
    BY <2>1 DEF Fine, Sound, Shaped
  <2>3. ASSUME NEW j \in SourcesIn(h.inputs[k]) PROVE j \in SourcesIn(g.inputs[k]) \ K
    <3>1. PICK i \in DOMAIN g.inputs[k] : j \in Key /\ h.inputs[k][i].from = j
      BY <2>1, SourceOfRow DEF IsStruck
    <3>2. h.inputs[k][i] = g.inputs[k][i] /\ g.inputs[k][i] \notin X
      BY <1>2, <2>1, <3>1 DEF IsStruck
    <3>3. j \notin K
      BY <2>2, <3>1, <3>2 DEF EdgesFrom
    <3>. QED  BY <3>1, <3>2, <3>3, SourceOfRow
  <2>. QED  BY <2>3
<1>4. SourcesIn(h.outputs) \subseteq SourcesIn(g.outputs) \ K
  <2>1. /\ DOMAIN h.outputs = 1..GraphOutputs /\ DOMAIN g.outputs = 1..GraphOutputs
        /\ \A i \in 1..GraphOutputs : g.outputs[i] \in Edges
    BY DEF Fine, Sound, Shaped
  <2>2. ASSUME NEW j \in SourcesIn(h.outputs) PROVE j \in SourcesIn(g.outputs) \ K
    <3>1. PICK i \in 1..GraphOutputs : j \in Key /\ h.outputs[i].from = j
      BY <2>1, SourceOfRow
    <3>2. h.outputs[i] = g.outputs[i] /\ g.outputs[i] \notin X
      BY <1>2, <3>1 DEF IsStruck
    <3>3. j \notin K
      BY <2>1, <3>1, <3>2 DEF EdgesFrom
    <3>. QED  BY <2>1, <3>1, <3>2, <3>3, SourceOfRow
  <2>. QED  BY <2>2
<1>5. \A k \in OwnRows(h) : h.strong_dependent[k] = g.strong_dependent[k]
  BY DEF IsStruck
<1>. HIDE DEF K
<1>6. K \in SUBSET Own
  BY DEF K
<1>. QED  BY <1>1, <1>3, <1>4, <1>5, <1>6, FewerTidy DEF Fine

(* An outlet all of whose edges are gone is not heard any more. *)
LEMMA StruckGone ==
  ASSUME NEW g, NEW h, Fine(g), Sound(h), Sane(h), NEW R, NEW X, IsStruck(g, h, R, X),
         NEW o \in Outlet, \A e \in Edges, b \in BOOLEAN : OutletOf(e, b) = o => e \in X,
         NEW t \in Sink
  PROVE  ConnectedIn(h)[t][o] = 0
<1> DEFINE f == [e \in Edges |-> IF e.from \in OwnRows(h) THEN 0 ELSE Direct(h, o, e)]
<1>0. \A b \in BOOLEAN : OutletOf(NoEdge, b) # o
  BY OutletFacts
<1>1. ASSUME NEW k \in Live(h), NEW i \in DOMAIN h.inputs[k], NEW b \in BOOLEAN
      PROVE  h.inputs[k][i] \in Edges /\ OutletOf(h.inputs[k][i], b) # o
  <2>1. k \in Live(g) /\ i \in DOMAIN g.inputs[k]
    BY DEF IsStruck
  <2>2. h.inputs[k][i] \in Edges /\ g.inputs[k][i] \in Edges
    BY <2>1 DEF Fine, Sound, Shaped
  <2>3. h.inputs[k][i] = NoEdge \/ h.inputs[k][i] \notin X
    BY <2>1 DEF IsStruck
  <2>. QED  BY <1>0, <2>2, <2>3
<1>2. ASSUME NEW i \in 1..GraphOutputs, NEW b \in BOOLEAN
      PROVE  h.outputs[i] \in Edges /\ OutletOf(h.outputs[i], b) # o
  <2>1. h.outputs[i] \in Edges /\ g.outputs[i] \in Edges
    BY DEF Fine, Sound, Shaped
  <2>2. h.outputs[i] = NoEdge \/ h.outputs[i] \notin X
    BY DEF IsStruck
  <2>. QED  BY <1>0, <2>1, <2>2
<1>3. \A e \in Edges : f[e] = IF e.from \in OwnRows(h) THEN 0 ELSE Direct(h, o, e)
  OBVIOUS
<1>4. f \in [Edges -> Nat]
  BY DirectTyped
<1>. HIDE DEF f
<1>5. \A e \in Edges : OutletOf(e, FALSE) # o => f[e] = 0
  BY <1>3, DirectIs
<1>6. DOMAIN h.inputs = Live(h) /\ Mathy(h) \subseteq OwnRows(h) /\ OwnRows(h) \subseteq Live(h)
  BY MathRows DEF Sound, Shaped, OwnRows
<1>7. ASSUME NEW e \in Edges, e.from \in Mathy(h)
      PROVE  f[e] = f[h.inputs[e.from][1]] + f[h.inputs[e.from][2]]
  <2>1. DOMAIN h.inputs[e.from] = {1, 2}
    BY <1>7, MathInputs DEF Sound
  <2>2. f[h.inputs[e.from][1]] = 0 /\ f[h.inputs[e.from][2]] = 0
    BY <1>1, <1>5, <1>6, <1>7, <2>1
  <2>. QED  BY <1>3, <1>6, <1>7, <2>2
<1>8. ASSUME NEW e \in Edges, e.from \notin Mathy(h) PROVE f[e] = Direct(h, o, e)
  <2>1. CASE e.from \notin OwnRows(h)
    BY <1>3, <2>1
  <2>2. CASE e.from \in OwnRows(h)
    <3> DEFINE d == h.strong_dependent[e.from]
    <3>1. d \in OwnRows(h) /\ DelayedEdge(h, e.from) = h.inputs[d][1]
      BY <2>2, PairFacts
    <3>2. 1 \in DOMAIN h.inputs[d]
      <4>1. CASE d \in Mathy(h)
        BY <4>1, MathInputs DEF Sound
      <4>2. CASE d \notin Mathy(h)
        <5>1. DOMAIN h.inputs[d] = 1..1
          BY <3>1, <4>2, OwnRowOne
        <5>. QED  BY <5>1
      <4>. QED  BY <4>1, <4>2
    <3>3. OutletOf(h.inputs[d][1], TRUE) # o
      BY <1>1, <1>6, <3>1, <3>2
    <3>. QED  BY <1>3, <2>2, <3>1, <3>3, DirectIs
  <2>. QED  BY <2>1, <2>2
<1>9. Counts(h, o, f)
  BY <1>4, <1>7, <1>8 DEF Counts
<1>10. ASSUME LiveSink(h, t)
       PROVE  EdgeAt(h, t) \in Edges /\ OutletOf(EdgeAt(h, t), FALSE) # o
  <2>1. CASE \E k \in User \cap Live(h), c \in 1..UserInputs :
               /\ t = Input(k, c) /\ EdgeAt(h, t) = h.inputs[k][c]
               /\ k \in DOMAIN h.inputs /\ c \in DOMAIN h.inputs[k]
    BY <1>1, <2>1
  <2>2. CASE \E c \in 1..GraphOutputs : t = Output(c) /\ EdgeAt(h, t) = h.outputs[c]
    BY <1>2, <2>2
  <2>3. CASE \E k \in User, p \in Parameters : t = Param(k, p) /\ EdgeAt(h, t) = NoEdge
    BY <1>0, <2>3, NoEdgeFacts
  <2>. QED  BY <1>10, <2>1, <2>2, <2>3, SinkCases
<1>. QED  BY <1>5, <1>9, <1>10, HeardIs

(* Another outlet is heard as before, if the edges that are gone were      *)
(* silent.                                                                 *)
Unheard(g, X, o) ==
  /\ \A e \in X : OutletOf(e, TRUE) # o
  /\ \A k \in Live(g) : \A i \in DOMAIN g.inputs[k] :
        g.inputs[k][i] \in X => CountIn(g, o)[g.inputs[k][i]] = 0
  /\ \A i \in 1..GraphOutputs : g.outputs[i] \in X => CountIn(g, o)[g.outputs[i]] = 0

LEMMA StruckStays ==
  ASSUME NEW g, NEW h, Fine(g), Sound(h), Sane(h), NEW R, NEW X, IsStruck(g, h, R, X),
         EdgesFrom(R \cap Own) \subseteq X,
         NEW o \in Outlet, Unheard(g, X, o), NEW t \in Sink
  PROVE  ConnectedIn(h)[t][o] = IF LiveSink(h, t) THEN ConnectedIn(g)[t][o] ELSE 0
<1> DEFINE K == R \cap Own
           f == CountIn(g, o)
<1>1. /\ OwnRows(h) = OwnRows(g) \ K /\ Mathy(h) = Mathy(g) \ K
      /\ Mathy(h) \subseteq OwnRows(h) /\ OwnRows(h) \subseteq Live(h)
      /\ Live(h) \subseteq Live(g)
  <2>1. OwnRows(h) \subseteq Live(h) /\ Live(h) \subseteq Live(g)
    BY DEF OwnRows, Sound, Shaped, IsStruck
  <2>. QED  BY <2>1, StruckOwn, MathRows DEF Fine
<1>2. Counts(g, o, f) /\ f[NoEdge] = 0
  BY HeardExists, NothingCounts DEF Fine
<1>3. NoEdge.from \notin K /\ OutletOf(NoEdge, TRUE) # o
  BY NoEdgeFacts, OutletFacts DEF Key
<1>4. ASSUME NEW k \in Live(h), NEW i \in DOMAIN h.inputs[k]
      PROVE  /\ f[h.inputs[k][i]] = f[g.inputs[k][i]]
             /\ h.inputs[k][i].from \notin K
             /\ OutletOf(h.inputs[k][i], TRUE) = o <=> OutletOf(g.inputs[k][i], TRUE) = o
  <2>1. /\ k \in Live(g) /\ i \in DOMAIN g.inputs[k]
        /\ h.inputs[k][i] = IF g.inputs[k][i] \in X THEN NoEdge ELSE g.inputs[k][i]
    BY <1>1 DEF IsStruck
  <2>2. g.inputs[k][i] \in Edges
    BY <2>1 DEF Fine, Sound, Shaped
  <2>3. g.inputs[k][i] \notin X => g.inputs[k][i].from \notin K
    BY <2>2 DEF EdgesFrom
  <2>4. g.inputs[k][i] \in X => f[g.inputs[k][i]] = 0 /\ OutletOf(g.inputs[k][i], TRUE) # o
    BY <2>1 DEF Unheard
  <2>. HIDE DEF f, K
  <2>5. CASE g.inputs[k][i] \in X
    <3>1. h.inputs[k][i] = NoEdge
      BY <2>1, <2>5
    <3>. QED  BY <1>2, <1>3, <2>4, <2>5, <3>1
  <2>6. CASE g.inputs[k][i] \notin X
    <3>1. h.inputs[k][i] = g.inputs[k][i]
      BY <2>1, <2>6
    <3>. QED  BY <2>3, <2>6, <3>1
  <2>. QED  BY <2>5, <2>6
<1>5. ASSUME NEW i \in 1..GraphOutputs
      PROVE  f[h.outputs[i]] = f[g.outputs[i]] /\ h.outputs[i].from \notin K
  <2>1. h.outputs[i] = IF g.outputs[i] \in X THEN NoEdge ELSE g.outputs[i]
    BY DEF IsStruck
  <2>2. g.outputs[i] \in Edges
    BY DEF Fine, Sound, Shaped
  <2>3. g.outputs[i] \notin X => g.outputs[i].from \notin K
    BY <2>2 DEF EdgesFrom
  <2>4. g.outputs[i] \in X => f[g.outputs[i]] = 0
    BY DEF Unheard
  <2>. HIDE DEF K, f
  <2>. QED  BY <1>2, <1>3, <2>1, <2>3, <2>4
<1>. HIDE DEF f, K
<1>6. Cut(g, h, K, o, f)
  <2>1. \A k \in Mathy(h) : \A i \in {1, 2} : /\ f[h.inputs[k][i]] = f[g.inputs[k][i]]
                                              /\ h.inputs[k][i].from \notin K
    <3>. TAKE k \in Mathy(h)
    <3>1. k \in Live(h) /\ DOMAIN h.inputs[k] = {1, 2}
      BY <1>1, MathInputs DEF Sound
    <3>. QED  BY <1>4, <3>1
  <2>2. \A k \in OwnRows(h) \ Mathy(h) : 1 \in DOMAIN h.inputs[k]
    <3>. TAKE k \in OwnRows(h) \ Mathy(h)
    <3>1. DOMAIN h.inputs[k] = 1..1
      BY OwnRowOne
    <3>. QED  BY <3>1
  <2>3. \A k \in OwnRows(h) \ Mathy(h) :
           OutletOf(h.inputs[k][1], TRUE) = o <=> OutletOf(g.inputs[k][1], TRUE) = o
    BY <1>1, <1>4, <2>2
  <2>4. \A k \in OwnRows(h) : h.strong_dependent[k] = g.strong_dependent[k]
    BY DEF IsStruck
  <2>. QED  BY <1>1, <2>1, <2>3, <2>4 DEF Cut
<1>7. ASSUME LiveSink(h, t)
      PROVE  /\ LiveSink(g, t) /\ f[EdgeAt(h, t)] = f[EdgeAt(g, t)]
             /\ EdgeAt(h, t).from \notin K
  <2>1. LiveSink(g, t)
    BY <1>1, <1>7 DEF LiveSink
  <2>2. CASE \E k \in User \cap Live(h), c \in 1..UserInputs :
               /\ t = Input(k, c) /\ EdgeAt(h, t) = h.inputs[k][c]
               /\ k \in DOMAIN h.inputs /\ c \in DOMAIN h.inputs[k]
    <3>1. PICK k \in User \cap Live(h), c \in 1..UserInputs :
               t = Input(k, c) /\ EdgeAt(h, t) = h.inputs[k][c] /\ c \in DOMAIN h.inputs[k]
      BY <2>2
    <3>2. EdgeAt(g, t) = g.inputs[k][c]
      BY <3>1, EdgeAtSinks
    <3>. QED  BY <1>4, <2>1, <3>1, <3>2
  <2>3. CASE \E c \in 1..GraphOutputs : t = Output(c) /\ EdgeAt(h, t) = h.outputs[c]
    BY <1>5, <2>1, <2>3, EdgeAtSinks
  <2>4. CASE \E k \in User, p \in Parameters : t = Param(k, p) /\ EdgeAt(h, t) = NoEdge
    <3>1. EdgeAt(g, t) = NoEdge
      BY <2>1, <2>4, SinkEdge DEF Fine
    <3>. QED  BY <1>3, <2>1, <2>4, <3>1
  <2>. QED  BY <1>7, <2>2, <2>3, <2>4, SinkCases
<1>8. K \in SUBSET Own
  BY DEF K
<1>9. SinkCut(g, h, K, f, t)
  BY <1>7 DEF SinkCut
<1>. QED  BY <1>2, <1>6, <1>8, <1>9, CutHears

LEMMA DeafSink ==
  ASSUME NEW g, NEW t \in Sink, NEW o \in Outlet, ~LiveSink(g, t)
  PROVE  ConnectedIn(g)[t][o] = 0
  BY DEF ConnectedIn, LiveSink

-----------------------------------------------------------------------------
(* Disconnecting an output: its outlets, direct and delayed, are not heard *)
(* any more, and nothing else changes.                                     *)
LEMMA OutputDisconnectedHears ==
  ASSUME NEW g, Fine(g), NEW from \in User \cup {Graph}, NEW c
  PROVE  LET h == OutputDisconnected(g, from, c)
         IN  /\ Fine(h)
             /\ \A t \in Sink, o \in Outlet :
                   ConnectedIn(h)[t][o] = IF o.from = from /\ o.channel = c THEN 0
                                          ELSE ConnectedIn(g)[t][o]
<1> DEFINE h == OutputDisconnected(g, from, c)
           X == {e \in Edges : Matches(e, from, c)}
<1>1. Sound(h) /\ Sane(h)
  BY OutputDisconnectedKeeps DEF Fine, Keeps
<1>2. IsStruck(g, h, {}, X)
  <2>1. /\ h.nodes = g.nodes /\ h.math = g.math /\ h.strong_dependent = g.strong_dependent
        /\ h.pending = g.pending
        /\ h.inputs = [j \in DOMAIN g.inputs |-> Disconnected(g.inputs[j], from, c)]
        /\ h.outputs = Disconnected(g.outputs, from, c)
    BY DEF OutputDisconnected, Required, Fields, Fine, Sound, Shaped
  <2>. HIDE DEF h
  <2>2. Live(h) = Live(g) \ {}
    BY <2>1 DEF Live
  <2>3. ASSUME NEW k \in Live(h)
        PROVE  /\ DOMAIN h.inputs[k] = DOMAIN g.inputs[k]
               /\ \A i \in DOMAIN g.inputs[k] :
                    h.inputs[k][i] = IF g.inputs[k][i] \in X THEN NoEdge ELSE g.inputs[k][i]
    <3>1. /\ k \in DOMAIN g.inputs
          /\ \A i \in DOMAIN g.inputs[k] : g.inputs[k][i] \in Edges
      BY <2>2 DEF Fine, Sound, Shaped
    <3>2. h.inputs[k] = Disconnected(g.inputs[k], from, c)
      BY <2>1, <3>1
    <3>. QED  BY <3>1, <3>2 DEF Disconnected
  <2>4. \A i \in 1..GraphOutputs :
           h.outputs[i] = IF g.outputs[i] \in X THEN NoEdge ELSE g.outputs[i]
    BY <2>1 DEF Disconnected, Fine, Sound, Shaped
  <2>. QED  BY <2>1, <2>2, <2>3, <2>4 DEF IsStruck
<1>3. EdgesFrom({} \cap Own) \subseteq X
  BY DEF EdgesFrom
<1>4. Tidy(h)
  BY <1>1, <1>2, <1>3, StruckTidy
<1>. HIDE DEF h
<1>5. ASSUME NEW t \in Sink, NEW o \in Outlet, o.from = from, o.channel = c
      PROVE  ConnectedIn(h)[t][o] = 0
  <2>1. \A e \in Edges, b \in BOOLEAN : OutletOf(e, b) = o => e \in X
    BY <1>5 DEF OutletOf, Matches
  <2>. HIDE DEF X
  <2>. QED  BY <1>1, <1>2, <2>1, StruckGone
<1>6. ASSUME NEW t \in Sink, NEW o \in Outlet, ~ (o.from = from /\ o.channel = c)
      PROVE  ConnectedIn(h)[t][o] = ConnectedIn(g)[t][o]
  <2>1. \A e \in X, b \in BOOLEAN : OutletOf(e, b) # o
    BY <1>6 DEF OutletOf, Matches
  <2>2. from \notin Own
    BY KeysAssumption DEF Graph
  <2>3. \A e \in X : CountIn(g, o)[e] = 0
    <3>. TAKE e \in X
    <3>1. e \in Edges /\ e.from \notin OwnRows(g) /\ e.from \notin Mathy(g)
      BY <2>2, MathRows DEF Matches, Fine
    <3>2. CountIn(g, o)[e] = Direct(g, o, e)
      BY <3>1, HeardExists DEF Fine, Counts
    <3>. QED  BY <2>1, <3>1, <3>2, DirectIs
  <2>. HIDE DEF X
  <2>7. Unheard(g, X, o)
    BY <2>1, <2>3 DEF Unheard
  <2>4. ConnectedIn(h)[t][o] = IF LiveSink(h, t) THEN ConnectedIn(g)[t][o] ELSE 0
    BY <1>1, <1>2, <1>3, <2>7, StruckStays
  <2>5. Live(h) = Live(g)
    BY <1>2 DEF IsStruck
  <2>6. ~LiveSink(h, t) => ConnectedIn(g)[t][o] = 0
    BY <2>5, DeafSink DEF LiveSink
  <2>. QED  BY <2>4, <2>6
<1>. QED  BY <1>1, <1>4, <1>5, <1>6 DEF Fine, h

-----------------------------------------------------------------------------
(* Freeing. *)
LEMMA FreedIs ==
  ASSUME NEW g, Fine(g), NEW k \in Live(g)
  PROVE  LET h == Freed(g, k)
             K == {k, Dependent(g, k)}
         IN  /\ Sound(h) /\ Sane(h) /\ IsStruck(g, h, K, EdgesFrom(K))
             /\ EdgesFrom(K \cap Own) \subseteq EdgesFrom(K)
             /\ Tidy(h)
<1> DEFINE h == Freed(g, k)
           K == {k, Dependent(g, k)}
           X == EdgesFrom(K)
<1>0. k \in g.nodes /\ k \notin g.pending /\ Dependent(g, k) \notin g.pending
  <2>1. k \in g.nodes /\ k \notin g.pending
    BY DEF Live
  <2>. QED  BY <2>1, DependentFacts DEF Fine
<1>1. Sound(h) /\ Sane(h)
  BY <1>0, FreedKeeps DEF Fine, Keeps
<1>2. IsStruck(g, h, K, X)
  <2>0. K \ g.pending = K
    BY <1>0
  <2>1. /\ h.nodes = g.nodes /\ h.math = g.math /\ h.strong_dependent = g.strong_dependent
        /\ h.pending = g.pending \cup K
        /\ h.inputs = [j \in DOMAIN g.inputs \ K |-> Without(g.inputs[j], K)]
        /\ h.outputs = Without(g.outputs, K)
    <3>1. h = Required([g EXCEPT !.inputs = [j \in DOMAIN @ \ K |-> Without(@[j], K)],
                                 !.params = Restricted(@, K),
                                 !.outputs = Without(@, K),
                                 !.pending = @ \cup K])
      BY <1>0, <2>0 DEF Freed
    <3>. HIDE DEF h, K
    <3>. QED  BY <3>1 DEF Required, Fields, Fine, Sound, Shaped
  <2>. HIDE DEF h, K
  <2>2. Live(h) = Live(g) \ K
    BY <2>1 DEF Live
  <2>3. ASSUME NEW j \in Live(h)
        PROVE  /\ DOMAIN h.inputs[j] = DOMAIN g.inputs[j]
               /\ \A i \in DOMAIN g.inputs[j] :
                    h.inputs[j][i] = IF g.inputs[j][i] \in X THEN NoEdge ELSE g.inputs[j][i]
    <3>1. /\ j \in DOMAIN g.inputs \ K
          /\ \A i \in DOMAIN g.inputs[j] : g.inputs[j][i] \in Edges
      BY <2>2 DEF Fine, Sound, Shaped
    <3>2. h.inputs[j] = Without(g.inputs[j], K)
      BY <2>1, <3>1
    <3>. QED  BY <3>1, <3>2 DEF Without, EdgesFrom
  <2>4. \A i \in 1..GraphOutputs :
           h.outputs[i] = IF g.outputs[i] \in X THEN NoEdge ELSE g.outputs[i]
    BY <2>1 DEF Without, EdgesFrom, Fine, Sound, Shaped
  <2>. QED  BY <2>1, <2>2, <2>3, <2>4 DEF IsStruck
<1>3. EdgesFrom(K \cap Own) \subseteq X
  BY DEF EdgesFrom
<1>. HIDE DEF h, K, X
<1>4. Tidy(h)
  BY <1>1, <1>2, <1>3, StruckTidy
<1>. QED  BY <1>1, <1>2, <1>3, <1>4 DEF h, K, X

(* A node of the user's takes its sinks and its outlets with it. *)
LEMMA FreedUserHears ==
  ASSUME NEW g, Fine(g), NEW k \in User \cap Live(g)
  PROVE  LET h == Freed(g, k)
         IN  /\ Fine(h)
             /\ \A t \in Sink, o \in Outlet :
                   ConnectedIn(h)[t][o] = IF t[2] = k \/ o.from = k THEN 0
                                          ELSE ConnectedIn(g)[t][o]
<1> DEFINE h == Freed(g, k)
           K == {k}
           X == EdgesFrom(K)
<1>0. k \notin Own /\ Dependent(g, k) = k /\ {k, Dependent(g, k)} = K /\ k # Graph
  BY KeysAssumption DEF Dependent, Graph
<1>1. Sound(h) /\ Sane(h) /\ IsStruck(g, h, K, X) /\ EdgesFrom(K \cap Own) \subseteq X /\ Tidy(h)
  BY <1>0, FreedIs
<1>. HIDE DEF h
<1>2. ASSUME NEW t \in Sink, NEW o \in Outlet, o.from = k
      PROVE  ConnectedIn(h)[t][o] = 0
  <2>1. \A e \in Edges, b \in BOOLEAN : OutletOf(e, b) = o => e \in X
    BY <1>2 DEF OutletOf, EdgesFrom
  <2>. HIDE DEF X, K
  <2>. QED  BY <1>1, <2>1, StruckGone
<1>3. ASSUME NEW t \in Sink, NEW o \in Outlet, o.from # k
      PROVE  ConnectedIn(h)[t][o] = IF t[2] = k THEN 0 ELSE ConnectedIn(g)[t][o]
  <2>1. \A e \in X, b \in BOOLEAN : OutletOf(e, b) # o
    BY <1>3 DEF OutletOf, EdgesFrom
  <2>2. \A e \in X : CountIn(g, o)[e] = 0
    <3>. TAKE e \in X
    <3>1. e \in Edges /\ e.from \notin OwnRows(g) /\ e.from \notin Mathy(g)
      BY <1>0, MathRows DEF EdgesFrom, Fine
    <3>2. CountIn(g, o)[e] = Direct(g, o, e)
      BY <3>1, HeardExists DEF Fine, Counts
    <3>. QED  BY <2>1, <3>1, <3>2, DirectIs
  <2>3. Live(h) = Live(g) \ {k}
    BY <1>1 DEF IsStruck
  <2>. HIDE DEF X, K
  <2>7. Unheard(g, X, o)
    BY <2>1, <2>2 DEF Unheard
  <2>4. ConnectedIn(h)[t][o] = IF LiveSink(h, t) THEN ConnectedIn(g)[t][o] ELSE 0
    BY <1>1, <2>7, StruckStays
  <2>5. ~LiveSink(g, t) => ConnectedIn(g)[t][o] = 0
    BY DeafSink
  <2>6. LiveSink(h, t) <=> LiveSink(g, t) /\ t[2] # k
    BY <1>0, <2>3, LiveSinkIs
  <2>. QED  BY <2>4, <2>5, <2>6
<1>. QED  BY <1>1, <1>2, <1>3 DEF Fine, h

(* Nothing that is read of the nodes K counts an outlet. *)
Silent(g, K) ==
  \A o \in Outlet :
     /\ \A j \in Live(g) : \A i \in DOMAIN g.inputs[j] :
          g.inputs[j][i].from \in K => CountIn(g, o)[g.inputs[j][i]] = 0
     /\ \A i \in 1..GraphOutputs :
          g.outputs[i].from \in K => CountIn(g, o)[g.outputs[i]] = 0

(* Own nodes of which nothing is heard are freed without being heard. *)
LEMMA FreedOwnHears ==
  ASSUME NEW g, Fine(g), NEW k \in Own \cap Live(g), Silent(g, {k, Dependent(g, k)})
  PROVE  Tidy(Freed(g, k)) /\ ConnectedIn(Freed(g, k)) = ConnectedIn(g)
<1> DEFINE h == Freed(g, k)
           K == {k, Dependent(g, k)}
           X == EdgesFrom(K)
<1>0. K \subseteq Own
  BY DEF Dependent, Fine, Sound, Paired
<1>1. Sound(h) /\ Sane(h) /\ IsStruck(g, h, K, X) /\ EdgesFrom(K \cap Own) \subseteq X /\ Tidy(h)
  BY FreedIs
<1>2. Silent(g, K)
  OBVIOUS
<1>. HIDE DEF h, K
<1>3. ASSUME NEW t \in Sink, NEW o \in Outlet
      PROVE  ConnectedIn(h)[t][o] = ConnectedIn(g)[t][o]
  <2>1. \A e \in X : OutletOf(e, TRUE) # o
    BY <1>0, OutletFacts DEF EdgesFrom
  <2>2. Unheard(g, X, o)
    BY <1>2, <2>1 DEF Silent, EdgesFrom, Unheard
  <2>3. Live(h) = Live(g) \ K
    BY <1>1 DEF IsStruck
  <2>. HIDE DEF X
  <2>4. ConnectedIn(h)[t][o] = IF LiveSink(h, t) THEN ConnectedIn(g)[t][o] ELSE 0
    BY <1>1, <2>2, StruckStays
  <2>5. t[2] \notin K
    <3>1. t[2] = Graph \/ t[2] \in User
      BY SinkIs, SinkParts
    <3>. QED  BY <1>0, <3>1, KeysAssumption DEF Graph
  <2>6. LiveSink(h, t) <=> LiveSink(g, t)
    BY <2>3, <2>5, LiveSinkIs
  <2>. QED  BY <2>4, <2>6, DeafSink
<1>. QED  BY <1>1, <1>3, HeardAlike DEF h

-----------------------------------------------------------------------------
(* Bypassing: whatever read k reads e.                                     *)
LEMMA LoneMath ==
  ASSUME NEW g, Fine(g), NEW k, IsLoneMath(g, k)
  PROVE  LET e == Inherited(g, k)
         IN  /\ k \in Mathy(g) /\ k \in Own /\ e \in Edges /\ e.from # k
             /\ {e.from} \cap Key \subseteq SourcesIn(g.inputs[k])
             /\ \A o \in Outlet : \A f : Counts(g, o, f) =>
                   \A x \in Edges : x.from = k => f[x] = f[e]
<1> DEFINE row == g.inputs[k]
           a == row[1]
           b == row[2]
           e == Inherited(g, k)
<1>1. k \in Mathy(g)
  BY DEF IsLoneMath, Mathy
<1>2. k \in Own /\ k \in Live(g) /\ DOMAIN row = {1, 2} /\ a \in Edges /\ b \in Edges
  BY <1>1, MathInputs DEF Fine, Sound
<1>3. a = NoEdge \/ b = NoEdge
  <2>1. SUFFICES ASSUME a # NoEdge, b # NoEdge PROVE FALSE
    OBVIOUS
  <2>2. MissingInputs(g, k) = {}
    BY <1>2, <2>1 DEF MissingInputs
  <2>3. Cardinality(MissingInputs(g, k)) = 0
    BY <2>2, FS_EmptySet
  <2>. QED  BY <2>3 DEF IsLoneMath
<1>4. e = IF a = NoEdge THEN b ELSE a
  BY DEF Inherited
<1>5. \A i \in {1, 2}, j \in Key : row[i].from = j => j \in SourcesIn(row)
  BY <1>2, SourceOfRow
<1>6. k \notin SourcesIn(row)
  <2>1. k \in DOMAIN g.inputs
    BY <1>1 DEF Mathy
  <2>2. {k} \in SUBSET DOMAIN g.inputs /\ {k} # {}
    BY <2>1
  <2>3. \E j \in {k} : SourcesIn(g.inputs[j]) \cap {k} = {}
    BY <2>2 DEF Acyclic, Fine, Sane
  <2>. QED  BY <2>3
<1>. HIDE DEF row, e
<1>7. e \in Edges /\ {e.from} \cap Key \subseteq SourcesIn(row)
  BY <1>2, <1>4, <1>5
<1>8. e.from # k
  BY <1>2, <1>6, <1>7 DEF Key
<1>9. ASSUME NEW o \in Outlet, NEW f, Counts(g, o, f), NEW x \in Edges, x.from = k
      PROVE  f[x] = f[e]
  <2>1. f[x] = f[a] + f[b]
    BY <1>1, <1>9 DEF Counts, row
  <2>2. f[NoEdge] = 0
    BY <1>9, NothingCounts DEF Fine
  <2>3. f[a] \in Nat /\ f[b] \in Nat
    BY <1>2, <1>9 DEF Counts
  <2>4. f[x] \in Nat
    BY <1>9 DEF Counts
  <2>. HIDE DEF a, b
  <2>. QED  BY <1>3, <1>4, <2>1, <2>2, <2>3, <2>4
<1>. QED  BY <1>1, <1>2, <1>7, <1>8, <1>9 DEF e, row

IsBypassed(g, h, k, e) ==
  /\ h.nodes = g.nodes /\ h.math = g.math /\ h.strong_dependent = g.strong_dependent
  /\ h.pending = g.pending
  /\ \A j \in DOMAIN g.inputs : \A i \in DOMAIN g.inputs[j] :
        h.inputs[j][i] = IF g.inputs[j][i].from = k THEN e ELSE g.inputs[j][i]
  /\ \A i \in 1..GraphOutputs :
        h.outputs[i] = g.outputs[i] \/ (g.outputs[i].from = k /\ h.outputs[i] = e)

LEMMA BypassedIs ==
  ASSUME NEW g, Sound(g), NEW k
  PROVE  IsBypassed(g, Bypassed(g, k), k, Inherited(g, k))
<1> DEFINE h == Bypassed(g, k)
           e == Inherited(g, k)
<1>1. /\ h.nodes = g.nodes /\ h.math = g.math /\ h.strong_dependent = g.strong_dependent
      /\ h.pending = g.pending
      /\ h.inputs = [j \in DOMAIN g.inputs |-> Redirected(g.inputs[j], k, e)]
      /\ h.outputs = [i \in DOMAIN g.outputs |->
             IF g.outputs[i].from = k /\ \A j \in 1..i : g.outputs[j] # NoEdge
             THEN e ELSE g.outputs[i]]
  BY DEF Bypassed, Fields, Sound, Shaped
<1>. HIDE DEF h, e
<1>2. \A j \in DOMAIN g.inputs : \A i \in DOMAIN g.inputs[j] :
        h.inputs[j][i] = IF g.inputs[j][i].from = k THEN e ELSE g.inputs[j][i]
  BY <1>1 DEF Redirected
<1>3. DOMAIN g.outputs = 1..GraphOutputs
  BY DEF Sound, Shaped
<1>4. \A i \in 1..GraphOutputs :
        h.outputs[i] = g.outputs[i] \/ (g.outputs[i].from = k /\ h.outputs[i] = e)
  BY <1>1, <1>3
<1>. QED  BY <1>1, <1>2, <1>4 DEF IsBypassed, h, e

LEMMA BypassedRows ==
  ASSUME NEW g, NEW h, Sound(g), Sound(h), NEW k, NEW e, IsBypassed(g, h, k, e)
  PROVE  /\ Live(h) = Live(g) /\ OwnRows(h) = OwnRows(g) /\ Mathy(h) = Mathy(g)
         /\ \A j \in DOMAIN g.inputs : DOMAIN h.inputs[j] = DOMAIN g.inputs[j]
<1>1. Live(h) = Live(g) /\ h.math = g.math
  BY DEF IsBypassed, Live
<1>2. DOMAIN g.inputs = Live(g) /\ DOMAIN h.inputs = Live(g)
  BY <1>1 DEF Sound, Shaped
<1>3. ASSUME NEW j \in DOMAIN g.inputs PROVE DOMAIN h.inputs[j] = DOMAIN g.inputs[j]
  <2>1. Width(h, j) = Width(g, j)
    BY <1>1 DEF Width
  <2>. QED  BY <1>1, <1>2, <2>1 DEF Sound, Shaped
<1>. QED  BY <1>1, <1>2, <1>3 DEF OwnRows, Mathy

LEMMA BypassedTidy ==
  ASSUME NEW g, NEW h, Fine(g), Sound(h), NEW k \in Own, NEW e \in Edges, IsBypassed(g, h, k, e),
         {e.from} \cap Key \subseteq SourcesIn(g.inputs[k])
  PROVE  Tidy(h)
<1>1. /\ OwnRows(h) = OwnRows(g) /\ Mathy(h) = Mathy(g) /\ Mathy(g) \subseteq OwnRows(g)
      /\ OwnRows(g) \subseteq DOMAIN g.inputs
      /\ \A j \in DOMAIN g.inputs : DOMAIN h.inputs[j] = DOMAIN g.inputs[j]
  BY BypassedRows, MathRows DEF Fine, OwnRows
<1>2. \A j \in Mathy(h) : h.strong_dependent[j] = j
  BY <1>1 DEF Fine, Tidy, IsBypassed
<1>3. PICK B \in SUBSET Mathy(g) :
         /\ SourcesIn(g.outputs) \cap Own \subseteq B
         /\ \A j \in B : SourcesIn(g.inputs[j]) \cap Own \subseteq B
  BY DEF Fine, Tidy
<1>4. k \in B => {e.from} \cap Own \subseteq B
  BY <1>3 DEF Key
<1>5. ASSUME NEW j \in B PROVE SourcesIn(h.inputs[j]) \cap Own \subseteq B
  <2>. SUFFICES ASSUME NEW x \in SourcesIn(h.inputs[j]), x \in Own PROVE x \in B
    OBVIOUS
  <2>1. j \in DOMAIN g.inputs
    BY <1>1
  <2>2. PICK i \in DOMAIN g.inputs[j] : h.inputs[j][i].from = x
    BY <1>1, <2>1, SourceOfRow
  <2>3. h.inputs[j][i] = IF g.inputs[j][i].from = k THEN e ELSE g.inputs[j][i]
    BY <2>1 DEF IsBypassed
  <2>4. \A y \in Own : g.inputs[j][i].from = y => y \in B
    BY <1>3, SourceOfRow DEF Key
  <2>. QED  BY <1>4, <2>2, <2>3, <2>4
<1>6. SourcesIn(h.outputs) \cap Own \subseteq B
  <2>. SUFFICES ASSUME NEW x \in SourcesIn(h.outputs), x \in Own PROVE x \in B
    OBVIOUS
  <2>1. DOMAIN h.outputs = 1..GraphOutputs /\ DOMAIN g.outputs = 1..GraphOutputs
    BY DEF Fine, Sound, Shaped
  <2>2. PICK i \in 1..GraphOutputs : h.outputs[i].from = x
    BY <2>1, SourceOfRow
  <2>3. h.outputs[i] = g.outputs[i] \/ (g.outputs[i].from = k /\ h.outputs[i] = e)
    BY DEF IsBypassed
  <2>4. \A y \in Own : g.outputs[i].from = y => y \in B
    BY <1>3, <2>1, SourceOfRow DEF Key
  <2>. QED  BY <1>4, <2>2, <2>3, <2>4
<1>7. ASSUME NEW j \in OwnRows(h) \ Mathy(h) PROVE h.inputs[j][1].from \notin Own
  <2>1. j \in DOMAIN g.inputs /\ g.inputs[j][1].from \notin Own
    BY <1>1 DEF Fine, Tidy
  <2>2. DOMAIN g.inputs[j] = 1..1
    BY <1>1, OwnRowOne DEF Fine
  <2>3. 1 \in DOMAIN g.inputs[j] /\ g.inputs[j][1].from # k
    BY <2>1, <2>2
  <2>4. h.inputs[j][1] = g.inputs[j][1]
    BY <2>1, <2>3 DEF IsBypassed
  <2>. QED  BY <2>1, <2>4
<1>8. B \in SUBSET Mathy(h)
  BY <1>1
<1>. QED  BY <1>2, <1>5, <1>6, <1>7, <1>8 DEF Tidy

LEMMA BypassedCut ==
  ASSUME NEW g, NEW h, Fine(g), Sound(h), Sane(h), NEW k \in Own, NEW e \in Edges,
         IsBypassed(g, h, k, e), NEW o \in Outlet, NEW f, Counts(g, o, f),
         \A x \in Edges : x.from = k => f[x] = f[e], NEW t \in Sink
  PROVE  Cut(g, h, {}, o, f) /\ SinkCut(g, h, {}, f, t)
<1>1. /\ OwnRows(h) = OwnRows(g) /\ Mathy(h) = Mathy(g) /\ Mathy(g) \subseteq OwnRows(g)
      /\ OwnRows(g) \subseteq DOMAIN g.inputs /\ Live(h) = Live(g)
      /\ \A j \in DOMAIN g.inputs : DOMAIN h.inputs[j] = DOMAIN g.inputs[j]
      /\ DOMAIN g.inputs = Live(g)
  BY BypassedRows, MathRows DEF Fine, OwnRows, Sound, Shaped
<1>2. ASSUME NEW j \in Live(g), NEW i \in DOMAIN g.inputs[j]
      PROVE  f[h.inputs[j][i]] = f[g.inputs[j][i]]
  <2>1. h.inputs[j][i] = IF g.inputs[j][i].from = k THEN e ELSE g.inputs[j][i]
    BY <1>1 DEF IsBypassed
  <2>2. g.inputs[j][i] \in Edges
    BY DEF Fine, Sound, Shaped
  <2>. QED  BY <2>1, <2>2
<1>3. ASSUME NEW i \in 1..GraphOutputs PROVE f[h.outputs[i]] = f[g.outputs[i]]
  <2>1. h.outputs[i] = g.outputs[i] \/ (g.outputs[i].from = k /\ h.outputs[i] = e)
    BY DEF IsBypassed
  <2>2. g.outputs[i] \in Edges
    BY DEF Fine, Sound, Shaped
  <2>. QED  BY <2>1, <2>2
<1>4. Cut(g, h, {}, o, f)
  <2>1. ASSUME NEW j \in Mathy(h), NEW i \in {1, 2} PROVE f[h.inputs[j][i]] = f[g.inputs[j][i]]
    <3>1. j \in Live(g) /\ i \in DOMAIN g.inputs[j]
      BY <1>1, MathInputs DEF Fine, Sound
    <3>. QED  BY <1>2, <3>1
  <2>2. ASSUME NEW j \in OwnRows(h) \ Mathy(h) PROVE h.inputs[j][1] = g.inputs[j][1]
    <3>1. j \in DOMAIN g.inputs /\ g.inputs[j][1].from \notin Own
      BY <1>1 DEF Fine, Tidy
    <3>2. DOMAIN g.inputs[j] = 1..1
      BY <1>1, OwnRowOne DEF Fine
    <3>3. 1 \in DOMAIN g.inputs[j] /\ g.inputs[j][1].from # k
      BY <3>1, <3>2
    <3>. QED  BY <3>1, <3>3 DEF IsBypassed
  <2>3. h.strong_dependent = g.strong_dependent
    BY DEF IsBypassed
  <2>. QED  BY <1>1, <2>1, <2>2, <2>3 DEF Cut
<1>5. SinkCut(g, h, {}, f, t)
  <2>. SUFFICES ASSUME LiveSink(h, t)
                PROVE  LiveSink(g, t) /\ f[EdgeAt(h, t)] = f[EdgeAt(g, t)]
    BY DEF SinkCut
  <2>1. LiveSink(g, t)
    BY <1>1 DEF LiveSink
  <2>2. CASE \E j \in User \cap Live(h), c \in 1..UserInputs :
               /\ t = Input(j, c) /\ EdgeAt(h, t) = h.inputs[j][c]
               /\ j \in DOMAIN h.inputs /\ c \in DOMAIN h.inputs[j]
    <3>1. PICK j \in User \cap Live(h), c \in 1..UserInputs :
               t = Input(j, c) /\ EdgeAt(h, t) = h.inputs[j][c] /\ c \in DOMAIN h.inputs[j]
      BY <2>2
    <3>2. EdgeAt(g, t) = g.inputs[j][c]
      BY <3>1, EdgeAtSinks
    <3>3. j \in Live(g) /\ c \in DOMAIN g.inputs[j]
      BY <1>1, <3>1
    <3>. QED  BY <1>2, <2>1, <3>1, <3>2, <3>3
  <2>3. CASE \E c \in 1..GraphOutputs : t = Output(c) /\ EdgeAt(h, t) = h.outputs[c]
    BY <1>3, <2>1, <2>3, EdgeAtSinks
  <2>4. CASE \E j \in User, p \in Parameters : t = Param(j, p) /\ EdgeAt(h, t) = NoEdge
    <3>1. EdgeAt(g, t) = NoEdge
      BY <2>1, <2>4, SinkEdge DEF Fine
    <3>. QED  BY <2>1, <2>4, <3>1
  <2>. QED  BY <2>2, <2>3, <2>4, SinkCases
<1>. QED  BY <1>4, <1>5

(* A math node with one input left is heard no differently when what reads *)
(* it reads that input.                                                    *)
LEMMA BypassedHears ==
  ASSUME NEW g, Fine(g), NEW k, IsLoneMath(g, k)
  PROVE  /\ Fine(Bypassed(g, k))
         /\ ConnectedIn(Bypassed(g, k)) = ConnectedIn(g)
         /\ ~Panics(g, k) => Silent(Bypassed(g, k), {k})
<1> DEFINE h == Bypassed(g, k)
           e == Inherited(g, k)
<1>1. /\ k \in Mathy(g) /\ k \in Own /\ e \in Edges /\ e.from # k
      /\ {e.from} \cap Key \subseteq SourcesIn(g.inputs[k])
      /\ \A o \in Outlet : \A f : Counts(g, o, f) => \A x \in Edges : x.from = k => f[x] = f[e]
  BY LoneMath
<1>2. Sound(h) /\ Sane(h) /\ IsBypassed(g, h, k, e)
  BY <1>1, BypassedSound, BypassedIs DEF Mathy, Fine
<1>3. ASSUME ~Panics(g, k) PROVE Silent(h, {k})
  <2>1. h.outputs = [i \in DOMAIN g.outputs |->
             IF g.outputs[i].from = k /\ \A j \in 1..i : g.outputs[j] # NoEdge
             THEN e ELSE g.outputs[i]]
    BY DEF Bypassed, Fields, Fine, Sound, Shaped
  <2>2. DOMAIN g.outputs = 1..GraphOutputs /\ GraphOutputs \in Nat
    BY ChannelsAssumption DEF Fine, Sound, Shaped
  <2>3. \A i \in 1..GraphOutputs : g.outputs[i] # NoEdge
    BY <1>3, <2>2 DEF Panics
  <2>. HIDE DEF h, e
  <2>4. ASSUME NEW i \in 1..GraphOutputs PROVE h.outputs[i].from # k
    <3>1. \A j \in 1..i : j \in 1..GraphOutputs
      BY <2>2
    <3>. QED  BY <1>1, <2>1, <2>2, <2>3, <3>1
  <2>5. ASSUME NEW j \in Live(h), NEW i \in DOMAIN h.inputs[j] PROVE h.inputs[j][i].from # k
    <3>1. j \in DOMAIN g.inputs /\ i \in DOMAIN g.inputs[j]
      BY <1>2, BypassedRows DEF Fine, Sound, Shaped
    <3>. QED  BY <1>1, <1>2, <3>1 DEF IsBypassed
  <2>. QED  BY <2>4, <2>5 DEF Silent
<1>. HIDE DEF h, e
<1>4. Fine(h)
  BY <1>1, <1>2, BypassedTidy DEF Fine
<1>5. ASSUME NEW t \in Sink, NEW o \in Outlet PROVE ConnectedIn(h)[t][o] = ConnectedIn(g)[t][o]
  <2> DEFINE f == CountIn(g, o)
  <2>1. Counts(g, o, f)
    BY HeardExists DEF Fine
  <2>. HIDE DEF f
  <2>2. \A x \in Edges : x.from = k => f[x] = f[e]
    BY <1>1, <2>1
  <2>3. Cut(g, h, {}, o, f) /\ SinkCut(g, h, {}, f, t)
    BY <1>1, <1>2, <2>1, <2>2, BypassedCut
  <2>4. {} \in SUBSET Own
    OBVIOUS
  <2>5. ConnectedIn(h)[t][o] = IF LiveSink(h, t) THEN ConnectedIn(g)[t][o] ELSE 0
    BY <1>2, <2>1, <2>3, <2>4, CutHears
  <2>6. LiveSink(h, t) <=> LiveSink(g, t)
    BY <1>2, BypassedRows DEF LiveSink, Fine
  <2>. QED  BY <2>5, <2>6, DeafSink
<1>. QED  BY <1>3, <1>4, <1>5, HeardAlike DEF h

-----------------------------------------------------------------------------
(* Evaluating a node is never heard.                                       *)
LEMMA MathAlone ==
  ASSUME NEW g, Fine(g), NEW k \in Mathy(g)
  PROVE  Dependent(g, k) = k /\ k \in Own \cap Live(g)
<1>1. k \in Own \cap Live(g)
  BY MathInputs DEF Fine, Sound
<1>. QED  BY <1>1 DEF Dependent, Fine, Tidy

LEMMA DeadSilent ==
  ASSUME NEW g, Fine(g), NEW k, IsDeadMath(g, k)
  PROVE  k \in Mathy(g) /\ Silent(g, {k})
<1> DEFINE a == g.inputs[k][1]
           b == g.inputs[k][2]
<1>1. k \in Mathy(g) /\ Cardinality(MissingInputs(g, k)) = 2
  BY DEF IsDeadMath, Mathy
<1>2. DOMAIN g.inputs[k] = {1, 2} /\ a \in Edges /\ b \in Edges
  BY <1>1, MathInputs DEF Fine, Sound
<1>3. ASSUME NEW i \in {1, 2}, g.inputs[k][i] # NoEdge PROVE FALSE
  <2>1. MissingInputs(g, k) \subseteq {3 - i}
    BY <1>2, <1>3 DEF MissingInputs
  <2>2. MissingInputs(g, k) = {} \/ MissingInputs(g, k) = {3 - i}
    BY <2>1
  <2>3. Cardinality({}) = 0 /\ Cardinality({3 - i}) = 1
    BY FS_EmptySet, FS_Singleton
  <2>. QED  BY <1>1, <2>2, <2>3
<1>4. a = NoEdge /\ b = NoEdge
  BY <1>3
<1>5. ASSUME NEW o \in Outlet, NEW x \in Edges, x.from = k PROVE CountIn(g, o)[x] = 0
  <2> DEFINE f == CountIn(g, o)
  <2>1. Counts(g, o, f)
    BY HeardExists DEF Fine
  <2>. HIDE DEF f
  <2>2. f[NoEdge] = 0
    BY <2>1, NothingCounts DEF Fine
  <2>3. f[x] = f[g.inputs[k][1]] + f[g.inputs[k][2]]
    BY <1>1, <1>5, <2>1 DEF Counts
  <2>4. f[x] = 0
    BY <1>4, <2>2, <2>3
  <2>. QED  BY <2>4 DEF f
<1>6. \A j \in Live(g) : \A i \in DOMAIN g.inputs[j] : g.inputs[j][i] \in Edges
  BY DEF Fine, Sound, Shaped
<1>7. \A i \in 1..GraphOutputs : g.outputs[i] \in Edges
  BY DEF Fine, Sound, Shaped
<1>. QED  BY <1>1, <1>5, <1>6, <1>7 DEF Silent

LEMMA FeedbackSilent ==
  ASSUME NEW g, Fine(g), NEW k \in Live(g), IsUnconnectedFeedback(g, k)
  PROVE  k \in Own /\ Silent(g, {k, Dependent(g, k)})
<1> DEFINE d == Dependent(g, k)
<1>1. k \in Own /\ d = g.strong_dependent[k] /\ d # k
  BY DEF IsUnconnectedFeedback, Dependent
<1>2. DOMAIN g.inputs = Live(g)
  BY DEF Fine, Sound, Shaped
<1>3. k \in OwnRows(g)
  BY <1>1, <1>2 DEF OwnRows
<1>4. d \in OwnRows(g) /\ g.strong_dependent[d] = k
  BY <1>1, <1>3, PairFacts DEF Fine
<1>5. k \notin Mathy(g) /\ d \notin Mathy(g)
  BY <1>1, <1>4 DEF Fine, Tidy
<1>. HIDE DEF d
<1>6. DelayedEdge(g, d) = NoEdge
  <2>1. DelayedEdge(g, d) = g.inputs[k][1]
    BY <1>4, PairFacts DEF Fine
  <2>2. DOMAIN g.inputs[k] = 1..1
    BY <1>3, <1>5, OwnRowOne DEF Fine
  <2>3. 1 \in DOMAIN g.inputs[k]
    BY <2>2
  <2>. QED  BY <1>2, <2>1, <2>3 DEF IsUnconnectedFeedback
<1>7. ASSUME NEW o \in Outlet, NEW j \in Live(g), NEW i \in DOMAIN g.inputs[j],
             g.inputs[j][i].from \in {k, d}
      PROVE  CountIn(g, o)[g.inputs[j][i]] = 0
  <2> DEFINE x == g.inputs[j][i]
  <2>1. k \notin SourcesIn(g.inputs[j])
    BY <1>2 DEF IsUnconnectedFeedback
  <2>2. x.from = d /\ x \in Edges
    <3>1. x.from # k
      BY <1>1, <2>1, SourceOfRow DEF Key
    <3>. QED  BY <1>7, <3>1 DEF Fine, Sound, Shaped
  <2>. HIDE DEF x
  <2>3. Counts(g, o, CountIn(g, o))
    BY HeardExists DEF Fine
  <2>4. CountIn(g, o)[x] = Direct(g, o, x)
    BY <1>5, <2>2, <2>3 DEF Counts
  <2>5. Direct(g, o, x) = 0
    BY <1>4, <1>6, <2>2, DirectIs, OutletFacts
  <2>. QED  BY <2>4, <2>5 DEF x
<1>8. ASSUME NEW i \in 1..GraphOutputs PROVE g.outputs[i].from \notin {k, d}
  <2>1. SourcesIn(g.outputs) \cap Own \subseteq Mathy(g)
    BY DEF Fine, Tidy
  <2>2. DOMAIN g.outputs = 1..GraphOutputs /\ d \in Own
    BY <1>4, MathRows DEF Fine, Sound, Shaped, OwnRows
  <2>. QED  BY <1>1, <1>5, <2>1, <2>2, SourceOfRow DEF Key
<1>. QED  BY <1>1, <1>7, <1>8 DEF Silent, d

LEMMA EvaluatedHears ==
  ASSUME NEW g, Fine(g), NEW k
  PROVE  Fine(Evaluated(g, k)) /\ ConnectedIn(Evaluated(g, k)) = ConnectedIn(g)
<1> DEFINE h == Evaluated(g, k)
<1>1. Sound(h) /\ Sane(h)
  BY EvaluatedKeeps DEF Fine
<1>2. CASE Panics(g, k)
  <2>1. h = Bypassed(g, k) /\ IsLoneMath(g, k)
    BY <1>2 DEF Evaluated, Panics
  <2>. QED  BY <2>1, BypassedHears
<1>3. CASE IsLoneMath(g, k) /\ ~Panics(g, k)
  <2> DEFINE b == Bypassed(g, k)
  <2>1. h = Freed(b, k)
    BY <1>3 DEF Evaluated
  <2>2. Fine(b) /\ ConnectedIn(b) = ConnectedIn(g) /\ Silent(b, {k})
    BY <1>3, BypassedHears
  <2>3. k \in Mathy(b)
    <3>1. IsBypassed(g, b, k, Inherited(g, k)) /\ k \in Mathy(g)
      BY <1>3, BypassedIs, LoneMath DEF Fine
    <3>. QED  BY <2>2, <3>1, BypassedRows DEF Fine
  <2>. HIDE DEF b, h
  <2>4. Dependent(b, k) = k /\ k \in Own \cap Live(b)
    BY <2>2, <2>3, MathAlone
  <2>5. {k, Dependent(b, k)} = {k}
    BY <2>4
  <2>6. Tidy(Freed(b, k)) /\ ConnectedIn(Freed(b, k)) = ConnectedIn(b)
    BY <2>2, <2>4, <2>5, FreedOwnHears
  <2>. QED  BY <1>1, <2>1, <2>2, <2>6 DEF Fine, h
<1>4. CASE IsDeadMath(g, k) /\ ~IsLoneMath(g, k)
  <2>1. h = Freed(g, k)
    BY <1>4 DEF Evaluated, Panics
  <2>2. k \in Mathy(g) /\ Silent(g, {k})
    BY <1>4, DeadSilent
  <2>3. Dependent(g, k) = k /\ k \in Own \cap Live(g)
    BY <2>2, MathAlone
  <2>4. {k, Dependent(g, k)} = {k}
    BY <2>3
  <2>. HIDE DEF h
  <2>5. Tidy(Freed(g, k)) /\ ConnectedIn(Freed(g, k)) = ConnectedIn(g)
    BY <2>2, <2>3, <2>4, FreedOwnHears
  <2>. QED  BY <1>1, <2>1, <2>5 DEF Fine, h
<1>5. CASE IsUnconnectedFeedback(g, k) /\ ~IsLoneMath(g, k)
  <2>1. h = Freed(g, k)
    BY <1>5 DEF Evaluated, Panics
  <2>2. CASE k \in g.pending
    BY <2>1, <2>2 DEF Freed
  <2>3. CASE k \notin g.pending
    <3>1. k \in Live(g)
      BY <1>5, <2>3, DependentFacts DEF IsUnconnectedFeedback, Live, Fine
    <3>2. k \in Own \cap Live(g) /\ Silent(g, {k, Dependent(g, k)})
      BY <1>5, <3>1, FeedbackSilent
    <3>. HIDE DEF h
    <3>3. Tidy(Freed(g, k)) /\ ConnectedIn(Freed(g, k)) = ConnectedIn(g)
      BY <3>2, FreedOwnHears
    <3>. QED  BY <1>1, <2>1, <3>3 DEF Fine, h
  <2>. QED  BY <2>2, <2>3
<1>6. CASE ~IsLoneMath(g, k) /\ ~IsDeadMath(g, k) /\ ~IsUnconnectedFeedback(g, k)
  <2>1. h = g
    BY <1>6 DEF Evaluated, Panics
  <2>. QED  BY <2>1
<1>. QED  BY <1>2, <1>3, <1>4, <1>5, <1>6

-----------------------------------------------------------------------------
(* New nodes N, which nothing reads yet, are not heard.                    *)
Extends(g, w, N) ==
  /\ N \subseteq Own /\ N \cap Live(g) = {}
  /\ Live(w) = Live(g) \cup N
  /\ \A k \in Live(g) : w.inputs[k] = g.inputs[k]
  /\ w.outputs = g.outputs
  /\ \A k \in OwnRows(g) : w.strong_dependent[k] = g.strong_dependent[k]
  /\ \A k \in Own \ N : k \in w.math <=> k \in g.math

LEMMA ExtendsRows ==
  ASSUME NEW g, NEW w, Sound(g), Sound(w), NEW N, Extends(g, w, N)
  PROVE  /\ OwnRows(w) = OwnRows(g) \cup N
         /\ Mathy(w) \ N = Mathy(g)
         /\ N \cap OwnRows(g) = {}
<1>1. DOMAIN g.inputs = Live(g) /\ DOMAIN w.inputs = Live(g) \cup N
  BY DEF Sound, Shaped, Extends
<1>2. N \subseteq Own /\ N \cap Live(g) = {}
  BY DEF Extends
<1>3. g.math \subseteq Own /\ w.math \subseteq Own
  BY DEF Sound, Shaped
<1>. QED  BY <1>1, <1>2, <1>3 DEF Extends, OwnRows, Mathy

(* What is read where no new node is. *)
LEMMA ReadsOld ==
  ASSUME NEW g, Sound(g), Sane(g), NEW N, N \cap Live(g) = {}, N \subseteq Own
  PROVE  /\ \A k \in Live(g) : \A i \in DOMAIN g.inputs[k] :
              g.inputs[k][i] \in Edges /\ g.inputs[k][i].from \notin N
         /\ \A i \in 1..GraphOutputs : g.outputs[i] \in Edges /\ g.outputs[i].from \notin N
<1>1. ASSUME NEW k \in Live(g), NEW i \in DOMAIN g.inputs[k]
      PROVE  g.inputs[k][i] \in Edges /\ g.inputs[k][i].from \notin N
  <2>1. k \in DOMAIN g.inputs /\ g.inputs[k][i] \in Edges
    BY DEF Sound, Shaped
  <2>2. SourcesIn(g.inputs[k]) \subseteq Live(g)
    BY <2>1 DEF Sane, Linked
  <2>. QED  BY <2>1, <2>2, SourceOfRow DEF Key
<1>2. ASSUME NEW i \in 1..GraphOutputs
      PROVE  g.outputs[i] \in Edges /\ g.outputs[i].from \notin N
  <2>1. DOMAIN g.outputs = 1..GraphOutputs /\ g.outputs[i] \in Edges
    BY DEF Sound, Shaped
  <2>2. SourcesIn(g.outputs) \subseteq Live(g)
    BY DEF Sane, Linked
  <2>. QED  BY <2>1, <2>2, SourceOfRow DEF Key
<1>. QED  BY <1>1, <1>2

LEMMA ExtendedCounts ==
  ASSUME NEW g, NEW w, Fine(g), Sound(w), Sane(w), NEW N, Extends(g, w, N), NEW o
  PROVE  \A e \in Edges : e.from \notin N => CountIn(w, o)[e] = CountIn(g, o)[e]
<1> DEFINE f == CountIn(g, o)
           l == CountIn(w, o)
           c == [e \in Edges |-> IF e.from \in N THEN f[e] ELSE l[e]]
<1>1. Counts(g, o, f) /\ Counts(w, o, l)
  BY HeardExists DEF Fine
<1>. HIDE DEF f, l
<1>2. /\ OwnRows(w) = OwnRows(g) \cup N /\ Mathy(w) \ N = Mathy(g) /\ N \cap OwnRows(g) = {}
      /\ Mathy(g) \subseteq OwnRows(g) /\ N \subseteq Own /\ N \cap Live(g) = {}
      /\ OwnRows(g) \subseteq Live(g)
  <2>1. Sound(g) /\ DOMAIN g.inputs = Live(g) /\ N \subseteq Own /\ N \cap Live(g) = {}
    BY DEF Fine, Sound, Shaped, Extends
  <2>2. OwnRows(g) \subseteq Live(g)
    BY <2>1 DEF OwnRows
  <2>. QED  BY <2>1, <2>2, ExtendsRows, MathRows
<1>3. \A e \in Edges : c[e] = IF e.from \in N THEN f[e] ELSE l[e]
  OBVIOUS
<1>4. c \in [Edges -> Nat]
  BY <1>1 DEF Counts
<1>. HIDE DEF c
<1>5. ASSUME NEW e \in Edges, e.from \in Mathy(g)
      PROVE  c[e] = c[g.inputs[e.from][1]] + c[g.inputs[e.from][2]]
  <2> DEFINE k == e.from
  <2>1. k \in Mathy(w) /\ k \notin N /\ k \in Live(g)
    BY <1>2, <1>5
  <2>2. DOMAIN g.inputs[k] = {1, 2}
    BY <1>5, MathInputs DEF Fine, Sound
  <2>3. \A i \in {1, 2} : g.inputs[k][i] \in Edges /\ g.inputs[k][i].from \notin N
    BY <1>2, <2>1, <2>2, ReadsOld DEF Fine
  <2>4. w.inputs[k] = g.inputs[k]
    BY <2>1 DEF Extends
  <2>5. l[e] = l[g.inputs[k][1]] + l[g.inputs[k][2]]
    BY <1>1, <2>1, <2>4 DEF Counts
  <2>. QED  BY <1>3, <2>1, <2>3, <2>5
<1>6. ASSUME NEW e \in Edges, e.from \notin Mathy(g)
      PROVE  c[e] = Direct(g, o, e)
  <2>1. CASE e.from \in N
    BY <1>1, <1>3, <1>6, <2>1 DEF Counts
  <2>2. CASE e.from \notin N
    <3>1. e.from \notin Mathy(w)
      BY <1>2, <1>6, <2>2
    <3>2. l[e] = Direct(w, o, e)
      BY <1>1, <3>1 DEF Counts
    <3>3. e.from \in OwnRows(w) <=> e.from \in OwnRows(g)
      BY <1>2, <2>2
    <3>4. ASSUME e.from \in OwnRows(g) PROVE DelayedEdge(w, e.from) = DelayedEdge(g, e.from)
      <4> DEFINE d == g.strong_dependent[e.from]
      <4>1. d \in OwnRows(g) /\ DelayedEdge(g, e.from) = g.inputs[d][1]
        BY <3>4, PairFacts DEF Fine
      <4>2. w.strong_dependent[e.from] = d
        BY <3>4 DEF Extends
      <4>3. DelayedEdge(w, e.from) = w.inputs[d][1]
        BY <3>3, <3>4, <4>2, PairFacts
      <4>4. w.inputs[d] = g.inputs[d]
        BY <1>2, <4>1 DEF Extends
      <4>. QED  BY <4>1, <4>3, <4>4
    <3>5. Direct(w, o, e) = Direct(g, o, e)
      BY <3>3, <3>4, DirectIs
    <3>. QED  BY <1>3, <2>2, <3>2, <3>5
  <2>. QED  BY <2>1, <2>2
<1>7. Counts(g, o, c)
  BY <1>4, <1>5, <1>6 DEF Counts
<1>8. c = f
  BY <1>1, <1>7, CountsUnique DEF Fine, Sound, Sane
<1>. QED  BY <1>3, <1>8 DEF f, l

(* What is at the sinks that are live stays. *)
LEMMA ExtendedSinks ==
  ASSUME NEW g, NEW w, Fine(g), Sound(w), Sane(w), NEW N, Extends(g, w, N), NEW t \in Sink
  PROVE  /\ LiveSink(w, t) <=> LiveSink(g, t)
         /\ LiveSink(g, t) => /\ EdgeAt(w, t) = EdgeAt(g, t) /\ EdgeAt(g, t) \in Edges
                              /\ EdgeAt(g, t).from \notin N
<1>1. /\ N \subseteq Own /\ N \cap Live(g) = {} /\ Live(w) = Live(g) \cup N
      /\ DOMAIN g.inputs = Live(g)
  BY DEF Extends, Fine, Sound, Shaped
<1>4. /\ \A k \in Live(g) : \A i \in DOMAIN g.inputs[k] :
            g.inputs[k][i] \in Edges /\ g.inputs[k][i].from \notin N
      /\ \A i \in 1..GraphOutputs : g.outputs[i] \in Edges /\ g.outputs[i].from \notin N
  BY <1>1, ReadsOld DEF Fine
<1>2. LiveSink(w, t) <=> LiveSink(g, t)
  <2>1. t[2] = Graph \/ t[2] \in User
    BY SinkIs, SinkParts
  <2>2. t[2] \notin N
    BY <1>1, <2>1, KeysAssumption DEF Graph
  <2>. QED  BY <1>1, <2>2 DEF LiveSink
<1>3. ASSUME LiveSink(g, t)
      PROVE  /\ EdgeAt(w, t) = EdgeAt(g, t) /\ EdgeAt(g, t) \in Edges
             /\ EdgeAt(g, t).from \notin N
  <2>2. CASE \E j \in User \cap Live(g), c \in 1..UserInputs :
               /\ t = Input(j, c) /\ EdgeAt(g, t) = g.inputs[j][c]
               /\ j \in DOMAIN g.inputs /\ c \in DOMAIN g.inputs[j]
    <3>1. PICK j \in User \cap Live(g), c \in 1..UserInputs :
               t = Input(j, c) /\ EdgeAt(g, t) = g.inputs[j][c] /\ c \in DOMAIN g.inputs[j]
      BY <2>2
    <3>2. EdgeAt(w, t) = g.inputs[j][c]
      BY <3>1, EdgeAtSinks DEF Extends
    <3>. QED  BY <1>4, <3>1, <3>2
  <2>3. CASE \E c \in 1..GraphOutputs : t = Output(c) /\ EdgeAt(g, t) = g.outputs[c]
    <3>1. w.outputs = g.outputs
      BY DEF Extends
    <3>. QED  BY <1>4, <2>3, <3>1, EdgeAtSinks
  <2>4. CASE \E j \in User, p \in Parameters : t = Param(j, p) /\ EdgeAt(g, t) = NoEdge
    <3>1. EdgeAt(w, t) = NoEdge
      BY <1>2, <1>3, <2>4, SinkEdge
    <3>2. NoEdge.from \notin N /\ NoEdge \in Edges
      BY <1>1, NoEdgeFacts DEF Key
    <3>. QED  BY <2>4, <3>1, <3>2
  <2>. QED  BY <1>3, <2>2, <2>3, <2>4, SinkCases DEF Fine
<1>. QED  BY <1>2, <1>3

LEMMA ExtendedHears ==
  ASSUME NEW g, NEW w, Fine(g), Sound(w), Sane(w), NEW N, Extends(g, w, N)
  PROVE  ConnectedIn(w) = ConnectedIn(g)
<1>1. ASSUME NEW t \in Sink, NEW o \in Outlet PROVE ConnectedIn(w)[t][o] = ConnectedIn(g)[t][o]
  <2> DEFINE f == CountIn(g, o)
             l == CountIn(w, o)
  <2>1. Counts(g, o, f) /\ Counts(w, o, l)
    BY HeardExists DEF Fine
  <2>2. \A e \in Edges : e.from \notin N => l[e] = f[e]
    BY ExtendedCounts
  <2>. HIDE DEF f, l
  <2>3. ConnectedIn(g)[t][o] = IF LiveSink(g, t) THEN f[EdgeAt(g, t)] ELSE 0
    BY <2>1, HeardIs DEF Fine
  <2>4. ConnectedIn(w)[t][o] = IF LiveSink(w, t) THEN l[EdgeAt(w, t)] ELSE 0
    BY <2>1, HeardIs
  <2>. QED  BY <2>2, <2>3, <2>4, ExtendedSinks
<1>. QED  BY <1>1, HeardAlike

(* What a graph output has not heard through a feedback node. *)
Based(g, B) ==
  /\ SourcesIn(g.outputs) \cap Own \subseteq B
  /\ \A k \in B : SourcesIn(g.inputs[k]) \cap Own \subseteq B

LEMMA ExtendedTidy ==
  ASSUME NEW g, NEW w, Fine(g), Sound(w), NEW N, Extends(g, w, N),
         \A k \in N \cap Mathy(w) : w.strong_dependent[k] = k,
         \A k \in N \ Mathy(w) : w.inputs[k][1].from \notin Own
  PROVE  /\ Tidy(w)
         /\ \A B \in SUBSET Mathy(g) : Based(g, B) => B \in SUBSET Mathy(w) /\ Based(w, B)
<1>1. /\ OwnRows(w) = OwnRows(g) \cup N /\ Mathy(w) \ N = Mathy(g) /\ N \cap OwnRows(g) = {}
      /\ Mathy(g) \subseteq OwnRows(g) /\ OwnRows(g) \subseteq Live(g)
  BY ExtendsRows, MathRows DEF Fine, OwnRows, Sound, Shaped
<1>2. \A k \in OwnRows(g) : /\ w.inputs[k] = g.inputs[k]
                            /\ w.strong_dependent[k] = g.strong_dependent[k]
  BY <1>1 DEF Extends
<1>3. ASSUME NEW B \in SUBSET Mathy(g), Based(g, B) PROVE B \in SUBSET Mathy(w) /\ Based(w, B)
  <2>1. \A k \in B : w.inputs[k] = g.inputs[k]
    BY <1>1, <1>2
  <2>2. w.outputs = g.outputs
    BY DEF Extends
  <2>. QED  BY <1>1, <1>3, <2>1, <2>2 DEF Based
<1>4. PICK B \in SUBSET Mathy(g) : Based(g, B)
  BY DEF Fine, Tidy, Based
<1>5. B \in SUBSET Mathy(w) /\ Based(w, B)
  BY <1>3, <1>4
<1>6. \A k \in Mathy(w) : w.strong_dependent[k] = k
  BY <1>1, <1>2 DEF Fine, Tidy
<1>7. \A k \in OwnRows(w) \ Mathy(w) : w.inputs[k][1].from \notin Own
  BY <1>1, <1>2 DEF Fine, Tidy
<1>. QED  BY <1>3, <1>5, <1>6, <1>7 DEF Tidy, Based

-----------------------------------------------------------------------------
(* Putting an edge at a sink.                                              *)
LEMMA PutIs ==
  ASSUME NEW g, Sound(g), NEW s \in InputSinks(g) \cup OutputSinks, NEW e \in Edges
  PROVE  LET h == Put(g, s, e)
         IN  /\ s \in Sink /\ LiveSink(g, s)
             /\ Live(h) = Live(g) /\ SameOwn(g, h)
             /\ \A t \in Sink : LiveSink(g, t) =>
                  EdgeAt(h, t) = IF t = s THEN e ELSE EdgeAt(g, t)
             /\ s \in InputSinks(g) => h.outputs = g.outputs
             /\ s \in OutputSinks =>
                  SourcesIn(h.outputs) \subseteq SourcesIn(g.outputs) \cup {e.from}
<1> DEFINE h == Put(g, s, e)
<1>0. /\ DOMAIN g = Fields /\ DOMAIN g.inputs = Live(g) /\ DOMAIN g.params = Live(g)
      /\ DOMAIN g.outputs = 1..GraphOutputs
  BY DEF Sound, Shaped
<1>1. CASE s \in InputSinks(g)
  <2>1. PICK m \in User \cap Live(g) : \E c \in 1..UserInputs : s = Input(m, c)
    BY <1>1, InputSinkIs
  <2>2. PICK c \in 1..UserInputs : s = Input(m, c)
    BY <2>1
  <2>3. IsPut(g, h, m, c, e)
    BY <1>0, <2>2, PutInput
  <2>. HIDE DEF h
  <2>4. s \in Sink /\ LiveSink(g, s)
    BY <2>2, LiveSinks DEF Sink
  <2>5. Live(h) = Live(g) /\ h.outputs = g.outputs
    BY <2>3 DEF IsPut, Live
  <2>6. m \notin Own
    BY KeysAssumption
  <2>7. SameOwn(g, h)
    BY <2>3, <2>6 DEF IsPut, SameOwn, OwnRows, Mathy
  <2>8. ASSUME NEW t \in Sink, LiveSink(g, t)
        PROVE  EdgeAt(h, t) = IF t = s THEN e ELSE EdgeAt(g, t)
    <3>1. CASE \E j \in User, d \in 1..UserInputs : t = Input(j, d)
      <4>1. PICK j \in User, d \in 1..UserInputs : t = Input(j, d)
        BY <3>1
      <4>2. j \in Live(g) /\ j \in DOMAIN g.inputs /\ d \in DOMAIN g.inputs[j]
        <5>1. j \in Live(g) /\ Width(g, j) = UserInputs
          BY <2>8, <4>1, LiveSinks DEF Width
        <5>. QED  BY <1>0, <5>1 DEF Sound, Shaped
      <4>3. t = s <=> j = m /\ d = c
        BY <2>2, <4>1 DEF Input
      <4>4. h.inputs[j][d] = IF j = m /\ d = c THEN e ELSE g.inputs[j][d]
        BY <2>3, <4>2 DEF IsPut
      <4>. QED  BY <4>1, <4>3, <4>4, EdgeAtSinks
    <3>2. CASE \E d \in 1..GraphOutputs : t = Output(d)
      <4>1. PICK d \in 1..GraphOutputs : t = Output(d)
        BY <3>2
      <4>2. t # s
        BY <2>2, <4>1 DEF Input, Output
      <4>. QED  BY <2>5, <4>1, <4>2, EdgeAtSinks
    <3>3. CASE \E j \in User, p \in Parameters : t = Param(j, p)
      <4>1. PICK j \in User, p \in Parameters : t = Param(j, p)
        BY <3>3
      <4>2. t # s
        BY <2>2, <4>1 DEF Input, Param
      <4>3. h.params = g.params
        BY <2>3 DEF IsPut
      <4>. QED  BY <4>1, <4>2, <4>3, EdgeAtSinks
    <3>. QED  BY <3>1, <3>2, <3>3, SinkIs
  <2>9. s \notin OutputSinks
    BY <2>2 DEF OutputSinks, Input, Output
  <2>. QED  BY <2>4, <2>5, <2>7, <2>8, <2>9 DEF h
<1>2. CASE s \in OutputSinks
  <2>1. PICK c \in 1..GraphOutputs : s = Output(c)
    BY <1>2 DEF OutputSinks
  <2>2. /\ h.nodes = g.nodes /\ h.pending = g.pending /\ h.math = g.math
        /\ h.strong_dependent = g.strong_dependent /\ h.inputs = g.inputs
        /\ h.params = g.params /\ h.outputs = [g.outputs EXCEPT ![c] = e]
    BY <1>0, <2>1, SinkParts DEF Put, Fields
  <2>. HIDE DEF h
  <2>4. s \in Sink /\ LiveSink(g, s)
    BY <1>2, <2>1, LiveSinks DEF Sink
  <2>5. Live(h) = Live(g) /\ SameOwn(g, h)
    BY <2>2 DEF Live, SameOwn, OwnRows, Mathy
  <2>6. s \notin InputSinks(g)
    BY <2>1 DEF InputSinks, Input, Output
  <2>7. SourcesIn(h.outputs) \subseteq SourcesIn(g.outputs) \cup {e.from}
    BY <2>2 DEF SourcesIn
  <2>8. ASSUME NEW t \in Sink, LiveSink(g, t)
        PROVE  EdgeAt(h, t) = IF t = s THEN e ELSE EdgeAt(g, t)
    <3>1. CASE \E j \in User, d \in 1..UserInputs : t = Input(j, d)
      <4>1. PICK j \in User, d \in 1..UserInputs : t = Input(j, d)
        BY <3>1
      <4>2. t # s
        BY <2>1, <4>1 DEF Input, Output
      <4>. QED  BY <2>2, <4>1, <4>2, EdgeAtSinks
    <3>2. CASE \E d \in 1..GraphOutputs : t = Output(d)
      <4>1. PICK d \in 1..GraphOutputs : t = Output(d)
        BY <3>2
      <4>2. t = s <=> d = c
        BY <2>1, <4>1 DEF Output
      <4>3. h.outputs[d] = IF d = c THEN e ELSE g.outputs[d]
        BY <1>0, <2>2
      <4>. QED  BY <4>1, <4>2, <4>3, EdgeAtSinks
    <3>3. CASE \E j \in User, p \in Parameters : t = Param(j, p)
      <4>1. PICK j \in User, p \in Parameters : t = Param(j, p)
        BY <3>3
      <4>2. t # s
        BY <2>1, <4>1 DEF Output, Param
      <4>. QED  BY <2>2, <4>1, <4>2, EdgeAtSinks
    <3>. QED  BY <3>1, <3>2, <3>3, SinkIs
  <2>. QED  BY <2>4, <2>5, <2>6, <2>7, <2>8 DEF h
<1>. QED  BY <1>1, <1>2

(* The sink counts the edge, and the others what they did. *)
LEMMA PutHears ==
  ASSUME NEW g, Fine(g), NEW s \in InputSinks(g) \cup OutputSinks, NEW e \in Edges,
         Sound(Put(g, s, e)), Sane(Put(g, s, e)), NEW t \in Sink, NEW o \in Outlet
  PROVE  ConnectedIn(Put(g, s, e))[t][o] = IF t = s THEN CountIn(g, o)[e]
                                           ELSE ConnectedIn(g)[t][o]
<1> DEFINE h == Put(g, s, e)
           f == CountIn(g, o)
<1>1. /\ s \in Sink /\ LiveSink(g, s) /\ Live(h) = Live(g) /\ SameOwn(g, h)
      /\ LiveSink(g, t) => EdgeAt(h, t) = IF t = s THEN e ELSE EdgeAt(g, t)
  BY PutIs DEF Fine
<1>2. Counts(g, o, f)
  BY HeardExists DEF Fine
<1>3. Sound(h) /\ Sane(h)
  OBVIOUS
<1>. HIDE DEF h, f
<1>4. Counts(h, o, f)
  BY <1>1, <1>2, <1>3, SameCounts DEF Fine
<1>5. ConnectedIn(g)[t][o] = IF LiveSink(g, t) THEN f[EdgeAt(g, t)] ELSE 0
  BY <1>2, HeardIs DEF Fine
<1>6. ConnectedIn(h)[t][o] = IF LiveSink(h, t) THEN f[EdgeAt(h, t)] ELSE 0
  BY <1>3, <1>4, HeardIs
<1>7. LiveSink(h, t) <=> LiveSink(g, t)
  BY <1>1 DEF LiveSink
<1>8. ConnectedIn(h)[t][o] = IF t = s THEN f[e] ELSE ConnectedIn(g)[t][o]
  BY <1>1, <1>5, <1>6, <1>7
<1>. QED  BY <1>8 DEF h, f

LEMMA PutTidy ==
  ASSUME NEW g, Fine(g), NEW s \in InputSinks(g) \cup OutputSinks, NEW e \in Edges,
         Sound(Put(g, s, e)), NEW B \in SUBSET Mathy(g), Based(g, B),
         s \in OutputSinks => {e.from} \cap Own \subseteq B
  PROVE  Tidy(Put(g, s, e))
<1> DEFINE h == Put(g, s, e)
<1>1. /\ SameOwn(g, h)
      /\ s \in InputSinks(g) => h.outputs = g.outputs
      /\ s \in OutputSinks => SourcesIn(h.outputs) \subseteq SourcesIn(g.outputs) \cup {e.from}
  BY PutIs DEF Fine
<1>. HIDE DEF h
<1>2. Mathy(g) \subseteq OwnRows(g)
  BY MathRows DEF Fine
<1>3. Mathy(h) = Mathy(g) /\ OwnRows(h) = OwnRows(g) /\ \A k \in B : h.inputs[k] = g.inputs[k]
  BY <1>1, <1>2 DEF SameOwn
<1>4. SourcesIn(h.outputs) \cap Own \subseteq B
  BY <1>1 DEF Based
<1>5. \A k \in B : SourcesIn(h.inputs[k]) \cap Own \subseteq B
  BY <1>3 DEF Based
<1>6. \A k \in Mathy(h) : h.strong_dependent[k] = k
  BY <1>1, <1>2, <1>3 DEF SameOwn, Fine, Tidy
<1>7. \A k \in OwnRows(h) \ Mathy(h) : h.inputs[k][1].from \notin Own
  BY <1>1, <1>3 DEF SameOwn, Fine, Tidy
<1>. QED  BY <1>3, <1>4, <1>5, <1>6, <1>7 DEF Tidy, h

-----------------------------------------------------------------------------
(* A new math node counts what its two edges count.                        *)
IsHeardSum(g, w, n, a, b) ==
  /\ Fine(w)
  /\ n \in Mathy(w) /\ w.inputs[n] = <<a, b>>
  /\ Live(w) = Live(g) \cup {n}
  /\ ConnectedIn(w) = ConnectedIn(g)
  /\ \A o : CountIn(w, o)[Edge(n, 1, FALSE)] = CountIn(g, o)[a] + CountIn(g, o)[b]
  /\ \A B \in SUBSET Mathy(g) : Based(g, B) => B \in SUBSET Mathy(w) /\ Based(w, B)

LEMMA MathHears ==
  ASSUME NEW g, Fine(g), NEW n \in Unused(g), NEW a \in Edges, NEW b \in Edges,
         {a.from, b.from} \cap Key \subseteq Live(g)
  PROVE  IsHeardSum(g, WithMathNode(g, n, a, b), n, a, b)
<1> DEFINE w == WithMathNode(g, n, a, b)
<1>1. /\ Sound(w) /\ Sane(w) /\ Live(w) = Live(g) \cup {n} /\ w.outputs = g.outputs /\ n \in Own
  BY MathAdded DEF Fine
<1>2. IsPushed(g, w, n, <<a, b>>) /\ w.math = g.math \cup {n}
  BY <1>1, WithMathNodeIs DEF Fine, Sound, Shaped
<1>3. n \notin g.nodes /\ n \notin Live(g) /\ DOMAIN g.inputs = Live(g) /\ DOMAIN w.inputs = Live(w)
  BY <1>1 DEF Unused, Live, Fine, Sound, Shaped
<1>. HIDE DEF w
<1>4. /\ w.inputs[n] = <<a, b>> /\ n \in Mathy(w)
      /\ \A j \in Live(g) : w.inputs[j] = g.inputs[j]
      /\ w.strong_dependent = g.strong_dependent
  BY <1>1, <1>2, <1>3 DEF IsPushed, Mathy
<1>5. Extends(g, w, {n})
  BY <1>1, <1>2, <1>3, <1>4 DEF Extends
<1>6. w.strong_dependent[n] = n
  BY <1>1, <1>3, <1>4 DEF Fine, Sound, Paired
<1>7. /\ Tidy(w)
      /\ \A B \in SUBSET Mathy(g) : Based(g, B) => B \in SUBSET Mathy(w) /\ Based(w, B)
  <2>1. /\ \A k \in {n} \cap Mathy(w) : w.strong_dependent[k] = k
        /\ \A k \in {n} \ Mathy(w) : w.inputs[k][1].from \notin Own
    BY <1>4, <1>6
  <2>. QED  BY <1>1, <1>5, <2>1, ExtendedTidy
<1>8. ConnectedIn(w) = ConnectedIn(g)
  BY <1>1, <1>5, ExtendedHears
<1>9. ASSUME NEW o
      PROVE  CountIn(w, o)[Edge(n, 1, FALSE)] = CountIn(g, o)[a] + CountIn(g, o)[b]
  <2>1. Edge(n, 1, FALSE) \in Edges /\ Edge(n, 1, FALSE).from = n
    BY <1>1, EdgeTyped DEF Key
  <2>2. \A e \in Edges : e.from \notin {n} => CountIn(w, o)[e] = CountIn(g, o)[e]
    BY <1>1, <1>5, ExtendedCounts
  <2>3. n \in Key
    BY <1>1 DEF Key
  <2>4. a.from # n /\ b.from # n
    BY <1>3, <2>3
  <2>5. Counts(w, o, CountIn(w, o))
    BY <1>1, HeardExists
  <2>6. CountIn(w, o)[Edge(n, 1, FALSE)] = CountIn(w, o)[a] + CountIn(w, o)[b]
    <3>1. w.inputs[n][1] = a /\ w.inputs[n][2] = b
      BY <1>4
    <3>. QED  BY <1>4, <2>1, <2>5, <3>1 DEF Counts
  <2>. QED  BY <2>2, <2>4, <2>6
<1>. QED  BY <1>1, <1>4, <1>7, <1>8, <1>9 DEF Fine, IsHeardSum, w

(* What an edge that is already at a sink names. *)
LEMMA SinkSource ==
  ASSUME NEW g, Sound(g), Sane(g), NEW s \in InputSinks(g) \cup OutputSinks
  PROVE  /\ s \in Sink /\ LiveSink(g, s) /\ EdgeAt(g, s) \in Edges
         /\ {EdgeAt(g, s).from} \cap Key \subseteq Live(g)
         /\ s \in OutputSinks => {EdgeAt(g, s).from} \cap Key \subseteq SourcesIn(g.outputs)
<1>1. s \in Sink /\ LiveSink(g, s)
  BY NoEdgeFacts, PutIs
<1>2. EdgeAt(g, s) \in Edges
  BY <1>1, SinkEdge
<1>3. CASE s \in InputSinks(g)
  <2>1. PICK m \in User \cap Live(g) : \E c \in 1..UserInputs : s = Input(m, c)
    BY <1>3, InputSinkIs
  <2>2. PICK c \in 1..UserInputs : s = Input(m, c)
    BY <2>1
  <2>3. EdgeAt(g, s) = g.inputs[m][c]
    BY <2>2, EdgeAtSinks
  <2>4. m \in DOMAIN g.inputs /\ c \in DOMAIN g.inputs[m]
    <3>1. Width(g, m) = UserInputs
      BY DEF Width
    <3>. QED  BY <3>1 DEF Sound, Shaped
  <2>5. SourcesIn(g.inputs[m]) \subseteq Live(g)
    BY <2>4 DEF Sane, Linked
  <2>6. s \notin OutputSinks
    BY <2>2 DEF OutputSinks, Input, Output
  <2>. QED  BY <1>1, <1>2, <2>3, <2>4, <2>5, <2>6, SourceOfRow
<1>4. CASE s \in OutputSinks
  <2>1. PICK c \in 1..GraphOutputs : s = Output(c)
    BY <1>4 DEF OutputSinks
  <2>2. EdgeAt(g, s) = g.outputs[c]
    BY <2>1, EdgeAtSinks
  <2>3. DOMAIN g.outputs = 1..GraphOutputs /\ SourcesIn(g.outputs) \subseteq Live(g)
    BY DEF Sound, Shaped, Sane, Linked
  <2>4. \A k \in Key : g.outputs[c].from = k => k \in SourcesIn(g.outputs)
    BY <2>3, SourceOfRow
  <2>5. {EdgeAt(g, s).from} \cap Key \subseteq SourcesIn(g.outputs)
    BY <2>2, <2>4
  <2>. QED  BY <1>1, <1>2, <2>3, <2>5
<1>. QED  BY <1>3, <1>4

(* A sink that reads a new node hears what it did and the new edge.        *)
LEMMA SummedHears ==
  ASSUME NEW g, Fine(g), NEW s \in InputSinks(g) \cup OutputSinks, NEW n \in Unused(g),
         NEW d \in Edges, {d.from} \cap Key \subseteq Live(g),
         s \in OutputSinks => d.from \notin Own,
         Sound(Summed(g, s, d, n)), Sane(Summed(g, s, d, n))
  PROVE  /\ Tidy(Summed(g, s, d, n))
         /\ \A t \in Sink, o \in Outlet :
              ConnectedIn(Summed(g, s, d, n))[t][o] =
                 IF t = s THEN ConnectedIn(g)[s][o] + CountIn(g, o)[d] ELSE ConnectedIn(g)[t][o]
<1> DEFINE a == EdgeAt(g, s)
           w == WithMathNode(g, n, a, d)
           e == Edge(n, 1, FALSE)
           h == Put(w, s, e)
<1>1. /\ s \in Sink /\ LiveSink(g, s) /\ a \in Edges /\ {a.from} \cap Key \subseteq Live(g)
      /\ s \in OutputSinks => {a.from} \cap Key \subseteq SourcesIn(g.outputs)
  BY SinkSource DEF Fine
<1>2. h = Summed(g, s, d, n)
  BY DEF Summed
<1>. HIDE DEF a
<1>3. /\ Fine(w) /\ n \in Mathy(w) /\ w.inputs[n] = <<a, d>>
      /\ Live(w) = Live(g) \cup {n} /\ ConnectedIn(w) = ConnectedIn(g)
      /\ \A o : CountIn(w, o)[Edge(n, 1, FALSE)] = CountIn(g, o)[a] + CountIn(g, o)[d]
      /\ \A B \in SUBSET Mathy(g) : Based(g, B) => B \in SUBSET Mathy(w) /\ Based(w, B)
  <2>1. {a.from, d.from} \cap Key \subseteq Live(g)
    BY <1>1
  <2>2. IsHeardSum(g, w, n, a, d)
    BY <1>1, <2>1, MathHears
  <2>. QED  BY <2>2 DEF IsHeardSum
<1>4. s \in InputSinks(w) \cup OutputSinks
  BY <1>3 DEF InputSinks
<1>5. e \in Edges /\ e.from = n
  BY EdgeTyped DEF Key, Unused
<1>6. Sound(h) /\ Sane(h)
  BY <1>2
<1>. HIDE DEF w
<1>7. PICK B \in SUBSET Mathy(g) : Based(g, B)
  BY DEF Fine, Tidy, Based
<1>8. B \in SUBSET Mathy(w) /\ Based(w, B)
  BY <1>3, <1>7
<1>9. Tidy(h)
  <2>1. CASE s \notin OutputSinks
    <3>1. s \in OutputSinks => {e.from} \cap Own \subseteq B
      BY <2>1
    <3>. HIDE DEF e
    <3>. QED  BY <1>3, <1>4, <1>5, <1>6, <1>8, <3>1, PutTidy
  <2>2. CASE s \in OutputSinks
    <3> DEFINE C0 == B \cup {n}
    <3>1. {a.from, d.from} \cap Own \subseteq B
      BY <1>1, <1>7, <2>2 DEF Based, Key
    <3>2. SourcesIn(w.inputs[n]) \cap Own \subseteq B
      BY <1>3, <3>1, TwoEdges, <1>1
    <3>3. Based(w, C0) /\ C0 \in SUBSET Mathy(w)
      BY <1>3, <1>8, <3>2 DEF Based
    <3>4. s \in OutputSinks => {e.from} \cap Own \subseteq C0
      BY <1>5
    <3>. HIDE DEF C0, e
    <3>. QED  BY <1>3, <1>4, <1>5, <1>6, <3>3, <3>4, PutTidy
  <2>. QED  BY <2>1, <2>2
<1>10. ASSUME NEW t \in Sink, NEW o \in Outlet
       PROVE  ConnectedIn(h)[t][o] = IF t = s THEN ConnectedIn(g)[s][o] + CountIn(g, o)[d]
                                     ELSE ConnectedIn(g)[t][o]
  <2>1. ConnectedIn(h)[t][o] = IF t = s THEN CountIn(w, o)[e] ELSE ConnectedIn(w)[t][o]
    <3>. HIDE DEF e
    <3>. QED  BY <1>3, <1>4, <1>5, <1>6, PutHears
  <2>2. Counts(g, o, CountIn(g, o))
    BY HeardExists DEF Fine
  <2>3. ConnectedIn(g)[s][o] = CountIn(g, o)[a]
    BY <1>1, <2>2, HeardIs DEF Fine, a
  <2>. QED  BY <1>3, <2>1, <2>3
<1>. QED  BY <1>2, <1>9, <1>10

(* Connecting, by an edge that comes from no math node. *)
LEMMA ConnectedHears ==
  ASSUME NEW g, Fine(g), NEW s \in InputSinks(g) \cup OutputSinks, NEW e \in Edges,
         {e.from} \cap Key \subseteq Live(g), e.from \notin Mathy(g),
         s \in OutputSinks => e.from \notin Own, NEW additive \in BOOLEAN,
         NEW h \in Connected(g, s, e, additive), Sound(h), Sane(h)
  PROVE  /\ Tidy(h)
         /\ \A t \in Sink, o \in Outlet :
              ConnectedIn(h)[t][o] =
                 IF t = s
                 THEN (IF additive THEN ConnectedIn(g)[s][o] ELSE 0) + Direct(g, o, e)
                 ELSE ConnectedIn(g)[t][o]
<1> DEFINE d == Edge(e.from, e.channel, FALSE)
<1>1. d \in Edges /\ d.from = e.from /\ d.channel = e.channel
  BY DirectEdge DEF Edge
<1>2. ASSUME NEW o \in Outlet
      PROVE  /\ CountIn(g, o)[e] = Direct(g, o, e) /\ CountIn(g, o)[d] = Direct(g, o, e)
             /\ Direct(g, o, e) \in Nat
             /\ EdgeAt(g, s) = NoEdge => ConnectedIn(g)[s][o] = 0
  <2>1. Counts(g, o, CountIn(g, o))
    BY HeardExists DEF Fine
  <2>2. CountIn(g, o)[e] = Direct(g, o, e) /\ CountIn(g, o)[d] = Direct(g, o, d)
    BY <1>1, <2>1 DEF Counts
  <2>3. Direct(g, o, d) = Direct(g, o, e)
    BY <1>1, DirectIs DEF OutletOf
  <2>4. CountIn(g, o)[NoEdge] = 0
    BY <2>1, NothingCounts DEF Fine
  <2>5. ConnectedIn(g)[s][o] = CountIn(g, o)[EdgeAt(g, s)]
    BY <2>1, SinkSource, HeardIs DEF Fine
  <2>. QED  BY <2>2, <2>3, <2>4, <2>5, DirectTyped
<1>. HIDE DEF d
<1>3. PICK B \in SUBSET Mathy(g) : Based(g, B)
  BY DEF Fine, Tidy, Based
<1>4. CASE h = Put(g, s, e) /\ (additive => EdgeAt(g, s) = NoEdge)
  <2>1. Tidy(h)
    BY <1>3, <1>4, PutTidy
  <2>2. ASSUME NEW t \in Sink, NEW o \in Outlet
        PROVE  ConnectedIn(h)[t][o] =
                 IF t = s
                 THEN (IF additive THEN ConnectedIn(g)[s][o] ELSE 0) + Direct(g, o, e)
                 ELSE ConnectedIn(g)[t][o]
    <3>1. ConnectedIn(h)[t][o] = IF t = s THEN CountIn(g, o)[e] ELSE ConnectedIn(g)[t][o]
      BY <1>4, PutHears
    <3>2. 0 + Direct(g, o, e) = Direct(g, o, e)
      BY <1>2
    <3>. QED  BY <1>2, <1>4, <3>1, <3>2
  <2>. QED  BY <2>1, <2>2
<1>5. CASE additive /\ \E n \in Unused(g) : h = Summed(g, s, d, n)
  <2>1. PICK n \in Unused(g) : h = Summed(g, s, d, n)
    BY <1>5
  <2>2. /\ Tidy(h)
        /\ \A t \in Sink, o \in Outlet :
              ConnectedIn(h)[t][o] =
                 IF t = s THEN ConnectedIn(g)[s][o] + CountIn(g, o)[d] ELSE ConnectedIn(g)[t][o]
    BY <1>1, <2>1, SummedHears
  <2>. QED  BY <1>2, <1>5, <2>2
<1>6. \/ h = Put(g, s, e) /\ (additive => EdgeAt(g, s) = NoEdge)
      \/ additive /\ \E n \in Unused(g) : h = Summed(g, s, d, n)
  <2>1. CASE ~additive
    BY <2>1 DEF Connected, Replaced
  <2>2. CASE additive /\ EdgeAt(g, s) = NoEdge
    BY <2>2 DEF Connected, Added
  <2>3. CASE additive /\ EdgeAt(g, s) # NoEdge
    BY <2>3 DEF Connected, Added, Summed, d
  <2>. QED  BY <2>1, <2>2, <2>3
<1>. QED  BY <1>4, <1>5, <1>6

-----------------------------------------------------------------------------
(* Changes of other fields are not heard.                                  *)
LEMMA AlikeHears ==
  ASSUME NEW g, NEW h, Fine(g), Sound(h), Sane(h),
         Live(h) = Live(g), h.inputs = g.inputs, h.outputs = g.outputs, h.params = g.params,
         Mathy(h) = Mathy(g), \A k \in OwnRows(g) : h.strong_dependent[k] = g.strong_dependent[k]
  PROVE  Fine(h) /\ ConnectedIn(h) = ConnectedIn(g)
<1>1. SameOwn(g, h)
  BY DEF SameOwn, OwnRows
<1>2. ASSUME NEW t \in Sink
      PROVE  /\ LiveSink(g, t) <=> LiveSink(h, t)
             /\ LiveSink(g, t) => EdgeAt(h, t) = EdgeAt(g, t)
  <2>1. LiveSink(g, t) <=> LiveSink(h, t)
    BY DEF LiveSink
  <2>2. EdgeAt(h, t) = EdgeAt(g, t)
    BY SinkIs, EdgeAtSinks
  <2>. QED  BY <2>1, <2>2
<1>3. /\ \A t \in Sink : LiveSink(g, t) => LiveSink(h, t) /\ EdgeAt(h, t) = EdgeAt(g, t)
      /\ \A t \in Sink : ~LiveSink(g, t) /\ LiveSink(h, t) => EdgeAt(h, t) = NoEdge
  BY <1>2
<1>. QED  BY <1>1, <1>3, SameHeard DEF Fine

LEMMA RequiredHears ==
  ASSUME NEW g, Fine(g)
  PROVE  Fine(Required(g)) /\ ConnectedIn(Required(g)) = ConnectedIn(g)
<1> DEFINE h == Required(g)
<1>1. Sound(h) /\ Sane(h)
  BY RequiredKeeps DEF Fine
<1>2. /\ h.nodes = g.nodes /\ h.math = g.math /\ h.strong_dependent = g.strong_dependent
      /\ h.inputs = g.inputs /\ h.params = g.params /\ h.outputs = g.outputs
      /\ h.pending = g.pending
  BY DEF Required, Fields, Fine, Sound, Shaped
<1>. HIDE DEF h
<1>3. Live(h) = Live(g) /\ Mathy(h) = Mathy(g)
  BY <1>2 DEF Live, Mathy
<1>. QED  BY <1>1, <1>2, <1>3, AlikeHears DEF h

LEMMA RemovedHears ==
  ASSUME NEW g, Fine(g), NEW K \in SUBSET g.pending, \A k \in K : Dependent(g, k) \in K,
         NEW h, Sound(h), Sane(h), h.nodes = g.nodes \ K, h.math = g.math \ K, h.pending = g.pending \ K,
         h.strong_dependent = [k \in Own |-> IF k \in K THEN k ELSE g.strong_dependent[k]],
         h.inputs = g.inputs, h.params = g.params, h.outputs = g.outputs
  PROVE  Fine(h) /\ ConnectedIn(h) = ConnectedIn(g)
<1>1. Live(h) = Live(g)
  BY DEF Live
<1>2. DOMAIN g.inputs = Live(g)
  BY DEF Fine, Sound, Shaped
<1>3. Mathy(h) = Mathy(g) /\ \A k \in OwnRows(g) : h.strong_dependent[k] = g.strong_dependent[k]
  BY <1>2 DEF Mathy, OwnRows, Live
<1>. QED  BY <1>1, <1>3, AlikeHears

(* A node that is pushed has no connections. *)
LEMMA PushedHears ==
  ASSUME NEW g, Fine(g), NEW k \in User \ g.nodes
  PROVE  LET h == Pushed(g, k, [i \in 1..UserInputs |-> NoEdge])
         IN  Sound(h) /\ Sane(h) => Fine(h) /\ ConnectedIn(h) = ConnectedIn(g)
<1> DEFINE row == [i \in 1..UserInputs |-> NoEdge]
           h == Pushed(g, k, row)
<1>. SUFFICES ASSUME Sound(h), Sane(h) PROVE Fine(h) /\ ConnectedIn(h) = ConnectedIn(g)
  OBVIOUS
<1>1. IsPushed(g, h, k, row) /\ h.math = g.math
  BY PushedIs DEF Fine, Sound, Shaped
<1>. HIDE DEF h
<1>2. k \notin Own /\ k \notin Live(g) /\ DOMAIN g.inputs = Live(g) /\ DOMAIN g.params = Live(g)
  BY KeysAssumption DEF Live, Fine, Sound, Shaped
<1>3. Live(h) = Live(g) \cup {k}
  BY <1>1, <1>2 DEF IsPushed, Live, Fine, Sound, Shaped
<1>4. /\ \A j \in Live(g) : h.inputs[j] = g.inputs[j] /\ h.params[j] = g.params[j]
      /\ h.inputs[k] = row /\ h.params[k] = [p \in Parameters |-> NoEdge]
      /\ DOMAIN h.inputs = Live(g) \cup {k} /\ h.outputs = g.outputs
      /\ h.strong_dependent = g.strong_dependent
  BY <1>1, <1>2 DEF IsPushed
<1>5. SameOwn(g, h)
  <2>1. g.math \subseteq Own
    BY DEF Fine, Sound, Shaped
  <2>2. OwnRows(h) = OwnRows(g) /\ Mathy(h) = Mathy(g)
    BY <1>1, <1>2, <1>4, <2>1 DEF OwnRows, Mathy
  <2>3. \A j \in OwnRows(g) : h.inputs[j] = g.inputs[j]
    BY <1>2, <1>4 DEF OwnRows
  <2>. QED  BY <1>4, <2>2, <2>3 DEF SameOwn
<1>6. ASSUME NEW t \in Sink
      PROVE  /\ LiveSink(g, t) => LiveSink(h, t) /\ EdgeAt(h, t) = EdgeAt(g, t)
             /\ ~LiveSink(g, t) /\ LiveSink(h, t) => EdgeAt(h, t) = NoEdge
  <2>1. CASE \E j \in User, c \in 1..UserInputs : t = Input(j, c)
    <3>1. PICK j \in User, c \in 1..UserInputs : t = Input(j, c)
      BY <2>1
    <3>2. /\ EdgeAt(h, t) = h.inputs[j][c] /\ EdgeAt(g, t) = g.inputs[j][c]
          /\ LiveSink(g, t) <=> j \in Live(g)
          /\ LiveSink(h, t) <=> j \in Live(h)
      BY <3>1, EdgeAtSinks, LiveSinks
    <3>3. row[c] = NoEdge
      BY DEF row
    <3>. QED  BY <1>3, <1>4, <3>2, <3>3
  <2>2. CASE \E c \in 1..GraphOutputs : t = Output(c)
    <3>1. PICK c \in 1..GraphOutputs : t = Output(c)
      BY <2>2
    <3>2. /\ EdgeAt(h, t) = h.outputs[c] /\ EdgeAt(g, t) = g.outputs[c]
          /\ LiveSink(g, t) /\ LiveSink(h, t)
      BY <3>1, EdgeAtSinks, LiveSinks
    <3>. QED  BY <1>4, <3>2
  <2>3. CASE \E j \in User, p \in Parameters : t = Param(j, p)
    <3>1. PICK j \in User, p \in Parameters : t = Param(j, p)
      BY <2>3
    <3>2. /\ EdgeAt(h, t) = h.params[j][p] /\ EdgeAt(g, t) = g.params[j][p]
          /\ LiveSink(g, t) <=> j \in Live(g)
          /\ LiveSink(h, t) <=> j \in Live(h)
      BY <3>1, EdgeAtSinks, LiveSinks
    <3>. QED  BY <1>3, <1>4, <3>2
  <2>. QED  BY <2>1, <2>2, <2>3, SinkIs
<1>7. SourcesIn(h.outputs) \cap Own \subseteq SourcesIn(g.outputs) \cap Own
  BY <1>4
<1>8. ConnectedIn(h) = ConnectedIn(g) /\ Tidy(h)
  BY <1>5, <1>6, <1>7, SameHeard
<1>. QED  BY <1>8 DEF Fine

(* A feedback pair that nothing reads yet. *)
Delays(h, source, k, c) ==
  \A o \in Outlet, b \in BOOLEAN :
     Direct(h, o, Edge(source, c, b)) = IF OutletOf(UserEdge(k, c), TRUE) = o THEN 1 ELSE 0

LEMMA FeedbackHears ==
  ASSUME NEW g, Fine(g), NEW source \in Unused(g), NEW sink \in Unused(g), source # sink,
         NEW k \in User \cap Live(g), NEW c \in Nat, NEW h, IsFedBack(g, h, source, sink, k, c)
  PROVE  /\ Fine(h) /\ ConnectedIn(h) = ConnectedIn(g)
         /\ source \notin Mathy(h)
         /\ Delays(h, source, k, c)
<1> DEFINE N == {sink, source}
<1>1. /\ Sound(h) /\ Sane(h) /\ Live(h) = Live(g) \cup N
      /\ h.inputs[source] = <<NoEdge>> /\ h.inputs[sink] = <<Edge(k, c, TRUE)>>
      /\ \A j \in Live(g) : h.inputs[j] = g.inputs[j]
      /\ h.math = g.math /\ h.outputs = g.outputs
      /\ h.strong_dependent = [g.strong_dependent EXCEPT ![source] = sink, ![sink] = source]
  BY DEF IsFedBack, Fine
<1>2. /\ N \subseteq Own /\ N \cap g.nodes = {} /\ N \cap Live(g) = {} /\ g.math \subseteq g.nodes
      /\ DOMAIN g.inputs = Live(g) /\ DOMAIN h.inputs = Live(h)
      /\ g.strong_dependent \in [Own -> Own]
  BY <1>1 DEF Unused, Live, Fine, Sound, Shaped, Paired
<1>3. N \cap Mathy(h) = {} /\ N \subseteq OwnRows(h) /\ source \in Own /\ sink \in Own
  BY <1>1, <1>2 DEF Mathy, OwnRows
<1>4. \A j \in OwnRows(g) : h.strong_dependent[j] = g.strong_dependent[j]
  BY <1>1, <1>2 DEF OwnRows
<1>. HIDE DEF N
<1>5. Extends(g, h, N)
  BY <1>1, <1>2, <1>4 DEF Extends
<1>6. k \notin Own /\ NoEdge.from \notin Own /\ Edge(k, c, TRUE).from = k
  BY KeysAssumption, NoEdgeFacts DEF Key, Edge
<1>7. h.inputs[source][1] = NoEdge /\ h.inputs[sink][1] = Edge(k, c, TRUE)
  BY <1>1
<1>8. \A j \in N \ Mathy(h) : h.inputs[j][1].from \notin Own
  BY <1>6, <1>7 DEF N
<1>9. \A j \in N \cap Mathy(h) : h.strong_dependent[j] = j
  BY <1>3
<1>10. Tidy(h)
  BY <1>1, <1>5, <1>8, <1>9, ExtendedTidy
<1>11. ConnectedIn(h) = ConnectedIn(g)
  BY <1>1, <1>5, ExtendedHears
<1>12. source \in OwnRows(h) /\ source \notin Mathy(h)
  BY <1>3 DEF N
<1>13. h.strong_dependent[source] = sink
  BY <1>1, <1>2, <1>3
<1>14. DelayedEdge(h, source) = Edge(k, c, TRUE)
  <2>1. Sound(h)
    BY <1>1
  <2>2. DelayedEdge(h, source) = h.inputs[h.strong_dependent[source]][1]
    BY <1>12, <2>1, PairFacts
  <2>. QED  BY <1>7, <1>13, <2>2
<1>15. ASSUME NEW o \in Outlet, NEW b \in BOOLEAN
       PROVE  Direct(h, o, Edge(source, c, b)) = IF OutletOf(UserEdge(k, c), TRUE) = o THEN 1 ELSE 0
  <2>1. Edge(source, c, b).from = source
    BY DEF Edge
  <2>2. OutletOf(Edge(k, c, TRUE), TRUE) = OutletOf(UserEdge(k, c), TRUE)
    BY DEF OutletOf, UserEdge, Edge
  <2>. QED  BY <1>12, <1>14, <2>1, <2>2, DirectIs
<1>. QED  BY <1>1, <1>10, <1>11, <1>12, <1>15 DEF Fine, Delays

-----------------------------------------------------------------------------
(***************************************************************************)
(* The steps, heard.                                                       *)
(***************************************************************************)
HeardInv ==
  /\ EdgesInv
  /\ "parameter" \notin calls
  /\ connected = ConnectedIn(graph)
  /\ Tidy(graph)

LEMMA HeardFine == HeardInv => Fine(graph)
  BY DEF HeardInv, EdgesInv, Fine

LEMMA HeardTyped ==
  ASSUME NEW g, Fine(g)
  PROVE  ConnectedIn(g) \in [Sink -> [Outlet -> Nat]]
<1>1. ASSUME NEW t \in Sink, NEW o \in Outlet PROVE ConnectedIn(g)[t][o] \in Nat
  <2>1. Counts(g, o, CountIn(g, o))
    BY HeardExists DEF Fine
  <2>2. ConnectedIn(g)[t][o] = IF LiveSink(g, t) THEN CountIn(g, o)[EdgeAt(g, t)] ELSE 0
    BY <2>1, HeardIs DEF Fine
  <2>3. LiveSink(g, t) => EdgeAt(g, t) \in Edges
    BY SinkEdge DEF Fine
  <2>. QED  BY <2>1, <2>2, <2>3 DEF Counts
<1>2. ConnectedIn(g) = [t \in Sink |-> [o \in Outlet |-> ConnectedIn(g)[t][o]]]
  BY DEF ConnectedIn
<1>. HIDE DEF ConnectedIn
<1>. QED  BY <1>1, <1>2

(* What the connections become. *)
Heard(h) == ConnectedIn(h) = [t \in Sink |-> [o \in Outlet |-> ConnectedIn(h)[t][o]]]
LEMMA HeardFun == ASSUME NEW h PROVE Heard(h)
  BY DEF ConnectedIn, Heard

LEMMA RemoveIs ==
  ASSUME connected = ConnectedIn(graph), NEW h, connected' = ConnectedIn(h), NEW S, NEW O,
         \A t \in Sink, o \in Outlet :
            ConnectedIn(h)[t][o] = IF t \in S \/ o \in O THEN 0 ELSE ConnectedIn(graph)[t][o]
  PROVE  C!Remove(S, O)
<1>1. Heard(h)
  BY HeardFun
<1>. QED  BY <1>1 DEF C!Remove, Heard

LEMMA JoinsIs ==
  ASSUME connected = ConnectedIn(graph), NEW h, connected' = ConnectedIn(h), Fine(graph),
         NEW o0 \in Outlet, NEW s \in Sink, NEW additive \in BOOLEAN,
         \A t \in Sink, o \in Outlet :
            ConnectedIn(h)[t][o] =
               IF t = s
               THEN (IF additive THEN ConnectedIn(graph)[s][o] ELSE 0) + (IF o0 = o THEN 1 ELSE 0)
               ELSE ConnectedIn(graph)[t][o]
  PROVE  Joins(o0, s, additive)
<1> DEFINE M == ConnectedIn(graph)
           R == ConnectedIn(h)
<1>1. M \in [Sink -> [Outlet -> Nat]]
  BY HeardTyped
<1>2. R = [t \in Sink |-> [o \in Outlet |-> R[t][o]]]
  BY HeardFun DEF Heard
<1>3. \A t \in Sink, o \in Outlet :
         R[t][o] = IF t = s THEN (IF additive THEN M[s][o] ELSE 0) + (IF o0 = o THEN 1 ELSE 0)
                   ELSE M[t][o]
  OBVIOUS
<1>4. connected = M /\ connected' = R
  OBVIOUS
<1>. HIDE DEF M, R
<1>5. CASE additive
  <2>1. [M EXCEPT ![s][o0] = @ + 1] =
           [t \in Sink |-> IF t = s THEN [M[s] EXCEPT ![o0] = @ + 1] ELSE M[t]]
    BY <1>1
  <2>2. [o \in Outlet |-> R[s][o]] = [M[s] EXCEPT ![o0] = @ + 1]
    <3>1. M[s] \in [Outlet -> Nat]
      BY <1>1
    <3>2. \A o \in Outlet : R[s][o] = IF o = o0 THEN M[s][o] + 1 ELSE M[s][o]
      BY <1>3, <1>5, <3>1
    <3>. QED  BY <3>1, <3>2
  <2>3. \A t \in Sink : t # s => [o \in Outlet |-> R[t][o]] = M[t]
    <3>. TAKE t \in Sink
    <3>. HAVE t # s
    <3>1. M[t] \in [Outlet -> Nat] /\ \A o \in Outlet : R[t][o] = M[t][o]
      BY <1>1, <1>3
    <3>. QED  BY <3>1
  <2>4. R = [M EXCEPT ![s][o0] = @ + 1]
    BY <1>2, <2>1, <2>2, <2>3
  <2>. QED  BY <1>4, <1>5, <2>4 DEF Joins, C!Add
<1>6. CASE ~additive
  <2>1. [M EXCEPT ![s] = [C!Nothing EXCEPT ![o0] = 1]] =
           [t \in Sink |-> IF t = s THEN [C!Nothing EXCEPT ![o0] = 1] ELSE M[t]]
    BY <1>1
  <2>2. [o \in Outlet |-> R[s][o]] = [C!Nothing EXCEPT ![o0] = 1]
    <3>1. \A o \in Outlet : R[s][o] = IF o = o0 THEN 1 ELSE 0
      BY <1>3, <1>6
    <3>. QED  BY <3>1 DEF C!Nothing
  <2>3. \A t \in Sink : t # s => [o \in Outlet |-> R[t][o]] = M[t]
    <3>. TAKE t \in Sink
    <3>. HAVE t # s
    <3>1. M[t] \in [Outlet -> Nat] /\ \A o \in Outlet : R[t][o] = M[t][o]
      BY <1>1, <1>3
    <3>. QED  BY <3>1
  <2>4. R = [M EXCEPT ![s] = [C!Nothing EXCEPT ![o0] = 1]]
    BY <1>2, <2>1, <2>2, <2>3
  <2>. QED  BY <1>4, <1>6, <2>4 DEF Joins, C!Replace
<1>. QED  BY <1>5, <1>6

LEMMA UpdatedTo ==
  ASSUME HeardInv, EdgesInv', UNCHANGED calls, NEW g, Update(g)
  PROVE  /\ graph' = g /\ connected' = ConnectedIn(g) /\ Sound(g) /\ Sane(g)
         /\ Tidy(g) => HeardInv'
<1>1. graph' = g /\ connected' = ConnectedIn(g)
  BY DEF Update
<1>2. Sound(graph)' /\ Sane(graph)' /\ "parameter" \notin calls'
  BY DEF HeardInv, EdgesInv
<1>. QED  BY <1>1, <1>2 DEF HeardInv

LEMMA UserOutlet ==
  ASSUME NEW k \in User \cup {Graph}, NEW c \in 1..(UserOutputs + GraphInputs), NEW b \in BOOLEAN
  PROVE  OutletOf(UserEdge(k, c), b) \in Outlet
  BY DEF OutletOf, UserEdge, Edge, Outlet

-----------------------------------------------------------------------------
(* Connecting.                                                             *)
(* The new edge, or a new node that has it, is read. *)
Reads(g, k) ==
  k \in SourcesIn(g.outputs) \/ \E j \in DOMAIN g.inputs : k \in SourcesIn(g.inputs[j])

LEMMA PutReads ==
  ASSUME NEW g, Sound(g), NEW s \in InputSinks(g) \cup OutputSinks, NEW e \in Edges, e.from \in Key
  PROVE  DOMAIN Put(g, s, e) = Fields /\ Reads(Put(g, s, e), e.from)
<1> DEFINE h == Put(g, s, e)
<1>1. DOMAIN g = Fields /\ DOMAIN g.inputs = Live(g) /\ DOMAIN g.outputs = 1..GraphOutputs
  BY DEF Sound, Shaped
<1>2. CASE s \in InputSinks(g)
  <2>1. PICK m \in User \cap Live(g) : \E c \in 1..UserInputs : s = Input(m, c)
    BY <1>2, InputSinkIs
  <2>2. PICK c \in 1..UserInputs : s = Input(m, c)
    BY <2>1
  <2>3. IsPut(g, h, m, c, e)
    BY <1>1, <2>2, PutInput
  <2>. HIDE DEF h
  <2>4. DOMAIN g.inputs[m] = 1..UserInputs
    <3>1. Width(g, m) = UserInputs
      BY DEF Width
    <3>. QED  BY <3>1 DEF Sound, Shaped
  <2>5. m \in DOMAIN h.inputs /\ c \in DOMAIN h.inputs[m] /\ h.inputs[m][c] = e
    BY <1>1, <2>3, <2>4 DEF IsPut
  <2>6. e.from \in SourcesIn(h.inputs[m])
    BY <2>5, SourceOfRow
  <2>. QED  BY <2>3, <2>5, <2>6 DEF h, IsPut, Reads
<1>3. CASE s \in OutputSinks
  <2>1. PICK c \in 1..GraphOutputs : s = Output(c)
    BY <1>3 DEF OutputSinks
  <2>2. DOMAIN h = Fields /\ h.outputs = [g.outputs EXCEPT ![c] = e]
    BY <1>1, <2>1, SinkParts DEF Put, Fields
  <2>. HIDE DEF h
  <2>3. c \in DOMAIN h.outputs /\ h.outputs[c] = e
    BY <1>1, <2>2
  <2>4. e.from \in SourcesIn(h.outputs)
    BY <2>3, SourceOfRow
  <2>. QED  BY <2>2, <2>4 DEF h, Reads
<1>. QED  BY <1>2, <1>3

LEMMA SummedReads ==
  ASSUME NEW g, Sound(g), NEW s \in InputSinks(g) \cup OutputSinks, EdgeAt(g, s) \in Edges,
         NEW e \in Edges, e.from \in Key, NEW n \in Unused(g)
  PROVE  LET h == Summed(g, s, e, n)
         IN  /\ DOMAIN h = Fields /\ Reads(h, e.from)
             /\ Live(h) = Live(g) \cup {n} /\ n \in Own
             /\ \A j \in OwnRows(g) : j \in DOMAIN h.inputs /\ h.inputs[j] = g.inputs[j]
<1> DEFINE a == EdgeAt(g, s)
           w == WithMathNode(g, n, a, e)
           x == Edge(n, 1, FALSE)
           h == Put(w, s, x)
<1>1. a \in Edges
  OBVIOUS
<1>. HIDE DEF a
<1>2. Sound(w) /\ Live(w) = Live(g) \cup {n} /\ n \in Own
  BY <1>1, MathAdded
<1>3. IsPushed(g, w, n, <<a, e>>)
  BY <1>2, WithMathNodeIs DEF Sound, Shaped
<1>4. n \notin Live(g) /\ DOMAIN g.inputs = Live(g) /\ DOMAIN w.inputs = Live(w)
  BY <1>2 DEF Unused, Live, Sound, Shaped
<1>. HIDE DEF w, x
<1>5. w.inputs[n] = <<a, e>> /\ \A j \in Live(g) : w.inputs[j] = g.inputs[j]
  BY <1>3, <1>4 DEF IsPushed
<1>6. s \in InputSinks(w) \cup OutputSinks
  BY <1>2 DEF InputSinks
<1>7. x \in Edges /\ x.from = n /\ n \in Key
  BY <1>2, EdgeTyped DEF x, Key
<1>8. DOMAIN h = Fields
  BY <1>2, <1>6, <1>7, PutReads
<1>9. Live(h) = Live(w) /\ SameOwn(w, h)
  BY <1>2, <1>6, <1>7, PutIs
<1>. HIDE DEF h
<1>10. \A j \in OwnRows(w) : j \in DOMAIN h.inputs /\ h.inputs[j] = w.inputs[j]
  BY <1>9 DEF SameOwn, OwnRows
<1>11. n \in OwnRows(w) /\ \A j \in OwnRows(g) : j \in OwnRows(w) /\ w.inputs[j] = g.inputs[j]
  BY <1>2, <1>4, <1>5 DEF OwnRows
<1>12. e.from \in SourcesIn(<<a, e>>)
  BY <1>1, TwoEdges
<1>13. Reads(h, e.from)
  BY <1>5, <1>10, <1>11, <1>12 DEF Reads
<1>14. h = Summed(g, s, e, n)
  BY DEF h, w, x, a, Summed
<1>. QED  BY <1>2, <1>8, <1>9, <1>10, <1>11, <1>13, <1>14

LEMMA ReadIsLive ==
  ASSUME NEW g, Sane(g), NEW k, Reads(g, k) PROVE k \in Live(g)
  BY DEF Sane, Linked, Reads

(* So a source that is connected was there. *)
LEMMA ConnectReads ==
  ASSUME HeardInv, EdgesInv', NEW k \in User, NEW c \in Nat, NEW additive \in BOOLEAN,
         NEW s \in InputSinks(graph) \cup OutputSinks, Connect(s, UserEdge(k, c), additive)
  PROVE  k \in Live(graph)
<1> DEFINE e == UserEdge(k, c)
<1>1. PICK h \in Connected(graph, s, e, additive) : Update(Required(h))
  BY DEF Connect
<1>2. UNCHANGED calls
  BY DEF Connect
<1>3. Sane(Required(h))
  BY <1>1, <1>2, UpdatedTo
<1>4. e \in Edges /\ e.from = k /\ k \in Key /\ Edge(e.from, e.channel, FALSE) = e
  BY UserEdgeTyped DEF Key, UserEdge, Edge
<1>5. Sound(graph) /\ Sane(graph)
  BY HeardFine DEF Fine
<1>. HIDE DEF e
<1>6. h = Put(graph, s, e) \/ \E n \in Unused(graph) : h = Summed(graph, s, e, n)
  BY <1>1, <1>4 DEF Connected, Added, Replaced, Summed
<1>7. DOMAIN h = Fields /\ Reads(h, k) /\ (k \in Live(h) => k \in Live(graph))
  <2>1. CASE h = Put(graph, s, e)
    <3>1. Live(Put(graph, s, e)) = Live(graph)
      BY <1>4, <1>5, PutIs
    <3>. QED  BY <1>4, <1>5, <2>1, <3>1, PutReads
  <2>2. CASE \E n \in Unused(graph) : h = Summed(graph, s, e, n)
    <3>1. PICK n \in Unused(graph) : h = Summed(graph, s, e, n)
      BY <2>2
    <3>2. DOMAIN h = Fields /\ Reads(h, k) /\ Live(h) = Live(graph) \cup {n} /\ n \in Own
      BY <1>4, <1>5, <3>1, SinkSource, SummedReads
    <3>. QED  BY <3>2, KeysAssumption
  <2>. QED  BY <1>6, <2>1, <2>2
<1>8. /\ Required(h).inputs = h.inputs /\ Required(h).outputs = h.outputs
      /\ Required(h).nodes = h.nodes /\ Required(h).pending = h.pending
  BY <1>7 DEF Required, Fields
<1>9. Reads(Required(h), k) /\ Live(Required(h)) = Live(h)
  BY <1>7, <1>8 DEF Reads, Live
<1>10. k \in Live(Required(h))
  BY <1>3, <1>9, ReadIsLive
<1>. QED  BY <1>7, <1>9, <1>10

(* Connecting an output of the user's or an input of the graph. *)
LEMMA ConnectHeard ==
  ASSUME HeardInv, EdgesInv', NEW k \in User \cup {Graph}, NEW c \in 1..(UserOutputs + GraphInputs),
         NEW additive \in BOOLEAN, NEW s \in InputSinks(graph) \cup OutputSinks,
         Connect(s, UserEdge(k, c), additive), {k} \cap Key \subseteq Live(graph),
         \A g \in Joined(graph, s, UserEdge(k, c)) :
            Sound(g) /\ (Sane(graph) => Sane(g)) /\ g.pending = graph.pending
  PROVE  HeardInv' /\ s \in Sink /\ Joins(OutletOf(UserEdge(k, c), FALSE), s, additive)
<1> DEFINE e == UserEdge(k, c)
           o0 == OutletOf(e, FALSE)
<1>0. Fine(graph) /\ k \notin Own /\ c \in Nat /\ k \in Key \cup {Graph}
  BY HeardFine, KeysAssumption, ChannelsAssumption DEF Graph, Key
<1>1. PICK h \in Connected(graph, s, e, additive) : Update(Required(h))
  BY DEF Connect
<1>2. UNCHANGED calls
  BY DEF Connect
<1>3. e \in Edges /\ e.from = k
  BY <1>0, UserEdgeTyped
<1>4. Sound(h) /\ Sane(h)
  BY <1>0, <1>1 DEF Connected, Added, Replaced, Joined, Summed, Fine
<1>5. o0 \in Outlet
  BY UserOutlet
<1>6. e.from \notin Mathy(graph) /\ e.from \notin OwnRows(graph)
  BY <1>0, <1>3, MathRows DEF Fine
<1>7. \A o \in Outlet : Direct(graph, o, e) = IF o0 = o THEN 1 ELSE 0
  BY <1>6, DirectIs
<1>8. s \in Sink
  BY <1>0, <1>3, PutIs DEF Fine
<1>. HIDE DEF e
<1>9. /\ Tidy(h)
      /\ \A t \in Sink, o \in Outlet :
              ConnectedIn(h)[t][o] =
                 IF t = s
                 THEN (IF additive THEN ConnectedIn(graph)[s][o] ELSE 0) + Direct(graph, o, e)
                 ELSE ConnectedIn(graph)[t][o]
  BY <1>0, <1>1, <1>3, <1>4, <1>6, ConnectedHears
<1>10. Fine(Required(h)) /\ ConnectedIn(Required(h)) = ConnectedIn(h)
  BY <1>4, <1>9, RequiredHears DEF Fine
<1>11. HeardInv' /\ connected' = ConnectedIn(h)
  BY <1>1, <1>2, <1>10, UpdatedTo DEF Fine
<1>. HIDE DEF o0
<1>12. \A t \in Sink, o \in Outlet :
            ConnectedIn(h)[t][o] =
               IF t = s
               THEN (IF additive THEN ConnectedIn(graph)[s][o] ELSE 0) + (IF o0 = o THEN 1 ELSE 0)
               ELSE ConnectedIn(graph)[t][o]
  BY <1>7, <1>9
<1>13. connected = ConnectedIn(graph)
  BY DEF HeardInv
<1>14. Joins(o0, s, additive)
  BY <1>0, <1>5, <1>8, <1>11, <1>12, <1>13, JoinsIs
<1>. QED  BY <1>8, <1>11, <1>14 DEF o0, e

LEMMA ConnectNodesHeard ==
  ASSUME HeardInv, EdgesInv', NEW k \in User, NEW c \in 1..UserOutputs, NEW s,
         NEW additive \in BOOLEAN, ConnectNodes(k, c, s, additive)
  PROVE  HeardInv' /\ s \in Sink /\ Joins(OutletOf(UserEdge(k, c), FALSE), s, additive)
<1>1. /\ s \in InputSinks(graph) /\ Connect(s, UserEdge(k, c), additive)
  BY DEF ConnectNodes
<1>2. c \in Nat /\ c \in 1..(UserOutputs + GraphInputs) /\ EdgesInv
  BY ChannelsAssumption DEF HeardInv
<1>3. k \in User \cap Live(graph)
  BY <1>1, <1>2, ConnectReads
<1>4. \A g \in Joined(graph, s, UserEdge(k, c)) :
            Sound(g) /\ (Sane(graph) => Sane(g)) /\ g.pending = graph.pending
  BY <1>2, <1>3, ConnectNodesJoins
<1>. QED  BY <1>1, <1>2, <1>3, <1>4, ConnectHeard

LEMMA ConnectNodeToOutputHeard ==
  ASSUME HeardInv, EdgesInv', NEW k \in User, NEW c \in 1..UserOutputs, NEW s,
         NEW additive \in BOOLEAN, ConnectNodeToOutput(k, c, s, additive)
  PROVE  HeardInv' /\ s \in Sink /\ Joins(OutletOf(UserEdge(k, c), FALSE), s, additive)
<1>1. /\ s \in OutputSinks /\ Connect(s, UserEdge(k, c), additive)
  BY DEF ConnectNodeToOutput
<1>2. c \in Nat /\ c \in 1..(UserOutputs + GraphInputs) /\ EdgesInv
  BY ChannelsAssumption DEF HeardInv
<1>3. k \in User \cap Live(graph)
  BY <1>1, <1>2, ConnectReads
<1>4. \A g \in Joined(graph, s, UserEdge(k, c)) :
            Sound(g) /\ (Sane(graph) => Sane(g)) /\ g.pending = graph.pending
  BY <1>2, <1>3, ConnectNodeToOutputJoins
<1>. QED  BY <1>1, <1>2, <1>3, <1>4, ConnectHeard

LEMMA ConnectGraphInputHeard ==
  ASSUME HeardInv, EdgesInv', NEW c \in 1..GraphInputs, NEW s,
         NEW additive \in BOOLEAN, ConnectGraphInput(c, s, additive)
  PROVE  HeardInv' /\ s \in Sink /\ Joins(OutletOf(UserEdge(Graph, c), FALSE), s, additive)
<1>1. c \in 1..(UserOutputs + GraphInputs) /\ EdgesInv /\ {Graph} \cap Key \subseteq Live(graph)
  BY ChannelsAssumption, NamesApart DEF HeardInv
<1>2. /\ s \in InputSinks(graph) \cup OutputSinks /\ Connect(s, UserEdge(Graph, c), additive)
      /\ \A g \in Joined(graph, s, UserEdge(Graph, c)) :
            Sound(g) /\ (Sane(graph) => Sane(g)) /\ g.pending = graph.pending
  BY <1>1, ConnectGraphInputJoins
<1>. QED  BY <1>1, <1>2, ConnectHeard

LEMMA ConnectFeedbackHeard ==
  ASSUME HeardInv, EdgesInv', NEW k \in User, NEW c \in 1..UserOutputs, NEW s,
         NEW additive \in BOOLEAN, ConnectFeedback(k, c, s, additive)
  PROVE  HeardInv' /\ s \in Sink /\ Joins(OutletOf(UserEdge(k, c), TRUE), s, additive)
<1>1. s \in InputSinks(graph) /\ UNCHANGED calls
  BY DEF ConnectFeedback
<1>2. PICK source \in Unused(graph) : \E sink \in Unused(graph) :
         /\ source # sink
         /\ \E g \in Connected(WithFeedbackNodes(graph, source, sink, UserEdge(k, c)),
                                s, Edge(source, c, additive), additive) : Update(g)
  BY DEF ConnectFeedback
<1>3. PICK sink \in Unused(graph) :
         /\ source # sink
         /\ \E g \in Connected(WithFeedbackNodes(graph, source, sink, UserEdge(k, c)),
                                s, Edge(source, c, additive), additive) : Update(g)
  BY <1>2
<1> DEFINE f == WithFeedbackNodes(graph, source, sink, UserEdge(k, c))
           e == Edge(source, c, additive)
           o0 == OutletOf(UserEdge(k, c), TRUE)
<1>4. PICK h : h \in Connected(f, s, e, additive) /\ Update(h)
  BY <1>3
<1>5. Sound(h) /\ Sane(h) /\ graph' = h /\ connected' = ConnectedIn(h) /\ (Tidy(h) => HeardInv')
  BY <1>1, <1>4, UpdatedTo
<1>6. /\ Fine(graph) /\ connected = ConnectedIn(graph) /\ k \in Key /\ c \in Nat
      /\ c \in 1..(UserOutputs + GraphInputs) /\ Sound(graph)
  BY HeardFine, ChannelsAssumption DEF HeardInv, Key, Fine
<1>7. IsFedBack(graph, f, source, sink, k, c)
  BY <1>3, <1>6, FeedbackAdded
<1>8. /\ source \in Own /\ sink \in Own /\ source \in Key /\ source \notin User
  BY KeysAssumption DEF Unused, Key
<1>9. e \in Edges /\ e.from = source
  BY <1>6, <1>8, EdgeTyped
<1>. HIDE DEF f, e
<1>10. /\ Sound(f) /\ Live(f) = Live(graph) \cup {sink, source}
       /\ f.inputs[sink] = <<Edge(k, c, TRUE)>>
       /\ s \in InputSinks(f) /\ sink \in OwnRows(f)
  <2>1. Sound(f) /\ Live(f) = Live(graph) \cup {sink, source} /\ f.inputs[sink] = <<Edge(k, c, TRUE)>>
    BY <1>7 DEF IsFedBack
  <2>. QED  BY <1>1, <1>8, <2>1 DEF InputSinks, OwnRows, Sound, Shaped
<1>12. EdgeAt(f, s) \in Edges
  <2>1. PICK m \in User \cap Live(f) : \E i \in 1..UserInputs : s = Input(m, i)
    BY <1>10, InputSinkIs
  <2>2. PICK i \in 1..UserInputs : s = Input(m, i)
    BY <2>1
  <2>3. Width(f, m) = UserInputs
    BY DEF Width
  <2>4. f.inputs[m][i] \in Edges
    BY <1>10, <2>3 DEF Sound, Shaped
  <2>. QED  BY <2>2, <2>4, EdgeAtSinks
<1>11. k \in Live(graph)
  <2>1. k \in SourcesIn(<<Edge(k, c, TRUE)>>)
    <3>1. Edge(k, c, TRUE) \in Edges /\ Edge(k, c, TRUE).from = k
      BY <1>6, EdgeTyped
    <3>. QED  BY <1>6, <3>1, OneEdge
  <2>2. Reads(h, k) /\ Live(h) \subseteq Live(f) \cup Own
    <3>1. h = Put(f, s, e) \/ \E n \in Unused(f) : h = Summed(f, s, Edge(e.from, e.channel, FALSE), n)
      BY <1>4 DEF Connected, Added, Replaced, Summed
    <3>2. CASE h = Put(f, s, e)
      <4>1. Live(h) = Live(f) /\ SameOwn(f, h)
        BY <1>9, <1>10, <3>2, PutIs
      <4>2. sink \in DOMAIN h.inputs /\ h.inputs[sink] = <<Edge(k, c, TRUE)>>
        BY <1>10, <4>1 DEF SameOwn, OwnRows
      <4>. QED  BY <2>1, <4>1, <4>2 DEF Reads
    <3>3. ASSUME NEW n \in Unused(f), h = Summed(f, s, Edge(e.from, e.channel, FALSE), n)
          PROVE  Reads(h, k) /\ Live(h) \subseteq Live(f) \cup Own
      <4>1. PICK x \in Edges : x = Edge(e.from, e.channel, FALSE) /\ x.from \in Key
        BY <1>8, <1>9, DirectEdge
      <4>5. h = Summed(f, s, x, n)
        BY <3>3, <4>1
      <4>6. x.from \in Key /\ Sound(f) /\ s \in InputSinks(f) \cup OutputSinks
        BY <1>10, <4>1
      <4>2. /\ Live(h) = Live(f) \cup {n} /\ n \in Own
            /\ \A j \in OwnRows(f) : j \in DOMAIN h.inputs /\ h.inputs[j] = f.inputs[j]
        BY <1>12, <4>5, <4>6, SummedReads
      <4>3. sink \in DOMAIN h.inputs /\ h.inputs[sink] = <<Edge(k, c, TRUE)>>
        BY <1>10, <4>2
      <4>. QED  BY <2>1, <4>2, <4>3 DEF Reads
    <3>. QED  BY <3>1, <3>2, <3>3
  <2>3. k \in Live(h) /\ k \notin Own
    BY <1>5, <2>2, ReadIsLive, KeysAssumption
  <2>. QED  BY <1>8, <1>10, <2>2, <2>3
<1>13. k \in User \cap Live(graph) /\ additive \in BOOLEAN /\ source # sink
  BY <1>3, <1>11
<1>14. /\ Fine(f) /\ ConnectedIn(f) = ConnectedIn(graph) /\ source \notin Mathy(f)
       /\ Delays(f, source, k, c)
  BY <1>6, <1>7, <1>13, FeedbackHears
<1>15. \A o \in Outlet : Direct(f, o, e) = IF o0 = o THEN 1 ELSE 0
  BY <1>13, <1>14 DEF e, Delays
<1>16. s \notin OutputSinks
  BY <1>1, InputSinkIs, SinkParts DEF OutputSinks
<1>17. o0 \in Outlet /\ s \in Sink
  BY <1>6, <1>10, <1>14, UserOutlet, SinkSource DEF Fine
<1>18. {e.from} \cap Key \subseteq Live(f)
  BY <1>9, <1>10
<1>19. /\ Tidy(h)
       /\ \A t \in Sink, o \in Outlet :
              ConnectedIn(h)[t][o] =
                 IF t = s
                 THEN (IF additive THEN ConnectedIn(f)[s][o] ELSE 0) + Direct(f, o, e)
                 ELSE ConnectedIn(f)[t][o]
  BY <1>4, <1>5, <1>9, <1>10, <1>14, <1>16, <1>18, ConnectedHears
<1>. HIDE DEF o0
<1>20. \A t \in Sink, o \in Outlet :
            ConnectedIn(h)[t][o] =
               IF t = s
               THEN (IF additive THEN ConnectedIn(graph)[s][o] ELSE 0) + (IF o0 = o THEN 1 ELSE 0)
               ELSE ConnectedIn(graph)[t][o]
  BY <1>14, <1>15, <1>17, <1>19
<1>21. Joins(o0, s, additive)
  BY <1>5, <1>6, <1>17, <1>20, JoinsIs
<1>. QED  BY <1>5, <1>17, <1>19, <1>21 DEF o0

-----------------------------------------------------------------------------
(* Freeing and disconnecting.                                              *)
LEMMA FreeNodeHeard ==
  ASSUME HeardInv, EdgesInv', NEW k \in User, FreeNode(k)
  PROVE  HeardInv' /\ C!Remove(SinksOf(k), OutletsOf(k))
<1> DEFINE h == Freed(graph, k)
<1>1. Update(h) /\ UNCHANGED calls /\ k \in User \cap Live(graph)
  BY DEF FreeNode
<1>2. Fine(graph) /\ connected = ConnectedIn(graph)
  BY HeardFine DEF HeardInv
<1>3. /\ Fine(h)
      /\ \A t \in Sink, o \in Outlet :
            ConnectedIn(h)[t][o] = IF t[2] = k \/ o.from = k THEN 0 ELSE ConnectedIn(graph)[t][o]
  BY <1>1, <1>2, FreedUserHears
<1>. HIDE DEF h
<1>4. HeardInv' /\ connected' = ConnectedIn(h)
  BY <1>1, <1>3, UpdatedTo DEF Fine
<1>5. \A t \in Sink, o \in Outlet :
        ConnectedIn(h)[t][o] = IF t \in SinksOf(k) \/ o \in OutletsOf(k) THEN 0
                               ELSE ConnectedIn(graph)[t][o]
  BY <1>3 DEF SinksOf, OutletsOf
<1>6. C!Remove(SinksOf(k), OutletsOf(k))
  BY <1>2, <1>4, <1>5, RemoveIs
<1>. QED  BY <1>4, <1>6

LEMMA DisconnectOutputHeard ==
  ASSUME HeardInv, EdgesInv', NEW k \in User, NEW c, DisconnectOutput(k, c)
  PROVE  HeardInv' /\ C!Remove({}, FromOutput(k, c))
<1> DEFINE h == OutputDisconnected(graph, k, c)
<1>1. Update(h) /\ UNCHANGED calls
  BY DEF DisconnectOutput
<1>2. Fine(graph) /\ connected = ConnectedIn(graph)
  BY HeardFine DEF HeardInv
<1>3. /\ Fine(h)
      /\ \A t \in Sink, o \in Outlet :
            ConnectedIn(h)[t][o] = IF o.from = k /\ o.channel = c THEN 0 ELSE ConnectedIn(graph)[t][o]
  BY <1>2, OutputDisconnectedHears
<1>. HIDE DEF h
<1>4. HeardInv' /\ connected' = ConnectedIn(h)
  BY <1>1, <1>3, UpdatedTo DEF Fine
<1>5. \A t \in Sink, o \in Outlet :
        ConnectedIn(h)[t][o] = IF t \in {} \/ o \in FromOutput(k, c) THEN 0
                               ELSE ConnectedIn(graph)[t][o]
  BY <1>3 DEF FromOutput
<1>6. C!Remove({}, FromOutput(k, c))
  BY <1>2, <1>4, <1>5, RemoveIs
<1>. QED  BY <1>4, <1>6

(* What is left when an edge has been taken out. *)
Emptied(g, s, h) ==
  \A t \in Sink, o \in Outlet : ConnectedIn(h)[t][o] = IF t = s THEN 0 ELSE ConnectedIn(g)[t][o]

LEMMA NothingPut ==
  ASSUME NEW g, Fine(g), NEW s \in InputSinks(g) \cup OutputSinks
  PROVE  LET h == Put(g, s, NoEdge) IN Fine(h) /\ s \in Sink /\ Emptied(g, s, h)
<1> DEFINE h == Put(g, s, NoEdge)
<1>1. NoEdge \in Edges /\ {NoEdge.from} \cap Key = {} /\ {NoEdge.from} \cap Own = {} /\ Sound(g)
  BY NoEdgeFacts DEF Key, Fine
<1>2. Sound(h) /\ (Sane(g) => Sane(h))
  <2>1. CASE s \in InputSinks(g)
    <3>1. PICK m \in User \cap Live(g) : \E d \in 1..UserInputs : s = Input(m, d)
      BY <2>1, InputSinkIs
    <3>2. PICK d \in 1..UserInputs : s = Input(m, d)
      BY <3>1
    <3>3. ClosedUnderSources(g, {}) /\ m \notin {} /\ Width(g, m) = UserInputs
      BY DEF ClosedUnderSources, Width
    <3>. QED  BY <1>1, <3>2, <3>3, InputReplaced
  <2>2. CASE s \in OutputSinks
    <3>1. PICK d \in 1..GraphOutputs : s = Output(d)
      BY <2>2 DEF OutputSinks
    <3>2. Sound(Put(g, Output(d), NoEdge)) /\ (Sane(g) => Sane(Put(g, Output(d), NoEdge)))
      BY <1>1, PutOutput
    <3>. QED  BY <3>1, <3>2
  <2>. QED  BY <2>1, <2>2
<1>3. Sound(h) /\ Sane(h)
  BY <1>2 DEF Fine
<1>4. PICK B \in SUBSET Mathy(g) : Based(g, B)
  BY DEF Fine, Tidy, Based
<1>5. Tidy(h)
  BY <1>1, <1>3, <1>4, PutTidy
<1>6. s \in Sink
  BY <1>1, PutIs
<1>7. ASSUME NEW t \in Sink, NEW o \in Outlet
      PROVE  ConnectedIn(h)[t][o] = IF t = s THEN 0 ELSE ConnectedIn(g)[t][o]
  <2>1. ConnectedIn(h)[t][o] = IF t = s THEN CountIn(g, o)[NoEdge] ELSE ConnectedIn(g)[t][o]
    BY <1>1, <1>3, PutHears
  <2>2. CountIn(g, o)[NoEdge] = 0
    BY HeardExists, NothingCounts DEF Fine
  <2>. QED  BY <2>1, <2>2
<1>. QED  BY <1>3, <1>5, <1>6, <1>7 DEF Fine, Emptied

LEMMA DisconnectInputHeard ==
  ASSUME HeardInv, EdgesInv', NEW s, DisconnectInput(s)
  PROVE  HeardInv' /\ s \in Sink /\ C!Remove({s}, {})
<1> DEFINE g == Put(graph, s, NoEdge)
           r == IF s[1] = "inputs" THEN Required(g) ELSE g
           h == Evaluated(r, EdgeAt(graph, s).from)
<1>1. Update(h) /\ UNCHANGED calls /\ s \in InputSinks(graph) \cup OutputSinks
  BY DEF DisconnectInput, EvaluateNode
<1>2. Fine(graph) /\ connected = ConnectedIn(graph)
  BY HeardFine DEF HeardInv
<1>3. Fine(g) /\ s \in Sink /\ Emptied(graph, s, g)
  BY <1>1, <1>2, NothingPut
<1>. HIDE DEF g
<1>4. Fine(r) /\ ConnectedIn(r) = ConnectedIn(g)
  BY <1>3, RequiredHears
<1>. HIDE DEF r
<1>5. Fine(h) /\ ConnectedIn(h) = ConnectedIn(r)
  BY <1>4, EvaluatedHears
<1>. HIDE DEF h
<1>6. HeardInv' /\ connected' = ConnectedIn(h)
  BY <1>1, <1>5, UpdatedTo DEF Fine
<1>7. \A t \in Sink, o \in Outlet :
        ConnectedIn(h)[t][o] = IF t \in {s} \/ o \in {} THEN 0 ELSE ConnectedIn(graph)[t][o]
  BY <1>3, <1>4, <1>5 DEF Emptied
<1>8. C!Remove({s}, {})
  BY <1>2, <1>6, <1>7, RemoveIs
<1>. QED  BY <1>3, <1>6, <1>8

LEMMA DisconnectGraphInputHeard ==
  ASSUME HeardInv, EdgesInv', NEW c \in 1..GraphInputs, DisconnectGraphInput(c)
  PROVE  /\ HeardInv'
         /\ \/ UNCHANGED connected
            \/ Output(c) \in Sink /\ C!Remove({Output(c)}, {})
            \/ C!Remove({Output(c)}, FromOutput(Graph, c))
<1>1. UNCHANGED calls /\ Fine(graph) /\ connected = ConnectedIn(graph)
  BY HeardFine DEF DisconnectGraphInput, HeardInv
<1>2. CASE c > GraphOutputs
  <2>1. Update(graph)
    BY <1>2 DEF DisconnectGraphInput
  <2>. QED  BY <1>1, <2>1, UpdatedTo DEF Fine
<1>3. CASE ~(c > GraphOutputs)
  <2> DEFINE s == Output(c)
             g == Put(graph, s, NoEdge)
             k == graph.outputs[c].from
             v == Evaluated(g, k)
             h == OutputDisconnected(v, Graph, c)
  <2>1. IF Panics(g, k) THEN Update(v) ELSE Update(h)
    BY <1>3 DEF DisconnectGraphInput, EvaluateNode
  <2>2. c \in 1..GraphOutputs
    BY <1>3, ChannelsAssumption
  <2>3. s \in OutputSinks
    BY <2>2 DEF OutputSinks
  <2>. HIDE DEF s
  <2>4. Fine(g) /\ s \in Sink /\ Emptied(graph, s, g)
    BY <1>1, <2>3, NothingPut
  <2>. HIDE DEF g, k
  <2>5. Fine(v) /\ ConnectedIn(v) = ConnectedIn(g)
    BY <2>4, EvaluatedHears
  <2>. HIDE DEF v
  <2>6. CASE Panics(g, k)
    <3>1. HeardInv' /\ connected' = ConnectedIn(v)
      BY <1>1, <2>1, <2>5, <2>6, UpdatedTo DEF Fine
    <3>2. \A t \in Sink, o \in Outlet :
            ConnectedIn(v)[t][o] = IF t \in {s} \/ o \in {} THEN 0 ELSE ConnectedIn(graph)[t][o]
      BY <2>4, <2>5 DEF Emptied
    <3>3. C!Remove({s}, {})
      BY <1>1, <3>1, <3>2, RemoveIs
    <3>. QED  BY <2>4, <3>1, <3>3 DEF s
  <2>7. CASE ~Panics(g, k)
    <3>1. /\ Fine(h)
          /\ \A t \in Sink, o \in Outlet :
                ConnectedIn(h)[t][o] = IF o.from = Graph /\ o.channel = c THEN 0
                                       ELSE ConnectedIn(v)[t][o]
      BY <2>5, OutputDisconnectedHears
    <3>. HIDE DEF h
    <3>2. HeardInv' /\ connected' = ConnectedIn(h)
      BY <1>1, <2>1, <2>7, <3>1, UpdatedTo DEF Fine
    <3>3. \A t \in Sink, o \in Outlet :
            ConnectedIn(h)[t][o] = IF t \in {s} \/ o \in FromOutput(Graph, c) THEN 0
                                   ELSE ConnectedIn(graph)[t][o]
      BY <2>4, <2>5, <3>1 DEF Emptied, FromOutput
    <3>4. C!Remove({s}, FromOutput(Graph, c))
      BY <1>1, <3>2, <3>3, RemoveIs
    <3>. QED  BY <3>2, <3>4 DEF s
  <2>. QED  BY <2>6, <2>7
<1>. QED  BY <1>2, <1>3

-----------------------------------------------------------------------------
(* Pushing and committing, which nobody hears.                             *)
LEMMA PushNodeHeard ==
  ASSUME HeardInv, EdgesInv', NEW k \in User, PushNode(k)
  PROVE  HeardInv' /\ UNCHANGED connected
<1> DEFINE h == Pushed(graph, k, [i \in 1..UserInputs |-> NoEdge])
<1>1. Update(h) /\ UNCHANGED calls /\ k \in User \ graph.nodes
  BY DEF PushNode
<1>2. Fine(graph) /\ connected = ConnectedIn(graph)
  BY HeardFine DEF HeardInv
<1>3. Sound(h) /\ Sane(h) => Fine(h) /\ ConnectedIn(h) = ConnectedIn(graph)
  BY <1>1, <1>2, PushedHears
<1>. HIDE DEF h
<1>. QED  BY <1>1, <1>2, <1>3, UpdatedTo DEF Fine

LEMMA BeginCommitHeard ==
  ASSUME HeardInv, EdgesInv', BeginCommit PROVE HeardInv' /\ UNCHANGED connected
  BY DEF BeginCommit, HeardInv

LEMMA EvaluateHeard ==
  ASSUME HeardInv, EdgesInv', NEW k, Evaluate(k) PROVE HeardInv' /\ UNCHANGED connected
<1> DEFINE h == Evaluated(graph, k)
<1>1. Update(h) /\ UNCHANGED calls
  BY DEF Evaluate, EvaluateNode
<1>2. Fine(graph) /\ connected = ConnectedIn(graph)
  BY HeardFine DEF HeardInv
<1>3. Fine(h) /\ ConnectedIn(h) = ConnectedIn(graph)
  BY <1>2, EvaluatedHears
<1>. HIDE DEF h
<1>. QED  BY <1>1, <1>2, <1>3, UpdatedTo DEF Fine

LEMMA EndCommitHeard ==
  ASSUME HeardInv, EdgesInv', EndCommit PROVE HeardInv' /\ UNCHANGED connected
<1>1. PICK gone \in SUBSET sent_pending :
         /\ \A k \in gone : Dependent(graph, k) \in gone
         /\ LET g == Removed(graph, gone)
            IN  graph' = g \/ graph' = [g EXCEPT !.recalculation_required = FALSE]
  BY DEF EndCommit
<1> DEFINE g == Removed(graph, gone)
           h == graph'
<1>2. Fine(graph) /\ connected = ConnectedIn(graph) /\ gone \in SUBSET graph.pending
  BY HeardFine DEF HeardInv, EdgesInv
<1>3. /\ DOMAIN g = Fields
      /\ g.nodes = graph.nodes \ gone /\ g.math = graph.math \ gone
      /\ g.pending = graph.pending \ gone
      /\ g.strong_dependent = [k \in Own |-> IF k \in gone THEN k ELSE graph.strong_dependent[k]]
      /\ g.inputs = graph.inputs /\ g.params = graph.params /\ g.outputs = graph.outputs
  BY <1>2 DEF Removed, Fields, Fine, Sound, Shaped
<1>4. h = g \/ h = [g EXCEPT !.recalculation_required = FALSE]
  BY <1>1
<1>. HIDE DEF g
<1>5. UNCHANGED calls /\ connected' = ConnectedIn(h)
  BY DEF EndCommit
<1>6. Sound(h) /\ Sane(h)
  BY <1>5 DEF HeardInv, EdgesInv
<1>. HIDE DEF h
<1>7. /\ h.nodes = graph.nodes \ gone /\ h.math = graph.math \ gone
      /\ h.pending = graph.pending \ gone
      /\ h.strong_dependent = [k \in Own |-> IF k \in gone THEN k ELSE graph.strong_dependent[k]]
      /\ h.inputs = graph.inputs /\ h.params = graph.params /\ h.outputs = graph.outputs
  BY <1>3, <1>4 DEF Fields
<1>8. Fine(h) /\ ConnectedIn(h) = ConnectedIn(graph)
  BY <1>1, <1>2, <1>6, <1>7, RemovedHears
<1>. QED  BY <1>2, <1>5, <1>8 DEF h, HeardInv, Fine

-----------------------------------------------------------------------------
(***************************************************************************)
(* The connections.                                                        *)
(***************************************************************************)
LEMMA InitHeard ==
  ASSUME Init, "parameter" \notin calls PROVE HeardInv /\ C!Init
<1>1. EdgesInv /\ connected = ConnectedIn(graph)
  BY InitEdges DEF Init
<1>2. Sound(graph) /\ Sane(graph)
  BY <1>1 DEF EdgesInv
<1>3. PICK nodes \in SUBSET User :
        /\ graph.math = {} /\ Live(graph) = nodes /\ DOMAIN graph.inputs = nodes
        /\ graph.inputs = [k \in nodes |-> [i \in 1..UserInputs |-> NoEdge]]
        /\ graph.params = [k \in nodes |-> [p \in Parameters |-> NoEdge]]
        /\ graph.outputs = [i \in 1..GraphOutputs |-> NoEdge]
  BY DEF Init, Live
<1>4. Mathy(graph) = {} /\ OwnRows(graph) = {}
  BY <1>3, KeysAssumption DEF Mathy, OwnRows
<1>5. SourcesIn(graph.outputs) = {}
  BY <1>3, EmptyRow
<1>6. Tidy(graph)
  BY <1>4, <1>5 DEF Tidy
<1>7. ASSUME NEW t \in Sink, LiveSink(graph, t) PROVE EdgeAt(graph, t) = NoEdge
  <2>1. CASE \E j \in User, c \in 1..UserInputs : t = Input(j, c)
    <3>1. PICK j \in User, c \in 1..UserInputs : t = Input(j, c)
      BY <2>1
    <3>2. EdgeAt(graph, t) = graph.inputs[j][c]
      BY <3>1, EdgeAtSinks
    <3>3. j \in Live(graph)
      BY <1>7, <3>1, LiveSinks
    <3>. QED  BY <1>3, <3>2, <3>3
  <2>2. CASE \E c \in 1..GraphOutputs : t = Output(c)
    <3>1. PICK c \in 1..GraphOutputs : t = Output(c)
      BY <2>2
    <3>2. EdgeAt(graph, t) = graph.outputs[c]
      BY <3>1, EdgeAtSinks
    <3>. QED  BY <1>3, <3>2
  <2>3. CASE \E j \in User, p \in Parameters : t = Param(j, p)
    <3>1. PICK j \in User, p \in Parameters : t = Param(j, p)
      BY <2>3
    <3>2. EdgeAt(graph, t) = graph.params[j][p]
      BY <3>1, EdgeAtSinks
    <3>3. j \in Live(graph)
      BY <1>7, <3>1, LiveSinks
    <3>. QED  BY <1>3, <3>2, <3>3
  <2>. QED  BY <2>1, <2>2, <2>3, SinkIs
<1>8. ASSUME NEW t \in Sink, NEW o \in Outlet PROVE ConnectedIn(graph)[t][o] = 0
  <2>1. Counts(graph, o, CountIn(graph, o))
    BY <1>2, HeardExists
  <2>2. ConnectedIn(graph)[t][o] = IF LiveSink(graph, t) THEN CountIn(graph, o)[EdgeAt(graph, t)] ELSE 0
    BY <1>2, <2>1, HeardIs
  <2>3. CountIn(graph, o)[NoEdge] = 0
    BY <1>2, <2>1, NothingCounts
  <2>. QED  BY <1>7, <2>2, <2>3
<1>9. Heard(graph)
  BY HeardFun
<1>10. C!Init
  BY <1>1, <1>8, <1>9 DEF C!Init, C!Nothing, Heard
<1>. QED  BY <1>1, <1>6, <1>10 DEF HeardInv

(* What a step does to the connections. *)
LEMMA NextHeard ==
  ASSUME HeardInv, [Next]_vars
  PROVE  HeardInv' /\ [C!Next]_connected
<1>0. EdgesInv'
  BY NextEdges DEF HeardInv
<1>1. CASE UNCHANGED vars
  <2>1. connected' = connected /\ graph' = graph /\ calls' = calls
    BY <1>1 DEF vars
  <2>. QED  BY <1>0, <2>1 DEF HeardInv, Tidy, Mathy, OwnRows
<1>2. ASSUME NEW o \in Outlet, NEW s \in Sink, NEW additive \in BOOLEAN, Joins(o, s, additive)
      PROVE  C!Next
  BY <1>2 DEF Joins, C!Next
<1>3. ASSUME NEW k \in User \cap Live(graph), NEW c \in 1..UserOutputs, NEW b \in BOOLEAN
      PROVE  OutletOf(UserEdge(k, c), b) \in Outlet
  <2>1. k \in User \cup {Graph} /\ c \in 1..(UserOutputs + GraphInputs)
    BY ChannelsAssumption
  <2>. QED  BY <2>1, UserOutlet
<1>4. ASSUME NEW k \in User, PushNode(k) PROVE HeardInv' /\ UNCHANGED connected
  BY <1>0, <1>4, PushNodeHeard
<1>5. ASSUME NEW k \in User, FreeNode(k) PROVE HeardInv' /\ C!Next
  <2>1. HeardInv' /\ C!Remove(SinksOf(k), OutletsOf(k))
    BY <1>0, <1>5, FreeNodeHeard
  <2>2. <<SinksOf(k), OutletsOf(k)>> \in Removable
    BY DEF Removable
  <2>. QED  BY <2>1, <2>2 DEF C!Next
<1>6. ASSUME NEW k \in User \cap Live(graph), NEW c \in 1..UserOutputs, NEW additive \in BOOLEAN,
             NEW s, ConnectNodes(k, c, s, additive) \/ ConnectNodeToOutput(k, c, s, additive)
      PROVE  HeardInv' /\ C!Next
  <2>1. HeardInv' /\ s \in Sink /\ Joins(OutletOf(UserEdge(k, c), FALSE), s, additive)
    BY <1>0, <1>6, ConnectNodesHeard, ConnectNodeToOutputHeard
  <2>. QED  BY <1>2, <1>3, <2>1
<1>7. ASSUME NEW k \in User \cap Live(graph), NEW c \in 1..UserOutputs, NEW additive \in BOOLEAN,
             NEW s, ConnectFeedback(k, c, s, additive)
      PROVE  HeardInv' /\ C!Next
  <2>1. HeardInv' /\ s \in Sink /\ Joins(OutletOf(UserEdge(k, c), TRUE), s, additive)
    BY <1>0, <1>7, ConnectFeedbackHeard
  <2>. QED  BY <1>2, <1>3, <2>1
<1>8. ASSUME NEW k, NEW c, NEW s, NEW additive PROVE ~ConnectParameter(k, c, s, additive)
  BY DEF ConnectParameter, HeardInv
<1>9. ASSUME NEW c \in 1..GraphInputs, NEW s, NEW additive \in BOOLEAN,
             ConnectGraphInput(c, s, additive)
      PROVE  HeardInv' /\ C!Next
  <2>1. HeardInv' /\ s \in Sink /\ Joins(OutletOf(UserEdge(Graph, c), FALSE), s, additive)
    BY <1>0, <1>9, ConnectGraphInputHeard
  <2>2. Graph \in User \cup {Graph} /\ c \in 1..(UserOutputs + GraphInputs)
    BY ChannelsAssumption
  <2>3. OutletOf(UserEdge(Graph, c), FALSE) \in Outlet
    BY <2>2, UserOutlet
  <2>. QED  BY <1>2, <2>1, <2>3
<1>10. ASSUME NEW s, DisconnectInput(s) PROVE HeardInv' /\ C!Next
  <2>1. HeardInv' /\ s \in Sink /\ C!Remove({s}, {})
    BY <1>0, <1>10, DisconnectInputHeard
  <2>2. <<{s}, {}>> \in Removable
    BY <2>1 DEF Removable
  <2>. QED  BY <2>1, <2>2 DEF C!Next
<1>11. ASSUME NEW k \in User, NEW c \in 1..UserOutputs, DisconnectOutput(k, c)
       PROVE  HeardInv' /\ C!Next
  <2>1. HeardInv' /\ C!Remove({}, FromOutput(k, c))
    BY <1>0, <1>11, DisconnectOutputHeard
  <2>2. <<{}, FromOutput(k, c)>> \in Removable
    BY DEF Removable
  <2>. QED  BY <2>1, <2>2 DEF C!Next
<1>12. ASSUME NEW c \in 1..GraphInputs, DisconnectGraphInput(c)
       PROVE  HeardInv' /\ [C!Next]_connected
  <2>1. /\ HeardInv'
        /\ \/ UNCHANGED connected
           \/ Output(c) \in Sink /\ C!Remove({Output(c)}, {})
           \/ C!Remove({Output(c)}, FromOutput(Graph, c))
    BY <1>0, <1>12, DisconnectGraphInputHeard
  <2>2. /\ Output(c) \in Sink => <<{Output(c)}, {}>> \in Removable
        /\ <<{Output(c)}, FromOutput(Graph, c)>> \in Removable
    BY DEF Removable
  <2>. QED  BY <2>1, <2>2 DEF C!Next
<1>13. CASE BeginCommit
  BY <1>0, <1>13, BeginCommitHeard
<1>14. ASSUME NEW k, Evaluate(k) PROVE HeardInv' /\ UNCHANGED connected
  BY <1>0, <1>14, EvaluateHeard
<1>15. CASE EndCommit
  BY <1>0, <1>15, EndCommitHeard
<1>. QED  BY <1>1, <1>4, <1>5, <1>6, <1>7, <1>8, <1>9, <1>10, <1>11, <1>12, <1>13, <1>14, <1>15
          DEF Next

(* The shadow is what is connected, and the nodes of the graph's own are   *)
(* tidy, in every behaviour without edges to parameters.                   *)
LEMMA ConnectionsKept == Spec /\ "parameter" \notin calls => []HeardInv
<1>1. Init /\ "parameter" \notin calls => HeardInv
  BY InitHeard
<1>2. HeardInv /\ [Next]_vars => HeardInv'
  BY NextHeard
<1>. QED  BY <1>1, <1>2, PTL DEF Spec

(* The edges, with the math nodes and the feedback pairs that come and go, *)
(* implement the connections, whatever the size of the graph: each call    *)
(* connects or disconnects, for whoever listens, as if those nodes did not *)
(* exist.  For behaviours without edges to parameters.                     *)
THEOREM EdgesImplementConnections == Spec /\ "parameter" \notin calls => ImplementsConnections
<1>1. Init /\ "parameter" \notin calls => C!Init
  BY InitHeard
<1>2. HeardInv /\ [Next]_vars => [C!Next]_connected
  BY NextHeard
<1>. QED  BY <1>1, <1>2, ConnectionsKept, PTL DEF Spec, ImplementsConnections, C!Spec

(* connect, connect_feedback, disconnect and free do to the connections    *)
(* what their documentation says to those they name and nothing to others. *)
THEOREM CallsDoAsAsked == Spec /\ "parameter" \notin calls => CallsAsAsked
<1> DEFINE Connects ==
             phase = "edit" => \A k \in User, c \in 1..UserOutputs, s \in Sink, additive \in BOOLEAN :
               /\ \/ ConnectNodes(k, c, s, additive)
                  \/ ConnectNodeToOutput(k, c, s, additive)
                  \/ ConnectParameter(k, c, s, additive)
                  => Joins(OutletOf(UserEdge(k, c), FALSE), s, additive)
               /\ ConnectFeedback(k, c, s, additive)
                  => Joins(OutletOf(UserEdge(k, c), TRUE), s, additive)
           Empties == \A s \in Sink : DisconnectInput(s) => C!Remove({s}, {})
           Silences == \A k \in User, c \in 1..UserOutputs :
                         DisconnectOutput(k, c) => C!Remove({}, FromOutput(k, c))
           Frees == \A k \in User : FreeNode(k) => C!Remove(SinksOf(k), OutletsOf(k))
<1>1. HeardInv /\ [Next]_vars => Connects
  <2>. SUFFICES ASSUME HeardInv, [Next]_vars,
                       NEW k \in User, NEW c \in 1..UserOutputs, NEW s \in Sink, NEW additive \in BOOLEAN
       PROVE  /\ \/ ConnectNodes(k, c, s, additive)
                 \/ ConnectNodeToOutput(k, c, s, additive)
                 \/ ConnectParameter(k, c, s, additive)
                 => Joins(OutletOf(UserEdge(k, c), FALSE), s, additive)
              /\ ConnectFeedback(k, c, s, additive)
                 => Joins(OutletOf(UserEdge(k, c), TRUE), s, additive)
    OBVIOUS
  <2>1. EdgesInv'
    BY NextEdges DEF HeardInv
  <2>2. ConnectNodes(k, c, s, additive) => Joins(OutletOf(UserEdge(k, c), FALSE), s, additive)
    BY <2>1, ConnectNodesHeard
  <2>3. ConnectNodeToOutput(k, c, s, additive) => Joins(OutletOf(UserEdge(k, c), FALSE), s, additive)
    BY <2>1, ConnectNodeToOutputHeard
  <2>4. ~ConnectParameter(k, c, s, additive)
    BY DEF ConnectParameter, HeardInv
  <2>5. ConnectFeedback(k, c, s, additive) => Joins(OutletOf(UserEdge(k, c), TRUE), s, additive)
    BY <2>1, ConnectFeedbackHeard
  <2>. QED  BY <2>2, <2>3, <2>4, <2>5
<1>2. HeardInv /\ [Next]_vars => Empties /\ Silences /\ Frees
  <2>. SUFFICES ASSUME HeardInv, [Next]_vars PROVE Empties /\ Silences /\ Frees
    OBVIOUS
  <2>1. EdgesInv'
    BY NextEdges DEF HeardInv
  <2>. QED  BY <2>1, DisconnectInputHeard, DisconnectOutputHeard, FreeNodeHeard
<1>3. ConnectsAsAsked <=> [][Connects]_vars
  BY DEF ConnectsAsAsked
<1>4. RemovesAsAsked <=> [][Empties]_vars /\ [][Silences]_vars /\ [][Frees]_vars
  BY DEF RemovesAsAsked
<1>. HIDE DEF Connects, Empties, Silences, Frees
<1>5. Spec /\ "parameter" \notin calls =>
        [][Connects]_vars /\ [][Empties]_vars /\ [][Silences]_vars /\ [][Frees]_vars
  BY <1>1, <1>2, ConnectionsKept, PTL DEF Spec
<1>. QED  BY <1>3, <1>4, <1>5 DEF CallsAsAsked

(* No commit disconnects anything: free_old takes math nodes and feedback  *)
(* pairs out, and Node slots are reused, without a listener noticing.      *)
THEOREM CommitsDisconnectNothing == Spec /\ "parameter" \notin calls => CommitsKeepConnections
<1>1. HeardInv /\ [Next]_vars =>
        (BeginCommit \/ (\E k \in Own : Evaluate(k)) \/ EndCommit => UNCHANGED connected)
  <2>. SUFFICES ASSUME HeardInv, [Next]_vars
       PROVE  BeginCommit \/ (\E k \in Own : Evaluate(k)) \/ EndCommit => UNCHANGED connected
    OBVIOUS
  <2>1. EdgesInv'
    BY NextEdges DEF HeardInv
  <2>. QED  BY <2>1, BeginCommitHeard, EvaluateHeard, EndCommitHeard
<1>. QED  BY <1>1, ConnectionsKept, PTL DEF Spec, CommitsKeepConnections
=============================================================================
