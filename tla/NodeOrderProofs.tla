--------------------------- MODULE NodeOrderProofs --------------------------
(***************************************************************************)
(* Proofs about NodeOrder, for every number of nodes and every set of      *)
(* edges.                                                                  *)
(*                                                                         *)
(* The search keeps its stack below the ranking: every node on it was      *)
(* pushed because a node under it needs it.  A node is therefore popped    *)
(* only when what it needs has left the stack before it, and what has left *)
(* the stack is in the order.                                              *)
(***************************************************************************)
EXTENDS NodeOrder, SequenceTheorems, TLAPS

Searching == phase \in {"search", "rest", "done"}

(* Every node is in one place: still to be visited, on the stack, in the   *)
(* order.                                                                  *)
Distinct(seq) == \A i, j \in DOMAIN seq : seq[i] = seq[j] => i = j

OnePlace ==
  /\ NodesIn(nodes_to_process) \cup NodesIn(node_order) = visited \cup disconnected_nodes
  /\ NodesIn(nodes_to_process) \cap NodesIn(node_order) = {}
  /\ visited \cap disconnected_nodes = {}
  /\ Distinct(nodes_to_process) /\ Distinct(node_order)

(* A pending node is nowhere. *)
PendingUnseen ==
  /\ NoEdgeNames(pending)
  /\ phase = "walk" => last \in Node \ pending /\ deepest \in Node \ pending
  /\ (visited \cup disconnected_nodes) \cap pending = {}

PhaseOK ==
  /\ ~ Searching => node_order = <<>>
  /\ phase \in {"rest", "done"} => nodes_to_process = <<>>
  /\ phase \notin {"rest", "done"} => disconnected_nodes = {}
  /\ phase = "done" => Unplaced = {}

(* The stack falls with the ranking, and what is in the order has what it  *)
(* needs before it.                                                        *)
Falling(rank) ==
  \A i, j \in DOMAIN nodes_to_process :
     i < j => rank[nodes_to_process[j]] < rank[nodes_to_process[i]]

NeedsMet ==
  \A k \in NodesIn(node_order) \ disconnected_nodes : \A s \in Needs(k) : Before(s, k)

Ranked ==
  Searching =>
    \A rank \in [Node -> Node] : Ranks(rank) /\ RanksRoots(rank) => Falling(rank) /\ NeedsMet

OrderInv == TypeOK /\ OnePlace /\ PendingUnseen /\ PhaseOK /\ Ranked

-----------------------------------------------------------------------------
(* Appending to a sequence, and taking its last element away.              *)
LEMMA AppendNodes ==
  ASSUME NEW seq \in Seq(Node), NEW k \in Node
  PROVE  /\ Append(seq, k) \in Seq(Node)
         /\ NodesIn(Append(seq, k)) = NodesIn(seq) \cup {k}
         /\ Distinct(seq) /\ k \notin NodesIn(seq) => Distinct(Append(seq, k))
<1> DEFINE new == Append(seq, k)
<1>1. /\ new \in Seq(Node)
      /\ Len(new) = Len(seq) + 1
      /\ \A i \in 1..Len(seq) : new[i] = seq[i]
      /\ new[Len(seq) + 1] = k
      /\ DOMAIN new = 1..(Len(seq) + 1)
      /\ DOMAIN seq = 1..Len(seq)
      /\ Len(seq) \in Nat
  OBVIOUS
<1> HIDE DEF new
<1>2. NodesIn(new) = NodesIn(seq) \cup {k}
  BY <1>1 DEF NodesIn
<1>3. ASSUME Distinct(seq), k \notin NodesIn(seq) PROVE Distinct(new)
  BY <1>1, <1>3 DEF NodesIn, Distinct
<1> QED BY <1>1, <1>2, <1>3 DEF new

Below(seq) == SubSeq(seq, 1, Len(seq) - 1)

LEMMA FrontNodes ==
  ASSUME NEW seq \in Seq(Node), seq # <<>>
  PROVE  /\ Len(seq) \in Nat \ {0} /\ DOMAIN seq = 1..Len(seq)
         /\ seq[Len(seq)] \in Node
         /\ Below(seq) \in Seq(Node)
         /\ DOMAIN Below(seq) = 1..(Len(seq) - 1)
         /\ \A i \in DOMAIN Below(seq) : Below(seq)[i] = seq[i]
         /\ NodesIn(seq) = NodesIn(Below(seq)) \cup {seq[Len(seq)]}
         /\ Distinct(seq) => Distinct(Below(seq)) /\ seq[Len(seq)] \notin NodesIn(Below(seq))
<1> DEFINE front == Below(seq)
<1>1. Len(seq) \in Nat \ {0} /\ DOMAIN seq = 1..Len(seq) /\ seq[Len(seq)] \in Node
  OBVIOUS
<1>2. /\ front \in Seq(Node)
      /\ DOMAIN front = 1..(Len(seq) - 1)
      /\ \A i \in DOMAIN front : front[i] = seq[i]
  BY <1>1 DEF Below
<1> HIDE DEF front
<1>3. NodesIn(seq) = NodesIn(front) \cup {seq[Len(seq)]}
  <2>1. \A i \in DOMAIN seq : i = Len(seq) \/ (i \in DOMAIN front /\ front[i] = seq[i])
    BY <1>1, <1>2
  <2>2. Len(seq) \in DOMAIN seq /\ \A i \in DOMAIN front : i \in DOMAIN seq /\ front[i] = seq[i]
    BY <1>1, <1>2
  <2> QED BY <2>1, <2>2, Zenon DEF NodesIn
<1>4. Distinct(seq) => Distinct(front) /\ seq[Len(seq)] \notin NodesIn(front)
  BY <1>1, <1>2 DEF NodesIn, Distinct
<1> QED BY <1>1, <1>2, <1>3, <1>4 DEF front

(* What the search follows from a node is what the node needs. *)
LEMMA DirectNeeds ==
  ASSUME TypeOK, NEW k \in Node
  PROVE  Direct(k) \in Seq(Source) /\ SourcesIn(Direct(k)) = Needs(k) /\ Needs(k) \subseteq Node
<1> DEFINE own == IF k \in feedback THEN <<>> ELSE inputs[k]
           two == own \o params[k]
<1>1. own \in Seq(Source) /\ params[k] \in Seq(Source)
  BY DEF TypeOK
<1> HIDE DEF own
<1>2. /\ two \in Seq(Source)
      /\ DOMAIN two = 1..(Len(own) + Len(params[k]))
      /\ \A i \in 1..Len(own) : two[i] = own[i]
      /\ \A i \in 1..Len(params[k]) : two[Len(own) + i] = params[k][i]
      /\ Len(own) \in Nat /\ Len(params[k]) \in Nat
      /\ DOMAIN own = 1..Len(own) /\ DOMAIN params[k] = 1..Len(params[k])
  BY <1>1
<1> HIDE DEF two
<1>3. ASSUME NEW i \in DOMAIN two
      PROVE  \/ \E j \in DOMAIN own : two[i] = own[j]
             \/ \E j \in DOMAIN params[k] : two[i] = params[k][j]
  <2>1. CASE i <= Len(own)
    BY <1>2, <2>1
  <2>2. CASE i > Len(own)
    <3>1. i - Len(own) \in 1..Len(params[k]) /\ i = Len(own) + (i - Len(own))
      BY <1>2, <2>2
    <3> QED BY <1>2, <3>1
  <2> QED BY <1>2, <2>1, <2>2
<1>4. \A j \in DOMAIN own : j \in DOMAIN two /\ two[j] = own[j]
  BY <1>2
<1>5. \A j \in DOMAIN params[k] : Len(own) + j \in DOMAIN two /\ two[Len(own) + j] = params[k][j]
  BY <1>2
<1>6. SourcesIn(two) = SourcesIn(own) \cup SourcesIn(params[k])
  BY <1>3, <1>4, <1>5 DEF SourcesIn
<1>7. SourcesIn(own) = IF k \in feedback THEN {} ELSE SourcesIn(inputs[k])
  BY DEF own, SourcesIn
<1>8. SourcesIn(two) \subseteq Node
  BY <1>2 DEF SourcesIn, Source
<1>9. two = Direct(k)
  BY DEF two, own, Direct
<1> QED BY <1>2, <1>6, <1>7, <1>8, <1>9 DEF Needs
-----------------------------------------------------------------------------
LEMMA InitOrderInv == Init => OrderInv
<1> SUFFICES ASSUME Init PROVE OrderInv
  OBVIOUS
<1>1. TypeOK
  BY EdgesAssumption DEF Init, TypeOK, None, Source
<1>2. OnePlace /\ PendingUnseen /\ PhaseOK /\ Ranked
  BY DEF Init, OnePlace, PendingUnseen, PhaseOK, Ranked, Searching, NodesIn, Distinct
<1> QED BY <1>1, <1>2 DEF OrderInv

(* Every step keeps the types. *)
LEMMA OrderTypeStep == OrderInv /\ [Next]_vars => TypeOK'
<1> SUFFICES ASSUME OrderInv, [Next]_vars PROVE TypeOK'
  OBVIOUS
<1> USE DEF TypeOK, edges, walk
<1>t. TypeOK
  BY DEF OrderInv
<1>1. CASE SkipOutput
  BY <1>t, <1>1 DEF SkipOutput
<1>2. CASE StartWalk
  <2>1. outputs[channel] \in Source
    BY <1>t, <1>2 DEF StartWalk
  <2> QED BY <1>t, <1>2, <2>1 DEF StartWalk
<1>3. CASE PushDeepest
  <2>1. deepest \in Node
    BY <1>3 DEF PushDeepest, OrderInv, PendingUnseen
  <2>2. Append(nodes_to_process, deepest) \in Seq(Node)
    BY <1>t, <2>1
  <2>3. CASE Deepest \in visited
    BY <1>t, <1>3, <2>3 DEF PushDeepest
  <2>4. CASE Deepest \notin visited
    <3>1. /\ visited' = visited \cup {deepest}
          /\ nodes_to_process' = Append(nodes_to_process, deepest)
      BY <1>3, <2>4 DEF PushDeepest, Deepest
    <3> QED BY <1>t, <1>3, <2>1, <2>2, <3>1 DEF PushDeepest
  <2> QED BY <2>3, <2>4
<1>4. CASE BeginSearch
  BY <1>t, <1>4 DEF BeginSearch
<1>5. ASSUME NEW k \in Node, WalkOn(k) PROVE TypeOK'
  BY <1>t, <1>5 DEF WalkOn, Source
<1>6. ASSUME NEW k \in Node, PushSource(k) PROVE TypeOK'
  <2>1. Append(nodes_to_process, k) \in Seq(Node)
    BY <1>t
  <2> QED BY <1>t, <1>6, <2>1 DEF PushSource
<1>7. ASSUME NEW k \in Node, AddRemaining(k) PROVE TypeOK'
  <2>1. Append(node_order, k) \in Seq(Node)
    BY <1>t
  <2> QED BY <1>t, <1>7, <2>1 DEF AddRemaining
<1>8. CASE PopNode
  <2>1. /\ Top \in Node
        /\ SubSeq(nodes_to_process, 1, Len(nodes_to_process) - 1) \in Seq(Node)
    BY <1>t, <1>8, FrontNodes DEF PopNode, Top, Below
  <2>2. Append(node_order, Top) \in Seq(Node)
    BY <1>t, <2>1
  <2> QED BY <1>t, <1>8, <2>1, <2>2 DEF PopNode
<1>9. CASE EndSearch
  BY <1>t, <1>9 DEF EndSearch
<1>10. CASE Finish
  BY <1>t, <1>10 DEF Finish
<1>11. CASE UNCHANGED vars
  BY <1>t, <1>11 DEF vars
<1> QED BY <1>1, <1>2, <1>3, <1>4, <1>5, <1>6, <1>7, <1>8, <1>9, <1>10, <1>11 DEF Next
(* Every step keeps each node in one place, and the pending nodes nowhere. *)
LEMMA PendingStep == OrderInv /\ [Next]_vars => PendingUnseen'
<1> SUFFICES ASSUME OrderInv, [Next]_vars PROVE PendingUnseen'
  OBVIOUS
<1> USE DEF PendingUnseen, edges, walk
<1>t. TypeOK /\ PendingUnseen
  BY DEF OrderInv
<1>e. UNCHANGED edges
  BY DEF Next, vars, SkipOutput, StartWalk, PushDeepest, BeginSearch, WalkOn, PushSource,
         AddRemaining, PopNode, EndSearch, Finish
<1>n. NoEdgeNames(pending)'
  BY <1>t, <1>e DEF NoEdgeNames, OutputNodes
<1>1. CASE SkipOutput
  BY <1>t, <1>n, <1>1 DEF SkipOutput
<1>2. CASE StartWalk
  <2>1. outputs[channel] \in Node \ pending
    <3>1. channel \in DOMAIN outputs /\ outputs[channel] \in Source /\ outputs[channel] # None
      BY <1>t, <1>2 DEF StartWalk, TypeOK, IsConnected
    <3>2. outputs[channel] \in OutputNodes
      BY <3>1 DEF OutputNodes, SourcesIn
    <3> QED BY <1>t, <3>1, <3>2 DEF NoEdgeNames, Source
  <2> QED BY <1>t, <1>n, <1>2, <2>1 DEF StartWalk
<1>3. CASE PushDeepest
  BY <1>t, <1>n, <1>3 DEF PushDeepest, Deepest
<1>4. CASE BeginSearch
  BY <1>t, <1>n, <1>4 DEF BeginSearch
<1>5. ASSUME NEW k \in Node, WalkOn(k) PROVE PendingUnseen'
  <2>1. last \in SourcesIn(inputs[k])
    BY <1>5 DEF WalkOn, Consumers
  <2>2. k \notin pending
    BY <2>1, <1>t DEF NoEdgeNames, SourcesIn
  <2> QED BY <1>t, <1>n, <1>5, <2>2 DEF WalkOn
<1>6. ASSUME NEW k \in Node, PushSource(k) PROVE PendingUnseen'
  <2>1. nodes_to_process # <<>> /\ Top \in Node /\ k \in SourcesIn(Direct(Top))
    BY <1>t, <1>6, FrontNodes DEF PushSource, Top, SourcesIn, TypeOK
  <2>2. k \in Needs(Top)
    BY <1>t, <2>1, DirectNeeds
  <2>3. k \notin pending
    BY <1>t, <2>1, <2>2 DEF Needs, NoEdgeNames
  <2> QED BY <1>t, <1>n, <1>6, <2>3 DEF PushSource
<1>7. ASSUME NEW k \in Node, AddRemaining(k) PROVE PendingUnseen'
  BY <1>t, <1>n, <1>7 DEF AddRemaining, Unplaced
<1>8. CASE PopNode
  BY <1>t, <1>n, <1>8 DEF PopNode
<1>9. CASE EndSearch
  BY <1>t, <1>n, <1>9 DEF EndSearch
<1>10. CASE Finish
  BY <1>t, <1>n, <1>10 DEF Finish
<1>11. CASE UNCHANGED vars
  BY <1>t, <1>n, <1>11 DEF vars
<1> QED BY <1>1, <1>2, <1>3, <1>4, <1>5, <1>6, <1>7, <1>8, <1>9, <1>10, <1>11 DEF Next

LEMMA OnePlaceStep == OrderInv /\ [Next]_vars => OnePlace' /\ PhaseOK'
<1> SUFFICES ASSUME OrderInv, [Next]_vars PROVE OnePlace' /\ PhaseOK'
  OBVIOUS
<1> USE DEF OnePlace, PhaseOK, Searching, edges, walk
<1>t. TypeOK /\ OnePlace /\ PhaseOK /\ PendingUnseen
  BY DEF OrderInv
<1>1. CASE SkipOutput
  BY <1>t, <1>1 DEF SkipOutput
<1>2. CASE StartWalk
  BY <1>t, <1>2 DEF StartWalk
<1>3. CASE PushDeepest
  <2>1. CASE Deepest \in visited
    BY <1>t, <1>3, <2>1 DEF PushDeepest
  <2>2. CASE Deepest \notin visited
    <3>1. /\ visited' = visited \cup {deepest}
          /\ nodes_to_process' = Append(nodes_to_process, deepest)
          /\ deepest \notin visited
          /\ UNCHANGED <<node_order, disconnected_nodes>>
          /\ phase = "walk" /\ phase' = "outputs"
      BY <1>3, <2>2 DEF PushDeepest, Deepest
    <3>2. deepest \in Node
      BY <1>t, <3>1 DEF PendingUnseen
    <3>3. /\ NodesIn(nodes_to_process') = NodesIn(nodes_to_process) \cup {deepest}
          /\ deepest \notin NodesIn(nodes_to_process) => Distinct(nodes_to_process')
      BY <1>t, <3>1, <3>2, AppendNodes DEF TypeOK
    <3> QED BY <1>t, <3>1, <3>2, <3>3 DEF TypeOK
  <2> QED BY <2>1, <2>2
<1>4. CASE BeginSearch
  BY <1>t, <1>4 DEF BeginSearch
<1>5. ASSUME NEW k \in Node, WalkOn(k) PROVE OnePlace' /\ PhaseOK'
  BY <1>t, <1>5 DEF WalkOn
<1>6. ASSUME NEW k \in Node, PushSource(k) PROVE OnePlace' /\ PhaseOK'
  <2>1. /\ visited' = visited \cup {k}
        /\ nodes_to_process' = Append(nodes_to_process, k)
        /\ k \notin visited
        /\ UNCHANGED <<node_order, disconnected_nodes, phase>>
        /\ phase = "search"
    BY <1>6 DEF PushSource
  <2>2. /\ NodesIn(nodes_to_process') = NodesIn(nodes_to_process) \cup {k}
        /\ k \notin NodesIn(nodes_to_process) => Distinct(nodes_to_process')
    BY <1>t, <2>1, AppendNodes DEF TypeOK
  <2> QED BY <1>t, <2>1, <2>2
<1>7. ASSUME NEW k \in Node, AddRemaining(k) PROVE OnePlace' /\ PhaseOK'
  <2>1. /\ disconnected_nodes' = disconnected_nodes \cup {k}
        /\ node_order' = Append(node_order, k)
        /\ k \notin visited \cup disconnected_nodes
        /\ UNCHANGED <<nodes_to_process, visited, phase>>
        /\ phase = "rest"
    BY <1>7 DEF AddRemaining, Unplaced
  <2>2. /\ NodesIn(node_order') = NodesIn(node_order) \cup {k}
        /\ k \notin NodesIn(node_order) => Distinct(node_order')
    BY <1>t, <2>1, AppendNodes DEF TypeOK
  <2>3. NodesIn(nodes_to_process) = {}
    BY <1>t, <2>1 DEF NodesIn
  <2> QED BY <1>t, <2>1, <2>2, <2>3
<1>8. CASE PopNode
  <2>1. /\ nodes_to_process # <<>>
        /\ nodes_to_process' = SubSeq(nodes_to_process, 1, Len(nodes_to_process) - 1)
        /\ node_order' = Append(node_order, Top)
        /\ UNCHANGED <<visited, disconnected_nodes, phase>>
        /\ phase = "search"
    BY <1>8 DEF PopNode
  <2>2. /\ Top \in Node
        /\ NodesIn(nodes_to_process) = NodesIn(nodes_to_process') \cup {Top}
        /\ Distinct(nodes_to_process) => /\ Distinct(nodes_to_process')
                                         /\ Top \notin NodesIn(nodes_to_process')
    <3>1. nodes_to_process \in Seq(Node) /\ Top = nodes_to_process[Len(nodes_to_process)]
      BY <1>t DEF TypeOK, Top
    <3>0. nodes_to_process' = Below(nodes_to_process)
      BY <2>1 DEF Below
    <3>2. /\ nodes_to_process[Len(nodes_to_process)] \in Node
          /\ NodesIn(nodes_to_process)
               = NodesIn(nodes_to_process') \cup {nodes_to_process[Len(nodes_to_process)]}
          /\ Distinct(nodes_to_process) =>
               /\ Distinct(nodes_to_process')
               /\ nodes_to_process[Len(nodes_to_process)] \notin NodesIn(nodes_to_process')
      <4> HIDE DEF OnePlace, PhaseOK, Searching
      <4> DEFINE below == Below(nodes_to_process)
      <4>1. /\ nodes_to_process[Len(nodes_to_process)] \in Node
            /\ NodesIn(nodes_to_process)
                 = NodesIn(below) \cup {nodes_to_process[Len(nodes_to_process)]}
        BY <2>1, <3>1, FrontNodes
      <4>2. Distinct(nodes_to_process) =>
               /\ Distinct(below)
               /\ nodes_to_process[Len(nodes_to_process)] \notin NodesIn(below)
        BY <2>1, <3>1, FrontNodes, Zenon
      <4> HIDE DEF below
      <4>3. nodes_to_process' = below
        BY <3>0 DEF below
      <4> QED BY <4>1, <4>2, <4>3
    <3> QED BY <3>1, <3>2
  <2>3. /\ NodesIn(node_order') = NodesIn(node_order) \cup {Top}
        /\ Top \notin NodesIn(node_order) => Distinct(node_order')
    BY <1>t, <2>1, <2>2, AppendNodes DEF TypeOK
  <2> QED BY <1>t, <2>1, <2>2, <2>3
<1>9. CASE EndSearch
  BY <1>t, <1>9 DEF EndSearch
<1>10. CASE Finish
  BY <1>t, <1>10 DEF Finish, Unplaced
<1>11. CASE UNCHANGED vars
  BY <1>t, <1>11 DEF vars, Unplaced
<1> QED BY <1>1, <1>2, <1>3, <1>4, <1>5, <1>6, <1>7, <1>8, <1>9, <1>10, <1>11 DEF Next
LEMMA RankNat ==
  ASSUME NEW rank \in [Node -> Node], NEW k \in Node
  PROVE  rank[k] \in Nat
BY NodesAssumption DEF Node

(* The steps of the search keep the stack falling and the needs met. *)
LEMMA PushRanked ==
  ASSUME OrderInv, NEW k \in Node, PushSource(k),
         NEW rank \in [Node -> Node], Ranks(rank), Falling(rank), NeedsMet
  PROVE  Falling(rank)' /\ NeedsMet'
<1>1. /\ nodes_to_process \in Seq(Node) /\ nodes_to_process # <<>>
      /\ nodes_to_process' = Append(nodes_to_process, k)
      /\ UNCHANGED <<inputs, params, feedback, node_order, disconnected_nodes>>
  BY DEF OrderInv, TypeOK, PushSource, edges
<1>2. Top \in Node /\ Top \in visited /\ rank[k] < rank[Top]
  <2>1. Top \in Node /\ Len(nodes_to_process) \in DOMAIN nodes_to_process
    BY <1>1, FrontNodes DEF Top
  <2>2. Top \in visited
    <3>1. Top \in NodesIn(nodes_to_process)
      BY <2>1 DEF Top, NodesIn
    <3>2. disconnected_nodes = {}
      BY DEF OrderInv, PhaseOK, PushSource
    <3> QED BY <3>1, <3>2 DEF OrderInv, OnePlace
  <2>3. k \in SourcesIn(Direct(Top))
    BY DEF PushSource, SourcesIn, None
  <2>4. k \in Needs(Top)
    BY <2>1, <2>3, DirectNeeds DEF OrderInv
  <2> QED BY <2>1, <2>2, <2>4 DEF Ranks
<1>3. Falling(rank)'
  <2> DEFINE stack == nodes_to_process
             n == Len(stack)
  <2>1. /\ n \in Nat \ {0} /\ DOMAIN stack = 1..n
        /\ DOMAIN stack' = 1..(n + 1)
        /\ \A i \in 1..n : stack'[i] = stack[i] /\ stack[i] \in Node
        /\ stack'[n + 1] = k
    BY <1>1
  <2>3. \A i, j \in 1..n : i < j => rank[stack[j]] < rank[stack[i]]
    BY <2>1 DEF Falling
  <2>6. stack[n] = Top
    BY DEF Top
  <2> HIDE DEF n, stack
  <2>2. \A i \in 1..n : rank[k] < rank[stack[i]]
    <3> SUFFICES ASSUME NEW i \in 1..n PROVE rank[k] < rank[stack[i]]
      OBVIOUS
    <3>1. i = n \/ rank[stack[n]] < rank[stack[i]]
      <4>1. n \in 1..n /\ (i = n \/ i < n)
        BY <2>1
      <4> QED BY <4>1, <2>3
    <3>2. rank[stack[i]] \in Nat /\ rank[stack[n]] \in Nat /\ rank[k] \in Nat
      <4>1. stack[i] \in Node /\ stack[n] \in Node
        BY <2>1
      <4> QED BY <4>1, RankNat
    <3> QED BY <1>2, <2>6, <3>1, <3>2
  <2>4. \A i, j \in 1..(n + 1) : i < j => rank[stack'[j]] < rank[stack'[i]]
    BY <2>1, <2>2, <2>3
  <2> QED BY <2>1, <2>4 DEF Falling, stack
<1>4. NeedsMet'
  <2>1. /\ \A x : Needs(x)' = Needs(x)
        /\ \A s, x : Before(s, x)' = Before(s, x)
        /\ NodesIn(node_order') = NodesIn(node_order)
    BY <1>1 DEF Needs, Before
  <2> QED BY <1>1, <2>1 DEF NeedsMet
<1> QED BY <1>3, <1>4

LEMMA PopRanked ==
  ASSUME OrderInv, PopNode,
         NEW rank \in [Node -> Node], Ranks(rank), Falling(rank), NeedsMet
  PROVE  Falling(rank)' /\ NeedsMet'
<1> DEFINE stack == nodes_to_process
           n == Len(stack)
<1>1. /\ stack \in Seq(Node) /\ stack # <<>> /\ node_order \in Seq(Node)
      /\ stack' = Below(stack)
      /\ node_order' = Append(node_order, Top)
      /\ UNCHANGED <<inputs, params, feedback, disconnected_nodes>>
      /\ SourcesIn(Direct(Top)) \subseteq visited
      /\ disconnected_nodes = {}
  BY DEF OrderInv, TypeOK, PhaseOK, PopNode, edges, Below
<1>2. /\ n \in Nat \ {0} /\ DOMAIN stack = 1..n /\ Top \in Node
      /\ DOMAIN stack' = 1..(n - 1)
      /\ \A i \in DOMAIN stack' : stack'[i] = stack[i]
      /\ NodesIn(stack) = NodesIn(stack') \cup {Top}
  <2>1. Top = stack[Len(stack)]
    BY DEF Top
  <2> HIDE DEF stack
  <2>2. /\ Len(stack) \in Nat \ {0} /\ DOMAIN stack = 1..Len(stack)
        /\ stack[Len(stack)] \in Node
        /\ DOMAIN stack' = 1..(Len(stack) - 1)
        /\ \A i \in DOMAIN stack' : stack'[i] = stack[i]
        /\ NodesIn(stack) = NodesIn(stack') \cup {stack[Len(stack)]}
    BY <1>1, FrontNodes
  <2> QED BY <2>1, <2>2
<1>3. \A i, j \in 1..n : i < j => rank[stack[j]] < rank[stack[i]]
  BY <1>2 DEF Falling
<1>6. stack[n] = Top
  BY DEF Top
<1>7. Falling(rank)'
  <2> HIDE DEF n, stack
  <2>2. \A i, j \in 1..(n - 1) : i < j => rank[stack'[j]] < rank[stack'[i]]
    BY <1>2, <1>3
  <2> QED BY <1>2, <2>2 DEF Falling, stack
<1>4. \A s \in Needs(Top) : s \in NodesIn(node_order)
  <2> SUFFICES ASSUME NEW s \in Needs(Top) PROVE s \in NodesIn(node_order)
    OBVIOUS
  <2>1. s \in Node /\ s \in visited
    BY <1>1, <1>2, DirectNeeds DEF OrderInv
  <2>2. Top \in visited
    BY <1>1, <1>2 DEF OrderInv, OnePlace, stack
  <2>3. rank[s] < rank[Top]
    BY <1>2, <2>2 DEF Ranks
  <2>4. s \notin NodesIn(stack)
    <3> SUFFICES ASSUME NEW i \in 1..n, s = stack[i] PROVE FALSE
      BY <1>2 DEF NodesIn
    <3> HIDE DEF n, stack
    <3>1. i = n \/ rank[stack[n]] < rank[stack[i]]
      <4>1. n \in 1..n /\ (i = n \/ i < n)
        BY <1>2
      <4> QED BY <4>1, <1>3
    <3>2. rank[s] \in Nat /\ rank[Top] \in Nat
      BY <1>2, <2>1, RankNat
    <3> QED BY <1>6, <2>3, <3>1, <3>2
  <2> QED BY <1>1, <2>1, <2>4 DEF OrderInv, OnePlace, stack
<1>5. NeedsMet'
  <2>0. PICK top : top = Top
    OBVIOUS
  <2> DEFINE m == Len(node_order)
  <2>1. /\ m \in Nat /\ DOMAIN node_order = 1..m
        /\ DOMAIN node_order' = 1..(m + 1)
        /\ \A i \in 1..m : node_order'[i] = node_order[i]
        /\ node_order'[m + 1] = top
    BY <1>1, <2>0
  <2> HIDE DEF m, stack, n
  <2>2. ASSUME NEW k \in NodesIn(node_order) \ disconnected_nodes, NEW s \in Needs(k)
        PROVE  Before(s, k)'
    BY <2>1, <2>2 DEF NeedsMet, Before
  <2>3. ASSUME NEW s \in Needs(top) PROVE Before(s, top)'
    <3>1. PICK i \in 1..m : s = node_order[i]
      BY <1>4, <2>0, <2>1, <2>3 DEF NodesIn
    <3>2. i < m + 1 /\ i \in DOMAIN node_order' /\ m + 1 \in DOMAIN node_order'
      BY <2>1
    <3>3. m + 1 \in Nat /\ node_order'[i] = s /\ node_order'[m + 1] = top
      BY <2>1, <3>1
    <3> QED BY <3>2, <3>3, Zenon DEF Before
  <2>4. NodesIn(node_order') = NodesIn(node_order) \cup {top}
    BY <1>1, <1>2, <2>0, AppendNodes
  <2>5. \A k : Needs(k)' = Needs(k)
    BY <1>1 DEF Needs
  <2>6. ASSUME NEW k \in NodesIn(node_order') \ disconnected_nodes, NEW s \in Needs(k)
        PROVE  Before(s, k)'
    <3>1. CASE k = top
      BY <2>3, <2>6, <3>1
    <3>2. CASE k \in NodesIn(node_order) \ disconnected_nodes
      BY <2>2, <2>6, <3>2
    <3> QED BY <2>4, <2>6, <3>1, <3>2
  <2> QED BY <1>1, <2>5, <2>6 DEF NeedsMet
<1> QED BY <1>5, <1>7

LEMMA AddRanked ==
  ASSUME OrderInv, NEW k \in Node, AddRemaining(k), NeedsMet
  PROVE  NeedsMet'
<1> DEFINE m == Len(node_order)
<1>1. /\ node_order \in Seq(Node)
      /\ node_order' = Append(node_order, k)
      /\ disconnected_nodes' = disconnected_nodes \cup {k}
      /\ UNCHANGED <<inputs, params, feedback>>
  BY DEF OrderInv, TypeOK, AddRemaining, edges
<1>2. /\ m \in Nat /\ DOMAIN node_order = 1..m
      /\ DOMAIN node_order' = 1..(m + 1)
      /\ \A i \in 1..m : node_order'[i] = node_order[i]
      /\ NodesIn(node_order') = NodesIn(node_order) \cup {k}
  BY <1>1, AppendNodes
<1> HIDE DEF m
<1>3. \A x : Needs(x)' = Needs(x)
  BY <1>1 DEF Needs
<1> QED BY <1>1, <1>2, <1>3 DEF NeedsMet, Before

LEMMA RankedStep == OrderInv /\ [Next]_vars => Ranked'
<1> SUFFICES ASSUME OrderInv, [Next]_vars, Searching',
                    NEW rank \in [Node -> Node], Ranks(rank)', RanksRoots(rank)'
             PROVE  Falling(rank)' /\ NeedsMet'
  BY DEF Ranked
<1> USE DEF Searching, edges, walk
<1>t. TypeOK /\ PhaseOK /\ Ranked
  BY DEF OrderInv
<1>g. visited \subseteq visited' /\ UNCHANGED <<inputs, params, feedback>>
  BY DEF Next, vars, SkipOutput, StartWalk, PushDeepest, BeginSearch, WalkOn, PushSource,
         AddRemaining, PopNode, EndSearch, Finish
<1>r. Ranks(rank)
  BY <1>g DEF Ranks, Needs
<1>a. ASSUME Searching, UNCHANGED roots PROVE Falling(rank) /\ NeedsMet
  BY <1>t, <1>r, <1>a DEF Ranked, RanksRoots
<1>1. ASSUME NEW k \in Node, PushSource(k) PROVE Falling(rank)' /\ NeedsMet'
  BY <1>1, <1>a, <1>r, PushRanked DEF PushSource
<1>2. CASE PopNode
  BY <1>2, <1>a, <1>r, PopRanked DEF PopNode
<1>3. ASSUME NEW k \in Node, AddRemaining(k) PROVE Falling(rank)' /\ NeedsMet'
  <2>1. NeedsMet'
    BY <1>3, <1>a, AddRanked DEF AddRemaining
  <2>2. Falling(rank)'
    BY <1>3, <1>a DEF AddRemaining, Falling
  <2> QED BY <2>1, <2>2
<1>4. CASE BeginSearch
  <2>1. Falling(rank)'
    BY <1>4 DEF BeginSearch, RanksRoots, Falling
  <2>2. NeedsMet'
    BY <1>4, <1>t DEF BeginSearch, NeedsMet, NodesIn, PhaseOK
  <2> QED BY <2>1, <2>2
<1>5. CASE EndSearch \/ Finish \/ UNCHANGED vars
  <2>1. /\ Searching
        /\ UNCHANGED <<inputs, params, feedback, nodes_to_process, node_order,
                       disconnected_nodes, roots>>
    BY <1>5 DEF EndSearch, Finish, vars
  <2>2. Falling(rank) /\ NeedsMet
    BY <1>a, <2>1
  <2>3. Falling(rank)'
    BY <2>1, <2>2 DEF Falling
  <2>4. /\ \A x : Needs(x)' = Needs(x)
        /\ \A s, x : Before(s, x)' = Before(s, x)
        /\ NodesIn(node_order') = NodesIn(node_order)
    BY <2>1 DEF Needs, Before
  <2>5. NeedsMet'
    BY <2>1, <2>2, <2>4 DEF NeedsMet
  <2> QED BY <2>3, <2>5
<1>6. CASE SkipOutput \/ StartWalk \/ PushDeepest \/ \E k \in Node : WalkOn(k)
  BY <1>6 DEF SkipOutput, StartWalk, PushDeepest, WalkOn
<1> QED BY <1>1, <1>2, <1>3, <1>4, <1>5, <1>6 DEF Next

-----------------------------------------------------------------------------
(* The invariant of the calculation holds for every graph.                 *)
THEOREM OrderInvariance == Spec => []OrderInv
<1>1. OrderInv /\ [Next]_vars => OrderInv'
  BY OrderTypeStep, PendingStep, OnePlaceStep, RankedStep DEF OrderInv
<1> QED BY InitOrderInv, <1>1, PTL DEF Spec

(* The locals of calculate_node_order keep their types: the edges that it  *)
(* follows and the stack that it pops always name nodes.                   *)
THEOREM OrderTyped == Spec => []TypeOK
<1>1. OrderInv => TypeOK
  BY DEF OrderInv
<1> QED BY <1>1, OrderInvariance, PTL

(* calculate_node_order runs every node that is not pending removal        *)
(* exactly once.                                                           *)
THEOREM NodesRunOnce == Spec => []EachOnce
<1>1. OrderInv => EachOnce
  <2> SUFFICES ASSUME OrderInv, phase = "done"
               PROVE  /\ NodesIn(node_order) = Node \ pending
                      /\ \A i, j \in DOMAIN node_order : node_order[i] = node_order[j] => i = j
    BY DEF EachOnce
  <2>1. NodesIn(nodes_to_process) = {}
    BY DEF OrderInv, PhaseOK, NodesIn
  <2>2. NodesIn(node_order) = visited \cup disconnected_nodes
    BY <2>1 DEF OrderInv, OnePlace
  <2> QED BY <2>2 DEF OrderInv, OnePlace, PhaseOK, PendingUnseen, Unplaced, Distinct, TypeOK
<1> QED BY OrderInvariance, <1>1, PTL

(* A node that is reached from the roots runs after all it needs, whenever *)
(* the roots are in an order that some ranking of the nodes agrees with.   *)
THEOREM SearchIsOrdered == Spec => []SearchOrder
<1>1. OrderInv => SearchOrder
  <2> SUFFICES ASSUME OrderInv, phase \in {"rest", "done"},
                      NEW rank \in [Node -> Node], Ranks(rank), RanksRoots(rank),
                      NEW k \in visited, NEW s \in Needs(k)
               PROVE  Before(s, k)
    BY DEF SearchOrder
  <2>1. NeedsMet
    BY DEF OrderInv, Ranked, Searching
  <2>2. k \in NodesIn(node_order) \ disconnected_nodes
    BY DEF OrderInv, OnePlace, PhaseOK, NodesIn
  <2> QED BY <2>1, <2>2 DEF NeedsMet
<1> QED BY OrderInvariance, <1>1, PTL
=============================================================================
