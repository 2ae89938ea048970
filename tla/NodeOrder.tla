------------------------------ MODULE NodeOrder -----------------------------
(***************************************************************************)
(* Graph::calculate_node_order: the order in which the nodes of a graph    *)
(* are run (knaster_graph: graph.rs).                                      *)
(*                                                                         *)
(* For every output of the graph the walk of get_deepest_output_node goes  *)
(* from its source towards the outputs and the last output node that it    *)
(* meets becomes a root.  depth_first_search then runs from all the roots, *)
(* which lie on its stack from the start, and what it has not reached is   *)
(* appended in the order of the keys.                                      *)
(*                                                                         *)
(* The edges do not change: `inputs`, `params` and `outputs` are           *)
(* node_input_edges, node_parameter_edges and output_edges as lists of     *)
(* sources.  Keys are numbers, in the order in which a slot map visits     *)
(* them.                                                                   *)
(***************************************************************************)
EXTENDS Naturals, Sequences

CONSTANTS
  NumNodes,       \* the nodes are numbered 1..NumNodes
  Inputs,         \* the lists of input edges that a node may have
  Params,         \* the lists of parameter edges that a node may have
  Outputs         \* the lists of edges that the outputs of the graph may have

Node == 1..NumNodes
None == 0                       \* no edge, or an edge from a graph input
Source == Node \cup {None}

ASSUME NodesAssumption == NumNodes \in Nat
ASSUME EdgesAssumption ==
  /\ Inputs \subseteq Seq(Source)
  /\ Params \subseteq Seq(Source)
  /\ Outputs \subseteq Seq(Source)

VARIABLES
  inputs, params, outputs,
  feedback,           \* the sinks of feedback connections
  pending,            \* the nodes that are pending removal: no edge names them
  phase,              \* which of the loops is running
  channel,            \* the graph output that is being looked at
  last,               \* last_connected_node_index
  deepest,            \* last_connected_output_node_index
  visited,
  nodes_to_process,
  node_order,
  disconnected_nodes,
  roots               \* history: nodes_to_process as the search begins

edges == <<inputs, params, outputs, feedback, pending>>
walk  == <<channel, last, deepest>>
vars  == <<edges, walk, phase, visited, nodes_to_process, node_order, disconnected_nodes, roots>>

-----------------------------------------------------------------------------
SourcesIn(list) == {list[i] : i \in DOMAIN list} \ {None}

OutputNodes == SourcesIn(outputs)
UnplacedOrPending == Node \ (visited \cup disconnected_nodes)  \* mutant: pending nodes too
Unplaced == (Node \ pending) \ (visited \cup disconnected_nodes)
NodesIn(seq) == {seq[i] : i \in DOMAIN seq}

(* The sources that the search follows from a node, in the order in which  *)
(* it looks for the first that is not visited.                             *)
InputsOnly(k) == IF k \in feedback THEN <<>> ELSE inputs[k]     \* mutant: not the parameters

Direct(k) == (IF k \in feedback THEN <<>> ELSE inputs[k]) \o params[k]

(* Direct edges never make a circle of inputs (has_path); the parameter    *)
(* edges are not checked.                                                  *)
InputsAcyclic ==
  \E rank \in [Node -> Node] :
     \A k \in Node : \A s \in SourcesIn(inputs[k]) : rank[s] < rank[k]

NoEdgeNames(nodes) ==
  /\ \A k \in Node : (SourcesIn(inputs[k]) \cup SourcesIn(params[k])) \cap nodes = {}
  /\ \A k \in nodes : inputs[k] = <<>> /\ params[k] = <<>>
  /\ OutputNodes \cap nodes = {}

Init ==
  /\ inputs \in [Node -> Inputs]
  /\ InputsAcyclic
  /\ params \in [Node -> Params]
  /\ outputs \in Outputs
  /\ feedback \in SUBSET {k \in Node : Len(inputs[k]) = 1}
  /\ OutputNodes \cap feedback = {}
  /\ \A k \in Node : (SourcesIn(inputs[k]) \cup SourcesIn(params[k])) \cap feedback = {}
  /\ pending \in SUBSET Node
  /\ NoEdgeNames(pending)
  /\ phase = "outputs"
  /\ channel = 1
  /\ last = None
  /\ deepest = None
  /\ visited = {}
  /\ nodes_to_process = <<>>
  /\ node_order = <<>>
  /\ disconnected_nodes = {}
  /\ roots = <<>>

-----------------------------------------------------------------------------
(* The loop over the outputs of the graph. *)
AnyOutput(c) == TRUE                    \* mutant: the outputs without a source too

IsConnected(c) == outputs[c] # None

SkipOutput ==
  /\ phase = "outputs"
  /\ channel <= Len(outputs)
  /\ ~IsConnected(channel)
  /\ channel' = channel + 1
  /\ UNCHANGED <<edges, last, deepest, phase, visited, nodes_to_process, node_order,
                 disconnected_nodes, roots>>

StartWalk ==
  /\ phase = "outputs"
  /\ channel <= Len(outputs)
  /\ IsConnected(channel)
  /\ last' = outputs[channel]
  /\ deepest' = outputs[channel]
  /\ phase' = "walk"
  /\ UNCHANGED <<edges, channel, visited, nodes_to_process, node_order, disconnected_nodes, roots>>

(* get_deepest_output_node: to the first node, in the order of the keys,   *)
(* that `last` is an input of.                                             *)
ConsumersByParameter ==                 \* mutant: along the parameter edges too
  IF last \in visited THEN {} ELSE {k \in Node : last \in SourcesIn(inputs[k] \o params[k])}

Consumers == IF last \in visited THEN {} ELSE {k \in Node : last \in SourcesIn(inputs[k])}

WalkOn(k) ==
  /\ phase = "walk"
  /\ k \in Consumers
  /\ \A other \in Consumers : k <= other
  /\ last' = k
  /\ deepest' = IF k \in OutputNodes THEN k ELSE deepest
  /\ UNCHANGED <<edges, channel, phase, visited, nodes_to_process, node_order,
                 disconnected_nodes, roots>>

Deepest == deepest

PushDeepest ==
  /\ phase = "walk"
  /\ Consumers = {}
  /\ IF Deepest \in visited
     THEN UNCHANGED <<visited, nodes_to_process>>
     ELSE /\ visited' = visited \cup {Deepest}
          /\ nodes_to_process' = Append(nodes_to_process, Deepest)
  /\ channel' = channel + 1
  /\ phase' = "outputs"
  /\ UNCHANGED <<edges, last, deepest, node_order, disconnected_nodes, roots>>

BeginSearch ==
  /\ phase = "outputs"
  /\ channel > Len(outputs)
  /\ phase' = "search"
  /\ roots' = nodes_to_process
  /\ UNCHANGED <<edges, walk, visited, nodes_to_process, node_order, disconnected_nodes>>

(* depth_first_search: the last node of the stack, its first source that   *)
(* is not visited, or nothing left to visit before it.                     *)
Top == nodes_to_process[Len(nodes_to_process)]

PushSource(s) ==
  /\ phase = "search"
  /\ nodes_to_process # <<>>
  /\ \E i \in DOMAIN Direct(Top) :
        /\ s = Direct(Top)[i]
        /\ s \notin visited \cup {None}
        /\ \A j \in 1..(i - 1) : Direct(Top)[j] \in visited \cup {None}
  /\ visited' = visited \cup {s}
  /\ nodes_to_process' = Append(nodes_to_process, s)
  /\ UNCHANGED <<edges, walk, phase, node_order, disconnected_nodes, roots>>

PopNode ==
  /\ phase = "search"
  /\ nodes_to_process # <<>>
  /\ SourcesIn(Direct(Top)) \subseteq visited
  /\ node_order' = Append(node_order, Top)
  /\ nodes_to_process' = SubSeq(nodes_to_process, 1, Len(nodes_to_process) - 1)
  /\ UNCHANGED <<edges, walk, phase, visited, disconnected_nodes, roots>>

EndSearch ==
  /\ phase = "search"
  /\ nodes_to_process = <<>>
  /\ phase' = "rest"
  /\ UNCHANGED <<edges, walk, visited, nodes_to_process, node_order, disconnected_nodes, roots>>

(* The remaining nodes, in the order of the keys. *)
AddRemaining(k) ==
  /\ phase = "rest"
  /\ k \in Unplaced
  /\ \A other \in Unplaced : k <= other
  /\ node_order' = Append(node_order, k)
  /\ disconnected_nodes' = disconnected_nodes \cup {k}
  /\ UNCHANGED <<edges, walk, phase, visited, nodes_to_process, roots>>

Finish ==
  /\ phase = "rest"
  /\ Unplaced = {}
  /\ phase' = "done"
  /\ UNCHANGED <<edges, walk, visited, nodes_to_process, node_order, disconnected_nodes, roots>>

Next ==
  \/ SkipOutput \/ StartWalk \/ PushDeepest \/ BeginSearch
  \/ \E k \in Node : WalkOn(k) \/ PushSource(k) \/ AddRemaining(k)
  \/ PopNode \/ EndSearch \/ Finish

Spec == Init /\ [][Next]_vars
FairSpec == Spec /\ WF_vars(Next)

-----------------------------------------------------------------------------
(***************************************************************************)
(* Properties.                                                             *)
(***************************************************************************)
TypeOK ==
  /\ inputs \in [Node -> Seq(Source)]
  /\ params \in [Node -> Seq(Source)]
  /\ outputs \in Seq(Source)
  /\ feedback \subseteq Node
  /\ pending \subseteq Node
  /\ phase \in {"outputs", "walk", "search", "rest", "done"}
  /\ channel \in Nat \ {0}
  /\ last \in Source
  /\ deepest \in Source
  /\ visited \subseteq Node
  /\ nodes_to_process \in Seq(Node)
  /\ node_order \in Seq(Node)
  /\ disconnected_nodes \subseteq Node
  /\ roots \in Seq(Node)

(* What must have run in the same block before a node does. *)
Needs(k) == (IF k \in feedback THEN {} ELSE SourcesIn(inputs[k])) \cup SourcesIn(params[k])

Before(s, k) ==
  \E i, j \in DOMAIN node_order : i < j /\ node_order[i] = s /\ node_order[j] = k

(* Every node that is not pending removal is run exactly once in a block,  *)
(* and no other node is: a task made twice would take its UGen twice.      *)
EachOnce ==
  phase = "done" =>
    /\ NodesIn(node_order) = Node \ pending
    /\ \A i, j \in DOMAIN node_order : node_order[i] = node_order[j] => i = j

(* A node that is reached runs after all its sources, if some ranking of   *)
(* the nodes agrees with the edges and puts every root above the roots     *)
(* that were pushed after it.  With one root any acyclic graph will do.    *)
Ranks(rank) == \A k \in visited : \A s \in Needs(k) : rank[s] < rank[k]
RanksRoots(rank) == \A i, j \in DOMAIN roots : i < j => rank[roots[j]] < rank[roots[i]]
SearchOrder ==
  phase \in {"rest", "done"} =>
    \A rank \in [Node -> Node] : Ranks(rank) /\ RanksRoots(rank) =>
       \A k \in visited : \A s \in Needs(k) : Before(s, k)

(* "Direct edges determine node order" (Graph), and "we need to make sure  *)
(* to start with the deepest output nodes only" (calculate_node_order): of *)
(* the nodes that reach an output, each runs after its sources.            *)
Acyclic == \E rank \in [Node -> Node] : \A k \in Node : \A s \in Needs(k) : rank[s] < rank[k]
DirectEdgesOrder ==
  phase = "done" /\ Acyclic =>
     \A k \in visited : \A s \in Needs(k) : Before(s, k)

(* The walks and the search come to an end, also when parameter edges make *)
(* a circle, and whatever the walks chose as roots, the search has reached *)
(* every output node: none is left to the nodes that are in no order.      *)
Terminates == <>(phase = "done" /\ OutputNodes \subseteq visited)
=============================================================================
