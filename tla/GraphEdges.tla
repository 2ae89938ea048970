----------------------------- MODULE GraphEdges -----------------------------
(***************************************************************************)
(* The edges of a Graph and the calls of GraphEdit that change them        *)
(* (knaster_graph: graph.rs, graph_edit.rs).                               *)
(*                                                                         *)
(* A sink has one edge.  A second source is added by pushing a math node   *)
(* that sums the two, and a feedback connection by pushing a pair of nodes *)
(* that are freed together.  free_old looks at every node in each commit   *)
(* and takes a math node that has lost an input out of its connection      *)
(* again, and frees a feedback pair that nothing is connected to.          *)
(*                                                                         *)
(* All of this is sequential code of the control thread; free_old is a     *)
(* step per node, since the order of its keys is that of the slots, which  *)
(* are reused.  The handoff is abstracted: the flag of an update may have  *)
(* been raised in any commit after the one that sent it.  Channels are     *)
(* numbered from 1.                                                        *)
(***************************************************************************)
EXTENDS Naturals, Sequences, FiniteSets

CONSTANTS
  User,           \* the nodes that the user pushes
  Own,           \* the nodes that the graph pushes; bounds how many there are at a time
  UserInputs, UserOutputs,      \* the channels of the user's nodes
  GraphInputs, GraphOutputs,    \* and of the graph
  Parameters,     \* the parameters of the user's nodes
  CallSets        \* sets of calls; a behaviour makes those of one of them

AllCalls == {"push", "connect", "feedback", "parameter", "graph_input",
             "disconnect", "disconnect_graph_input", "free"}

ASSUME KeysAssumption ==
  /\ IsFiniteSet(User \cup Own) /\ User \cap Own = {}
  /\ {"none", "graph"} \cap (User \cup Own) = {}
ASSUME ChannelsAssumption ==
  /\ UserInputs \in Nat /\ UserOutputs \in Nat
  /\ GraphInputs \in Nat /\ GraphOutputs \in Nat
ASSUME CallsAssumption == CallSets \subseteq SUBSET AllCalls

Key == User \cup Own
Graph == "graph"

VARIABLES
  calls,          \* the calls that this behaviour makes, besides those to graph outputs
  graph,          \* the fields of the Graph
  phase,          \* between two edits, in free_old, or after a panic
  keys,           \* the nodes that free_old has yet to look at
  sent_pending,   \* the pending nodes whose update has been sent
  unsent,         \* history: what has changed and has not been sent
  connected       \* shadow: what is connected, ConnectedIn(graph)

vars == <<calls, graph, phase, keys, sent_pending, unsent, connected>>

-----------------------------------------------------------------------------
Edge(from, channel, is_feedback) ==
  [from |-> from, channel |-> channel, is_feedback |-> is_feedback]
NoEdge == Edge("none", 0, FALSE)

Edges == [from : Key \cup {Graph}, channel : Nat, is_feedback : BOOLEAN] \cup {NoEdge}

SourcesIn(row) == {row[i].from : i \in DOMAIN row} \cap Key

Live(g) == g.nodes \ g.pending
Unused(g) == Own \ g.nodes

(* The sinks, as places in the graph. *)
Input(k, c) == <<"inputs", k, c>>
Output(c)   == <<"outputs", Graph, c>>
Param(k, p) == <<"params", k, p>>

InputSinks(g) == {Input(k, c) : k \in User \cap Live(g), c \in 1..UserInputs}
OutputSinks   == {Output(c) : c \in 1..GraphOutputs}
ParamSinks(g) == {Param(k, p) : k \in User \cap Live(g), p \in Parameters}

EdgeAt(g, s) == IF s[1] = "outputs" THEN g.outputs[s[3]] ELSE g[s[1]][s[2]][s[3]]
Put(g, s, e) == IF s[1] = "outputs" THEN [g EXCEPT !.outputs[s[3]] = e]
                ELSE [g EXCEPT ![s[1]][s[2]][s[3]] = e]

-----------------------------------------------------------------------------
(***************************************************************************)
(* What is connected: every edge followed through the nodes that the graph *)
(* has added by itself.                                                    *)
(***************************************************************************)
Outlet == [from : User \cup {Graph}, channel : 1..(UserOutputs + GraphInputs), delayed : BOOLEAN]
Sink == {Input(k, c) : k \in User, c \in 1..UserInputs} \cup OutputSinks
          \cup {Param(k, p) : k \in User, p \in Parameters}

OutletOf(e, delayed) == [from |-> e.from, channel |-> e.channel, delayed |-> delayed]
DelayedEdge(g, k) ==
  IF g.strong_dependent[k] \in DOMAIN g.inputs THEN g.inputs[g.strong_dependent[k]][1] ELSE NoEdge

(* How often an outlet is summed into an edge, through at most n nodes.    *)
CountIn(g, o) ==
  LET count[n \in Nat] == [e \in Edges |->
        IF e.from \in g.math \cap DOMAIN g.inputs
        THEN IF n = 0 THEN 0
             ELSE count[n - 1][g.inputs[e.from][1]] + count[n - 1][g.inputs[e.from][2]]
        ELSE IF e.from \in Own \cap DOMAIN g.inputs
        THEN IF OutletOf(DelayedEdge(g, e.from), TRUE) = o THEN 1 ELSE 0
        ELSE IF OutletOf(e, FALSE) = o THEN 1 ELSE 0]
  IN  count[Cardinality(Own)]

ConnectedIn(g) ==
  [s \in Sink |-> [o \in Outlet |->
     IF s[1] = "outputs" \/ s[2] \in Live(g) THEN CountIn(g, o)[EdgeAt(g, s)] ELSE 0]]

-----------------------------------------------------------------------------
Init ==
  /\ calls \in CallSets
  /\ \E nodes \in SUBSET User :
       graph = [nodes |-> nodes,
                math |-> {},
                strong_dependent |-> [k \in Own |-> k],
                inputs |-> [k \in nodes |-> [i \in 1..UserInputs |-> NoEdge]],
                params |-> [k \in nodes |-> [p \in Parameters |-> NoEdge]],
                outputs |-> [i \in 1..GraphOutputs |-> NoEdge],
                pending |-> {},
                recalculation_required |-> FALSE]
  /\ phase = "edit"
  /\ keys = {}
  /\ sent_pending = {}
  /\ unsent = {}
  /\ connected = ConnectedIn(graph)

(* The graph becomes g; what differs in its edges has not been sent. *)
Update(g) ==
  /\ graph' = g
  /\ connected' = ConnectedIn(g)
  /\ unsent' = unsent \cup {f \in {"inputs", "outputs", "params"} : g[f] # graph[f]}

Ignored(g) == g                                    \* mutant: no update is asked for
Required(g) == [g EXCEPT !.recalculation_required = TRUE]

-----------------------------------------------------------------------------
(***************************************************************************)
(* Pushing nodes.                                                          *)
(***************************************************************************)
WithRow(rows, k, row) ==
  [j \in DOMAIN rows \cup {k} |-> IF j = k THEN row ELSE rows[j]]

Pushed(g, k, inputs) ==
  Required([g EXCEPT !.nodes = @ \cup {k},
                     !.inputs = WithRow(@, k, inputs),
                     !.params = WithRow(@, k, [p \in Parameters |-> NoEdge])])

PushNode(k) ==
  /\ phase = "edit"
  /\ "push" \in calls
  /\ k \in User \ graph.nodes
  /\ Update(Pushed(graph, k, [i \in 1..UserInputs |-> NoEdge]))
  /\ UNCHANGED <<calls, phase, keys, sent_pending>>

(* new_additive_node, with its two inputs connected. *)
WithMathNode(g, k, first, second) ==
  [Pushed(g, k, <<first, second>>) EXCEPT !.math = @ \cup {k}]

(* new_feedback_nodes; the sink reads the edge.  Both are FeedbackSinks,   *)
(* with one input each.                                                    *)
WithFeedbackNodes(g, source, sink, e) ==
  LET pushed == Pushed(Pushed(g, sink, <<Edge(e.from, e.channel, TRUE)>>), source, <<NoEdge>>)
  IN  [pushed EXCEPT !.strong_dependent[source] = sink, !.strong_dependent[sink] = source]

-----------------------------------------------------------------------------
(***************************************************************************)
(* Connecting.                                                             *)
(***************************************************************************)
(* has_path: a set that contains `to` and the sources of its nodes         *)
(* contains `from`.                                                        *)
ClosedUnderSources(g, S) == \A k \in S \cap DOMAIN g.inputs : SourcesIn(g.inputs[k]) \subseteq S
HasPathOfOne(g, from, to) ==                       \* mutant: only to the sources of `to`
  from = to \/ (to \in DOMAIN g.inputs /\ from \in SourcesIn(g.inputs[to]))

HasPath(g, from, to) == \A S \in SUBSET Key : to \in S /\ ClosedUnderSources(g, S) => from \in S

(* The graphs that may result from connecting an edge to a sink: one for   *)
(* each key that the new math node may get.                                *)
Replaced(g, s, e) == {Put(g, s, e)}
AddedTwice(g, s, e) ==                             \* mutant: the old edge is lost
  IF EdgeAt(g, s) = NoEdge THEN {Put(g, s, e)}
  ELSE {Put(WithMathNode(g, k, e, e), s, Edge(k, 1, FALSE)) : k \in Unused(g)}

Added(g, s, e) ==
  IF EdgeAt(g, s) = NoEdge THEN {Put(g, s, e)}
  ELSE {Put(WithMathNode(g, k, EdgeAt(g, s), Edge(e.from, e.channel, FALSE)),
            s, Edge(k, 1, FALSE)) : k \in Unused(g)}

Connected(g, s, e, additive) == IF additive THEN Added(g, s, e) ELSE Replaced(g, s, e)

(* connect_to_node_internal and connect_to_output_internal ask for an      *)
(* update.                                                                 *)
Connect(s, e, additive) ==
  /\ phase = "edit"
  /\ \E g \in Connected(graph, s, e, additive) : Update(Required(g))
  /\ UNCHANGED <<calls, phase, keys, sent_pending>>

UserEdge(k, c) == Edge(k, c, FALSE)

ConnectNodes(source, c, s, additive) ==
  /\ phase = "edit"
  /\ "connect" \in calls
  /\ s \in InputSinks(graph)
  /\ ~HasPath(graph, s[2], source)
  /\ Connect(s, UserEdge(source, c), additive)

ConnectNodeToOutput(source, c, s, additive) ==
  /\ s \in OutputSinks
  /\ Connect(s, UserEdge(source, c), additive)

ConnectGraphInput(c, s, additive) ==
  /\ "graph_input" \in calls
  /\ s \in InputSinks(graph) \cup OutputSinks
  /\ Connect(s, UserEdge(Graph, c), additive)

(* Through feedback there may be a path.  Only an edge to an empty channel *)
(* of an additive connection is a feedback edge itself.                    *)
ConnectFeedback(source, c, s, additive) ==
  /\ phase = "edit"
  /\ "feedback" \in calls
  /\ s \in InputSinks(graph)
  /\ \E fb_source, fb_sink \in Unused(graph) :
       /\ fb_source # fb_sink
       /\ \E g \in Connected(WithFeedbackNodes(graph, fb_source, fb_sink, UserEdge(source, c)),
                              s, Edge(fb_source, c, additive), additive) : Update(g)
  /\ UNCHANGED <<calls, phase, keys, sent_pending>>

(* connect_node_to_parameter asks for no update itself. *)
ConnectParameter(source, c, s, additive) ==
  /\ phase = "edit"
  /\ "parameter" \in calls
  /\ s \in ParamSinks(graph)
  /\ \E g \in Connected(graph, s, UserEdge(source, c), additive) : Update(g)
  /\ UNCHANGED <<calls, phase, keys, sent_pending>>

-----------------------------------------------------------------------------
(***************************************************************************)
(* Freeing.                                                                *)
(***************************************************************************)
Without(row, K) == [i \in DOMAIN row |-> IF row[i].from \in K THEN NoEdge ELSE row[i]]
Restricted(rows, K) == [k \in DOMAIN rows \ K |-> rows[k]]

Dependent(g, k) == IF k \in Own THEN g.strong_dependent[k] ELSE k

(* free_node_from_key.  The edges from the node to parameters stay. *)
OutputsKept(g, k) ==                               \* mutant: the graph outputs stay too
  LET K == {k, Dependent(g, k)} \ g.pending
  IN  IF K = {} THEN g
      ELSE Required([g EXCEPT !.inputs = [j \in DOMAIN @ \ K |-> Without(@[j], K)],
                              !.params = Restricted(@, K),
                              !.pending = @ \cup K])

Freed(g, k) ==
  IF k \in g.pending THEN g
  ELSE LET K == {k, Dependent(g, k)} \ g.pending
       IN  Required([g EXCEPT !.inputs = [j \in DOMAIN @ \ K |-> Without(@[j], K)],
                              !.params = Restricted(@, K),
                              !.outputs = Without(@, K),
                              !.pending = @ \cup K])

FreeNode(k) ==
  /\ phase = "edit"
  /\ "free" \in calls
  /\ k \in User \cap Live(graph)
  /\ Update(Freed(graph, k))
  /\ UNCHANGED <<calls, phase, keys, sent_pending>>

(* evaluate_if_node_should_be_removed: whatever reads a math node that has *)
(* one input left reads that input instead ...                             *)
Redirected(row, k, e) == [i \in DOMAIN row |-> IF row[i].from = k THEN e ELSE row[i]]

Inherited(g, k) == LET row == g.inputs[k] IN IF row[1] = NoEdge THEN row[2] ELSE row[1]

(* ... though not its parameters.  The loop over the graph outputs unwraps *)
(* each of them, and panics at the first that is not connected.            *)
MissingInputs(g, k) == {i \in DOMAIN g.inputs[k] : g.inputs[k][i] = NoEdge}

NotBypassed(g, k) == g                             \* mutant: what is left is not passed on

Bypassed(g, k) ==
  [g EXCEPT !.inputs = [j \in DOMAIN @ |-> Redirected(@[j], k, Inherited(g, k))],
            !.outputs = [i \in DOMAIN @ |->
               IF @[i].from = k /\ \A j \in 1..i : @[j] # NoEdge THEN Inherited(g, k) ELSE @[i]]]

IsLoneMath(g, k) == k \in g.math \cap DOMAIN g.inputs /\ Cardinality(MissingInputs(g, k)) = 1
IsDeadMath(g, k) == k \in g.math \cap DOMAIN g.inputs /\ Cardinality(MissingInputs(g, k)) = 2

IsUnconnectedFeedback(g, k) ==
  /\ Dependent(g, k) # k
  /\ k \in DOMAIN g.inputs => \A i \in DOMAIN g.inputs[k] : g.inputs[k][i] = NoEdge
  /\ \A j \in DOMAIN g.inputs : k \notin SourcesIn(g.inputs[j])

Panics(g, k) == IsLoneMath(g, k) /\ \E i \in DOMAIN g.outputs : g.outputs[i] = NoEdge

Evaluated(g, k) ==
  IF Panics(g, k) THEN Bypassed(g, k)
  ELSE IF IsLoneMath(g, k) THEN Freed(Bypassed(g, k), k)
  ELSE IF IsDeadMath(g, k) \/ IsUnconnectedFeedback(g, k) THEN Freed(g, k)
  ELSE g

EvaluateNode(g, k) ==
  /\ Update(Evaluated(g, k))
  /\ phase' = IF Panics(g, k) THEN "panicked" ELSE phase

-----------------------------------------------------------------------------
(***************************************************************************)
(* Disconnecting.                                                          *)
(***************************************************************************)
(* disconnect_input_to_sink, which asks for an update only if the sink is  *)
(* an input of a node.                                                     *)
DisconnectInput(s) ==
  /\ phase = "edit"
  /\ "disconnect" \in calls
  /\ s \in InputSinks(graph) \cup OutputSinks
  /\ LET g == Put(graph, s, NoEdge)
     IN  EvaluateNode(IF s[1] = "inputs" THEN Required(g) ELSE g, EdgeAt(graph, s).from)
  /\ UNCHANGED <<calls, keys, sent_pending>>

Matches(e, from, c) == e.from = from /\ e.channel = c
FirstDisconnected(row, from, c) ==                 \* mutant: only the first edge of a node
  [i \in DOMAIN row |-> IF Matches(row[i], from, c)
                           /\ \A j \in 1..(i - 1) : ~Matches(row[j], from, c)
                        THEN NoEdge ELSE row[i]]

Disconnected(row, from, c) ==
  [i \in DOMAIN row |-> IF Matches(row[i], from, c) THEN NoEdge ELSE row[i]]

(* disconnect_output_from_source.  The edges to parameters stay. *)
OutputDisconnected(g, from, c) ==
  Required([g EXCEPT !.inputs = [k \in DOMAIN @ |-> Disconnected(@[k], from, c)],
                     !.outputs = Disconnected(@, from, c)])

DisconnectOutput(k, c) ==
  /\ phase = "edit"
  /\ "disconnect" \in calls
  /\ k \in User \cap Live(graph)
  /\ Update(OutputDisconnected(graph, k, c))
  /\ UNCHANGED <<calls, phase, keys, sent_pending>>

(* Disconnecting an input of the graph also takes the edge of the graph    *)
(* output with the same number.                                            *)
DisconnectGraphInput(c) ==
  /\ phase = "edit"
  /\ "disconnect_graph_input" \in calls
  /\ c \in 1..GraphInputs
  /\ IF c > GraphOutputs
     THEN Update(graph) /\ phase' = "panicked"
     ELSE LET g == Put(graph, Output(c), NoEdge)
              k == graph.outputs[c].from
          IN  IF Panics(g, k)
              THEN EvaluateNode(g, k)
              ELSE Update(OutputDisconnected(Evaluated(g, k), Graph, c)) /\ UNCHANGED phase
  /\ UNCHANGED <<calls, keys, sent_pending>>

-----------------------------------------------------------------------------
(***************************************************************************)
(* Committing.                                                             *)
(***************************************************************************)
(* A node that has marked itself is freed first: that is a FreeNode before *)
(* the commit.  The user's nodes are in neither of the classes that        *)
(* evaluate_if_node_should_be_removed frees.                               *)
BeginCommit ==
  /\ phase = "edit"
  /\ phase' = "free_old"
  /\ keys' = graph.nodes \cap Own
  /\ UNCHANGED <<calls, graph, connected, sent_pending, unsent>>

Evaluate(k) ==
  /\ phase = "free_old"
  /\ k \in keys
  /\ EvaluateNode(graph, k)
  /\ keys' = keys \ {k}
  /\ UNCHANGED <<calls, sent_pending>>

RemovedFromSlots(g, K) == [g EXCEPT !.nodes = @ \ K]        \* mutant: they stay pending
Removed(g, K) ==
  [g EXCEPT !.nodes = @ \ K, !.pending = @ \ K, !.math = @ \ K,
            !.strong_dependent = [k \in Own |-> IF k \in K THEN k ELSE @[k]]]

(* The search of calculate_node_order follows what is not feedback from    *)
(* the outputs; it looks up the edges of each node it comes to.            *)
SearchedFrom(g, k) ==
  IF k \notin DOMAIN g.inputs THEN {}
  ELSE {g.inputs[k][i].from : i \in {j \in DOMAIN g.inputs[k] : ~g.inputs[k][j].is_feedback}}
         \cup {g.params[k][p].from : p \in DOMAIN g.params[k]}
Searched(g) ==
  {k \in Key : \A S \in SUBSET Key :
     SourcesIn(g.outputs) \subseteq S /\ (\A j \in S : SearchedFrom(g, j) \cap Key \subseteq S)
       => k \in S}

Sources(g) ==
  SourcesIn(g.outputs) \cup (UNION {SourcesIn(g.inputs[k]) : k \in DOMAIN g.inputs})
                       \cup (UNION {SourcesIn(g.params[k]) : k \in DOMAIN g.params})

CanSchedule(g) == Searched(g) \subseteq DOMAIN g.inputs /\ Sources(g) \subseteq g.nodes

(* The nodes of a feedback pair have a clone of the same flag. *)
EndCommit ==
  /\ phase = "free_old"
  /\ keys = {}
  /\ \E gone \in {K \in SUBSET sent_pending : \A k \in K : Dependent(graph, k) \in K} :
       LET g == Removed(graph, gone)
       IN  IF ~g.recalculation_required
           THEN /\ graph' = g
                /\ phase' = "edit"
                /\ sent_pending' = sent_pending \ gone
                /\ UNCHANGED unsent
           ELSE IF ~CanSchedule(g)
           THEN /\ graph' = g
                /\ phase' = "panicked"
                /\ sent_pending' = sent_pending \ gone
                /\ UNCHANGED unsent
           ELSE /\ graph' = [g EXCEPT !.recalculation_required = FALSE]
                /\ phase' = "edit"
                /\ sent_pending' = g.pending
                /\ unsent' = {}
  /\ connected' = ConnectedIn(graph')
  /\ UNCHANGED <<calls, keys>>

Next ==
  \/ \E k \in User : PushNode(k) \/ FreeNode(k)
  \/ \E k \in User \cap Live(graph), c \in 1..UserOutputs, additive \in BOOLEAN :
       \/ \E s \in InputSinks(graph) :
            ConnectNodes(k, c, s, additive) \/ ConnectFeedback(k, c, s, additive)
       \/ \E s \in OutputSinks : ConnectNodeToOutput(k, c, s, additive)
       \/ \E s \in ParamSinks(graph) : ConnectParameter(k, c, s, additive)
  \/ \E c \in 1..GraphInputs, s \in InputSinks(graph) \cup OutputSinks, additive \in BOOLEAN :
       ConnectGraphInput(c, s, additive)
  \/ \E s \in InputSinks(graph) \cup OutputSinks : DisconnectInput(s)
  \/ \E k \in User, c \in 1..UserOutputs : DisconnectOutput(k, c)
  \/ \E c \in 1..GraphInputs : DisconnectGraphInput(c)
  \/ BeginCommit
  \/ \E k \in Own : Evaluate(k)
  \/ EndCommit

Spec == Init /\ [][Next]_vars

-----------------------------------------------------------------------------
(* A sink can be disconnected, an output of a node, or the whole node; an  *)
(* input of the graph goes with the graph output of the same number.       *)
FromOutput(k, c) == {o \in Outlet : o.from = k /\ o.channel = c}
SinksOf(k) == {s \in Sink : s[2] = k}
OutletsOf(k) == {o \in Outlet : o.from = k}
Removable == {<<{s}, {}>> : s \in Sink}
               \cup {<<{}, FromOutput(k, c)>> : k \in User, c \in 1..UserOutputs}
               \cup {<<SinksOf(k), OutletsOf(k)>> : k \in User}
               \cup {<<{Output(c)}, FromOutput(Graph, c)>> : c \in 1..GraphInputs}

C == INSTANCE Connections

-----------------------------------------------------------------------------
(***************************************************************************)
(* Properties.                                                             *)
(***************************************************************************)
TypeOK ==
  /\ graph.nodes \subseteq Key
  /\ graph.math \subseteq Own
  /\ graph.strong_dependent \in [Own -> Own]
  /\ \A k \in DOMAIN graph.inputs : graph.inputs[k] \in Seq(Edges)
  /\ \A k \in DOMAIN graph.params : graph.params[k] \in [Parameters -> Edges]
  /\ graph.outputs \in [1..GraphOutputs -> Edges]
  /\ graph.pending \subseteq graph.nodes
  /\ graph.recalculation_required \in BOOLEAN
  /\ calls \in CallSets
  /\ phase \in {"edit", "free_old", "panicked"}
  /\ keys \subseteq graph.nodes
  /\ sent_pending \subseteq graph.pending
  /\ unsent \subseteq {"inputs", "outputs", "params"}

(* "Remove all edges leading to the node", "Remove all edges leading from  *)
(* the node" (free_node_from_key): whatever is freed, every node that is   *)
(* left has its edges, they name nodes that are left, and the two nodes of *)
(* a feedback connection go together.                                      *)
EdgesNameNodes ==
  /\ DOMAIN graph.inputs = Live(graph)
  /\ DOMAIN graph.params = Live(graph)
  /\ Sources(graph) \subseteq Live(graph)
  /\ \A k \in Own : LET d == graph.strong_dependent[k]
                     IN  /\ graph.strong_dependent[d] = k
                         /\ k \in graph.pending <=> d \in graph.pending

(* Direct edges never make a circle, whichever math nodes come and go: of  *)
(* every set of nodes one has no source among them.                        *)
InputsAcyclic ==
  \A S \in SUBSET DOMAIN graph.inputs :
     S # {} => \E k \in S : SourcesIn(graph.inputs[k]) \cap S = {}

(* "When the edit closure returns, all changes will be sent to the audio   *)
(* thread" (Graph), for the edges between nodes: while a change of them    *)
(* has not been sent, an update is asked for.                              *)
InputChangesMarked ==
  phase = "edit" /\ "inputs" \in unsent => graph.recalculation_required

(* An additive connection adds one source to what was connected, and       *)
(* another replaces it, "replacing any existing connections", and no other *)
(* sink hears a difference.                                                *)
Joins(o, s, additive) == IF additive THEN C!Add(o, s) ELSE C!Replace(o, s)
ConnectsAsAsked ==
  [][phase = "edit" => \A k \in User, c \in 1..UserOutputs, s \in Sink, additive \in BOOLEAN :
       /\ \/ ConnectNodes(k, c, s, additive)
          \/ ConnectNodeToOutput(k, c, s, additive)
          \/ ConnectParameter(k, c, s, additive)
          => Joins(OutletOf(UserEdge(k, c), FALSE), s, additive)
       /\ ConnectFeedback(k, c, s, additive)
          => Joins(OutletOf(UserEdge(k, c), TRUE), s, additive)]_vars

(* "Disconnect any input from a specific channel", "Disconnect all edges   *)
(* from a specific output channel of a node", and freeing a node: each     *)
(* disconnects what it names, through math and feedback nodes, and nothing *)
(* else.                                                                   *)
RemovesAsAsked ==
  /\ [][\A s \in Sink : DisconnectInput(s) => C!Remove({s}, {})]_vars
  /\ [][\A k \in User, c \in 1..UserOutputs :
          DisconnectOutput(k, c) => C!Remove({}, FromOutput(k, c))]_vars
  /\ [][\A k \in User : FreeNode(k) => C!Remove(SinksOf(k), OutletsOf(k))]_vars

(* Both: a call does what it says to the connections it names. *)
CallsAsAsked == ConnectsAsAsked /\ RemovesAsAsked

(* A commit, which removes math and feedback nodes, disconnects nothing.   *)
CommitsKeepConnections ==
  [][BeginCommit \/ (\E k \in Own : Evaluate(k)) \/ EndCommit => UNCHANGED connected]_vars

(* The edges implement the connections. *)
ImplementsConnections == C!Spec
=============================================================================
