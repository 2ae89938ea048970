------------------------------- MODULE Handles ------------------------------
(***************************************************************************)
(* The handles of a GraphEdit: pushing, selecting, stacking, arithmetic    *)
(* and connecting with SH (typed) and DH (dynamic) handles, and what a     *)
(* panic in the middle of a call leaves behind (knaster_graph:             *)
(* graph_edit.rs, and the calls of graph.rs that it makes).                *)
(*                                                                         *)
(* A handle is the list of the input and of the output channels that it    *)
(* stands for.  A call pairs the channels of two handles and connects them *)
(* one by one, with the lock of the graph held until it returns.           *)
(*                                                                         *)
(* `heard` has the sources that each sink sums, in the order in which they *)
(* were added; that the math and feedback nodes a Graph adds for that      *)
(* implement such sums is the subject of GraphEdges.  Channels are         *)
(* numbered from 1, nodes in the order in which they are pushed, and 0 is  *)
(* the graph.                                                              *)
(***************************************************************************)
EXTENDS Naturals, SequencesExt

CONSTANTS
  Starts,         \* the shapes of the nodes a behaviour starts with, the calls it makes, and
                  \* how many of them: a bound
  GraphInputs, GraphOutputs,
  Selections,     \* the lists of channels that are selected
  Operations      \* the operators of arithmetic

ASSUME GraphAssumption == GraphInputs \in Nat /\ GraphOutputs \in Nat
ASSUME StartsAssumption ==
  \A start \in Starts : /\ start.shapes \in Seq(Nat \X Nat \X Nat)
                        /\ start.typed \in BOOLEAN
                        /\ start.length \in Nat
ASSUME OperationsAssumption == {"ugen", "constant"} \cap Operations = {}
ASSUME SelectionsAssumption == Selections \subseteq Seq(Nat \ {0})

VARIABLES
  calls,          \* the calls that this behaviour makes
  graph,          \* the nodes, what each sink hears, and recalculation_required
  handles,        \* the handles of the edit that is open
  phase,          \* "edit", or what became of the thread
  half,           \* history: a call that panicked had already changed the graph
  left            \* the number of calls that are left

vars == <<calls, graph, handles, phase, half, left>>

-----------------------------------------------------------------------------
(***************************************************************************)
(* The graph.                                                              *)
(***************************************************************************)
Input(port) == <<"input", port[1], port[2]>>      \* of a node, or an output of the graph
Parameter(n, p) == <<"parameter", n, p>>

UGen(shape) == [kind |-> "ugen", inputs |-> shape[1], outputs |-> shape[2],
                parameters |-> shape[3], state |-> "live", named |-> FALSE]
MathUGen(op) == [UGen(<<2, 1, 0>>) EXCEPT !.kind = op]
Constant == [UGen(<<0, 1, 1>>) EXCEPT !.kind = "constant"]

SinksOf(n, node) == {Input(<<n, c>>) : c \in 1..node.inputs}
                      \cup {Parameter(n, p) : p \in 1..node.parameters}

(* push_node: no input of the new node is connected.                       *)
Pushed(g, node) ==
  LET n == Len(g.nodes) + 1
      sinks == SinksOf(n, node)
  IN  [nodes |-> Append(g.nodes, node), required |-> TRUE,
       heard |-> [s \in sinks \cup DOMAIN g.heard |-> IF s \in sinks THEN <<>> ELSE g.heard[s]]]

(* The nodes that some sinks hear in the same block.                       *)
Sources(g, sinks) ==
  {e.port[1] : e \in {e \in UNION {ToSet(g.heard[s]) : s \in sinks} : ~e.delayed}} \ {0}
InputSinks(g, K) == {s \in DOMAIN g.heard : s[1] = "input" /\ s[2] \in K}

(* has_path: against the edges of the inputs, as far as they go.           *)
Upstream(g, n) ==
  LET reached[i \in Nat] ==
        IF i = 0 THEN {n}
        ELSE LET K == reached[i - 1] IN K \cup Sources(g, InputSinks(g, K))
  IN  reached[Len(g.nodes)]
HasPathOfOne(g, from, to) ==                       \* mutant: the sources of `to` only
  from \in {to} \cup Sources(g, InputSinks(g, {to}))
HasPath(g, from, to) == from \in Upstream(g, to)

-----------------------------------------------------------------------------
(***************************************************************************)
(* Connecting one channel to another.                                      *)
(***************************************************************************)
Edge(port, delayed) == [port |-> port, delayed |-> delayed]

(* connect_to_node_internal, connect_to_output_internal.                   *)
Joined(g, s, edge, additive) ==
  [g EXCEPT !.required = TRUE, !.heard[s] = IF additive THEN Append(@, edge) ELSE <<edge>>]

(* What a call does with one pair of channels: the graph after it, and     *)
(* whether it returned an error or panicked.  Handles name channels that   *)
(* nodes have; those of the graph are checked.  A node that was freed in   *)
(* this edit is still found, but its inputs are not.                       *)
Result(g, outcome) == [graph |-> g, outcome |-> outcome]

Connect2(g, source, sink, how) ==
  LET delayed == how.feedback /\ source[1] # 0 /\ sink[1] # 0
  IN  IF source[1] = 0 /\ source[2] > GraphInputs THEN Result(g, "error")
      ELSE IF sink[1] = 0 /\ sink[2] > GraphOutputs THEN Result(g, "error")
      ELSE IF source[1] # 0 /\ sink[1] # 0 /\ ~how.feedback /\ HasPath(g, sink[1], source[1])
      THEN Result(g, "error")
      ELSE IF Input(sink) \notin DOMAIN g.heard THEN Result(g, "panic")
      ELSE Result(Joined(g, Input(sink), Edge(source, delayed), how.additive), "ok")

(* Pairs of channels, in order.  An error is logged and the next pair      *)
(* connected, or it ends the call, by a panic or as its result.            *)
How(additive, feedback, on_error) ==
  [additive |-> additive, feedback |-> feedback, on_error |-> on_error]
Logged == How(TRUE, FALSE, "log")

ConnectNext(result, pair, how) ==
  IF result.outcome # "ok" THEN result
  ELSE LET next == Connect2(result.graph, pair[1], pair[2], how)
       IN  IF next.outcome = "error" /\ how.on_error = "log" THEN result
           ELSE IF next.outcome = "error" THEN Result(result.graph, how.on_error)
           ELSE next
ConnectPairs(g, pairs, how) ==
  FoldLeft(LAMBDA result, pair : ConnectNext(result, pair, how), Result(g, "ok"), pairs)

-----------------------------------------------------------------------------
(***************************************************************************)
(* Handles.                                                                *)
(***************************************************************************)
Channels(n, count) == [c \in 1..count |-> <<n, c>>]
NodeHandle(typed, n, node) ==
  [typed |-> typed, node |-> n, ins |-> Channels(n, node.inputs), outs |-> Channels(n, node.outputs)]
ChannelsHandle(typed, ins, outs) == [typed |-> typed, node |-> 0, ins |-> ins, outs |-> outs]

Init ==
  \E start \in Starts :
     /\ calls = start.calls
     /\ graph = FoldLeft(LAMBDA g, shape : Pushed(g, UGen(shape)),
                         [nodes |-> <<>>, required |-> FALSE,
                          heard |-> [s \in {Input(<<0, c>>) : c \in 1..GraphOutputs} |-> <<>>]],
                         start.shapes)
     /\ handles = [n \in DOMAIN graph.nodes |-> NodeHandle(start.typed, n, graph.nodes[n])]
     /\ phase = "edit"
     /\ half = FALSE
     /\ left = start.length

Call(name) ==
  /\ phase = "edit"
  /\ name \in calls
  /\ left > 0
  /\ left' = left - 1
  /\ UNCHANGED calls

NewHandle(h) == handles' = Append(handles, h) /\ UNCHANGED <<phase, half>>

(* A panic unwinds through the edit, whose drop takes the lock and commits *)
(* what is there.  The lock of a call that panics with it is poisoned:     *)
(* the drop panics in turn, and a panic while unwinding aborts.  This is   *)
(* the RwLock of std.  Without the feature std the lock is a spin lock,    *)
(* which nothing poisons: AfterPanic is then the mutant below.             *)
NotPoisoned(locked) == "unwinding"                 \* mutant: the poison is ignored
AfterPanic(locked) == IF locked THEN "aborted" ELSE "unwinding"
Panic(locked, g) ==
  /\ graph' = g
  /\ phase' = AfterPanic(locked)
  /\ half' = (g # graph)
  /\ UNCHANGED handles

(* The pairs are connected; what the call returns was a handle before.     *)
ConnectAll(pairs, how) ==
  LET result == ConnectPairs(graph, pairs, how)
  IN  IF result.outcome = "panic" THEN Panic(TRUE, result.graph)
      ELSE graph' = result.graph /\ UNCHANGED <<handles, phase, half>>

-----------------------------------------------------------------------------
(* Pushing, and finding a node again.                                      *)
Push(node) ==
  /\ Call("push")
  /\ graph' = Pushed(graph, node)
  /\ NewHandle(NodeHandle(TRUE, Len(graph'.nodes), node))

PushWithDoneAction(node) == Push([node EXCEPT !.parameters = @ + 1])

Found(n) == graph.nodes[n].state # "removed" /\ graph.nodes[n].kind = "ugen"

HandleOf(n) ==
  /\ Call("handle")
  /\ Found(n)
  /\ NewHandle(NodeHandle(FALSE, n, graph.nodes[n]))
  /\ UNCHANGED graph

Name(a) ==
  /\ Call("name")
  /\ handles[a].node # 0
  /\ graph' = [graph EXCEPT !.nodes[handles[a].node].named = TRUE]
  /\ UNCHANGED <<handles, phase, half>>

(* The first node with the name, in the order of slots that are reused;    *)
(* it may be one that was freed.                                           *)
HandleFromName(n) ==
  /\ Call("name")
  /\ Found(n)
  /\ graph.nodes[n].named
  /\ NewHandle(NodeHandle(FALSE, n, graph.nodes[n]))
  /\ UNCHANGED graph

FromInputs(channels) ==
  /\ Call("inputs")
  /\ ToSet(channels) \subseteq 1..GraphInputs      \* an error otherwise, and no handle
  /\ NewHandle(ChannelsHandle(TRUE, <<>>, [i \in DOMAIN channels |-> <<0, channels[i]>>]))
  /\ UNCHANGED graph

(* Output channels of a handle.  One it does not have panics, before there *)
(* is a lock.                                                              *)
OfFirstNode(ports, channels) ==                    \* mutant: channels of a node, not of the handle
  [i \in DOMAIN channels |-> <<ports[1][1], channels[i]>>]
Selected(ports, channels) == [i \in DOMAIN channels |-> ports[channels[i]]]

Out(a, channels) ==
  /\ Call("out")
  /\ IF ToSet(channels) \subseteq DOMAIN handles[a].outs
     THEN /\ NewHandle(ChannelsHandle(handles[a].typed, <<>>, Selected(handles[a].outs, channels)))
          /\ UNCHANGED graph
     ELSE Panic(FALSE, graph)

StaticStack(a, b) ==
  /\ Call("stack")
  /\ handles[a].typed /\ handles[b].typed
  /\ NewHandle(ChannelsHandle(TRUE, handles[a].ins \o handles[b].ins,
                              handles[a].outs \o handles[b].outs))
  /\ UNCHANGED graph

InsOfFirst(a, b) == handles[a].ins                 \* mutant: the inputs of the second are missing
StackedIns(a, b) == handles[a].ins \o handles[b].ins

DynamicStack(a, b) ==
  /\ Call("stack")
  /\ ~(handles[a].typed /\ handles[b].typed)
  /\ NewHandle(ChannelsHandle(FALSE, StackedIns(a, b), handles[a].outs \o handles[b].outs))
  /\ UNCHANGED graph

Dynamic(a) ==
  /\ Call("dynamic")
  /\ handles[a].typed
  /\ NewHandle([handles[a] EXCEPT !.typed = FALSE])
  /\ UNCHANGED graph

ToChannelsHandle(a) ==
  /\ Call("dynamic")
  /\ ~handles[a].typed /\ handles[a].node # 0
  /\ NewHandle([handles[a] EXCEPT !.node = 0])
  /\ UNCHANGED graph

-----------------------------------------------------------------------------
(* Connecting.  The types of two typed handles agree in their numbers of   *)
(* channels; between others the shorter decides.                           *)
CallTo(additive, feedback) ==
  Call(IF feedback THEN "feedback" ELSE IF additive THEN "connect" ELSE "replace")

StaticTo(a, b, additive, feedback) ==
  /\ CallTo(additive, feedback)
  /\ handles[a].typed /\ handles[b].typed
  /\ Len(handles[a].outs) = Len(handles[b].ins)
  /\ ConnectAll(Zip(handles[a].outs, handles[b].ins),
                How(additive, feedback, IF additive THEN "log" ELSE "panic"))

DynamicTo(a, b, additive, feedback) ==
  /\ CallTo(additive, feedback)
  /\ ~(handles[a].typed /\ handles[b].typed)
  /\ ConnectAll(Zip(handles[a].outs, handles[b].ins), How(additive, feedback, "log"))

OnError == "return"
TryTo(a, b) ==
  /\ Call("try")
  /\ ~handles[a].typed /\ ~handles[b].typed
  /\ ConnectAll(Zip(handles[a].outs, handles[b].ins), How(TRUE, FALSE, OnError))

ToGraphOut(a, additive) ==
  /\ Call("graph_out")
  /\ ConnectAll([i \in DOMAIN handles[a].outs |-> <<handles[a].outs[i], <<0, i>>>>],
                How(additive, FALSE, IF handles[a].typed THEN "panic" ELSE "log"))

ToGraphOutChannels(a, channels, additive) ==
  /\ Call("graph_out")
  /\ handles[a].typed => Len(channels) = Len(handles[a].outs)
  /\ ConnectAll(Zip(handles[a].outs, [i \in DOMAIN channels |-> <<0, channels[i]>>]),
                How(additive, FALSE, IF handles[a].typed THEN "panic" ELSE "log"))

(* Only the first output is linked, and none of the graph.                 *)
Link(a, p, b) ==
  /\ Call("link")
  /\ handles[a].node # 0
  /\ handles[b].typed /\ Len(handles[b].outs) = 1
  /\ p \in 1..graph.nodes[handles[a].node].parameters
  /\ LET port == handles[b].outs[1]
         s == Parameter(handles[a].node, p)
     IN  IF port[1] = 0 THEN UNCHANGED <<graph, handles, phase, half>>
         ELSE IF s \notin DOMAIN graph.heard THEN Panic(TRUE, graph)
         ELSE /\ graph' = [graph EXCEPT !.heard[s] = <<Edge(port, FALSE)>>]
              /\ UNCHANGED <<handles, phase, half>>

-----------------------------------------------------------------------------
(* Arithmetic: a node for each pair of channels, whose inputs they become. *)
Operands(x, y) == <<x, y>>

WithOperator(g, op, x, y) ==
  LET n == Len(g.nodes) + 1
      inputs == Zip(Operands(x, y), Channels(n, 2))
  IN  ConnectPairs(Pushed(g, MathUGen(op)), inputs, Logged).graph
WithOperators(g, op, pairs) ==
  FoldLeft(LAMBDA h, pair : WithOperator(h, op, pair[1], pair[2]), g, pairs)
Results(g, count) == [i \in 1..count |-> <<Len(g.nodes) + i, 1>>]

StaticArithmetic(op, a, b) ==
  /\ Call("arithmetic")
  /\ handles[a].typed /\ handles[b].typed
  /\ Len(handles[a].outs) = Len(handles[b].outs)
  /\ graph' = WithOperators(graph, op, Zip(handles[a].outs, handles[b].outs))
  /\ NewHandle(ChannelsHandle(TRUE, <<>>, Results(graph, Len(handles[a].outs))))

DynamicArithmetic(op, a, b) ==
  /\ Call("arithmetic")
  /\ ~(handles[a].typed /\ handles[b].typed)
  /\ IF Len(handles[a].outs) # Len(handles[b].outs) THEN Panic(FALSE, graph)
     ELSE /\ graph' = WithOperators(graph, op, Zip(handles[a].outs, handles[b].outs))
          /\ NewHandle(ChannelsHandle(FALSE, <<>>, Results(graph, Len(handles[a].outs))))

(* One node for the constant, which is the second operand also when it is  *)
(* written on the left.                                                    *)
WithConstant(op, a) ==
  LET g == Pushed(graph, Constant)
      constant == <<Len(g.nodes), 1>>
  IN  /\ graph' = WithOperators(g, op, [i \in DOMAIN handles[a].outs |-> <<handles[a].outs[i], constant>>])
      /\ NewHandle(ChannelsHandle(handles[a].typed, <<>>, Results(g, Len(handles[a].outs))))

ArithmeticWithConstant(op, a) == Call("constant") /\ WithConstant(op, a)
ConstantOnTheLeft(op, a) == Call("constant_left") /\ WithConstant(op, a)

-----------------------------------------------------------------------------
(* Disconnecting and freeing.                                              *)
Others(edges, ports) ==
  FoldLeft(LAMBDA others, e : IF e.port \in ports THEN others ELSE Append(others, e), <<>>, edges)
Without(g, sinks, ports) ==
  [g EXCEPT !.required = TRUE,
            !.heard = [s \in DOMAIN @ |-> IF s \in sinks THEN Others(@[s], ports) ELSE @[s]]]
AllInputs(g) == {s \in DOMAIN g.heard : s[1] = "input"}

(* The links of parameters stay.  An input of the graph takes the graph    *)
(* output with its number along, or panics when there is none.             *)
DisconnectOutput(a, c) ==
  /\ Call("disconnect")
  /\ IF c \notin DOMAIN handles[a].outs THEN Panic(TRUE, graph)
     ELSE LET port == handles[a].outs[c]
              g == Without(graph, AllInputs(graph), {port})
          IN  IF port[1] # 0
              THEN graph' = g /\ UNCHANGED <<handles, phase, half>>
              ELSE IF port[2] > GraphOutputs THEN Panic(TRUE, graph)
              ELSE /\ graph' = [g EXCEPT !.heard[Input(port)] = <<>>]
                   /\ UNCHANGED <<handles, phase, half>>

DisconnectInput(a, c) ==
  /\ Call("disconnect")
  /\ IF c \notin DOMAIN handles[a].ins \/ Input(handles[a].ins[c]) \notin DOMAIN graph.heard
     THEN Panic(TRUE, graph)
     ELSE /\ graph' = [graph EXCEPT !.required = TRUE, !.heard[Input(handles[a].ins[c])] = <<>>]
          /\ UNCHANGED <<handles, phase, half>>

FreeNode(n) ==
  /\ Call("free")
  /\ graph.nodes[n].kind = "ugen"
  /\ graph.nodes[n].state = "live"                 \* otherwise nothing, or an error
  /\ LET g == Without(graph, AllInputs(graph), ToSet(Channels(n, graph.nodes[n].outputs)))
     IN  graph' = [g EXCEPT !.nodes[n].state = "freed",
                            !.heard = [s \in {s \in DOMAIN @ : s[2] # n} |-> @[s]]]
  /\ UNCHANGED <<handles, phase, half>>

-----------------------------------------------------------------------------
(* The edit is dropped: a commit.  A node that was freed in an earlier     *)
(* edit may be removed.  The calculations panic when they come to a node   *)
(* that is not there.                                                      *)
Removed(g, K) ==
  [g EXCEPT !.nodes = [n \in DOMAIN @ |-> IF n \in K THEN [@[n] EXCEPT !.state = "removed"] ELSE @[n]]]
Committed(g) ==
  [g EXCEPT !.required = FALSE,
            !.nodes = [n \in DOMAIN @ |-> IF @[n].state = "freed" THEN [@[n] EXCEPT !.state = "sent"] ELSE @[n]]]
Searched(g) ==
  LET reached[i \in Nat] ==
        IF i = 0 THEN Sources(g, InputSinks(g, {0}))
        ELSE LET K == reached[i - 1] IN K \cup Sources(g, {s \in DOMAIN g.heard : s[2] \in K})
  IN  reached[Len(g.nodes)]
CanSchedule(g) ==
  /\ \A n \in Searched(g) : g.nodes[n].state = "live"
  /\ \A n \in Sources(g, DOMAIN g.heard) : g.nodes[n].state # "removed"

Drop(K) ==
  /\ phase \in {"edit", "unwinding"}
  /\ \A n \in K : graph.nodes[n].state = "sent"
  /\ LET g == Removed(graph, K)
     IN  IF g.required /\ ~CanSchedule(g)
         THEN graph' = g /\ phase' = IF phase = "edit" THEN "panicked" ELSE "aborted"
         ELSE /\ graph' = IF g.required THEN Committed(g) ELSE g
              /\ phase' = IF phase = "edit" /\ left > 0 THEN "edit" ELSE "ended"
  /\ handles' = <<>>
  /\ UNCHANGED <<calls, half, left>>

Next ==
  \/ \E shape \in UNION {ToSet(start.shapes) : start \in Starts} :
       Push(UGen(shape)) \/ PushWithDoneAction(UGen(shape))
  \/ \E n \in DOMAIN graph.nodes : HandleOf(n) \/ HandleFromName(n) \/ FreeNode(n)
  \/ \E channels \in Selections :
       \/ FromInputs(channels)
       \/ \E a \in DOMAIN handles :
            Out(a, channels) \/ \E additive \in BOOLEAN : ToGraphOutChannels(a, channels, additive)
  \/ \E a, b \in DOMAIN handles :
       \/ StaticStack(a, b) \/ DynamicStack(a, b) \/ TryTo(a, b)
       \/ \E additive, feedback \in BOOLEAN :
            StaticTo(a, b, additive, feedback) \/ DynamicTo(a, b, additive, feedback)
       \/ \E op \in Operations : StaticArithmetic(op, a, b) \/ DynamicArithmetic(op, a, b)
       \/ \E p \in 1..2 : Link(a, p, b)
  \/ \E a \in DOMAIN handles :
       \/ Name(a) \/ Dynamic(a) \/ ToChannelsHandle(a)
       \/ \E additive \in BOOLEAN : ToGraphOut(a, additive)
       \/ \E op \in Operations : ArithmeticWithConstant(op, a) \/ ConstantOnTheLeft(op, a)
       \/ \E c \in 1..3 : DisconnectOutput(a, c) \/ DisconnectInput(a, c)
  \/ \E K \in SUBSET {n \in DOMAIN graph.nodes : graph.nodes[n].state = "sent"} : Drop(K)

Spec == Init /\ [][Next]_vars

-----------------------------------------------------------------------------
(***************************************************************************)
(* Properties.                                                             *)
(***************************************************************************)
Node == DOMAIN graph.nodes
Outputs == (UNION {{<<n, c>> : c \in 1..graph.nodes[n].outputs} : n \in Node})
             \cup {<<0, c>> : c \in 1..GraphInputs}
Inputs == UNION {{<<n, c>> : c \in 1..graph.nodes[n].inputs} : n \in Node}

(* Types; and handles and edges name channels that nodes have, which is    *)
(* why connecting them has no channel of a node to check.                  *)
TypeOK ==
  /\ graph.required \in BOOLEAN
  /\ \A n \in Node : graph.nodes[n].state \in {"live", "freed", "sent", "removed"}
  /\ \A s \in DOMAIN graph.heard : \A i \in DOMAIN graph.heard[s] :
       graph.heard[s][i].port \in Outputs /\ graph.heard[s][i].delayed \in BOOLEAN
  /\ \A a \in DOMAIN handles : /\ ToSet(handles[a].outs) \subseteq Outputs
                               /\ ToSet(handles[a].ins) \subseteq Inputs
                               /\ handles[a].node \in Node \cup {0}
  /\ phase \in {"edit", "unwinding", "aborted", "panicked", "ended"}
  /\ half \in BOOLEAN /\ left \in Nat

(* What an output stands for: itself, or the expression of its operators.  *)
Operators(g) == {n \in DOMAIN g.nodes : g.nodes[n].kind \in Operations}
Value(g, port) ==
  LET Of(p, val) == IF p[1] \in Operators(g) THEN val[p[1]]
                    ELSE IF p[1] # 0 /\ g.nodes[p[1]].kind = "constant" THEN <<"constant">>
                    ELSE <<"output", p>>
      val[n \in Operators(g)] ==
        <<g.nodes[n].kind>> \o [c \in 1..2 |->
           LET heard == g.heard[Input(<<n, c>>)]
           IN  <<"sum", [i \in DOMAIN heard |-> Of(heard[i].port, val)]>>]
  IN  Of(port, val)
Values(g, h) == [i \in DOMAIN h.outs |-> Value(g, h.outs[i])]
Sum(x) == <<"sum", <<x>>>>
ChannelByChannel(op, xs, ys) == [i \in DOMAIN xs |-> <<op, Sum(xs[i]), Sum(ys[i])>>]
Repeated(x, xs) == [i \in DOMAIN xs |-> x]

(* "Perform a power operation on each channel pair, i.e.                   *)
(* `self[0].pow(rhs[0])` etc." (GraphEdit), and likewise for the operators *)
(* and for a constant: what a handle to arithmetic stands for is that of   *)
(* its operands, in their order, however they were made; stacking and      *)
(* selecting keep the order of channels; and only disconnecting and        *)
(* freeing change what a handle stands for later on.                       *)
Newest == handles'[Len(handles')]
Calculates(a, b) ==
  \A op \in Operations :
     (StaticArithmetic(op, a, b) \/ DynamicArithmetic(op, a, b)) /\ phase' = "edit"
     => Values(graph', Newest) = ChannelByChannel(op, Values(graph, handles[a]), Values(graph, handles[b]))
CalculatesWithConstant(a) ==
  \A op \in Operations :
     ArithmeticWithConstant(op, a)
     => LET xs == Values(graph, handles[a])
        IN  Values(graph', Newest) = ChannelByChannel(op, xs, Repeated(<<"constant">>, xs))
Stacks(a, b) ==
  StaticStack(a, b) \/ DynamicStack(a, b)
  => /\ Newest.outs = handles[a].outs \o handles[b].outs
     /\ Newest.ins = handles[a].ins \o handles[b].ins
Frees == (\E n \in Node : FreeNode(n)) \/ (\E a \in DOMAIN handles, c \in 1..3 : DisconnectOutput(a, c))

ResultsAsAsked ==
  [][/\ \A a, b \in DOMAIN handles : Calculates(a, b) /\ CalculatesWithConstant(a) /\ Stacks(a, b)
     /\ ~Frees => \A a \in DOMAIN handles : Values(graph', handles[a]) = Values(graph, handles[a])]_vars

(* A constant on the left is the left operand.                             *)
LeftConstantIsLeft ==
  [][\A a \in DOMAIN handles, op \in Operations :
       ConstantOnTheLeft(op, a)
       => LET xs == Values(graph, handles[a])
          IN  Values(graph', Newest) = ChannelByChannel(op, Repeated(<<"constant">>, xs), xs)]_vars

(* "If there is an error connecting the nodes, that error is logged and    *)
(* subsequent connections are made" (to): of the pairs of channels as many *)
(* are added as make no circle, to what their sinks heard, and those left  *)
(* out would have made one.  "Any subsequent channels are not connected"   *)
(* (try_to): a beginning of the pairs is added, and the next would have    *)
(* made a circle.                                                          *)
Acyclic(g) ==
  \A S \in SUBSET DOMAIN g.nodes :
     S # {} => \E n \in S : Sources(g, InputSinks(g, {n})) \cap S = {}
Extended(g, sink, edge) ==                         \* also when the sink went with its node
  [g EXCEPT !.heard = [s \in DOMAIN @ \cup {sink} |->
                         IF s # sink THEN @[s] ELSE IF s \in DOMAIN @ THEN Append(@[s], edge) ELSE <<edge>>]]
Closes(g, pair) ==
  pair[1][1] # 0 /\ ~ Acyclic(Extended(g, Input(pair[2]), Edge(pair[1], FALSE)))
Chosen(pairs, I, s) ==
  FoldLeftDomain(LAMBDA edges, i : IF i \in I /\ Input(pairs[i][2]) = s
                                   THEN Append(edges, Edge(pairs[i][1], FALSE)) ELSE edges, <<>>, pairs)
Adds(pairs, I) ==
  /\ \A i \in I : Input(pairs[i][2]) \in DOMAIN graph.heard
  /\ \A s \in DOMAIN graph.heard : graph'.heard[s] = graph.heard[s] \o Chosen(pairs, I, s)

AllThatFit(pairs) ==
  \E I \in SUBSET DOMAIN pairs : /\ Adds(pairs, I)
                                 /\ \A i \in DOMAIN pairs \ I : Closes(graph', pairs[i])
ThoseBeforeACircle(pairs) ==
  \E k \in 0..Len(pairs) : /\ Adds(pairs, 1..k)
                           /\ k < Len(pairs) => Closes(graph', pairs[k + 1])
OneForASink(pairs) ==
  \A s \in DOMAIN graph.heard :
     \/ graph'.heard[s] = graph.heard[s]
     \/ \E i \in DOMAIN pairs : /\ Input(pairs[i][2]) = s
                                /\ Len(graph'.heard[s]) = 1
                                /\ graph'.heard[s][1].port = pairs[i][1]
AsAsked(a, b) ==
  LET pairs == Zip(handles[a].outs, handles[b].ins)
  IN  /\ StaticTo(a, b, TRUE, FALSE) \/ DynamicTo(a, b, TRUE, FALSE) => AllThatFit(pairs)
      /\ TryTo(a, b) => ThoseBeforeACircle(pairs)
      /\ \A feedback \in BOOLEAN :
           StaticTo(a, b, FALSE, feedback) \/ DynamicTo(a, b, FALSE, feedback) => OneForASink(pairs)

ConnectsAllThatFits ==
  [][phase' = "edit" => /\ Acyclic(graph) => Acyclic(graph')
                        /\ \A a, b \in DOMAIN handles : AsAsked(a, b)]_vars

(* A call that panics may have connected some of its channels.  "When the  *)
(* `GraphEdit` is dropped, the changes are committed to the graph"         *)
(* (GraphEdit): half of a call never is.                                   *)
HalfCallsNeverPlayed == half => phase = "aborted"
=============================================================================
