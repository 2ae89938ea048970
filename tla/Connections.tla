----------------------------- MODULE Connections ----------------------------
(***************************************************************************)
(* What connecting and disconnecting mean, without the nodes that a Graph  *)
(* adds by itself: at every sink, how many times each outlet is summed.    *)
(* An outlet is an output of a node or an input of the graph, taken in     *)
(* this block or, through feedback, in the block before.                   *)
(***************************************************************************)
EXTENDS Naturals

CONSTANTS
  Sink,                     \* the inputs of nodes, their parameters, the graph outputs
  Outlet,
  Removable                 \* pairs of the sinks and the outlets that may be removed at once

VARIABLE connected

Nothing == [o \in Outlet |-> 0]

Init == connected = [s \in Sink |-> Nothing]

Add(o, s) == connected' = [connected EXCEPT ![s][o] = @ + 1]

Replace(o, s) == connected' = [connected EXCEPT ![s] = [Nothing EXCEPT ![o] = 1]]

(* Some sinks lose all their outlets, some outlets all their sinks.        *)
Remove(sinks, outlets) ==
  connected' = [s \in Sink |-> [o \in Outlet |->
                  IF s \in sinks \/ o \in outlets THEN 0 ELSE connected[s][o]]]

Next ==
  \/ \E o \in Outlet, s \in Sink : Add(o, s) \/ Replace(o, s)
  \/ \E r \in Removable : Remove(r[1], r[2])

Spec == Init /\ [][Next]_connected
=============================================================================
