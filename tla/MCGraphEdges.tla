---------------------------- MODULE MCGraphEdges ----------------------------
EXTENDS GraphEdges, TLC

Symmetric == Permutations(User) \cup Permutations(Own)

Nodes == {"push", "connect", "feedback", "disconnect", "free"}
OneSetOfCalls == {Nodes}

(* Nodes that are there from the start; parameters; inputs of the graph. *)
ThreeSetsOfCalls ==
  {Nodes \ {"push"}, {"parameter"}, {"graph_input", "disconnect_graph_input"}}
=============================================================================
