---------------------------- MODULE GraphUpdates ----------------------------
(***************************************************************************)
(* What a Graph and its GraphGen promise each other, with the rings, the   *)
(* flags and the moves of the UGens left out.                              *)
(*                                                                         *)
(* The control thread publishes graphs, each the set of nodes that it      *)
(* runs.  The audio thread plays one graph at a time and replaces it by    *)
(* the oldest published one: none is skipped and none is played twice.     *)
(* The control thread reclaims a node only when neither the graph being    *)
(* played nor a graph that is still to be played contains it, and a        *)
(* reclaimed node is never published again.                                *)
(***************************************************************************)
EXTENDS Sequences

CONSTANT Key                \* the keys of the slot map; a key is never reused

VARIABLES
  queue,                    \* the graphs published and not yet played
  playing,                  \* the graph the audio thread plays
  reclaimed                 \* the nodes whose memory has been given back

vars == <<queue, playing, reclaimed>>

(* The nodes the audio thread can still reach. *)
Reachable == playing \cup UNION {queue[i] : i \in DOMAIN queue}

(* A graph that is built with nodes in it has its first update queued. *)
Init ==
  /\ playing \in SUBSET Key
  /\ queue \in {<<>>, <<playing>>}
  /\ reclaimed = {}

Publish(nodes) ==
  /\ nodes \cap reclaimed = {}
  /\ queue' = Append(queue, nodes)
  /\ UNCHANGED <<playing, reclaimed>>

Play ==
  /\ queue # <<>>
  /\ playing' = Head(queue)
  /\ queue' = Tail(queue)
  /\ UNCHANGED reclaimed

Reclaim(nodes) ==
  /\ nodes \cap Reachable = {}
  /\ reclaimed' = reclaimed \cup nodes
  /\ UNCHANGED <<queue, playing>>

Next ==
  \/ \E nodes \in SUBSET Key : Publish(nodes) \/ Reclaim(nodes)
  \/ Play

Spec == Init /\ [][Next]_vars
=============================================================================
