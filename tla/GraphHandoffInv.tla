--------------------------- MODULE GraphHandoffInv --------------------------
(***************************************************************************)
(* The inductive invariant behind the safety of the handoff.               *)
(*                                                                         *)
(* The TaskData that the audio thread runs and the ones on their way form  *)
(* a chain.  Each names its UGens by their place in the one before it, and *)
(* the nodes name theirs by their place in the last one.  The flags rise   *)
(* along the chain, so a raised flag speaks for all that is before it.     *)
(***************************************************************************)
EXTENDS GraphHandoff

Chain(i) == IF i = 0 THEN current ELSE newTaskData[i]
Last == Chain(Len(newTaskData))

(* Every task of t is new or names the place of its node in p. *)
Follows(t, p) ==
  \A n \in DOMAIN t.order :
     \/ t.ugens[n] = Dyn(t.order[n])
     \/ \E j \in DOMAIN p.order : t.ugens[n] = Take(j) /\ p.order[j] = t.order[n]

SameLength(td) == DOMAIN td.ugens = DOMAIN td.order

ChainLinked ==
  /\ \A i \in 0..Len(newTaskData) : SameLength(Chain(i))
  /\ \A i \in 1..Len(newTaskData) : Follows(newTaskData[i], Chain(i - 1))

(* The TaskData that a GraphGen is built with may have no UGens; then it   *)
(* is replaced, by one that has all of its own, before anything runs.      *)
CurrentReady ==
  \/ OwnsItsUGens(current)
  \/ /\ newTaskData # <<>>
     /\ OwnsItsUGens(newTaskData[1])
     /\ aud # "run"
     /\ aud = "apply" => chunk > 0 /\ retiring = <<>>

NothingRetiring == aud # "apply" => retiring = <<>>

(* The chunk being read is the front of the ring. *)
ChunkInRing == chunk <= Len(newTaskData)

NodesLinked ==
  ctl # "gone" =>
    \A k \in nodes \ pendingKeys : nodeUGen[k] # Local =>
       /\ nodeUGen[k].index \in DOMAIN Last.order
       /\ Last.order[nodeUGen[k].index] = k

FlagsRise ==
  /\ \A i \in 0..Len(newTaskData) : Chain(i).flag < nextFlag
  /\ \A i, j \in 0..Len(newTaskData) : i < j => Chain(i).flag < Chain(j).flag
  /\ \A f \in applied : f <= current.flag

PendingLeft ==
  \A p \in pending :
     /\ p[2] <= nextFlag
     /\ \A i \in 0..Len(newTaskData) : p[2] <= Chain(i).flag => p[1] \notin NodesOf(Chain(i))

(* The chain is linked from the running tasks to the last update, its      *)
(* flags rise, and no node that is pending or removed is where a raised    *)
(* flag says it is not.                                                    *)
IInv ==
  /\ TypeOK
  /\ ChainLinked
  /\ CurrentReady
  /\ NothingRetiring
  /\ ChunkInRing
  /\ NodesLinked
  /\ FlagsRise
  /\ PendingLeft
  /\ RemovedUnreachable
-----------------------------------------------------------------------------
(***************************************************************************)
(* What the memory of the handoff rests on.                                *)
(***************************************************************************)
(* A TaskData holds the Arc to its allocation until it runs, and then the  *)
(* GraphGen does.                                                          *)
ArcsHeld ==
  /\ \A i \in DOMAIN newTaskData : newTaskData[i].holds
  /\ PointersBacked

(* How much is in the rings.  A slot of the chunk is taken while the       *)
(* TaskData that was replaced by it is on its way back.                    *)
RingsFit ==
  /\ Len(newTaskData) + taken <= RingSize
  /\ Len(retired) <= RingSize
  /\ Len(retiring) <= 1
  /\ Len(retiring) <= taken
  /\ ctl = "drain" => draining <= Len(retired) /\ UnderWay <= RingSize + draining
  /\ ctl = "send" => UnderWay <= RingSize
  /\ OneTooMany

(* Arcs are held where pointers are used, allocations are kept while lent, *)
(* and nothing overflows a ring.                                           *)
MemoryInv == ArcsHeld /\ RingsFit /\ AllocationsKept
-----------------------------------------------------------------------------
(***************************************************************************)
(* What the ownership of the UGens rests on.                               *)
(***************************************************************************)
(* The places that hold the UGen of k: which ring, where in it, and which  *)
(* of the tasks.                                                           *)
PlacesIn(ring, k) ==
  UNION {{n} \X {i \in DOMAIN ring[n].ugens : ring[n].ugens[i] = Dyn(k)} : n \in DOMAIN ring}
Holders(k) ==
  {"current"} \X PlacesIn(<<current>>, k)
    \cup {"new"} \X PlacesIn(newTaskData, k)
    \cup {"retired"} \X PlacesIn(retired, k)
    \cup {"retiring"} \X PlacesIn(retiring, k)

Fresh == {k \in Key : nodeUGen[k] \in {Absent, Local}}

(* A UGen is in its node until it is sent, and then in one task.           *)
OwnedOnce ==
  \A k \in Key : /\ \A p, q \in Holders(k) : p = q
                 /\ k \in Fresh => Holders(k) = {}

(* No node is twice in an order, so no two tasks take from one place.      *)
OrdersDistinct ==
  \A i \in 0..Len(newTaskData) :
     \A m, n \in DOMAIN Chain(i).order : Chain(i).order[m] = Chain(i).order[n] => m = n

(* The running tasks have no UGen but their own.                           *)
CurrentNames ==
  \A j \in DOMAIN current.ugens : \A k \in Key :
     current.ugens[j] = Dyn(k) => j \in DOMAIN current.order /\ current.order[j] = k

(* No update has a node before it has been sent.                           *)
FreshUnsent == \A k \in Fresh : \A i \in 0..Len(newTaskData) : k \notin NodesOf(Chain(i))

(* Every update has the flag after that of the one before it.              *)
FlagsFollow ==
  /\ \A i \in 1..Len(newTaskData) : Chain(i).flag = Chain(i - 1).flag + 1
  /\ nextFlag = Last.flag + 1

(* A node goes out of the chain only where a flag of its own says so.      *)
DeparturesFlagged ==
  \A i \in 1..Len(newTaskData) : \A k \in nodes \cap NodesOf(Chain(i - 1)) :
     \/ k \in NodesOf(Chain(i))
     \/ \E p \in pending : p[1] = k /\ p[2] <= Chain(i).flag

(* UGens are moved along a chain that names every node once and flags      *)
(* every departure.                                                        *)
OwnInv ==
  /\ OwnedOnce
  /\ OrdersDistinct
  /\ CurrentNames
  /\ FreshUnsent
  /\ FlagsFollow
  /\ DeparturesFlagged
  /\ UGensKept
=============================================================================
