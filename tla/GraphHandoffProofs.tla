------------------------- MODULE GraphHandoffProofs -------------------------
(***************************************************************************)
(* Proofs about GraphHandoff, for every set of keys and every ring size.   *)
(***************************************************************************)
EXTENDS GraphHandoffInv, FiniteSetTheorems, SequenceTheorems, TLAPS

(* An order of a set of keys is a sequence of keys of that set.            *)
LEMMA OrdersType ==
  ASSUME NEW S \in SUBSET Key, NEW o \in Orders(S)
  PROVE  o \in Seq(Key) /\ \A i \in DOMAIN o : o[i] \in S
  BY FS_CardinalityType, FS_Subset, KeyAssumption DEF Orders

-----------------------------------------------------------------------------
(* The initial states satisfy the invariant. *)
LEMMA InitIInv == Init => IInv
<1> SUFFICES ASSUME Init PROVE IInv
  OBVIOUS
<1>1. PICK S \in SUBSET Key : \E order \in Orders(S) : InitWith(order)
  BY DEF Init
<1>2. PICK order \in Orders(S) : InitWith(order)
  BY <1>1
<1>3. order \in Seq(Key)
  BY OrdersType
<1>4. TypeOK
  <2>1. nodeUGen \in [Key -> NodeUGens]
    <3> SUFFICES ASSUME NEW k \in Key PROVE nodeUGen[k] \in NodeUGens
      BY <1>2 DEF InitWith
    <3>1. CASE \E i \in DOMAIN order : order[i] = k
      <4>1. (CHOOSE i \in DOMAIN order : order[i] = k) \in Nat
        BY <1>3, <3>1
      <4> QED BY <4>1, <3>1, <1>2 DEF InitWith, NodeUGens, Live
    <3>2. CASE ~ \E i \in DOMAIN order : order[i] = k
      BY <3>2, <1>2 DEF InitWith, NodeUGens, Absent
    <3> QED BY <3>1, <3>2
  <2>2. current \in TaskData
    BY <1>2, <1>3 DEF InitWith, TaskData, TaskUGens, Take
  <2>3. newTaskData \in Seq(TaskData)
    <3>1. CASE order = <<>>
      BY <3>1, <1>2 DEF InitWith
    <3>2. CASE order # <<>>
      <4> DEFINE td == [order |-> order, ugens |-> [i \in DOMAIN order |-> Dyn(order[i])],
                        flag |-> 1, buffer |-> 0, holds |-> TRUE]
      <4>1. td \in TaskData
        BY <1>3 DEF TaskData, TaskUGens, Dyn
      <4>2. newTaskData = <<td>>
        BY <3>2, <1>2 DEF InitWith
      <4> QED BY <4>1, <4>2
    <3> QED BY <3>1, <3>2
  <2>4. nextFlag \in Nat
    BY <1>2 DEF InitWith
  <2>5. retired \in Seq(TaskData) /\ retiring \in Seq(TaskData)
    BY DEF Init
  <2>6. strong \in [Key -> SUBSET Key]
    BY DEF Init
  <2> HIDE DEF TaskData
  <2> QED BY <2>1, <2>2, <2>3, <2>4, <2>5, <2>6 DEF Init, TypeOK
<1>5. ChainLinked /\ FlagsRise
  BY <1>2, <1>3 DEF Init, InitWith, ChainLinked, FlagsRise, Chain, SameLength, Follows
<1>6. CurrentReady
  <2>1. CASE order = <<>>
    BY <2>1, <1>2 DEF InitWith, CurrentReady, OwnsItsUGens
  <2>2. CASE order # <<>>
    BY <2>2, <1>2, <1>3 DEF Init, InitWith, CurrentReady, OwnsItsUGens
  <2> QED BY <2>1, <2>2
<1>7. NodesLinked
  <2> SUFFICES ASSUME NEW k \in nodes, nodeUGen[k] # Local
               PROVE /\ nodeUGen[k].index \in DOMAIN Last.order
                     /\ Last.order[nodeUGen[k].index] = k
    BY DEF NodesLinked
  <2>1. \E i \in DOMAIN order : order[i] = k
    BY <1>2 DEF InitWith, nodes, Absent
  <2>2. nodeUGen[k].index \in DOMAIN order /\ order[nodeUGen[k].index] = k
    BY <1>2, <2>1 DEF InitWith, nodes, Live
  <2>3. Last.order = order
    BY <1>2, <1>3 DEF InitWith, Last, Chain
  <2> QED BY <2>2, <2>3
<1>8. NothingRetiring /\ ChunkInRing /\ PendingLeft
  BY <1>4 DEF Init, NothingRetiring, ChunkInRing, PendingLeft, TypeOK
<1>9. RemovedUnreachable
  BY <1>2 DEF InitWith, RemovedUnreachable, Absent, Live, Removed
<1> QED BY <1>4, <1>5, <1>6, <1>7, <1>8, <1>9 DEF IInv

-----------------------------------------------------------------------------
(***************************************************************************)
(* Every step keeps the types.                                             *)
(***************************************************************************)
(* The tasks made for an order of nodes are typed. *)
LEMMA MakeTasksType ==
  ASSUME TypeOK, NEW order \in Seq(Key), \A i \in DOMAIN order : order[i] \in nodes
  PROVE  MakeTasks(order) \in Seq(TaskUGens) /\ DOMAIN MakeTasks(order) = DOMAIN order
<1>1. ASSUME NEW i \in DOMAIN order
      PROVE  (IF nodeUGen[order[i]] = Local THEN Dyn(order[i])
              ELSE Take(nodeUGen[order[i]].index)) \in TaskUGens
  <2>1. order[i] \in Key
    OBVIOUS
  <2>2. nodeUGen[order[i]].tag \in {"local", "live"}
    BY DEF nodes
  <2>3. CASE nodeUGen[order[i]] = Local
    BY <2>1, <2>3 DEF TaskUGens, Dyn
  <2>4. CASE nodeUGen[order[i]] # Local
    BY <2>1, <2>2, <2>4 DEF TypeOK, NodeUGens, TaskUGens, Take, Local, Absent, Removed
  <2> QED BY <2>3, <2>4
<1> QED BY <1>1 DEF MakeTasks

(* Giving the nodes their places in a new order leaves every node with a   *)
(* UGen field.                                                             *)
LEMMA MadeLiveType ==
  ASSUME TypeOK, NEW order \in Seq(Key)
  PROVE  MadeLive(order) \in [Key -> NodeUGens]
<1> SUFFICES ASSUME NEW k \in Key PROVE MadeLive(order)[k] \in NodeUGens
  BY DEF MadeLive
<1>1. CASE \E i \in DOMAIN order : order[i] = k
  <2>1. (CHOOSE i \in DOMAIN order : order[i] = k) \in Nat
    BY <1>1
  <2> QED BY <2>1, <1>1 DEF MadeLive, NodeUGens, Live
<1>2. CASE ~ \E i \in DOMAIN order : order[i] = k
  BY <1>2 DEF MadeLive, TypeOK
<1> QED BY <1>1, <1>2

(* The UGens of a TaskData and of the one it takes them from stay typed. *)
LEMMA TakeOverType ==
  ASSUME NEW td \in TaskData, NEW old \in TaskData,
         SameLength(td), SameLength(old), Follows(td, old)
  PROVE  TakeOver(td, old) \in TaskData /\ TakenFrom(old, td) \in TaskData
<1> DEFINE u == [i \in DOMAIN td.ugens |->
                   IF td.ugens[i].tag = "take" THEN old.ugens[td.ugens[i].from] ELSE td.ugens[i]]
           v == [j \in DOMAIN old.ugens |->
                   IF \E i \in DOMAIN td.ugens : td.ugens[i] = Take(j) THEN Taken ELSE old.ugens[j]]
<1>0. td.ugens \in Seq(TaskUGens) /\ old.ugens \in Seq(TaskUGens)
  BY DEF TaskData
<1>1. ASSUME NEW i \in DOMAIN td.ugens PROVE u[i] \in TaskUGens
  <2>1. CASE td.ugens[i].tag = "take"
    <3> HIDE DEF u, v
    <3>0. i \in DOMAIN td.order /\ td.ugens[i] # Dyn(td.order[i])
      BY <2>1 DEF SameLength, Dyn
    <3>1. PICK j \in DOMAIN old.order : td.ugens[i] = Take(j)
      BY <3>0 DEF Follows
    <3>2. td.ugens[i].from \in DOMAIN old.ugens
      BY <3>1 DEF SameLength, Take
    <3>3. old.ugens[td.ugens[i].from] \in TaskUGens
      BY <1>0, <3>2
    <3>4. u[i] = old.ugens[td.ugens[i].from]
      BY <2>1 DEF u
    <3> QED BY <3>3, <3>4
  <2>2. CASE td.ugens[i].tag # "take"
    BY <1>0, <2>2
  <2> QED BY <2>1, <2>2
<1>2. u \in Seq(TaskUGens)
  <2>1. DOMAIN u = 1..Len(td.ugens) /\ Len(td.ugens) \in Nat
    BY <1>0
  <2>2. u = [i \in 1..Len(td.ugens) |-> u[i]]
    BY <2>1
  <2> HIDE DEF u
  <2> QED BY <1>1, <2>1, <2>2
<1>3. ASSUME NEW j \in DOMAIN old.ugens PROVE v[j] \in TaskUGens
  BY <1>0 DEF TaskUGens
<1>4. v \in Seq(TaskUGens)
  <2>1. DOMAIN v = 1..Len(old.ugens) /\ Len(old.ugens) \in Nat
    BY <1>0
  <2>2. v = [j \in 1..Len(old.ugens) |-> v[j]]
    BY <2>1
  <2> HIDE DEF v
  <2> QED BY <1>3, <2>1, <2>2
<1>5. TakeOver(td, old) = [td EXCEPT !.ugens = u]
  BY DEF TakeOver
<1>6. TakenFrom(old, td) = [old EXCEPT !.ugens = v]
  BY DEF TakenFrom
<1> HIDE DEF u, v
<1>7. [td EXCEPT !.ugens = u] \in TaskData
  BY <1>2 DEF TaskData
<1>8. [old EXCEPT !.ugens = v] \in TaskData
  BY <1>4 DEF TaskData
<1> QED BY <1>5, <1>6, <1>7, <1>8

(* What the first TaskData in the ring, when there is a chunk, has to do   *)
(* with the running one.                                                   *)
LEMMA HeadOfChunk ==
  ASSUME TypeOK, ChainLinked, ChunkInRing, chunk > 0
  PROVE  /\ newTaskData # <<>>
         /\ Head(newTaskData) = newTaskData[1]
         /\ Head(newTaskData) \in TaskData
         /\ Tail(newTaskData) \in Seq(TaskData)
         /\ Len(Tail(newTaskData)) = Len(newTaskData) - 1
         /\ \A i \in 1..Len(Tail(newTaskData)) : Tail(newTaskData)[i] = newTaskData[i + 1]
         /\ SameLength(Head(newTaskData))
         /\ SameLength(current)
         /\ Follows(Head(newTaskData), current)
<1> HIDE DEF TaskData
<1>1. newTaskData \in Seq(TaskData) /\ chunk \in Nat
  BY DEF TypeOK
<1>2. newTaskData # <<>> /\ Len(newTaskData) \in Nat /\ 1 \in 1..Len(newTaskData)
  BY <1>1 DEF ChunkInRing
<1>3. /\ Head(newTaskData) = newTaskData[1]
      /\ Head(newTaskData) \in TaskData
      /\ Tail(newTaskData) \in Seq(TaskData)
      /\ Len(Tail(newTaskData)) = Len(newTaskData) - 1
      /\ \A i \in 1..Len(Tail(newTaskData)) : Tail(newTaskData)[i] = newTaskData[i + 1]
  BY <1>1, <1>2
<1>4. SameLength(Chain(1)) /\ SameLength(Chain(0)) /\ Follows(newTaskData[1], Chain(0))
  BY <1>2 DEF ChainLinked
<1> QED BY <1>2, <1>3, <1>4 DEF Chain

(* What the orders of an update look like. *)
LEMMA SentOrder ==
  ASSUME NEW order \in Orders(nodes \ pendingKeys)
  PROVE  order \in Seq(Key) /\ \A i \in DOMAIN order : order[i] \in nodes /\ order[i] \notin pendingKeys
<1>1. nodes \ pendingKeys \in SUBSET Key
  BY DEF nodes
<1> QED BY <1>1, OrdersType

(* Every step of the handoff keeps the types.                              *)
LEMMA TypeStep == IInv /\ [Next]_vars => TypeOK'
<1> SUFFICES ASSUME IInv, [Next]_vars PROVE TypeOK'
  OBVIOUS
<1> USE DEF vars, control, audio, shared
<1>0. TypeOK /\ ChainLinked /\ ChunkInRing
  BY DEF IInv
<1>1. ASSUME NEW k \in Key, PushNode(k) PROVE TypeOK'
  BY <1>0, <1>1 DEF TypeOK, PushNode, NodeUGens
<1>2. ASSUME NEW k \in Key, FreeNode(k) PROVE TypeOK'
  <2>1. pending' \subseteq Key \X Nat /\ recalculate' \in BOOLEAN
    BY <1>0, <1>2 DEF TypeOK, FreeNode, Free, NewlyFreed, CanFree, nodes
  <2> QED BY <1>0, <1>2, <2>1 DEF TypeOK, FreeNode
<1>3. ASSUME NEW p \in Key, NEW q \in Key, PushFeedbackNodes(p, q) PROVE TypeOK'
  BY <1>0, <1>3 DEF TypeOK, PushFeedbackNodes, NodeUGens
<1>4. ASSUME NEW k \in Guarded, NEW m \in BOOLEAN, SetMortality(k, m) PROVE TypeOK'
  BY <1>0, <1>4, KeyAssumption DEF TypeOK, SetMortality
<1>5. CASE ChangeEdges
  BY <1>0, <1>5 DEF TypeOK, ChangeEdges
<1>6. CASE DropGraph
  BY <1>0, <1>6 DEF TypeOK, DropGraph
<1>7. CASE FreeMarked
  <2>1. pending' \subseteq Key \X Nat /\ recalculate' \in BOOLEAN
    <3>1. \A S : NewlyFreed(S) \subseteq Key
      BY DEF NewlyFreed, CanFree, nodes
    <3> QED BY <1>0, <1>7, <3>1 DEF TypeOK, FreeMarked, Free
  <2>2. scan' \subseteq Key
    BY <1>7, <2>1 DEF FreeMarked
  <2> QED BY <1>0, <1>7, <2>1, <2>2 DEF TypeOK, FreeMarked
<1>8. ASSUME NEW k \in Key, CheckOldNode(k) PROVE TypeOK'
  BY <1>0, <1>8 DEF TypeOK, CheckOldNode, NodeUGens
<1>20. CASE BeginCommit
  BY <1>0, <1>20, KeyAssumption DEF TypeOK, BeginCommit
<1>21. ASSUME NEW k \in Key, ReadMark(k) PROVE TypeOK'
  BY <1>0, <1>21 DEF TypeOK, ReadMark
<1>9. CASE FreeOldBuffers
  BY <1>0, <1>9 DEF TypeOK, FreeOldBuffers, KeptBuffers
<1>10. CASE ReadRetired
  BY <1>0, <1>10 DEF TypeOK, ReadRetired, RetiredSlots
<1>11. CASE DropRetired
  <2>0. retired \in Seq(TaskData) /\ draining \in Nat
    BY <1>0 DEF TypeOK
  <2> HIDE DEF TaskData
  <2>1. SubSeq(retired, draining + 1, Len(retired)) \in Seq(TaskData)
    <3>1. \A i \in draining + 1 .. Len(retired) : retired[i] \in TaskData
      BY <2>0
    <3>2. draining + 1 \in Int /\ Len(retired) \in Int
      BY <2>0
    <3> QED BY <3>1, <3>2, SubSeqProperties, Zenon
  <2>2. retired' \in Seq(TaskData)
    BY <1>11, <2>1 DEF DropRetired
  <2>3. ctl' \in {"send", "edit"} /\ draining' = 0
    BY <1>11 DEF DropRetired
  <2> QED BY <1>0, <1>11, <2>2, <2>3 DEF TypeOK, DropRetired
<1>12. ASSUME NEW order \in Orders(nodes \ pendingKeys), NEW buffer \in {allocation, nextFlag},
              SendTasks(order, buffer)
       PROVE  TypeOK'
  <2>1. order \in Seq(Key) /\ \A i \in DOMAIN order : order[i] \in nodes
    BY SentOrder
  <2>2. MakeTasks(order) \in Seq(TaskUGens)
    BY <1>0, <2>1, MakeTasksType
  <2>3. MadeLive(order) \in [Key -> NodeUGens]
    BY <1>0, <2>1, MadeLiveType
  <2>4. [order |-> order, ugens |-> MakeTasks(order), flag |-> nextFlag, buffer |-> buffer,
         holds |-> TRUE] \in TaskData
    BY <1>0, <2>1, <2>2 DEF TypeOK, TaskData
  <2>5. newTaskData' \in Seq(TaskData)
    BY <1>0, <1>12, <2>4 DEF TypeOK, SendTasks, SentData
  <2>6. /\ nextFlag' \in Nat
        /\ allocation' \in Nat
        /\ oldBuffers' \subseteq Nat
    <3>1. nextFlag \in Nat /\ allocation \in Nat /\ oldBuffers \subseteq Nat
      BY <1>0 DEF TypeOK
    <3> QED BY <1>12, <3>1 DEF SendTasks
  <2> HIDE DEF TaskData
  <2> QED BY <1>0, <1>12, <2>3, <2>5, <2>6 DEF TypeOK, SendTasks
<1>13. CASE SendFails
  BY <1>0, <1>13 DEF TypeOK, SendFails
<1>14. CASE BeginBlock
  BY <1>0, <1>14 DEF TypeOK, BeginBlock, NewSlots
<1>15. CASE ApplyTaskData
  <2>0. chunk > 0
    BY <1>15 DEF ApplyTaskData
  <2>1. /\ Head(newTaskData) \in TaskData
        /\ Tail(newTaskData) \in Seq(TaskData)
        /\ TakeOver(Head(newTaskData), current) \in TaskData
        /\ TakenFrom(current, Head(newTaskData)) \in TaskData
    <3>1. current \in TaskData
      BY <1>0 DEF TypeOK
    <3> QED BY <1>0, <2>0, <3>1, HeadOfChunk, TakeOverType
  <2>2. Head(newTaskData).flag \in Nat
    BY <2>1 DEF TaskData
  <2> HIDE DEF TaskData
  <2>3. /\ current' \in TaskData
        /\ newTaskData' \in Seq(TaskData)
    BY <1>15, <2>1 DEF ApplyTaskData
  <2>4. applied' \subseteq Nat /\ chunk' \in Nat /\ taken' \in Nat
    <3>1. applied \subseteq Nat /\ chunk \in Nat /\ taken \in Nat
      BY <1>0 DEF TypeOK
    <3>2. /\ applied' = applied \cup {Head(newTaskData).flag}
          /\ chunk' = chunk - 1
          /\ taken' = taken + 1
      BY <1>15 DEF ApplyTaskData
    <3>3. applied' \subseteq Nat
      BY <2>2, <3>1, <3>2, Zenon
    <3> QED BY <2>0, <3>1, <3>2, <3>3
  <2>5. retiring' \in Seq(TaskData)
    <3>1. \A x \in TaskData : <<x>> \in Seq(TaskData)
      OBVIOUS
    <3> QED BY <1>15, <2>1, <3>1 DEF ApplyTaskData
  <2> QED BY <1>0, <1>15, <2>3, <2>4, <2>5 DEF TypeOK, ApplyTaskData
<1>16. CASE RetireTaskData
  <2>1. retired' \in Seq(TaskData)
    <3> HIDE DEF TaskData
    <3>1. retired \in Seq(TaskData) /\ retiring \in Seq(TaskData)
      BY <1>0 DEF TypeOK
    <3>2. retired \o retiring \in Seq(TaskData)
      BY <3>1, ConcatProperties
    <3> QED BY <1>16, <3>1, <3>2 DEF RetireTaskData
  <2> HIDE DEF TaskData
  <2> QED BY <1>0, <1>16, <2>1 DEF TypeOK, RetireTaskData
<1>17. ASSUME NEW done \in SUBSET SelfFreeing, NEW fp \in BOOLEAN, RunTasks(done, fp) PROVE TypeOK'
  <2>1. current' \in TaskData
    BY <1>0, <1>17 DEF TypeOK, RunTasks, TaskData
  <2>2. removeMe' \subseteq Key
    BY <1>0, <1>17, KeyAssumption DEF TypeOK, RunTasks
  <2>3. genBuffer' \in Nat
    BY <1>0, <1>17 DEF TypeOK, RunTasks, TaskData
  <2> HIDE DEF TaskData
  <2> QED BY <1>0, <1>17, <2>1, <2>2, <2>3 DEF TypeOK, RunTasks
<1>18. CASE FreedBlock
  BY <1>0, <1>18 DEF TypeOK, FreedBlock
<1>19. CASE UNCHANGED vars
  BY <1>0, <1>19 DEF TypeOK
<1> QED BY <1>1, <1>2, <1>3, <1>4, <1>5, <1>6, <1>7, <1>8, <1>9, <1>10, <1>11, <1>12, <1>13,
           <1>14, <1>15, <1>16, <1>17, <1>18, <1>19, <1>20, <1>21 DEF Next, Edit, FinishCommit, Send, Block

-----------------------------------------------------------------------------
(***************************************************************************)
(* What a step does to the chain of TaskData: it appends one (SendTasks),  *)
(* it drops the first (ApplyTaskData), or it leaves the chain alone.       *)
(***************************************************************************)
SameChain ==
  /\ newTaskData' = newTaskData
  /\ applied' = applied
  /\ nextFlag' = nextFlag
  /\ current'.order = current.order
  /\ current'.ugens = current.ugens
  /\ current'.flag = current.flag

Sends == \E order \in Orders(nodes \ pendingKeys) :
           \E buffer \in {allocation, nextFlag} : SendTasks(order, buffer)

(* A step pushes a TaskData, applies one, or leaves the chain as it is.    *)
LEMMA StepKinds ==
  ASSUME TypeOK, [Next]_vars
  PROVE  Sends \/ ApplyTaskData \/ SameChain
<1> USE DEF vars, control, audio, shared
<1>1. ASSUME NEW done \in SUBSET SelfFreeing, NEW fp \in BOOLEAN, RunTasks(done, fp)
      PROVE  SameChain
  BY <1>1 DEF TypeOK, TaskData, RunTasks, SameChain
<1>2. CASE Edit
  BY <1>2 DEF Edit, PushNode, FreeNode, PushFeedbackNodes, SetMortality, ChangeEdges, DropGraph,
              SameChain
<1>3. CASE BeginCommit \/ FinishCommit
  BY <1>3 DEF BeginCommit, ReadMark, FreeMarked, FinishCommit, CheckOldNode, FreeOldBuffers,
              ReadRetired, DropRetired, Send, SendFails, Sends, SameChain
<1>4. CASE Block
  BY <1>1, <1>4 DEF Block, BeginBlock, RetireTaskData, FreedBlock, SameChain
<1>5. CASE UNCHANGED vars
  BY <1>5 DEF SameChain
<1> QED BY <1>2, <1>3, <1>4, <1>5 DEF Next

(* Every TaskData of the chain is typed. *)
LEMMA ChainType ==
  ASSUME TypeOK
  PROVE  /\ Len(newTaskData) \in Nat
         /\ \A i \in 0..Len(newTaskData) : Chain(i) \in TaskData
<1> HIDE DEF TaskData
<1>1. newTaskData \in Seq(TaskData) /\ current \in TaskData
  BY DEF TypeOK
<1>2. ASSUME NEW i \in 0..Len(newTaskData), i # 0 PROVE newTaskData[i] \in TaskData
  BY <1>1, <1>2
<1> QED BY <1>1, <1>2 DEF Chain

(* What it means for every place of the chain that the chain stays the     *)
(* same.                                                                   *)
LEMMA SameChainChain ==
  ASSUME SameChain, TypeOK
  PROVE  /\ Len(newTaskData') = Len(newTaskData)
         /\ \A i \in 0..Len(newTaskData) :
              /\ Chain(i)'.order = Chain(i).order
              /\ Chain(i)'.ugens = Chain(i).ugens
              /\ Chain(i)'.flag = Chain(i).flag
         /\ \A i \in 1..Len(newTaskData) : newTaskData'[i] = newTaskData[i]
  BY DEF SameChain, Chain

(* A push adds the new TaskData at the end of the chain.                   *)
LEMMA SendChain ==
  ASSUME TypeOK, NEW order, NEW buffer, SendTasks(order, buffer)
  PROVE  /\ Len(newTaskData) \in Nat
         /\ Len(newTaskData') = Len(newTaskData) + 1
         /\ \A i \in 0..Len(newTaskData) : Chain(i)' = Chain(i)
         /\ \A i \in 1..Len(newTaskData) : newTaskData'[i] = newTaskData[i]
         /\ newTaskData'[Len(newTaskData) + 1] = SentData(order, buffer)
         /\ \A i \in Nat : i = Len(newTaskData) + 1 => Chain(i)' = SentData(order, buffer)
<1> HIDE DEF TaskData
<1>1. newTaskData \in Seq(TaskData) /\ current' = current
  BY DEF TypeOK, SendTasks, audio
<1>2. newTaskData' = Append(newTaskData, SentData(order, buffer))
  BY DEF SendTasks, SentData
<1>3. /\ Len(newTaskData) \in Nat
      /\ Len(newTaskData') = Len(newTaskData) + 1
      /\ \A i \in 1..Len(newTaskData) : newTaskData'[i] = newTaskData[i]
      /\ newTaskData'[Len(newTaskData) + 1] = SentData(order, buffer)
  BY <1>1, <1>2
<1>4. ASSUME NEW i \in 0..Len(newTaskData) PROVE Chain(i)' = Chain(i)
  <2>1. CASE i = 0
    BY <1>1, <2>1 DEF Chain
  <2>2. CASE i # 0
    <3>1. i \in 1..Len(newTaskData)
      BY <1>3, <2>2
    <3> QED BY <1>3, <2>2, <3>1 DEF Chain
  <2> QED BY <2>1, <2>2
<1>5. \A i \in Nat : i = Len(newTaskData) + 1 => Chain(i)' = SentData(order, buffer)
  BY <1>3 DEF Chain
<1> QED BY <1>3, <1>4, <1>5

(* Applying a TaskData moves every place of the chain one place forward.   *)
LEMMA ApplyChain ==
  ASSUME TypeOK, ChainLinked, ChunkInRing, ApplyTaskData
  PROVE  /\ Len(newTaskData) \in Nat \ {0}
         /\ Len(newTaskData') = Len(newTaskData) - 1
         /\ \A i \in 1..Len(newTaskData') : newTaskData'[i] = newTaskData[i + 1]
         /\ current' = TakeOver(newTaskData[1], current)
         /\ \A i \in 0..Len(newTaskData') :
              /\ Chain(i)'.order = Chain(i + 1).order
              /\ Chain(i)'.flag = Chain(i + 1).flag
<1> HIDE DEF TaskData
<1>1. newTaskData \in Seq(TaskData) /\ chunk > 0
  BY DEF TypeOK, ApplyTaskData
<1>2. /\ newTaskData' = Tail(newTaskData)
      /\ current' = TakeOver(Head(newTaskData), current)
  BY DEF ApplyTaskData
<1>3. /\ newTaskData # <<>>
      /\ Head(newTaskData) = newTaskData[1]
      /\ Head(newTaskData) \in TaskData
      /\ Len(Tail(newTaskData)) = Len(newTaskData) - 1
      /\ \A i \in 1..Len(Tail(newTaskData)) : Tail(newTaskData)[i] = newTaskData[i + 1]
  BY <1>1, HeadOfChunk
<1>4. Len(newTaskData) \in Nat \ {0}
  BY <1>1, <1>3
<1>5. current'.order = newTaskData[1].order /\ current'.flag = newTaskData[1].flag
  BY <1>2, <1>3 DEF TakeOver, TaskData
<1>6. \A i \in 1..Len(newTaskData') : newTaskData'[i] = newTaskData[i + 1]
  BY <1>2, <1>3
<1>7. ASSUME NEW i \in 0..Len(newTaskData')
      PROVE  /\ Chain(i)'.order = Chain(i + 1).order
             /\ Chain(i)'.flag = Chain(i + 1).flag
  <2>1. Chain(i + 1) = newTaskData[i + 1]
    BY DEF Chain
  <2>2. CASE i = 0
    BY <1>5, <2>1, <2>2 DEF Chain
  <2>3. CASE i # 0
    <3>1. i \in 1..Len(newTaskData')
      BY <2>3
    <3>2. Chain(i)' = newTaskData[i + 1]
      BY <1>6, <2>3, <3>1 DEF Chain
    <3> QED BY <2>1, <3>2
  <2> QED BY <2>2, <2>3
<1> QED BY <1>2, <1>3, <1>4, <1>6, <1>7

-----------------------------------------------------------------------------
(***************************************************************************)
(* Every step keeps the chain linked.                                      *)
(***************************************************************************)
(* A TaskData that is made for the nodes follows the last of the chain.    *)
LEMMA SentFollows ==
  ASSUME TypeOK, NodesLinked, ctl # "gone",
         NEW order \in Orders(nodes \ pendingKeys), NEW buffer
  PROVE  SameLength(SentData(order, buffer)) /\ Follows(SentData(order, buffer), Last)
<1> DEFINE td == SentData(order, buffer)
<1>1. order \in Seq(Key) /\ \A i \in DOMAIN order : order[i] \in nodes /\ order[i] \notin pendingKeys
  BY SentOrder
<1>2. DOMAIN td.ugens = DOMAIN td.order
  BY <1>1, MakeTasksType DEF SentData
<1>3. ASSUME NEW n \in DOMAIN td.order
      PROVE  \/ td.ugens[n] = Dyn(td.order[n])
             \/ \E j \in DOMAIN Last.order : td.ugens[n] = Take(j) /\ Last.order[j] = td.order[n]
  <2>1. td.order = order /\ n \in DOMAIN order
    BY DEF SentData
  <2>2. td.ugens[n] = IF nodeUGen[order[n]] = Local THEN Dyn(order[n])
                      ELSE Take(nodeUGen[order[n]].index)
    BY <2>1 DEF SentData, MakeTasks
  <2>3. CASE nodeUGen[order[n]] = Local
    BY <2>1, <2>2, <2>3
  <2>4. CASE nodeUGen[order[n]] # Local
    <3>1. /\ nodeUGen[order[n]].index \in DOMAIN Last.order
          /\ Last.order[nodeUGen[order[n]].index] = order[n]
      BY <1>1, <2>1, <2>4 DEF NodesLinked
    <3> QED BY <2>1, <2>2, <2>4, <3>1
  <2> QED BY <2>3, <2>4
<1> QED BY <1>2, <1>3 DEF SameLength, Follows

(* Every TaskData stays linked to the one before it, also when a TaskData  *)
(* moves out of its sight.                                                 *)
LEMMA ChainLinkedStep == IInv /\ [Next]_vars => ChainLinked'
<1> SUFFICES ASSUME IInv, [Next]_vars PROVE ChainLinked'
  OBVIOUS
<1>0. TypeOK /\ ChainLinked /\ ChunkInRing /\ NodesLinked
  BY DEF IInv
<1>1. CASE SameChain
  <2>1. Len(newTaskData) \in Nat
    BY <1>0 DEF TypeOK
  <2>2. ASSUME NEW i \in 0..Len(newTaskData) PROVE SameLength(Chain(i)')
    BY <1>0, <1>1, SameChainChain DEF ChainLinked, SameLength
  <2>3. ASSUME NEW i \in 1..Len(newTaskData) PROVE Follows(newTaskData'[i], Chain(i - 1)')
    <3>1. i - 1 \in 0..Len(newTaskData) /\ Follows(newTaskData[i], Chain(i - 1))
      BY <1>0, <2>1 DEF ChainLinked
    <3> QED BY <1>0, <1>1, <3>1, SameChainChain DEF Follows
  <2> QED BY <1>0, <1>1, <2>2, <2>3, SameChainChain DEF ChainLinked, SameLength, Follows
<1>2. ASSUME NEW order \in Orders(nodes \ pendingKeys), NEW buffer, SendTasks(order, buffer)
      PROVE  ChainLinked'
  <2> DEFINE n == Len(newTaskData)
  <2>1. n \in Nat /\ n' = n + 1
    BY <1>0, <1>2, SendChain
  <2>2. SameLength(SentData(order, buffer)) /\ Follows(SentData(order, buffer), Chain(n))
    BY <1>0, <1>2, SentFollows DEF SendTasks, Last
  <2>3. ASSUME NEW i \in 0..n' PROVE SameLength(Chain(i)')
    <3>1. CASE i \in 0..n
      BY <1>0, <1>2, <3>1, SendChain DEF ChainLinked
    <3>2. CASE i = n + 1
      BY <1>0, <1>2, <2>1, <2>2, <3>2, SendChain
    <3> QED BY <2>1, <3>1, <3>2
  <2>4. ASSUME NEW i \in 1..n' PROVE Follows(newTaskData'[i], Chain(i - 1)')
    <3>0. i - 1 \in 0..n /\ Chain(i - 1)' = Chain(i - 1)
      BY <1>0, <1>2, <2>1, SendChain
    <3>1. CASE i \in 1..n
      BY <1>0, <1>2, <3>0, <3>1, SendChain DEF ChainLinked
    <3>2. CASE i = n + 1
      BY <1>0, <1>2, <2>1, <2>2, <3>0, <3>2, SendChain
    <3> QED BY <2>1, <3>1, <3>2
  <2> QED BY <2>3, <2>4 DEF ChainLinked, SameLength, Follows
<1>3. CASE ApplyTaskData
  <2> DEFINE n == Len(newTaskData)
  <2>1. n \in Nat \ {0} /\ n' = n - 1
    BY <1>0, <1>3, ApplyChain
  <2>2. ASSUME NEW i \in 0..n' PROVE SameLength(Chain(i)')
    <3>1. i + 1 \in 1..n /\ SameLength(Chain(i + 1))
      BY <1>0, <2>1 DEF ChainLinked
    <3>2. CASE i = 0
      <4>1. newTaskData[1] \in TaskData /\ SameLength(newTaskData[1])
        BY <1>0, <2>1, <3>1, <3>2 DEF Chain, TypeOK
      <4>2. /\ TakeOver(newTaskData[1], current).order = newTaskData[1].order
            /\ DOMAIN TakeOver(newTaskData[1], current).ugens = DOMAIN newTaskData[1].ugens
        BY <4>1 DEF TakeOver, TaskData
      <4>3. Chain(i)' = TakeOver(newTaskData[1], current)
        BY <1>0, <1>3, <3>2, ApplyChain DEF Chain
      <4> QED BY <4>1, <4>2, <4>3 DEF SameLength
    <3>3. CASE i # 0
      <4>1. i \in 1..n' /\ Chain(i + 1) = newTaskData[i + 1]
        BY <2>1, <3>3 DEF Chain
      <4>2. Chain(i)' = newTaskData[i + 1]
        BY <1>0, <1>3, <3>3, <4>1, ApplyChain DEF Chain
      <4> QED BY <3>1, <4>1, <4>2
    <3> QED BY <3>2, <3>3
  <2>3. ASSUME NEW i \in 1..n' PROVE Follows(newTaskData'[i], Chain(i - 1)')
    <3>1. i + 1 \in 1..n /\ Follows(newTaskData[i + 1], Chain(i))
      BY <1>0, <2>1 DEF ChainLinked
    <3>2. i - 1 \in 0..n' /\ (i - 1) + 1 = i
      BY <2>1
    <3>3. Chain(i - 1)'.order = Chain(i).order /\ newTaskData'[i] = newTaskData[i + 1]
      BY <1>0, <1>3, <3>2, ApplyChain
    <3> QED BY <3>1, <3>3 DEF Follows
  <2> QED BY <2>2, <2>3 DEF ChainLinked, SameLength, Follows
<1> QED BY <1>0, <1>1, <1>2, <1>3, StepKinds DEF Sends

-----------------------------------------------------------------------------
(***************************************************************************)
(* Every step keeps the running TaskData ready to run.                     *)
(***************************************************************************)
(* Once its UGens are taken over from a TaskData that has its own, a       *)
(* TaskData has all of its own.                                            *)
LEMMA TakeOverOwns ==
  ASSUME NEW td \in TaskData, NEW old \in TaskData,
         SameLength(td), SameLength(old), Follows(td, old),
         OwnsItsUGens(old) \/ OwnsItsUGens(td)
  PROVE  OwnsItsUGens(TakeOver(td, old))
<1>1. /\ TakeOver(td, old).order = td.order
      /\ TakeOver(td, old).ugens = [i \in DOMAIN td.ugens |->
                                      IF td.ugens[i].tag = "take"
                                      THEN old.ugens[td.ugens[i].from] ELSE td.ugens[i]]
  BY DEF TakeOver, TaskData
<1>2. ASSUME NEW i \in DOMAIN td.order
      PROVE  TakeOver(td, old).ugens[i] = Dyn(td.order[i])
  <2>1. i \in DOMAIN td.ugens
    BY DEF SameLength
  <2>2. CASE td.ugens[i] = Dyn(td.order[i])
    BY <1>1, <2>1, <2>2 DEF Dyn
  <2>3. CASE td.ugens[i] # Dyn(td.order[i])
    <3>1. PICK j \in DOMAIN old.order : td.ugens[i] = Take(j) /\ old.order[j] = td.order[i]
      BY <2>3 DEF Follows
    <3>2. old.ugens[j] = Dyn(td.order[i])
      BY <2>3, <3>1 DEF OwnsItsUGens
    <3>3. TakeOver(td, old).ugens[i] = old.ugens[j]
      BY <1>1, <2>1, <3>1 DEF Take
    <3> QED BY <3>2, <3>3
  <2> QED BY <2>2, <2>3
<1> QED BY <1>1, <1>2 DEF OwnsItsUGens, SameLength

(* The running tasks stay ready to run.                                    *)
LEMMA CurrentReadyStep == IInv /\ [Next]_vars => CurrentReady'
<1> SUFFICES ASSUME IInv, [Next]_vars PROVE CurrentReady'
  OBVIOUS
<1>0. TypeOK /\ ChainLinked /\ ChunkInRing /\ NothingRetiring /\ CurrentReady
  BY DEF IInv
<1>1. CASE ApplyTaskData
  <2>0. chunk > 0
    BY <1>1 DEF ApplyTaskData
  <2>1. /\ Head(newTaskData) \in TaskData
        /\ current \in TaskData
        /\ Head(newTaskData) = newTaskData[1]
        /\ SameLength(Head(newTaskData))
        /\ SameLength(current)
        /\ Follows(Head(newTaskData), current)
    BY <1>0, <2>0, HeadOfChunk DEF TypeOK
  <2>2. OwnsItsUGens(current) \/ OwnsItsUGens(Head(newTaskData))
    BY <1>0, <2>1 DEF CurrentReady
  <2>3. OwnsItsUGens(TakeOver(Head(newTaskData), current))
    BY <2>1, <2>2, TakeOverOwns
  <2> QED BY <1>1, <2>3 DEF ApplyTaskData, CurrentReady
<1>2. CASE ~ApplyTaskData /\ OwnsItsUGens(current)
  <2>1. current'.order = current.order /\ current'.ugens = current.ugens
    BY <1>0, <1>2, StepKinds DEF Sends, SendTasks, SameChain, audio
  <2> QED BY <1>2, <2>1 DEF CurrentReady, OwnsItsUGens
<1>3. CASE ~ApplyTaskData /\ ~OwnsItsUGens(current)
  <2>1. /\ newTaskData # <<>>
        /\ OwnsItsUGens(newTaskData[1])
        /\ aud # "run"
        /\ aud = "apply" => chunk > 0 /\ retiring = <<>>
    BY <1>0, <1>3 DEF CurrentReady
  <2>2. newTaskData' # <<>> /\ newTaskData'[1] = newTaskData[1]
    <3>1. CASE Sends
      <4>1. newTaskData \in Seq(TaskData) /\ Len(newTaskData) # 0
        BY <1>0, <2>1 DEF TypeOK
      <4>2. PICK order, buffer : SendTasks(order, buffer)
        BY <3>1 DEF Sends
      <4> HIDE DEF TaskData
      <4> QED BY <1>0, <4>1, <4>2, SendChain
    <3>2. CASE SameChain
      BY <2>1, <3>2 DEF SameChain
    <3> QED BY <1>0, <1>3, <3>1, <3>2, StepKinds
  <2>3. aud' # "run" /\ (aud' = "apply" => chunk' > 0 /\ retiring' = <<>>)
    <3> USE DEF vars, control, audio, shared
    <3>1. CASE BeginBlock
      <4>1. chunk' = Len(newTaskData) /\ retiring' = <<>> /\ aud' = "apply"
        BY <1>0, <2>1, <3>1 DEF BeginBlock, NothingRetiring, NewSlots
      <4>2. Len(newTaskData) > 0
        BY <1>0, <2>1 DEF TypeOK
      <4> QED BY <4>1, <4>2
    <3>2. CASE UNCHANGED audio
      BY <2>1, <3>2
    <3>3. ~RetireTaskData /\ \A done, fp : ~RunTasks(done, fp)
      BY <2>1 DEF RetireTaskData, RunTasks
    <3>4. BeginBlock \/ UNCHANGED audio
      BY <1>3, <3>3 DEF Next, Edit, PushNode, FreeNode, PushFeedbackNodes, SetMortality, ChangeEdges,
           DropGraph, BeginCommit, ReadMark, FreeMarked, FinishCommit, CheckOldNode, FreeOldBuffers, ReadRetired,
           DropRetired, Send, SendTasks, SendFails, Block, FreedBlock
    <3> QED BY <3>1, <3>2, <3>4
  <2> QED BY <2>1, <2>2, <2>3 DEF CurrentReady, OwnsItsUGens
<1> QED BY <1>1, <1>2, <1>3

(* A replaced TaskData is sent back before the audio thread goes on to the *)
(* tasks.                                                                  *)
LEMMA NothingRetiringStep == IInv /\ [Next]_vars => NothingRetiring'
<1> SUFFICES ASSUME IInv, [Next]_vars PROVE NothingRetiring'
  OBVIOUS
<1>0. NothingRetiring
  BY DEF IInv
<1> USE DEF vars, control, audio, shared, NothingRetiring
<1>1. CASE UNCHANGED audio
  BY <1>0, <1>1
<1>2. CASE BeginBlock \/ ApplyTaskData \/ RetireTaskData
  BY <1>0, <1>2 DEF BeginBlock, ApplyTaskData, RetireTaskData
<1>3. CASE \E done, fp : RunTasks(done, fp)
  BY <1>0, <1>3 DEF RunTasks
<1> QED
  BY <1>1, <1>2, <1>3 DEF Next, Edit, PushNode, FreeNode, PushFeedbackNodes, SetMortality, ChangeEdges,
     DropGraph, BeginCommit, ReadMark, FreeMarked, FinishCommit, CheckOldNode, FreeOldBuffers, ReadRetired,
     DropRetired, Send, SendTasks, SendFails, Block, FreedBlock

(* The chunk being read stays within the ring: only its reader takes       *)
(* TaskData out.                                                           *)
LEMMA ChunkInRingStep == IInv /\ [Next]_vars => ChunkInRing'
<1> SUFFICES ASSUME IInv, [Next]_vars PROVE ChunkInRing'
  OBVIOUS
<1>0. TypeOK /\ ChainLinked /\ ChunkInRing
  BY DEF IInv
<1>1. CASE ApplyTaskData
  <2>1. chunk' = chunk - 1 /\ chunk \in Nat
    BY <1>0, <1>1 DEF ApplyTaskData, TypeOK
  <2>2. Len(newTaskData) \in Nat /\ Len(newTaskData') = Len(newTaskData) - 1
    BY <1>0, <1>1, ApplyChain
  <2> QED BY <1>0, <2>1, <2>2 DEF ChunkInRing
<1>2. CASE BeginBlock
  BY <1>0, <1>2 DEF BeginBlock, NewSlots, ChunkInRing, shared, TypeOK
<1>3. CASE ~ApplyTaskData /\ ~BeginBlock
  <2>1. chunk' = chunk /\ chunk \in Nat
    BY <1>0, <1>3 DEF vars, control, audio, shared, TypeOK, RunTasks, RetireTaskData,
       Next, Edit, PushNode, FreeNode, PushFeedbackNodes, SetMortality, ChangeEdges,
       DropGraph, BeginCommit, ReadMark, FreeMarked, FinishCommit, CheckOldNode, FreeOldBuffers, ReadRetired,
       DropRetired, Send, SendTasks, SendFails, Block, FreedBlock
  <2>2. Len(newTaskData) \in Nat /\ Len(newTaskData') \in {Len(newTaskData), Len(newTaskData) + 1}
    <3>1. CASE Sends
      BY <1>0, <3>1, SendChain DEF Sends
    <3>2. CASE SameChain
      BY <1>0, <3>2 DEF SameChain, TypeOK
    <3> QED BY <1>0, <1>3, <3>1, <3>2, StepKinds
  <2> QED BY <1>0, <2>1, <2>2 DEF ChunkInRing
<1> QED BY <1>1, <1>2, <1>3
-----------------------------------------------------------------------------
(***************************************************************************)
(* Every step keeps the flags rising and the nodes linked to the chain.    *)
(***************************************************************************)
LEMMA FlagsRiseStep == IInv /\ [Next]_vars => FlagsRise'
<1> SUFFICES ASSUME IInv, [Next]_vars PROVE FlagsRise'
  OBVIOUS
<1>0. TypeOK /\ ChainLinked /\ ChunkInRing /\ FlagsRise
  BY DEF IInv
<1> DEFINE n == Len(newTaskData)
<1>1. n \in Nat /\ nextFlag \in Nat /\ \A i \in 0..n : Chain(i).flag \in Nat
  BY <1>0, ChainType DEF TypeOK, TaskData
<1>2. CASE SameChain
  <2>1. nextFlag' = nextFlag /\ applied' = applied /\ current'.flag = current.flag
    BY <1>2 DEF SameChain
  <2>2. n' = n /\ \A i \in 0..n : Chain(i)'.flag = Chain(i).flag
    BY <1>0, <1>2, SameChainChain
  <2> QED BY <1>0, <2>1, <2>2 DEF FlagsRise
<1>3. ASSUME NEW order, NEW buffer, SendTasks(order, buffer) PROVE FlagsRise'
  <2>1. nextFlag' = nextFlag + 1 /\ applied' = applied /\ current' = current
    BY <1>3 DEF SendTasks, audio
  <2>2. /\ n' = n + 1
        /\ \A i \in 0..n : Chain(i)' = Chain(i)
        /\ \A i \in Nat : i = n + 1 => Chain(i)'.flag = nextFlag
    <3>1. SentData(order, buffer).flag = nextFlag
      BY DEF SentData
    <3> QED BY <1>0, <1>3, <3>1, SendChain
  <2>3. ASSUME NEW i \in 0..n' PROVE Chain(i)'.flag < nextFlag'
    <3>1. CASE i \in 0..n
      BY <1>0, <1>1, <2>1, <2>2, <3>1 DEF FlagsRise
    <3>2. CASE i = n + 1
      BY <1>1, <2>1, <2>2, <3>2
    <3> QED BY <1>1, <2>2, <3>1, <3>2
  <2>4. ASSUME NEW i \in 0..n', NEW j \in 0..n', i < j PROVE Chain(i)'.flag < Chain(j)'.flag
    <3>0. i \in 0..n
      BY <1>1, <2>2, <2>4
    <3>1. CASE j \in 0..n
      BY <1>0, <2>2, <2>4, <3>0, <3>1 DEF FlagsRise
    <3>2. CASE j = n + 1
      BY <1>0, <1>1, <2>2, <3>0, <3>2 DEF FlagsRise
    <3> QED BY <1>1, <2>2, <3>1, <3>2
  <2> QED BY <1>0, <2>1, <2>3, <2>4 DEF FlagsRise
<1>4. CASE ApplyTaskData
  <2>1. nextFlag' = nextFlag /\ applied' = applied \cup {Chain(1).flag}
    <3>1. Head(newTaskData) = newTaskData[1]
      BY <1>0, <1>4, HeadOfChunk DEF ApplyTaskData
    <3> QED BY <1>4, <3>1 DEF ApplyTaskData, control, Chain
  <2>2. /\ n \in Nat \ {0}
        /\ n' = n - 1
        /\ \A i \in 0..n' : Chain(i)'.flag = Chain(i + 1).flag
    BY <1>0, <1>4, ApplyChain
  <2>3. ASSUME NEW i \in 0..n' PROVE i + 1 \in 0..n
    BY <2>2
  <2>4. ASSUME NEW i \in 0..n' PROVE Chain(i)'.flag < nextFlag'
    BY <1>0, <2>1, <2>2, <2>3 DEF FlagsRise
  <2>5. ASSUME NEW i \in 0..n', NEW j \in 0..n', i < j PROVE Chain(i)'.flag < Chain(j)'.flag
    BY <1>0, <2>2, <2>3, <2>5 DEF FlagsRise
  <2>6. current'.flag = Chain(1).flag /\ current.flag < Chain(1).flag
    <3>1. 0 \in 0..n /\ 1 \in 0..n /\ 0 \in 0..n'
      BY <2>2
    <3>2. Chain(0).flag < Chain(1).flag
      BY <1>0, <3>1 DEF FlagsRise
    <3>3. current'.flag = newTaskData[1].flag
      <4>1. newTaskData[1] \in TaskData /\ current' = TakeOver(newTaskData[1], current)
        BY <1>0, <1>4, <2>2, ApplyChain DEF TypeOK
      <4> QED BY <4>1 DEF TakeOver, TaskData
    <3> QED BY <3>2, <3>3 DEF Chain
  <2>7. ASSUME NEW f \in applied' PROVE f <= current'.flag
    <3>0. current \in TaskData /\ Chain(1) \in TaskData
      BY <1>0, <2>2, ChainType DEF TypeOK
    <3>1. current.flag \in Nat /\ Chain(1).flag \in Nat /\ applied \subseteq Nat
      BY <1>0, <3>0 DEF TypeOK, TaskData
    <3> QED BY <1>0, <2>1, <2>6, <3>1 DEF FlagsRise
  <2> QED BY <2>4, <2>5, <2>7 DEF FlagsRise
<1> QED BY <1>0, <1>2, <1>3, <1>4, StepKinds DEF Sends

(* The nodes of the last of the chain, and what a node links to, change    *)
(* only by an update.                                                      *)
LEMMA LastStep ==
  ASSUME TypeOK, ChainLinked, ChunkInRing, [Next]_vars, ~Sends
  PROVE  Last'.order = Last.order
<1>1. CASE SameChain
  <2>1. Len(newTaskData) \in 0..Len(newTaskData)
    BY DEF TypeOK
  <2>2. Len(newTaskData') = Len(newTaskData)
    BY <1>1, SameChainChain
  <2>3. \A i \in 0..Len(newTaskData) : Chain(i)'.order = Chain(i).order
    BY <1>1, SameChainChain
  <2> QED BY <1>1, <2>1 DEF SameChain, Last, Chain
<1>2. CASE ApplyTaskData
  <2> DEFINE n == Len(newTaskData)
  <2>1. /\ n \in Nat \ {0}
        /\ n' = n - 1
        /\ \A i \in 0..n' : Chain(i)'.order = Chain(i + 1).order
    BY <1>2, ApplyChain
  <2>2. \A i \in Nat : i = n' => Chain(i)'.order = Chain(n).order
    BY <2>1
  <2>3. \A i \in Nat : i = n' => Last'.order = Chain(i)'.order
    BY DEF Last, Chain
  <2> QED BY <2>1, <2>2, <2>3 DEF Last
<1> QED BY <1>1, <1>2, StepKinds

(* A node that is not pending removal keeps naming its place in the last   *)
(* TaskData.                                                               *)
LEMMA NodesLinkedStep == IInv /\ [Next]_vars => NodesLinked'
<1> SUFFICES ASSUME IInv, [Next]_vars PROVE NodesLinked'
  OBVIOUS
<1>0. TypeOK /\ ChainLinked /\ ChunkInRing /\ NodesLinked
  BY DEF IInv
<1>1. ASSUME NEW order \in Orders(nodes \ pendingKeys), NEW buffer, SendTasks(order, buffer)
      PROVE  NodesLinked'
  <2>1. \A k \in nodes \ pendingKeys : \E i \in DOMAIN order : order[i] = k
    BY DEF Orders
  <2>2. nodeUGen' = MadeLive(order) /\ pending' = pending
    BY <1>1 DEF SendTasks
  <2>3. Last'.order = order
    <3>1. Len(newTaskData) + 1 \in Nat /\ Len(newTaskData') = Len(newTaskData) + 1
      BY <1>0, <1>1, SendChain
    <3>2. newTaskData'[Len(newTaskData) + 1] = SentData(order, buffer)
      BY <1>0, <1>1, SendChain
    <3>3. Last' = newTaskData'[Len(newTaskData) + 1]
      BY <3>1 DEF Last, Chain
    <3> QED BY <3>2, <3>3 DEF SentData
  <2>4. ASSUME NEW k \in nodes' \ pendingKeys'
        PROVE  nodeUGen'[k].index \in DOMAIN order /\ order[nodeUGen'[k].index] = k
    <3>1. k \in Key /\ k \notin pendingKeys
      BY <2>2 DEF nodes, pendingKeys
    <3>2. \E i \in DOMAIN order : order[i] = k
      <4>1. CASE k \in nodes
        BY <2>1, <3>1, <4>1
      <4>2. CASE k \notin nodes
        BY <2>2, <3>1, <4>2 DEF nodes, MadeLive
      <4> QED BY <4>1, <4>2
    <3>3. nodeUGen'[k] = Live(CHOOSE i \in DOMAIN order : order[i] = k)
      BY <2>2, <3>1, <3>2 DEF MadeLive
    <3> QED BY <3>2, <3>3 DEF Live
  <2> QED BY <2>3, <2>4 DEF NodesLinked
<1>2. CASE ~Sends
  <2>1. Last'.order = Last.order
    BY <1>0, <1>2, LastStep
  <2>2. SUFFICES ASSUME ctl' # "gone", NEW k \in nodes' \ pendingKeys', nodeUGen'[k] # Local
                 PROVE  ctl # "gone" /\ k \in nodes \ pendingKeys /\ nodeUGen'[k] = nodeUGen[k]
    BY <1>0, <2>1, <2>2 DEF NodesLinked
  <2> USE DEF vars, control, audio, shared
  <2>3. ASSUME NEW x \in Key, CheckOldNode(x)
        PROVE  ctl # "gone" /\ k \in nodes \ pendingKeys /\ nodeUGen'[k] = nodeUGen[k]
    <3>1. CASE x \in SafeToRemove
      <4>1. /\ ctl = "remove"
            /\ nodeUGen' = [nodeUGen EXCEPT ![x] = Removed]
            /\ pending' = {p \in pending : p[1] # x}
        BY <2>3, <3>1 DEF CheckOldNode
      <4>2. k \in Key /\ k # x
        BY <1>0, <2>2, <4>1 DEF nodes, Removed, TypeOK
      <4>3. nodeUGen'[k] = nodeUGen[k]
        BY <1>0, <4>1, <4>2 DEF TypeOK
      <4>4. k \in nodes
        BY <2>2, <4>2, <4>3 DEF nodes
      <4>5. k \notin pendingKeys
        BY <2>2, <4>1, <4>2 DEF pendingKeys
      <4> QED BY <4>1, <4>3, <4>4, <4>5
    <3>2. CASE x \notin SafeToRemove
      BY <2>2, <2>3, <3>2 DEF CheckOldNode, nodes, pendingKeys
    <3> QED BY <3>1, <3>2
  <2>4. CASE UNCHANGED control
    BY <2>2, <2>4 DEF nodes, pendingKeys
  <2>5. CASE Edit
    <3>1. ASSUME NEW x \in Key, PushNode(x) PROVE nodeUGen'[k] = nodeUGen[k]
      BY <1>0, <2>2, <3>1 DEF PushNode, TypeOK, nodes
    <3>2. ASSUME NEW x \in Key, NEW y \in Key, PushFeedbackNodes(x, y) PROVE nodeUGen'[k] = nodeUGen[k]
      BY <1>0, <2>2, <3>2 DEF PushFeedbackNodes, TypeOK, nodes
    <3>3. nodeUGen'[k] = nodeUGen[k]
      BY <2>5, <3>1, <3>2 DEF Edit, FreeNode, SetMortality, ChangeEdges, DropGraph
    <3>4. ctl # "gone" /\ pending \subseteq pending'
      BY <2>2, <2>5 DEF Edit, PushNode, PushFeedbackNodes, FreeNode, Free, SetMortality, ChangeEdges,
                        DropGraph
    <3>5. k \in nodes /\ k \notin pendingKeys
      BY <2>2, <3>3, <3>4 DEF nodes, pendingKeys
    <3> QED BY <3>3, <3>4, <3>5
  <2>6. CASE \/ BeginCommit \/ FreeMarked \/ FreeOldBuffers \/ ReadRetired \/ DropRetired \/ SendFails
             \/ \E x \in Key : ReadMark(x)
    <3>1. nodeUGen' = nodeUGen /\ pending \subseteq pending' /\ ctl # "gone"
      BY <2>2, <2>6 DEF BeginCommit, ReadMark, FreeMarked, Free, FreeOldBuffers, ReadRetired,
                        DropRetired, SendFails
    <3> QED BY <2>2, <3>1 DEF nodes, pendingKeys
  <2>7. \/ Edit \/ BeginCommit \/ FreeMarked \/ FreeOldBuffers \/ ReadRetired \/ DropRetired
        \/ SendFails \/ UNCHANGED control
        \/ \E x \in Key : ReadMark(x) \/ CheckOldNode(x)
    BY <1>2 DEF Next, FinishCommit, Send, Sends, Block, BeginBlock, ApplyTaskData, RetireTaskData,
                RunTasks, FreedBlock
  <2> QED BY <2>3, <2>4, <2>5, <2>6, <2>7
<1> QED BY <1>1, <1>2 DEF Sends
-----------------------------------------------------------------------------
(***************************************************************************)
(* Every step keeps what is pending out of the later updates, and what is  *)
(* removed out of all of them.                                             *)
(***************************************************************************)
(* A node that becomes pending gets the flag of the next update. *)
LEMMA PendingGrows ==
  ASSUME [Next]_vars
  PROVE  \A p \in pending' : p \in pending \/ p[2] = nextFlag
<1> USE DEF vars, control, audio, shared
<1>0. ASSUME NEW S, Free(S) PROVE \A p \in pending' : p \in pending \/ p[2] = nextFlag
  BY <1>0 DEF Free
<1>1. CASE Edit \/ BeginCommit \/ FreeMarked
  BY <1>0, <1>1 DEF Edit, BeginCommit, FreeMarked, PushNode, FreeNode, PushFeedbackNodes, SetMortality, ChangeEdges,
              DropGraph
<1>2. CASE FinishCommit /\ ~FreeMarked
  BY <1>2 DEF FinishCommit, ReadMark, CheckOldNode, FreeOldBuffers, ReadRetired, DropRetired, Send, SendTasks,
              SendFails
<1>3. CASE Block \/ UNCHANGED vars
  BY <1>3 DEF Block, BeginBlock, ApplyTaskData, RetireTaskData, RunTasks, FreedBlock
<1> QED BY <1>1, <1>2, <1>3 DEF Next

(* A node stays out of every TaskData from the one with its flag on.       *)
LEMMA PendingLeftStep == IInv /\ [Next]_vars => PendingLeft'
<1> SUFFICES ASSUME IInv, [Next]_vars PROVE PendingLeft'
  OBVIOUS
<1>0. TypeOK /\ ChainLinked /\ ChunkInRing /\ FlagsRise /\ PendingLeft
  BY DEF IInv
<1> DEFINE n == Len(newTaskData)
<1>1. /\ n \in Nat /\ nextFlag \in Nat
      /\ \A i \in 0..n : Chain(i).flag \in Nat /\ Chain(i).flag < nextFlag
      /\ \A p \in pending : p[2] \in Nat
  BY <1>0, ChainType DEF TypeOK, FlagsRise, TaskData
<1>2. ASSUME NEW p \in pending'
      PROVE  /\ p[2] \in Nat /\ p[2] <= nextFlag
             /\ \A i \in 0..n : p[2] <= Chain(i).flag => p[1] \notin NodesOf(Chain(i))
  <2>1. CASE p \in pending
    BY <1>0, <1>1, <2>1 DEF PendingLeft
  <2>2. CASE p[2] = nextFlag
    BY <1>1, <2>2
  <2> QED BY <2>1, <2>2, PendingGrows
<1>3. CASE SameChain
  <2>1. nextFlag' = nextFlag
    BY <1>3 DEF SameChain
  <2>2. n' = n /\ \A i \in 0..n : Chain(i)'.flag = Chain(i).flag /\ Chain(i)'.order = Chain(i).order
    BY <1>0, <1>3, SameChainChain
  <2> QED BY <1>2, <2>1, <2>2 DEF PendingLeft, NodesOf
<1>4. ASSUME NEW order \in Orders(nodes \ pendingKeys), NEW buffer, SendTasks(order, buffer)
      PROVE  PendingLeft'
  <2>1. nextFlag' = nextFlag + 1 /\ pending' = pending
    BY <1>4 DEF SendTasks
  <2>2. /\ n' = n + 1
        /\ \A i \in 0..n : Chain(i)' = Chain(i)
        /\ \A i \in Nat : i = n + 1 => Chain(i)' = SentData(order, buffer)
    BY <1>0, <1>4, SendChain
  <2>3. ASSUME NEW p \in pending' PROVE p[2] <= nextFlag'
    BY <1>1, <1>2, <2>1
  <2>4. ASSUME NEW p \in pending' PROVE p[1] \notin NodesOf(SentData(order, buffer))
    <3>1. \A i \in DOMAIN order : order[i] \notin pendingKeys
      BY SentOrder
    <3> QED BY <2>1, <3>1 DEF SentData, NodesOf, pendingKeys
  <2>5. ASSUME NEW p \in pending', NEW i \in 0..n', p[2] <= Chain(i)'.flag
        PROVE  p[1] \notin NodesOf(Chain(i)')
    <3>1. CASE i \in 0..n
      BY <1>2, <2>2, <2>5, <3>1
    <3>2. CASE i = n + 1
      BY <1>1, <2>2, <2>4, <3>2
    <3> QED BY <1>1, <2>2, <3>1, <3>2
  <2> QED BY <2>3, <2>5 DEF PendingLeft, NodesOf
<1>5. CASE ApplyTaskData
  <2>1. nextFlag' = nextFlag
    BY <1>5 DEF ApplyTaskData, control
  <2>2. /\ n' = n - 1
        /\ \A i \in 0..n' : /\ Chain(i)'.order = Chain(i + 1).order
                            /\ Chain(i)'.flag = Chain(i + 1).flag
    BY <1>0, <1>5, ApplyChain
  <2>3. ASSUME NEW p \in pending', NEW i \in 0..n', p[2] <= Chain(i)'.flag
        PROVE  p[1] \notin NodesOf(Chain(i)')
    <3>1. i + 1 \in 0..n
      BY <1>1, <2>2
    <3> QED BY <1>2, <2>2, <2>3, <3>1 DEF NodesOf
  <2> QED BY <1>2, <2>1, <2>3 DEF PendingLeft, NodesOf
<1> QED BY <1>0, <1>3, <1>4, <1>5, StepKinds DEF Sends

(* A node is removed only by CheckOldNode, which takes it from the pending *)
(* ones whose flag is raised; the flag speaks for the whole chain.         *)
LEMMA SafeUnreachable ==
  ASSUME IInv, NEW k \in SafeToRemove
  PROVE  \A i \in 0..Len(newTaskData) : k \notin NodesOf(Chain(i))
<1>0. TypeOK /\ FlagsRise /\ PendingLeft
  BY DEF IInv
<1>1. PICK p \in pending : p[1] = k /\ p[2] \in applied
  BY DEF SafeToRemove
<1> SUFFICES ASSUME NEW i \in 0..Len(newTaskData) PROVE k \notin NodesOf(Chain(i))
  OBVIOUS
<1>2. p[2] \in Nat /\ Chain(i).flag \in Nat /\ Chain(0).flag \in Nat /\ Len(newTaskData) \in Nat
  <2>1. p[2] \in Nat
    BY <1>0, <1>1 DEF TypeOK
  <2>2. Len(newTaskData) \in Nat
    BY <1>0, ChainType
  <2>3. Chain(i) \in TaskData /\ Chain(0) \in TaskData
    BY <1>0, <2>2, ChainType
  <2> QED BY <2>1, <2>2, <2>3 DEF TaskData
<1>3. p[2] <= Chain(0).flag
  BY <1>0, <1>1 DEF FlagsRise, Chain
<1>4. Chain(0).flag <= Chain(i).flag
  <2>1. CASE i = 0
    BY <1>2, <2>1
  <2>2. CASE 0 < i
    BY <1>0, <1>2, <2>2 DEF FlagsRise
  <2> QED BY <1>2, <2>1, <2>2
<1> QED BY <1>0, <1>1, <1>2, <1>3, <1>4 DEF PendingLeft

(* Only the check of a raised flag removes a node.                         *)
LEMMA RemovedStep ==
  ASSUME TypeOK, [Next]_vars, NEW k \in Key, nodeUGen'[k] = Removed
  PROVE  nodeUGen[k] = Removed \/ (CheckOldNode(k) /\ k \in SafeToRemove)
<1> USE DEF vars, control, audio, shared
<1>1. ASSUME NEW x \in Key, PushNode(x) PROVE nodeUGen[k] = Removed
  BY <1>1 DEF PushNode, TypeOK, Local, Removed
<1>2. ASSUME NEW x \in Key, NEW y \in Key, PushFeedbackNodes(x, y) PROVE nodeUGen[k] = Removed
  BY <1>2 DEF PushFeedbackNodes, TypeOK, Local, Removed
<1>3. CASE Edit
  BY <1>1, <1>2, <1>3 DEF Edit, FreeNode, SetMortality, ChangeEdges, DropGraph
<1>4. ASSUME NEW x \in Key, CheckOldNode(x)
      PROVE  nodeUGen[k] = Removed \/ (CheckOldNode(k) /\ k \in SafeToRemove)
  <2>1. CASE x = k
    BY <1>4, <2>1 DEF CheckOldNode
  <2>2. CASE x # k
    BY <1>4, <2>2 DEF CheckOldNode, TypeOK
  <2> QED BY <2>1, <2>2
<1>5. ASSUME NEW order, NEW buffer, SendTasks(order, buffer) PROVE nodeUGen[k] = Removed
  <2>1. nodeUGen'[k] = MadeLive(order)[k]
    BY <1>5 DEF SendTasks
  <2> QED BY <2>1 DEF MadeLive, Live, Removed
<1>6. CASE \/ BeginCommit \/ FreeMarked \/ FreeOldBuffers \/ ReadRetired \/ DropRetired \/ SendFails
           \/ Block \/ UNCHANGED vars \/ \E x \in Key : ReadMark(x)
  BY <1>6 DEF BeginCommit, ReadMark, FreeMarked, FreeOldBuffers, ReadRetired, DropRetired, SendFails, Block, BeginBlock,
              ApplyTaskData, RetireTaskData, RunTasks, FreedBlock
<1> QED BY <1>3, <1>4, <1>5, <1>6 DEF Next, FinishCommit, Send

(* RemovedUnreachable, in terms of the chain. *)
LEMMA RemovedInChain ==
  ASSUME TypeOK
  PROVE  RemovedUnreachable <=>
           \A k \in Key : nodeUGen[k] = Removed =>
              \A i \in 0..Len(newTaskData) : k \notin NodesOf(Chain(i))
<1> HIDE DEF TaskData
<1>1. newTaskData \in Seq(TaskData) /\ Len(newTaskData) \in Nat /\ DOMAIN newTaskData = 1..Len(newTaskData)
  BY DEF TypeOK
<1>2. Chain(0) = current /\ \A i \in 1..Len(newTaskData) : Chain(i) = newTaskData[i]
  BY <1>1 DEF Chain
<1>3. 0..Len(newTaskData) = {0} \cup 1..Len(newTaskData)
  BY <1>1
<1> QED BY <1>1, <1>2, <1>3 DEF RemovedUnreachable, TaskDataIn

(* No step lets the audio thread reach a removed node.                     *)
LEMMA RemovedUnreachableStep == IInv /\ [Next]_vars => RemovedUnreachable'
<1> SUFFICES ASSUME IInv, [Next]_vars PROVE RemovedUnreachable'
  OBVIOUS
<1>0. TypeOK /\ ChainLinked /\ ChunkInRing /\ RemovedUnreachable /\ TypeOK'
  BY TypeStep DEF IInv
<1> DEFINE n == Len(newTaskData)
<1>1. n \in Nat /\ n' \in Nat
  BY <1>0 DEF TypeOK
<1> SUFFICES ASSUME NEW k \in Key, nodeUGen'[k] = Removed, NEW i \in 0..n'
             PROVE  k \notin NodesOf(Chain(i)')
  <2> HIDE DEF TaskData
  <2>1. 0 \in 0..n' /\ DOMAIN newTaskData' = 1..n'
    BY <1>0, <1>1 DEF TypeOK
  <2>2. ASSUME NEW k \in Key, nodeUGen'[k] = Removed
        PROVE  k \notin NodesOf(current') /\ \A i \in DOMAIN newTaskData' : k \notin NodesOf(newTaskData'[i])
    <3>1. \A i \in 0..n' : k \notin NodesOf(IF i = 0 THEN current' ELSE newTaskData'[i])
      BY <2>2 DEF Chain
    <3>2. ASSUME NEW i \in DOMAIN newTaskData' PROVE i \in 0..n' /\ i # 0
      BY <1>1, <2>1
    <3> QED BY <2>1, <3>1, <3>2
  <2> QED BY <2>2 DEF RemovedUnreachable, TaskDataIn, NodesOf
<1>2. \A j \in 0..n : k \notin NodesOf(Chain(j))
  BY <1>0, RemovedStep, SafeUnreachable, RemovedInChain
<1>3. CASE SameChain
  BY <1>0, <1>2, <1>3, SameChainChain DEF NodesOf
<1>4. ASSUME NEW order \in Orders(nodes \ pendingKeys), NEW buffer, SendTasks(order, buffer)
      PROVE  k \notin NodesOf(Chain(i)')
  <2>1. CASE i \in 0..n
    BY <1>0, <1>2, <1>4, <2>1, SendChain
  <2>2. CASE i = n + 1
    <3>1. k \notin nodes
      <4>1. ~CheckOldNode(k)
        BY <1>4 DEF SendTasks, CheckOldNode
      <4> QED BY <1>0, <4>1, RemovedStep DEF nodes, Removed
    <3>2. Chain(i)' = SentData(order, buffer)
      BY <1>0, <1>1, <1>4, <2>2, SendChain
    <3>3. NodesOf(SentData(order, buffer)) \subseteq nodes
      BY SentOrder DEF SentData, NodesOf
    <3> QED BY <3>1, <3>2, <3>3
  <2> QED BY <1>0, <1>1, <1>4, <2>1, <2>2, SendChain
<1>5. CASE ApplyTaskData
  <2>1. n' = n - 1 /\ Chain(i)'.order = Chain(i + 1).order
    BY <1>0, <1>5, ApplyChain
  <2>2. i + 1 \in 0..n
    BY <1>1, <2>1
  <2> QED BY <1>2, <2>1, <2>2 DEF NodesOf
<1> QED BY <1>0, <1>3, <1>4, <1>5, StepKinds DEF Sends

-----------------------------------------------------------------------------
(***************************************************************************)
(* The theorems.                                                           *)
(***************************************************************************)
(* The invariant holds in every state, whatever the edits, the updates     *)
(* under way and the blocks.                                               *)
THEOREM Invariance == Spec => []IInv
<1>1. Init => IInv
  BY InitIInv
<1>2. IInv /\ [Next]_vars => IInv'
  BY TypeStep, ChainLinkedStep, CurrentReadyStep, NothingRetiringStep, ChunkInRingStep,
     NodesLinkedStep, FlagsRiseStep, PendingLeftStep, RemovedUnreachableStep DEF IInv
<1> QED BY <1>1, <1>2, PTL DEF Spec

(* The state keeps its types (Graph, GraphGen, TaskData). *)
THEOREM TypeCorrect == Spec => []TypeOK
<1>1. IInv => TypeOK
  BY DEF IInv
<1> QED BY <1>1, Invariance, PTL

(* process_block never runs a task without the UGen of its own node: every *)
(* index that make_task wrote is still right when                          *)
(* apply_self_on_audio_thread uses it.                                     *)
THEOREM TasksOwn == Spec => []TasksOwnTheirUGens
<1>1. IInv => TasksOwnTheirUGens
  BY DEF IInv, CurrentReady, TasksOwnTheirUGens
<1> QED BY <1>1, Invariance, PTL

(* free_old never removes a node that the GraphGen can reach by a Task. *)
THEOREM RemovedSafe == Spec => []RemovedUnreachable
<1>1. IInv => RemovedUnreachable
  BY DEF IInv
<1> QED BY <1>1, Invariance, PTL
-----------------------------------------------------------------------------
(***************************************************************************)
(* Graph and GraphGen implement GraphUpdates.                              *)
(*                                                                         *)
(* SendTasks publishes, ApplyTaskData plays and CheckOldNode reclaims;     *)
(* every other step leaves the three mapped variables alone.               *)
(***************************************************************************)
Queue == [i \in DOMAIN newTaskData |-> NodesOf(newTaskData[i])]
Playing == NodesOf(current)
Reclaimed == {k \in Key : nodeUGen[k] = Removed}
mapped == <<Queue, Playing, Reclaimed>>

(* An initial state maps to an initial state. *)
LEMMA InitMaps == Init => Updates!Init
<1> SUFFICES ASSUME Init PROVE Updates!Init
  OBVIOUS
<1>1. PICK S \in SUBSET Key : \E order \in Orders(S) : InitWith(order)
  BY DEF Init
<1>2. PICK order \in Orders(S) : InitWith(order)
  BY <1>1
<1>3. order \in Seq(Key)
  BY OrdersType
<1>4. current.order = order
  BY <1>2 DEF InitWith
<1>5. Playing \in SUBSET Key
  BY <1>3, <1>4 DEF Playing, NodesOf
<1>6. Queue \in {<<>>, <<Playing>>}
  <2>1. CASE order = <<>>
    BY <1>2, <2>1 DEF InitWith, Queue
  <2>2. CASE order # <<>>
    <3>1. DOMAIN newTaskData = {1} /\ newTaskData[1].order = order
      BY <1>2, <2>2 DEF InitWith
    <3>2. Queue = [i \in {1} |-> Playing]
      BY <1>4, <3>1 DEF Queue, Playing, NodesOf
    <3>3. [i \in {1} |-> Playing] = <<Playing>>
      OBVIOUS
    <3> QED BY <3>2, <3>3
  <2> QED BY <2>1, <2>2
<1>7. Reclaimed = {}
  BY <1>2 DEF InitWith, Reclaimed, Live, Absent, Removed
<1> QED BY <1>5, <1>6, <1>7 DEF Updates!Init, Queue, Playing, Reclaimed

(* The nodes that the audio thread can reach are those of the chain. *)
LEMMA ReachableIsChain ==
  ASSUME TypeOK
  PROVE  /\ Queue \in Seq(SUBSET Key)
         /\ Len(Queue) = Len(newTaskData)
         /\ \A k \in Updates!Reachable : \E i \in 0..Len(newTaskData) : k \in NodesOf(Chain(i))
<1>1. /\ Len(newTaskData) \in Nat
      /\ DOMAIN newTaskData = 1..Len(newTaskData)
      /\ \A i \in DOMAIN newTaskData : newTaskData[i] \in TaskData
  BY DEF TypeOK
<1>2. ASSUME NEW td \in TaskData PROVE NodesOf(td) \in SUBSET Key
  BY DEF NodesOf, TaskData
<1> HIDE DEF TaskData
<1>3. Queue \in Seq(SUBSET Key) /\ Len(Queue) = Len(newTaskData)
  BY <1>1, <1>2 DEF Queue
<1>4. ASSUME NEW k \in Updates!Reachable
      PROVE  \E i \in 0..Len(newTaskData) : k \in NodesOf(Chain(i))
  <2>1. CASE k \in NodesOf(current)
    <3>1. 0 \in 0..Len(newTaskData) /\ Chain(0) = current
      BY <1>1 DEF Chain
    <3> QED BY <2>1, <3>1
  <2>2. CASE \E i \in DOMAIN Queue : k \in Queue[i]
    <3>1. PICK i \in DOMAIN newTaskData : k \in NodesOf(newTaskData[i])
      BY <2>2 DEF Queue
    <3>2. i \in 0..Len(newTaskData) /\ Chain(i) = newTaskData[i]
      BY <1>1 DEF Chain
    <3> QED BY <3>1, <3>2
  <2> QED BY <2>1, <2>2 DEF Updates!Reachable, Queue
<1> QED BY <1>3, <1>4

QueueTyped == TypeOK => Queue \in Seq(SUBSET Key) /\ Len(Queue) = Len(newTaskData)

(* The abstract queue is a sequence of sets of keys, as long as the ring.  *)
LEMMA QueueType == QueueTyped
  BY ReachableIsChain DEF QueueTyped

(* The same for the queue after a step.                                    *)
LEMMA QueueTypeNext == QueueTyped'
  BY QueueType, PTL

(* An update that is sent is published. *)
LEMMA SendPublishes ==
  ASSUME IInv, TypeOK', NEW order \in Orders(nodes \ pendingKeys), NEW buffer,
         SendTasks(order, buffer)
  PROVE  Updates!Publish(NodesOf(SentData(order, buffer)))
<1>0. TypeOK /\ TypeOK'
  BY DEF IInv
<1> DEFINE td == SentData(order, buffer)
           n == Len(newTaskData)
<1>1. order \in Seq(Key) /\ NodesOf(td) \subseteq nodes
  BY SentOrder DEF SentData, NodesOf
<1>2. NodesOf(td) \cap Reclaimed = {}
  BY <1>1 DEF Reclaimed, nodes, Removed
<1>3. Queue' = Append(Queue, NodesOf(td))
  <2>1. /\ n \in Nat
        /\ n' = n + 1
        /\ \A i \in 1..n : newTaskData'[i] = newTaskData[i]
        /\ newTaskData'[n + 1] = td
    BY <1>0, SendChain
  <2>2. newTaskData \in Seq(TaskData) /\ newTaskData' = Append(newTaskData, td)
    BY <1>0 DEF TypeOK, SendTasks, SentData
  <2> HIDE DEF td, TaskData
  <2>3. DOMAIN newTaskData = 1..n /\ DOMAIN newTaskData' = 1..(n + 1)
    BY <2>1, <2>2
  <2>4. Queue \in Seq(SUBSET Key) /\ Len(Queue) = n
    BY <1>0, ReachableIsChain
  <2>5. Queue' \in Seq(SUBSET Key) /\ Len(Queue') = n + 1
    BY <1>0, <2>1, QueueTypeNext DEF QueueTyped
  <2>6. NodesOf(td) \in SUBSET Key
    BY <1>1 DEF nodes
  <2> DEFINE Appended == Append(Queue, NodesOf(td))
  <2>7. /\ Appended \in Seq(SUBSET Key)
        /\ Len(Appended) = n + 1
        /\ \A i \in 1..n : Appended[i] = Queue[i]
        /\ Appended[n + 1] = NodesOf(td)
    BY <2>4, <2>6, AppendProperties
  <2> HIDE DEF Appended, n
  <2>8. ASSUME NEW i \in 1..(n + 1) PROVE Queue'[i] = Appended[i]
    <3>1. Queue'[i] = NodesOf(newTaskData'[i])
      BY <2>3 DEF Queue, NodesOf
    <3>2. CASE i \in 1..n
      <4>1. Queue[i] = NodesOf(newTaskData[i])
        BY <2>3, <3>2 DEF Queue
      <4> QED BY <2>1, <2>7, <3>1, <3>2, <4>1
    <3>3. CASE i = n + 1
      BY <2>1, <2>7, <3>1, <3>3
    <3> QED BY <2>1, <3>2, <3>3
  <2>9. Queue' = Appended
    BY <2>5, <2>7, <2>8, SeqEqual
  <2> QED BY <2>9 DEF Appended
<1>4. Playing' = Playing
  BY DEF SendTasks, audio, Playing, NodesOf
<1>5. Reclaimed' = Reclaimed
  <2>1. nodeUGen' = MadeLive(order)
    BY DEF SendTasks
  <2>2. ASSUME NEW k \in Key PROVE nodeUGen'[k] = Removed <=> nodeUGen[k] = Removed
    <3>1. CASE \E i \in DOMAIN order : order[i] = k
      <4>1. k \in nodes
        BY <3>1, SentOrder
      <4> QED BY <2>1, <3>1, <4>1 DEF MadeLive, Live, Removed, nodes
    <3>2. CASE ~ \E i \in DOMAIN order : order[i] = k
      BY <2>1, <3>2 DEF MadeLive
    <3> QED BY <3>1, <3>2
  <2> QED BY <2>2 DEF Reclaimed
<1> QED BY <1>2, <1>3, <1>4, <1>5 DEF Updates!Publish, Queue, Playing, Reclaimed

(* The TaskData that is applied is the oldest published one. *)
LEMMA ApplyPlays == ASSUME IInv, TypeOK', ApplyTaskData PROVE Updates!Play
<1>0. TypeOK /\ TypeOK' /\ ChainLinked /\ ChunkInRing
  BY DEF IInv
<1> DEFINE n == Len(newTaskData)
<1>1. /\ n \in Nat \ {0}
      /\ n' = n - 1
      /\ \A i \in 1..n' : newTaskData'[i] = newTaskData[i + 1]
      /\ current' = TakeOver(newTaskData[1], current)
  BY <1>0, ApplyChain
<1>2. newTaskData \in Seq(TaskData) /\ newTaskData' = Tail(newTaskData) /\ newTaskData[1] \in TaskData
  BY <1>0, <1>1 DEF TypeOK, ApplyTaskData
<1>3. Queue \in Seq(SUBSET Key) /\ Len(Queue) = n
  BY <1>0, ReachableIsChain
<1>4. Playing' = Head(Queue)
  <2>1. current'.order = newTaskData[1].order
    BY <1>1, <1>2 DEF TakeOver, TaskData
  <2>2. Head(Queue) = NodesOf(newTaskData[1])
    <3> HIDE DEF TaskData
    <3>1. 1 \in DOMAIN newTaskData /\ Head(Queue) = Queue[1]
      BY <1>1, <1>2, <1>3
    <3> QED BY <3>1 DEF Queue
  <2> QED BY <2>1, <2>2 DEF Playing, NodesOf
<1>5. Queue' = Tail(Queue)
  <2> HIDE DEF TaskData
  <2>1. DOMAIN newTaskData = 1..n /\ DOMAIN newTaskData' = 1..(n - 1)
    BY <1>1, <1>2
  <2>2. /\ Tail(Queue) \in Seq(SUBSET Key)
        /\ Len(Tail(Queue)) = n - 1
        /\ \A i \in 1..(n - 1) : Tail(Queue)[i] = Queue[i + 1]
    BY <1>1, <1>3, HeadTailProperties
  <2>3. ASSUME NEW i \in 1..(n - 1) PROVE Queue'[i] = Tail(Queue)[i]
    <3>1. Queue'[i] = NodesOf(newTaskData'[i])
      BY <2>1 DEF Queue, NodesOf
    <3>2. i + 1 \in 1..n /\ newTaskData'[i] = newTaskData[i + 1]
      BY <1>1
    <3>3. Queue[i + 1] = NodesOf(newTaskData[i + 1])
      BY <2>1, <3>2 DEF Queue
    <3> QED BY <2>2, <3>1, <3>2, <3>3
  <2>4. Queue' \in Seq(SUBSET Key) /\ Len(Queue') = n - 1
    BY <1>0, <1>1, QueueTypeNext DEF QueueTyped
  <2> HIDE DEF n
  <2> QED BY <2>2, <2>3, <2>4, SeqEqual
<1>6. Reclaimed' = Reclaimed
  BY DEF ApplyTaskData, control, Reclaimed
<1>7. Queue # <<>>
  BY <1>1, <1>3
<1> QED BY <1>4, <1>5, <1>6, <1>7 DEF Updates!Play, Queue, Playing, Reclaimed
(* A node that free_old removes is out of the audio thread's reach. *)
LEMMA CheckReclaims ==
  ASSUME IInv, NEW k \in Key, CheckOldNode(k), k \in SafeToRemove
  PROVE  Updates!Reclaim({k})
<1>0. TypeOK
  BY DEF IInv
<1>1. {k} \cap Updates!Reachable = {}
  BY <1>0, SafeUnreachable, ReachableIsChain
<1>2. Reclaimed' = Reclaimed \cup {k}
  <2>1. nodeUGen' = [nodeUGen EXCEPT ![k] = Removed] /\ nodeUGen \in [Key -> NodeUGens]
    BY <1>0 DEF CheckOldNode, TypeOK
  <2> QED BY <2>1 DEF Reclaimed
<1>3. Queue' = Queue /\ Playing' = Playing
  BY DEF CheckOldNode, shared, audio, Queue, Playing, NodesOf
<1> QED BY <1>1, <1>2, <1>3 DEF Updates!Reclaim, Queue, Playing, Reclaimed

(* Every other step changes none of the mapped variables. *)
LEMMA OthersStutter ==
  ASSUME TypeOK, [Next]_vars, SameChain, \A k \in Key : ~(CheckOldNode(k) /\ k \in SafeToRemove)
  PROVE  UNCHANGED Updates!vars
<1>1. Queue' = Queue /\ Playing' = Playing
  BY DEF SameChain, Queue, Playing, NodesOf
<1>2. ASSUME NEW k \in Key PROVE nodeUGen'[k] = Removed <=> nodeUGen[k] = Removed
  <2>1. nodeUGen'[k] = Removed => nodeUGen[k] = Removed
    BY RemovedStep
  <2>2. ASSUME nodeUGen[k] = Removed PROVE nodeUGen'[k] = Removed
    <3> USE DEF vars, control, audio, shared
    <3>1. ASSUME NEW x \in Key, PushNode(x) PROVE nodeUGen'[k] = Removed
      BY <2>2, <3>1 DEF PushNode, TypeOK, Removed, Absent
    <3>2. ASSUME NEW x \in Key, NEW y \in Key, PushFeedbackNodes(x, y) PROVE nodeUGen'[k] = Removed
      BY <2>2, <3>2 DEF PushFeedbackNodes, TypeOK, Removed, Absent
    <3>3. ASSUME NEW order, NEW buffer, SendTasks(order, buffer) PROVE FALSE
      <4>1. newTaskData \in Seq(TaskData) /\ newTaskData' = newTaskData
        BY DEF TypeOK, SameChain
      <4>2. Len(newTaskData') = Len(newTaskData) + 1 /\ Len(newTaskData) \in Nat
        BY <3>3, SendChain
      <4> QED BY <4>1, <4>2
    <3>4. CASE Edit
      BY <2>2, <3>1, <3>2, <3>4 DEF Edit, FreeNode, SetMortality, ChangeEdges, DropGraph
    <3>5. CASE \/ BeginCommit \/ FreeMarked \/ FreeOldBuffers \/ ReadRetired \/ DropRetired
               \/ SendFails \/ Block \/ UNCHANGED vars
               \/ \E x \in Key : ReadMark(x) \/ CheckOldNode(x)
      BY <2>2, <3>5 DEF BeginCommit, ReadMark, CheckOldNode, FreeMarked, FreeOldBuffers, ReadRetired, DropRetired, SendFails, Block,
         BeginBlock, ApplyTaskData, RetireTaskData, RunTasks, FreedBlock
    <3> QED BY <3>3, <3>4, <3>5 DEF Next, FinishCommit, Send
  <2> QED BY <2>1, <2>2
<1>3. Reclaimed' = Reclaimed
  BY <1>2 DEF Reclaimed
<1> QED BY <1>1, <1>3 DEF Updates!vars, Queue, Playing, Reclaimed

(* Every step of the handoff is a step of GraphUpdates or leaves its       *)
(* variables alone.                                                        *)
LEMMA StepMaps == IInv /\ [Next]_vars => [Updates!Next]_(Updates!vars)
<1> SUFFICES ASSUME IInv, [Next]_vars PROVE Updates!Next \/ UNCHANGED Updates!vars
  OBVIOUS
<1>0. TypeOK /\ TypeOK'
  BY TypeStep DEF IInv
<1>1. ASSUME NEW order \in Orders(nodes \ pendingKeys), NEW buffer, SendTasks(order, buffer)
      PROVE  Updates!Next
  <2>1. NodesOf(SentData(order, buffer)) \in SUBSET Key
    BY SentOrder DEF SentData, NodesOf
  <2> QED BY <1>0, <1>1, <2>1, SendPublishes DEF Updates!Next
<1>2. CASE ApplyTaskData
  BY <1>0, <1>2, ApplyPlays DEF Updates!Next
<1>3. ASSUME NEW k \in Key, CheckOldNode(k), k \in SafeToRemove PROVE Updates!Next
  <2>1. Updates!Reclaim({k})
    BY <1>3, CheckReclaims
  <2>2. \E S \in SUBSET Key : Updates!Reclaim(S)
    BY <2>1 DEF Updates!Reclaim
  <2> QED BY <2>2 DEF Updates!Next
<1>4. CASE SameChain /\ \A k \in Key : ~(CheckOldNode(k) /\ k \in SafeToRemove)
  BY <1>0, <1>4, OthersStutter
<1> QED BY <1>0, <1>1, <1>2, <1>3, <1>4, StepKinds DEF Sends

(* The audio thread plays every committed graph once and in the order of   *)
(* the commits, and no node is reclaimed while it can still be reached.    *)
THEOREM Refinement == Spec => ImplementsUpdates
<1>1. Init => Updates!Init
  BY InitMaps
<1>2. IInv /\ [Next]_vars => [Updates!Next]_(Updates!vars)
  BY StepMaps
<1> QED BY <1>1, <1>2, Invariance, PTL DEF Spec, ImplementsUpdates, Updates!Spec

-----------------------------------------------------------------------------
(***************************************************************************)
(* The allocations, the rings and the UGens: no task points into memory    *)
(* that is gone, the audio thread never has the last Arc to an allocation, *)
(* the rings never hold more than they are made for, and no UGen is copied *)
(* or lost.                                                                *)
(***************************************************************************)
(* The initial states satisfy the memory invariant.                        *)
LEMMA InitMemory == Init => MemoryInv
<1> SUFFICES ASSUME Init PROVE MemoryInv
  OBVIOUS
<1>1. PICK S \in SUBSET Key : \E order \in Orders(S) : InitWith(order)
  BY DEF Init
<1>2. PICK order \in Orders(S) : InitWith(order)
  BY <1>1
<1>3. /\ current.holds /\ current.buffer = 0 /\ genBuffer = 0 /\ allocation = 0
      /\ Len(newTaskData) \in {0, 1}
      /\ \A i \in DOMAIN newTaskData : newTaskData[i].holds /\ newTaskData[i].buffer = 0
      /\ retired = <<>> /\ retiring = <<>> /\ taken = 0 /\ ctl = "edit"
  BY <1>2 DEF Init, InitWith
<1>4. ArcsHeld
  BY <1>3 DEF ArcsHeld, PointersBacked
<1>5. RingsFit
  <2>0. Len(<<>>) = 0
    BY EmptySeq
  <2>1. /\ Len(retired) = 0 /\ Len(retiring) = 0 /\ Len(newTaskData) \in {0, 1}
        /\ taken = 0 /\ ctl = "edit"
    BY <1>3, <2>0, Zenon
  <2>3. UnderWay <= RingSize + 1 /\ Len(newTaskData) + taken <= RingSize /\ 0 <= RingSize
    BY <2>1, RingAssumption DEF UnderWay
  <2> QED BY <2>1, <2>3 DEF RingsFit, OneTooMany
<1>6. AllocationsKept
  BY <1>3 DEF AllocationsKept, Lent, AllTaskData, TaskDataIn
<1> QED BY <1>4, <1>5, <1>6 DEF MemoryInv

-----------------------------------------------------------------------------
(* The Arc of a TaskData moves to the GraphGen before its tasks run.       *)
LEMMA ArcsHeldStep == IInv /\ ArcsHeld /\ [Next]_vars => ArcsHeld'
<1> SUFFICES ASSUME IInv, ArcsHeld, [Next]_vars PROVE ArcsHeld'
  OBVIOUS
<1>0. TypeOK /\ ChainLinked /\ ChunkInRing
  BY DEF IInv
<1> USE DEF vars, control, audio, shared
<1>1. ASSUME NEW order, NEW buffer, SendTasks(order, buffer) PROVE ArcsHeld'
  <2>1. PointersBacked'
    BY <1>1 DEF SendTasks, ArcsHeld, PointersBacked
  <2>2. /\ Len(newTaskData) \in Nat
        /\ Len(newTaskData') = Len(newTaskData) + 1
        /\ \A i \in 1..Len(newTaskData) : newTaskData'[i] = newTaskData[i]
        /\ newTaskData'[Len(newTaskData) + 1] = SentData(order, buffer)
    BY <1>0, <1>1, SendChain
  <2>3. SentData(order, buffer).holds
    BY DEF SentData
  <2>4. DOMAIN newTaskData = 1..Len(newTaskData) /\ DOMAIN newTaskData' = 1..Len(newTaskData')
    BY <1>0, <1>1 DEF TypeOK, SendTasks
  <2>5. ASSUME NEW i \in DOMAIN newTaskData' PROVE newTaskData'[i].holds
    <3>1. CASE i \in 1..Len(newTaskData)
      BY <2>2, <2>4, <3>1 DEF ArcsHeld
    <3>2. CASE i = Len(newTaskData) + 1
      BY <2>2, <2>3, <3>2
    <3> QED BY <2>2, <2>4, <3>1, <3>2
  <2> QED BY <2>1, <2>5 DEF ArcsHeld
<1>2. CASE ApplyTaskData
  <2>1. /\ newTaskData # <<>>
        /\ Head(newTaskData) = newTaskData[1]
        /\ Head(newTaskData) \in TaskData
        /\ \A i \in 1..Len(Tail(newTaskData)) : Tail(newTaskData)[i] = newTaskData[i + 1]
        /\ Len(Tail(newTaskData)) = Len(newTaskData) - 1
    BY <1>0, <1>2, HeadOfChunk DEF ApplyTaskData
  <2>2. Len(newTaskData) \in Nat \ {0} /\ DOMAIN newTaskData = 1..Len(newTaskData)
        /\ DOMAIN Tail(newTaskData) = 1..Len(Tail(newTaskData))
    BY <1>0, <2>1 DEF TypeOK
  <2>3. newTaskData' = Tail(newTaskData) /\ current' = TakeOver(Head(newTaskData), current)
    BY <1>2 DEF ApplyTaskData
  <2>4. current'.holds
    <3>1. Head(newTaskData).holds
      BY <2>1, <2>2 DEF ArcsHeld
    <3> QED BY <2>1, <2>3, <3>1 DEF TakeOver, TaskData
  <2>5. ASSUME NEW i \in DOMAIN newTaskData' PROVE newTaskData'[i].holds
    <3>0. i \in 1..Len(Tail(newTaskData))
      BY <2>2, <2>3
    <3>1. i \in 1..Len(Tail(newTaskData)) /\ i + 1 \in DOMAIN newTaskData
      BY <2>1, <2>2, <3>0
    <3>2. newTaskData'[i] = newTaskData[i + 1]
      BY <2>1, <2>3, <3>1
    <3> QED BY <3>1, <3>2 DEF ArcsHeld
  <2> QED BY <2>4, <2>5 DEF ArcsHeld, PointersBacked
<1>3. ASSUME NEW done, NEW freeParent, RunTasks(done, freeParent) PROVE ArcsHeld'
  <2>1. newTaskData' = newTaskData
    BY <1>3 DEF RunTasks
  <2>2. current'.buffer = current.buffer
    BY <1>0, <1>3 DEF RunTasks, TypeOK, TaskData
  <2>3. genBuffer' = current.buffer
    BY <1>3 DEF RunTasks, ArcsHeld, PointersBacked
  <2> QED BY <2>1, <2>2, <2>3 DEF ArcsHeld, PointersBacked
<1>4. CASE UNCHANGED <<newTaskData, current, genBuffer>>
  BY <1>4 DEF ArcsHeld, PointersBacked
<1> QED
  BY <1>1, <1>2, <1>3, <1>4 DEF Next, Edit, PushNode, FreeNode, PushFeedbackNodes, SetMortality,
     ChangeEdges, DropGraph, BeginCommit, ReadMark, FreeMarked, FinishCommit, CheckOldNode,
     FreeOldBuffers, ReadRetired, DropRetired, Send, SendFails, Block, BeginBlock, RetireTaskData,
     FreedBlock

-----------------------------------------------------------------------------
(* The lengths that the steps on the rings make. *)
LEMMA Lengths ==
  ASSUME TypeOK
  PROVE  /\ Len(newTaskData) \in Nat /\ Len(retired) \in Nat /\ Len(retiring) \in Nat
         /\ taken \in Nat /\ chunk \in Nat /\ draining \in Nat /\ RingSize \in Nat \ {0}
  BY RingAssumption DEF TypeOK

(* A commit makes room for one TaskData before it sends one. *)
LEMMA RingsFitStep == IInv /\ RingsFit /\ [Next]_vars => RingsFit'
<1> SUFFICES ASSUME IInv, RingsFit, [Next]_vars PROVE RingsFit'
  OBVIOUS
<1>0. TypeOK /\ ChainLinked /\ ChunkInRing
  BY DEF IInv
<1>L. /\ Len(newTaskData) \in Nat /\ Len(retired) \in Nat /\ Len(retiring) \in Nat
      /\ taken \in Nat /\ chunk \in Nat /\ draining \in Nat /\ RingSize \in Nat \ {0}
  BY <1>0, Lengths
<1> USE DEF vars, control, audio, shared
<1>1. ASSUME NEW order, NEW buffer, SendTasks(order, buffer) PROVE RingsFit'
  <2>1. Len(newTaskData') = Len(newTaskData) + 1
    BY <1>0, <1>1, SendChain
  <2>2. Len(newTaskData) + taken < RingSize
    BY <1>1, <1>L DEF SendTasks, NewRingFull
  <2> QED BY <1>1, <1>L, <2>1, <2>2 DEF SendTasks, RingsFit, OneTooMany, UnderWay
<1>2. CASE ApplyTaskData
  <2>1. Len(newTaskData') = Len(newTaskData) - 1
    BY <1>0, <1>2, ApplyChain
  <2>2. retiring = <<>> /\ Len(retiring') = 1 /\ taken' = taken + 1
    BY <1>2 DEF ApplyTaskData
  <2>3. Len(retiring) = 0
    BY <2>2
  <2>4. UnderWay' = UnderWay
    BY <1>2, <1>L, <2>1, <2>2, <2>3 DEF UnderWay, ApplyTaskData
  <2>5. retired' = retired /\ draining' = draining /\ ctl' = ctl
    BY <1>2 DEF ApplyTaskData
  <2> QED BY <1>L, <2>1, <2>2, <2>4, <2>5 DEF RingsFit, OneTooMany
<1>3. CASE RetireTaskData
  <2>1. /\ newTaskData' = newTaskData
        /\ Len(retiring') = 0
        /\ taken' = taken \/ taken' = 0
        /\ retiring # <<>>
    BY <1>3 DEF RetireTaskData
  <2>2. \/ Len(retired) < RingSize /\ Len(retired') = Len(retired) + Len(retiring)
        \/ retired' = retired
    <3> HIDE DEF TaskData
    <3>1. retired \in Seq(TaskData) /\ retiring \in Seq(TaskData)
      BY <1>0 DEF TypeOK
    <3>2. Len(retired \o retiring) = Len(retired) + Len(retiring)
      BY <3>1
    <3> QED BY <1>3, <3>2 DEF RetireTaskData
  <2>3. Len(retired') \in Nat /\ Len(retired) <= Len(retired') /\ Len(retired') <= RingSize
    BY <1>L, <2>2 DEF RingsFit
  <2>4. UnderWay' <= UnderWay
    BY <1>L, <2>1, <2>2 DEF UnderWay
  <2> QED BY <1>3, <1>L, <2>1, <2>3, <2>4 DEF RetireTaskData, RingsFit, OneTooMany, UnderWay
<1>4. CASE ReadRetired
  <2>1. draining' = Len(retired) /\ ctl' = "drain" /\ ctl = "retired"
    BY <1>4 DEF ReadRetired, RetiredSlots
  <2>2. UnderWay <= RingSize + Len(retired)
    BY <1>L DEF RingsFit, UnderWay
  <2> QED BY <1>4, <1>L, <2>1, <2>2 DEF ReadRetired, RetiredSlots, RingsFit, OneTooMany, UnderWay
<1>5. CASE DropRetired
  <2>1. ctl = "drain" /\ draining <= Len(retired) /\ UnderWay <= RingSize + draining
    BY <1>5 DEF DropRetired, RingsFit
  <2>2. Len(retired') = Len(retired) - draining
    <3> HIDE DEF TaskData
    <3>1. retired \in Seq(TaskData) /\ retired' = SubSeq(retired, draining + 1, Len(retired))
      BY <1>0, <1>5 DEF TypeOK, DropRetired
    <3> QED BY <1>L, <2>1, <3>1
  <2>0. /\ newTaskData' = newTaskData /\ retiring' = retiring /\ taken' = taken
        /\ ctl' \in {"send", "edit"}
    BY <1>5 DEF DropRetired
  <2>3. UnderWay' = UnderWay - draining
    BY <1>L, <2>0, <2>2 DEF UnderWay
  <2>4. UnderWay' <= RingSize
    BY <1>L, <2>1, <2>3 DEF UnderWay
  <2>5. UnderWay' <= RingSize + 1
    BY <1>L, <2>0, <2>1, <2>2, <2>3 DEF UnderWay
  <2> QED BY <1>L, <2>0, <2>1, <2>2, <2>4, <2>5 DEF RingsFit, OneTooMany
<1>6. CASE /\ UNCHANGED <<newTaskData, retired, retiring, taken, draining>>
           /\ ctl' \notin {"drain", "send"} \/ ctl' = ctl
           /\ ctl' # "gone" => ctl # "gone"
  BY <1>6 DEF RingsFit, OneTooMany, UnderWay
<1>7. CASE BeginBlock \/ FreedBlock \/ \E done, freeParent : RunTasks(done, freeParent)
  BY <1>6, <1>7 DEF BeginBlock, FreedBlock, RunTasks
<1>8. CASE Edit \/ BeginCommit
  BY <1>6, <1>8 DEF Edit, PushNode, FreeNode, PushFeedbackNodes, SetMortality, ChangeEdges, DropGraph,
     BeginCommit
<1>9. CASE FreeMarked \/ FreeOldBuffers \/ SendFails \/ \E k \in Key : ReadMark(k) \/ CheckOldNode(k)
  BY <1>6, <1>9 DEF FreeMarked, FreeOldBuffers, SendFails, ReadMark, CheckOldNode
<1>10. CASE UNCHANGED vars
  BY <1>6, <1>10
<1> QED BY <1>1, <1>2, <1>3, <1>4, <1>5, <1>7, <1>8, <1>9, <1>10 DEF Next, FinishCommit, Send, Block
-----------------------------------------------------------------------------
(* What is lent to the audio thread grows only by the allocation of an     *)
(* update that is sent.                                                    *)
LEMMA LentStep ==
  ASSUME IInv, [Next]_vars
  PROVE  Lent' \subseteq Lent \cup {allocation'}
<1>0. TypeOK /\ ChainLinked /\ ChunkInRing
  BY DEF IInv
<1> SUFFICES ASSUME NEW x \in Lent', x # allocation' PROVE x \in Lent
  OBVIOUS
<1> USE DEF vars, control, audio, shared
(* A TaskData that lends x after the step lent it before, perhaps as a     *)
(* TaskData of other UGens.                                                *)
<1>1. SUFFICES ASSUME NEW td \in AllTaskData', td.holds, td.buffer = x
               PROVE  x \in Lent
  <2>1. CASE x = genBuffer'
    <3>1. CASE \E done, freeParent : RunTasks(done, freeParent)
      BY <2>1, <3>1 DEF RunTasks, Lent, AllTaskData
    <3>2. CASE genBuffer' = genBuffer
      BY <2>1, <3>2 DEF Lent
    <3>3. genBuffer' = genBuffer \/ \E done, freeParent : RunTasks(done, freeParent)
      BY DEF Next, Edit, PushNode, FreeNode, PushFeedbackNodes, SetMortality, ChangeEdges, DropGraph,
         BeginCommit, ReadMark, FreeMarked, FinishCommit, CheckOldNode, FreeOldBuffers, ReadRetired,
         DropRetired, Send, SendTasks, SendFails, Block, BeginBlock, ApplyTaskData, RetireTaskData,
         FreedBlock
    <3> QED BY <3>1, <3>2, <3>3
  <2>2. CASE x # genBuffer'
    BY <1>1, <2>2 DEF Lent
  <2> QED BY <2>1, <2>2
<1>2. SUFFICES ASSUME td \notin AllTaskData
               PROVE  \E old \in AllTaskData : old.holds /\ old.buffer = x
  BY <1>1 DEF Lent
<1>3. ASSUME NEW order, NEW buffer, SendTasks(order, buffer) PROVE FALSE
  <2>1. td \in TaskDataIn(newTaskData')
    BY <1>1, <1>2, <1>3 DEF SendTasks, AllTaskData, TaskDataIn
  <2>2. PICK i \in DOMAIN newTaskData' : td = newTaskData'[i]
    BY <2>1 DEF TaskDataIn
  <2>3. /\ Len(newTaskData) \in Nat
        /\ Len(newTaskData') = Len(newTaskData) + 1
        /\ \A j \in 1..Len(newTaskData) : newTaskData'[j] = newTaskData[j]
        /\ newTaskData'[Len(newTaskData) + 1] = SentData(order, buffer)
    BY <1>0, <1>3, SendChain
  <2>4. DOMAIN newTaskData = 1..Len(newTaskData) /\ DOMAIN newTaskData' = 1..Len(newTaskData')
    BY <1>0, <1>3 DEF TypeOK, SendTasks
  <2>5. i = Len(newTaskData) + 1
    <3>1. ASSUME i \in 1..Len(newTaskData) PROVE FALSE
      BY <1>2, <2>2, <2>3, <2>4, <3>1 DEF AllTaskData, TaskDataIn
    <3> QED BY <2>3, <2>4, <3>1
  <2>6. td.buffer = buffer /\ allocation' = buffer
    BY <1>3, <2>2, <2>3, <2>5 DEF SendTasks, SentData
  <2> QED BY <1>1, <2>6
<1>4. CASE ApplyTaskData
  <2>1. /\ Head(newTaskData) = newTaskData[1]
        /\ Head(newTaskData) \in TaskData
        /\ current \in TaskData
        /\ \A i \in 1..Len(Tail(newTaskData)) : Tail(newTaskData)[i] = newTaskData[i + 1]
        /\ Len(Tail(newTaskData)) = Len(newTaskData) - 1
        /\ newTaskData # <<>>
    BY <1>0, <1>4, HeadOfChunk DEF ApplyTaskData, TypeOK
  <2>2. /\ Len(newTaskData) \in Nat \ {0} /\ DOMAIN newTaskData = 1..Len(newTaskData)
        /\ DOMAIN Tail(newTaskData) = 1..Len(Tail(newTaskData))
    BY <1>0, <2>1 DEF TypeOK
  <2>3. Head(newTaskData) \in AllTaskData /\ current \in AllTaskData
    BY <2>1, <2>2 DEF AllTaskData, TaskDataIn
  <2>4. /\ newTaskData' = Tail(newTaskData)
        /\ current' = TakeOver(Head(newTaskData), current)
        /\ retiring' = <<TakenFrom(current, Head(newTaskData))>>
        /\ retired' = retired
    BY <1>4 DEF ApplyTaskData
  <2>5. CASE td = current'
    <3>1. td.holds = Head(newTaskData).holds /\ td.buffer = Head(newTaskData).buffer
      BY <2>1, <2>4, <2>5 DEF TakeOver, TaskData
    <3> QED BY <1>1, <2>3, <3>1
  <2>6. CASE td \in TaskDataIn(retiring')
    <3>1. td = TakenFrom(current, Head(newTaskData))
      BY <2>4, <2>6 DEF TaskDataIn
    <3>2. td.holds = current.holds /\ td.buffer = current.buffer
      BY <2>1, <3>1 DEF TakenFrom, TaskData
    <3> QED BY <1>1, <2>3, <3>2
  <2>7. CASE td \in TaskDataIn(newTaskData')
    <3>1. PICK i \in DOMAIN Tail(newTaskData) : td = Tail(newTaskData)[i]
      BY <2>4, <2>7 DEF TaskDataIn
    <3>2. i + 1 \in DOMAIN newTaskData /\ td = newTaskData[i + 1]
      BY <2>1, <2>2, <3>1
    <3> QED BY <1>2, <3>2 DEF AllTaskData, TaskDataIn
  <2>8. CASE td \in TaskDataIn(retired')
    BY <1>2, <2>4, <2>8 DEF AllTaskData, TaskDataIn
  <2> QED BY <1>1, <2>5, <2>6, <2>7, <2>8 DEF AllTaskData, TaskDataIn
<1>5. CASE RetireTaskData
  <2>1. td \in TaskDataIn(retired')
    BY <1>1, <1>2, <1>5 DEF RetireTaskData, AllTaskData, TaskDataIn
  <2>2. PICK i \in DOMAIN retired' : td = retired'[i]
    BY <2>1 DEF TaskDataIn
  <2> HIDE DEF TaskData
  <2>3. retired \in Seq(TaskData) /\ retiring \in Seq(TaskData)
    BY <1>0 DEF TypeOK
  <2>4. retired' = retired \o retiring \/ retired' = retired
    BY <1>5 DEF RetireTaskData
  <2>5. CASE retired' = retired
    BY <1>2, <2>2, <2>5 DEF AllTaskData, TaskDataIn
  <2>6. CASE retired' = retired \o retiring
    <3>1. i \in 1..(Len(retired) + Len(retiring))
      BY <2>2, <2>3, <2>6
    <3>2. CASE i <= Len(retired)
      <4>1. i \in DOMAIN retired /\ td = retired[i]
        BY <2>2, <2>3, <2>6, <3>1, <3>2
      <4> QED BY <1>2, <4>1 DEF AllTaskData, TaskDataIn
    <3>3. CASE i > Len(retired)
      <4>1. i - Len(retired) \in DOMAIN retiring /\ td = retiring[i - Len(retired)]
        BY <2>2, <2>3, <2>6, <3>1, <3>3
      <4> QED BY <1>2, <4>1 DEF AllTaskData, TaskDataIn
    <3> QED BY <2>3, <3>1, <3>2, <3>3
  <2> QED BY <2>4, <2>5, <2>6
<1>6. CASE DropRetired
  <2>1. td \in TaskDataIn(retired')
    BY <1>1, <1>2, <1>6 DEF DropRetired, AllTaskData, TaskDataIn
  <2>2. PICK i \in DOMAIN retired' : td = retired'[i]
    BY <2>1 DEF TaskDataIn
  <2> HIDE DEF TaskData
  <2>3. retired \in Seq(TaskData) /\ draining \in Nat
        /\ retired' = SubSeq(retired, draining + 1, Len(retired))
    BY <1>0, <1>6 DEF TypeOK, DropRetired
  <2>4. i + draining \in DOMAIN retired /\ td = retired[i + draining]
    BY <2>2, <2>3
  <2> QED BY <1>2, <2>4 DEF AllTaskData, TaskDataIn
<1>7. ASSUME NEW done, NEW freeParent, RunTasks(done, freeParent) PROVE FALSE
  <2>1. td = current'
    BY <1>1, <1>2, <1>7 DEF RunTasks, AllTaskData, TaskDataIn
  <2>2. ~current'.holds
    BY <1>0, <1>7 DEF RunTasks, TypeOK, TaskData
  <2> QED BY <1>1, <2>1, <2>2
<1>8. CASE UNCHANGED <<newTaskData, current, retiring, retired>>
  BY <1>1, <1>2, <1>8 DEF AllTaskData, TaskDataIn
<1> QED
  BY <1>3, <1>4, <1>5, <1>6, <1>7, <1>8 DEF Next, Edit, PushNode, FreeNode, PushFeedbackNodes,
     SetMortality, ChangeEdges, DropGraph, BeginCommit, ReadMark, FreeMarked, FinishCommit,
     CheckOldNode, FreeOldBuffers, ReadRetired, Send, SendFails, Block, BeginBlock, FreedBlock

(* The Graph lets go of an allocation only when no Arc is lent, and no     *)
(* step lends a new one.                                                   *)
LEMMA AllocationsKeptStep == IInv /\ AllocationsKept /\ [Next]_vars => AllocationsKept'
<1> SUFFICES ASSUME IInv, AllocationsKept, [Next]_vars, ctl' # "gone"
             PROVE  Lent' \subseteq oldBuffers' \cup {allocation'}
  BY DEF AllocationsKept, Lent
<1>1. Lent' \subseteq Lent \cup {allocation'}
  BY LentStep
<1> USE DEF vars, control, audio, shared
<1>2. ctl # "gone" /\ Lent \subseteq oldBuffers \cup {allocation}
  <2>1. ctl # "gone"
    BY DEF Next, Edit, PushNode, FreeNode, PushFeedbackNodes, SetMortality, ChangeEdges, DropGraph,
       BeginCommit, ReadMark, FreeMarked, FinishCommit, CheckOldNode, FreeOldBuffers, ReadRetired,
       DropRetired, Send, SendTasks, SendFails, Block, BeginBlock, ApplyTaskData, RetireTaskData,
       RunTasks, FreedBlock
  <2> QED BY <2>1 DEF AllocationsKept
<1>3. CASE FreeOldBuffers
  BY <1>1, <1>2, <1>3 DEF FreeOldBuffers, KeptBuffers
<1>4. ASSUME NEW order, NEW buffer, SendTasks(order, buffer)
      PROVE  oldBuffers \cup {allocation} \subseteq oldBuffers' \cup {allocation'}
  BY <1>4 DEF SendTasks
<1>5. CASE UNCHANGED <<oldBuffers, allocation>>
  BY <1>1, <1>2, <1>5
<1> QED
  BY <1>1, <1>2, <1>3, <1>4, <1>5 DEF Next, Edit, PushNode, FreeNode, PushFeedbackNodes, SetMortality,
     ChangeEdges, DropGraph, BeginCommit, ReadMark, FreeMarked, FinishCommit, CheckOldNode,
     ReadRetired, DropRetired, Send, SendFails, Block, BeginBlock, ApplyTaskData, RetireTaskData,
     RunTasks, FreedBlock

-----------------------------------------------------------------------------
(* The memory invariant holds in every state. *)
THEOREM MemoryInvariance == Spec => []MemoryInv
<1>1. Init => MemoryInv
  BY InitMemory
<1>2. IInv /\ MemoryInv /\ [Next]_vars => MemoryInv'
  BY ArcsHeldStep, RingsFitStep, AllocationsKeptStep DEF MemoryInv
<1> QED BY <1>1, <1>2, Invariance, PTL DEF Spec

(* The pointers of the running tasks are into memory that the GraphGen     *)
(* keeps alive itself (_arc_buffer_allocation_ptr), while the Graph exists *)
(* it holds every allocation that the audio thread can have an Arc to      *)
(* (buffers_to_free_when_safe), and at most one TaskData more than a ring  *)
(* holds is under way.                                                     *)
THEOREM MemoryIsKept == Spec => []MemoryKept
<1>1. MemoryInv => PointersBacked
  BY DEF MemoryInv, ArcsHeld
<1>2. MemoryInv => AllocationsKept
  BY DEF MemoryInv
<1>3. MemoryInv => OneTooMany
  BY DEF MemoryInv, RingsFit
<1>4. MemoryInv => MemoryKept
  BY <1>1, <1>2, <1>3 DEF MemoryKept
<1> QED BY <1>4, MemoryInvariance, PTL
-----------------------------------------------------------------------------
(***************************************************************************)
(* The UGens: what a step does to the nodes that have not been sent, and   *)
(* to those that stay.                                                     *)
(***************************************************************************)
(* A step makes no node fresh, and no fresh node leaves the chain alone    *)
(* but by being sent.                                                      *)
LEMMA FreshStep ==
  ASSUME TypeOK, [Next]_vars, NEW k \in Fresh'
  PROVE  k \in Fresh
<1> USE DEF vars, control, audio, shared, Fresh
<1>1. ASSUME NEW x \in Key, PushNode(x) PROVE k \in Fresh
  BY <1>1 DEF PushNode, TypeOK
<1>2. ASSUME NEW x \in Key, NEW y \in Key, PushFeedbackNodes(x, y) PROVE k \in Fresh
  BY <1>2 DEF PushFeedbackNodes, TypeOK
<1>3. CASE Edit
  BY <1>1, <1>2, <1>3 DEF Edit, FreeNode, SetMortality, ChangeEdges, DropGraph
<1>4. ASSUME NEW x \in Key, CheckOldNode(x) PROVE k \in Fresh
  BY <1>4 DEF CheckOldNode, TypeOK, Removed, Local, Absent
<1>5. ASSUME NEW order, NEW buffer, SendTasks(order, buffer) PROVE k \in Fresh
  <2>1. nodeUGen'[k] = MadeLive(order)[k]
    BY <1>5 DEF SendTasks
  <2> QED BY <2>1 DEF MadeLive, Live, Local, Absent
<1>6. CASE \/ BeginCommit \/ FreeMarked \/ FreeOldBuffers \/ ReadRetired \/ DropRetired \/ SendFails
           \/ Block \/ UNCHANGED vars \/ \E x \in Key : ReadMark(x)
  BY <1>6 DEF BeginCommit, ReadMark, FreeMarked, FreeOldBuffers, ReadRetired, DropRetired, SendFails, Block, BeginBlock,
              ApplyTaskData, RetireTaskData, RunTasks, FreedBlock
<1> QED BY <1>3, <1>4, <1>5, <1>6 DEF Next, FinishCommit, Send

(* A node that stays keeps its place among the pending ones.               *)
LEMMA NodesStep ==
  ASSUME TypeOK, [Next]_vars, NEW k \in nodes'
  PROVE  /\ k \in nodes \/ k \in Fresh
         /\ \A p \in pending : p[1] = k => p \in pending'
         /\ nodeUGen[k] = Local => k \in nodes
<1> USE DEF vars, control, audio, shared
<1>0. k \in Key
  BY DEF nodes
<1>1. ASSUME NEW x \in Key, PushNode(x) PROVE k \in nodes \/ k \in Fresh
  BY <1>0, <1>1 DEF PushNode, TypeOK, nodes, Fresh
<1>2. ASSUME NEW x \in Key, NEW y \in Key, PushFeedbackNodes(x, y) PROVE k \in nodes \/ k \in Fresh
  BY <1>0, <1>2 DEF PushFeedbackNodes, TypeOK, nodes, Fresh
<1>3. CASE Edit
  <2>1. k \in nodes \/ k \in Fresh
    BY <1>1, <1>2, <1>3 DEF Edit, FreeNode, SetMortality, ChangeEdges, DropGraph, nodes
  <2>2. pending \subseteq pending'
    BY <1>3 DEF Edit, PushNode, PushFeedbackNodes, FreeNode, Free, SetMortality, ChangeEdges, DropGraph
  <2> QED BY <1>0, <2>1, <2>2 DEF nodes, Local
<1>4. ASSUME NEW x \in Key, CheckOldNode(x)
      PROVE  k \in nodes /\ \A p \in pending : p[1] = k => p \in pending'
  <2>1. CASE x \in SafeToRemove
    <3>1. /\ nodeUGen' = [nodeUGen EXCEPT ![x] = Removed]
          /\ pending' = {p \in pending : p[1] # x}
      BY <1>4, <2>1 DEF CheckOldNode
    <3>2. k # x
      BY <1>0, <3>1 DEF nodes, Removed, TypeOK
    <3> QED BY <1>0, <3>1, <3>2 DEF nodes, TypeOK
  <2>2. CASE x \notin SafeToRemove
    BY <1>4, <2>2 DEF CheckOldNode, nodes
  <2> QED BY <2>1, <2>2
<1>5. ASSUME NEW order \in Orders(nodes \ pendingKeys), NEW buffer, SendTasks(order, buffer)
      PROVE  k \in nodes /\ pending' = pending
  <2>1. nodeUGen'[k] = MadeLive(order)[k] /\ pending' = pending
    BY <1>5 DEF SendTasks
  <2>2. CASE \E i \in DOMAIN order : order[i] = k
    BY <2>1, <2>2, SentOrder
  <2>3. CASE ~ \E i \in DOMAIN order : order[i] = k
    BY <1>0, <2>1, <2>3 DEF MadeLive, nodes
  <2> QED BY <2>1, <2>2, <2>3
<1>6. CASE \/ BeginCommit \/ FreeMarked \/ FreeOldBuffers \/ ReadRetired \/ DropRetired \/ SendFails
           \/ Block \/ UNCHANGED vars \/ \E x \in Key : ReadMark(x)
  <2>1. nodeUGen' = nodeUGen /\ pending \subseteq pending'
    BY <1>6 DEF BeginCommit, ReadMark, FreeMarked, Free, FreeOldBuffers, ReadRetired, DropRetired, SendFails,
       Block, BeginBlock, ApplyTaskData, RetireTaskData, RunTasks, FreedBlock
  <2> QED BY <2>1 DEF nodes
<1> QED BY <1>0, <1>3, <1>4, <1>5, <1>6 DEF Next, FinishCommit, Send, nodes, Local

-----------------------------------------------------------------------------
(* The initial states satisfy the invariant.                               *)
LEMMA InitOwn == Init => OwnInv
<1> SUFFICES ASSUME Init PROVE OwnInv
  OBVIOUS
<1>1. PICK S \in SUBSET Key : \E order \in Orders(S) : InitWith(order)
  BY DEF Init
<1>2. PICK order \in Orders(S) : InitWith(order)
  BY <1>1
<1>3. order \in Seq(Key)
  BY OrdersType
<1>4. \A i, j \in DOMAIN order : order[i] = order[j] => i = j
  BY DEF Orders
<1>5. /\ current = [order |-> order, ugens |-> [i \in DOMAIN order |-> Take(i)],
                    flag |-> 0, buffer |-> 0, holds |-> TRUE]
      /\ retired = <<>> /\ retiring = <<>> /\ pending = {} /\ applied = {}
  BY <1>2 DEF Init, InitWith
<1> DEFINE sent == [order |-> order, ugens |-> [i \in DOMAIN order |-> Dyn(order[i])],
                    flag |-> 1, buffer |-> 0, holds |-> TRUE]
<1>6. \/ order = <<>> /\ newTaskData = <<>> /\ nextFlag = 1
      \/ order # <<>> /\ newTaskData = <<sent>> /\ nextFlag = 2
  BY <1>2 DEF InitWith
<1>7. \A k \in Key : /\ (\E i \in DOMAIN order : order[i] = k) => nodeUGen[k].tag = "live"
                     /\ ~ (\E i \in DOMAIN order : order[i] = k) => nodeUGen[k] = Absent
  BY <1>2 DEF InitWith, Live
<1>8. \A k \in Key : (k \in nodes <=> \E i \in DOMAIN order : order[i] = k)
                     /\ (k \in Fresh => ~ \E i \in DOMAIN order : order[i] = k)
  <2> SUFFICES ASSUME NEW k \in Key
               PROVE  /\ k \in nodes <=> \E i \in DOMAIN order : order[i] = k
                      /\ k \in Fresh => ~ \E i \in DOMAIN order : order[i] = k
    OBVIOUS
  <2>1. CASE \E i \in DOMAIN order : order[i] = k
    BY <1>7, <2>1 DEF nodes, Fresh, Absent, Local
  <2>2. CASE ~ \E i \in DOMAIN order : order[i] = k
    BY <1>7, <2>2 DEF nodes, Absent
  <2> QED BY <2>1, <2>2
<1>9. /\ Chain(0).order = order /\ Chain(0).flag = 0
      /\ Len(newTaskData) \in {0, 1}
      /\ \A i \in 1..Len(newTaskData) : /\ i = 1 /\ Chain(i).order = order /\ Chain(i).flag = 1
                                        /\ newTaskData[i] = sent
      /\ Len(newTaskData) = 0 => nextFlag = 1
      /\ Len(newTaskData) = 1 => nextFlag = 2 /\ order # <<>>
      /\ DOMAIN newTaskData = 1..Len(newTaskData)
  <2>1. CASE order = <<>> /\ newTaskData = <<>> /\ nextFlag = 1
    BY <1>5, <2>1 DEF Chain
  <2>2. CASE order # <<>> /\ newTaskData = <<sent>> /\ nextFlag = 2
    <3>1. sent.order = order /\ sent.flag = 1
      OBVIOUS
    <3> HIDE DEF sent
    <3>2. Len(newTaskData) = 1 /\ DOMAIN newTaskData = 1..1 /\ newTaskData[1] = sent
      BY <2>2
    <3>3. Chain(0) = current /\ Chain(1) = newTaskData[1]
      BY DEF Chain
    <3> QED BY <1>5, <2>2, <3>1, <3>2, <3>3
  <2> QED BY <1>6, <2>1, <2>2
<1>10. OwnedOnce
  <2> SUFFICES ASSUME NEW k \in Key
               PROVE  /\ \A p, q \in Holders(k) : p = q
                      /\ k \in Fresh => Holders(k) = {}
    BY DEF OwnedOnce
  <2>1. PlacesIn(<<current>>, k) = {} /\ PlacesIn(retired, k) = {} /\ PlacesIn(retiring, k) = {}
    BY <1>5 DEF PlacesIn, Take, Dyn
  <2>2. \A p \in PlacesIn(newTaskData, k) : \E i \in DOMAIN order : p = <<1, i>> /\ order[i] = k
    BY <1>9 DEF PlacesIn, Dyn
  <2> QED BY <1>4, <1>8, <2>1, <2>2 DEF Holders
<1>11. OrdersDistinct
  BY <1>4, <1>9 DEF OrdersDistinct
<1>12. CurrentNames
  BY <1>5 DEF CurrentNames, Take, Dyn
<1>13. FreshUnsent
  BY <1>3, <1>8, <1>9 DEF FreshUnsent, NodesOf, Fresh
<1>14. FlagsFollow
  BY <1>9 DEF FlagsFollow, Last
<1>15. DeparturesFlagged
  BY <1>9 DEF DeparturesFlagged, NodesOf
<1>16. UGensKept
  <2> SUFFICES ASSUME NEW k \in nodes PROVE \E td \in TaskDataIn(newTaskData) : HoldsUGen(td, k)
    BY DEF UGensKept
  <2>1. PICK i \in DOMAIN order : order[i] = k
    BY <1>8 DEF nodes
  <2>2. order # <<>>
    BY <2>1
  <2>3. 1 \in DOMAIN newTaskData /\ newTaskData[1] = sent
    <3> HIDE DEF sent
    <3> QED BY <1>6, <2>2
  <2>4. HoldsUGen(sent, k)
    BY <2>1 DEF HoldsUGen
  <2> QED BY <2>3, <2>4 DEF TaskDataIn
<1> QED BY <1>10, <1>11, <1>12, <1>13, <1>14, <1>15, <1>16 DEF OwnInv
-----------------------------------------------------------------------------
(* An update is numbered after the last one.                               *)
LEMMA FlagsFollowStep == IInv /\ FlagsFollow /\ [Next]_vars => FlagsFollow'
<1> SUFFICES ASSUME IInv, FlagsFollow, [Next]_vars PROVE FlagsFollow'
  OBVIOUS
<1>0. TypeOK /\ ChainLinked /\ ChunkInRing
  BY DEF IInv
<1> DEFINE n == Len(newTaskData)
<1>1. /\ n \in Nat
      /\ \A i \in 1..n : Chain(i).flag = Chain(i - 1).flag + 1
      /\ nextFlag = Chain(n).flag + 1
  BY <1>0, ChainType DEF FlagsFollow, Last
<1>2. SUFFICES /\ \A i \in 1..n' : Chain(i)'.flag = Chain(i - 1)'.flag + 1
               /\ \A i \in Nat : i = n' => nextFlag' = Chain(i)'.flag + 1
  <2>1. n' \in Nat
    BY <1>0, TypeStep DEF TypeOK
  <2>2. \A i \in Nat : i = n' => Last'.flag = Chain(i)'.flag
    BY DEF Last, Chain
  <2> QED BY <1>2, <2>1, <2>2 DEF FlagsFollow, Chain
<1>3. CASE SameChain
  <2>1. nextFlag' = nextFlag
    BY <1>3 DEF SameChain
  <2>2. n' = n /\ \A i \in 0..n : Chain(i)'.flag = Chain(i).flag
    BY <1>0, <1>3, SameChainChain
  <2> QED BY <1>1, <2>1, <2>2
<1>4. ASSUME NEW order, NEW buffer, SendTasks(order, buffer)
      PROVE  /\ \A i \in 1..n' : Chain(i)'.flag = Chain(i - 1)'.flag + 1
             /\ \A i \in Nat : i = n' => nextFlag' = Chain(i)'.flag + 1
  <2>1. nextFlag' = nextFlag + 1
    BY <1>4 DEF SendTasks
  <2>2. /\ n' = n + 1
        /\ \A i \in 0..n : Chain(i)' = Chain(i)
        /\ \A i \in Nat : i = n + 1 => Chain(i)'.flag = nextFlag
    <3>1. SentData(order, buffer).flag = nextFlag
      BY DEF SentData
    <3> QED BY <1>0, <1>4, <3>1, SendChain
  <2>3. ASSUME NEW i \in 1..n' PROVE Chain(i)'.flag = Chain(i - 1)'.flag + 1
    <3>1. i - 1 \in 0..n /\ Chain(i - 1)' = Chain(i - 1)
      BY <1>1, <2>2
    <3>2. CASE i \in 1..n
      BY <1>1, <2>2, <3>1, <3>2
    <3>3. CASE i = n + 1
      BY <1>1, <2>2, <3>1, <3>3
    <3> QED BY <1>1, <2>2, <3>2, <3>3
  <2> QED BY <1>1, <2>1, <2>2, <2>3
<1>5. CASE ApplyTaskData
  <2>1. nextFlag' = nextFlag
    BY <1>5 DEF ApplyTaskData, control
  <2>2. n \in Nat \ {0} /\ n' = n - 1 /\ \A i \in 0..n' : Chain(i)'.flag = Chain(i + 1).flag
    BY <1>0, <1>5, ApplyChain
  <2>3. ASSUME NEW i \in 1..n' PROVE Chain(i)'.flag = Chain(i - 1)'.flag + 1
    <3>1. i - 1 \in 0..n' /\ i \in 0..n' /\ i + 1 \in 1..n /\ i \in 1..n
      BY <2>2
    <3>2. Chain(i + 1).flag = Chain((i + 1) - 1).flag + 1 /\ (i + 1) - 1 = i /\ (i - 1) + 1 = i
      BY <1>1, <3>1
    <3>3. Chain(i)'.flag = Chain(i + 1).flag /\ Chain(i - 1)'.flag = Chain((i - 1) + 1).flag
      BY <2>2, <3>1
    <3> QED BY <3>2, <3>3
  <2>4. ASSUME NEW i \in Nat, i = n' PROVE nextFlag' = Chain(i)'.flag + 1
    <3>1. i \in 0..n' /\ i + 1 = n
      BY <2>2, <2>4
    <3> QED BY <1>1, <2>1, <2>2, <3>1
  <2> QED BY <2>3, <2>4
<1> QED BY <1>0, <1>3, <1>4, <1>5, StepKinds DEF Sends

(* The orders of the chain are those of before and the one that is sent.   *)
LEMMA OrdersOfChain ==
  ASSUME TypeOK, ChainLinked, ChunkInRing, [Next]_vars, NEW i \in 0..Len(newTaskData')
  PROVE  \/ \E j \in 0..Len(newTaskData) : Chain(i)'.order = Chain(j).order
         \/ \E order \in Orders(nodes \ pendingKeys) : \E buffer : SendTasks(order, buffer) /\ Chain(i)'.order = order
<1> DEFINE n == Len(newTaskData)
<1>1. n \in Nat
  BY DEF TypeOK
<1>2. CASE SameChain
  BY <1>2, SameChainChain
<1>3. ASSUME NEW order \in Orders(nodes \ pendingKeys), NEW buffer, SendTasks(order, buffer)
      PROVE  \/ \E j \in 0..n : Chain(i)'.order = Chain(j).order
             \/ Chain(i)'.order = order
  <2>1. n' = n + 1 /\ \A j \in 0..n : Chain(j)' = Chain(j)
    BY <1>3, SendChain
  <2>2. CASE i = n + 1
    <3>1. Chain(i)' = SentData(order, buffer)
      BY <1>1, <1>3, <2>2, SendChain
    <3> QED BY <3>1 DEF SentData
  <2>3. i \in 0..n \/ i = n + 1
    BY <1>1, <2>1
  <2> QED BY <2>1, <2>2, <2>3
<1>4. CASE ApplyTaskData
  <2>1. n' = n - 1 /\ Chain(i)'.order = Chain(i + 1).order
    BY <1>4, ApplyChain
  <2>2. i + 1 \in 0..n
    BY <1>1, <2>1
  <2> QED BY <2>1, <2>2
<1> QED BY <1>2, <1>3, <1>4, StepKinds DEF Sends

(* Orders stay without repetition.                                         *)
LEMMA OrdersDistinctStep == IInv /\ OrdersDistinct /\ [Next]_vars => OrdersDistinct'
<1> SUFFICES ASSUME IInv, OrdersDistinct, [Next]_vars, NEW i \in 0..Len(newTaskData')
             PROVE  \A m, n \in DOMAIN Chain(i)'.order :
                       Chain(i)'.order[m] = Chain(i)'.order[n] => m = n
  BY DEF OrdersDistinct, Chain
<1>1. CASE \E j \in 0..Len(newTaskData) : Chain(i)'.order = Chain(j).order
  BY <1>1 DEF OrdersDistinct
<1>2. CASE \E order \in Orders(nodes \ pendingKeys) : Chain(i)'.order = order
  BY <1>2 DEF Orders
<1> QED BY <1>1, <1>2, OrdersOfChain DEF IInv

(* No node is in an update before it has been sent.                        *)
LEMMA FreshUnsentStep == IInv /\ FreshUnsent /\ [Next]_vars => FreshUnsent'
<1> SUFFICES ASSUME IInv, FreshUnsent, [Next]_vars, NEW k \in Fresh', NEW i \in 0..Len(newTaskData')
             PROVE  \A m \in DOMAIN Chain(i)'.order : Chain(i)'.order[m] # k
  BY DEF FreshUnsent, Chain, NodesOf
<1>0. TypeOK /\ ChainLinked /\ ChunkInRing
  BY DEF IInv
<1>1. k \in Fresh
  BY <1>0, FreshStep
<1>2. CASE \E j \in 0..Len(newTaskData) : Chain(i)'.order = Chain(j).order
  BY <1>1, <1>2 DEF FreshUnsent, NodesOf
<1>3. ASSUME NEW order \in Orders(nodes \ pendingKeys), NEW buffer, SendTasks(order, buffer),
             Chain(i)'.order = order
      PROVE  \A m \in DOMAIN Chain(i)'.order : Chain(i)'.order[m] # k
  <2>1. nodeUGen' = MadeLive(order)
    BY <1>3 DEF SendTasks
  <2>2. k \in Key /\ nodeUGen'[k] \in {Absent, Local}
    BY DEF Fresh
  <2>3. ~ \E m \in DOMAIN order : order[m] = k
    <3>1. ASSUME \E m \in DOMAIN order : order[m] = k PROVE FALSE
      <4>1. nodeUGen'[k].tag = "live"
        BY <2>1, <2>2, <3>1 DEF MadeLive, Live
      <4> QED BY <2>2, <4>1 DEF Absent, Local
    <3> QED BY <3>1
  <2> QED BY <1>3, <2>3
<1> QED BY <1>0, <1>2, <1>3, OrdersOfChain

(* A node leaves the chain only pending, and stays pending while it is a   *)
(* node.                                                                   *)
LEMMA DeparturesFlaggedStep == IInv /\ OwnInv /\ [Next]_vars => DeparturesFlagged'
<1> SUFFICES ASSUME IInv, OwnInv, [Next]_vars, NEW i \in 1..Len(newTaskData'), NEW k \in nodes',
                    k \in NodesOf(Chain(i - 1)')
             PROVE  \/ k \in NodesOf(Chain(i)')
                    \/ \E p \in pending' : p[1] = k /\ p[2] <= Chain(i)'.flag
  BY DEF DeparturesFlagged, Chain, NodesOf
<1>0. /\ TypeOK /\ ChainLinked /\ ChunkInRing /\ FlagsRise /\ PendingLeft
      /\ FreshUnsent /\ DeparturesFlagged
  BY DEF IInv, OwnInv
<1> DEFINE n == Len(newTaskData)
<1>1. n \in Nat /\ k \in Key
  BY <1>0 DEF TypeOK, nodes
<1>2. /\ k \in nodes \/ \A j \in 0..n : k \notin NodesOf(Chain(j))
      /\ \A p \in pending : p[1] = k => p \in pending'
  BY <1>0, NodesStep DEF FreshUnsent
<1>3. \A j \in 1..n : k \in NodesOf(Chain(j - 1)) =>
         \/ k \in NodesOf(Chain(j))
         \/ \E p \in pending' : p[1] = k /\ p[2] <= Chain(j).flag
  <2> SUFFICES ASSUME NEW j \in 1..n, k \in NodesOf(Chain(j - 1))
               PROVE  \/ k \in NodesOf(Chain(j))
                      \/ \E p \in pending' : p[1] = k /\ p[2] <= Chain(j).flag
    OBVIOUS
  <2>1. j - 1 \in 0..n
    BY <1>1
  <2> QED BY <1>0, <1>2, <2>1 DEF DeparturesFlagged
<1>4. CASE SameChain
  <2>1. n' = n /\ \A j \in 0..n : Chain(j)'.flag = Chain(j).flag /\ Chain(j)'.order = Chain(j).order
    BY <1>0, <1>4, SameChainChain
  <2>2. i - 1 \in 0..n /\ i \in 0..n
    BY <1>1, <2>1
  <2> QED BY <1>3, <2>1, <2>2 DEF NodesOf
<1>5. ASSUME NEW order \in Orders(nodes \ pendingKeys), NEW buffer, SendTasks(order, buffer)
      PROVE  \/ k \in NodesOf(Chain(i)')
             \/ \E p \in pending' : p[1] = k /\ p[2] <= Chain(i)'.flag
  <2>1. n' = n + 1 /\ \A j \in 0..n : Chain(j)' = Chain(j)
    BY <1>0, <1>5, SendChain
  <2>2. i - 1 \in 0..n
    BY <1>1, <2>1
  <2>3. CASE i \in 1..n
    <3>1. i \in 0..n
      BY <2>3
    <3> QED BY <1>3, <2>1, <2>2, <2>3, <3>1
  <2>4. CASE i = n + 1
    <3>1. Chain(i)' = SentData(order, buffer)
      BY <1>0, <1>1, <1>5, <2>4, SendChain
    <3>2. k \in nodes
      BY <1>2, <2>1, <2>2
    <3>3. CASE k \in pendingKeys
      <4>1. PICK p \in pending : p[1] = k
        BY <3>3 DEF pendingKeys
      <4>2. p[2] <= nextFlag /\ p \in pending'
        BY <1>0, <1>2, <4>1 DEF PendingLeft
      <4> QED BY <3>1, <4>1, <4>2 DEF SentData
    <3>4. CASE k \notin pendingKeys
      <4>1. \E j \in DOMAIN order : order[j] = k
        BY <3>2, <3>4 DEF Orders
      <4> QED BY <3>1, <4>1 DEF SentData, NodesOf
    <3> QED BY <3>3, <3>4
  <2> QED BY <1>1, <2>1, <2>3, <2>4
<1>6. CASE ApplyTaskData
  <2>1. n' = n - 1 /\ \A j \in 0..n' : Chain(j)'.order = Chain(j + 1).order
                                       /\ Chain(j)'.flag = Chain(j + 1).flag
    BY <1>0, <1>6, ApplyChain
  <2>2. i - 1 \in 0..n' /\ i \in 0..n' /\ i + 1 \in 1..n /\ (i - 1) + 1 = i /\ (i + 1) - 1 = i
    BY <1>1, <2>1
  <2>3. Chain(i - 1)'.order = Chain(i).order /\ Chain(i)'.order = Chain(i + 1).order
        /\ Chain(i)'.flag = Chain(i + 1).flag
    BY <2>1, <2>2
  <2>4. k \in NodesOf(Chain(i))
    BY <2>3 DEF NodesOf
  <2>5. \/ k \in NodesOf(Chain(i + 1))
        \/ \E p \in pending' : p[1] = k /\ p[2] <= Chain(i + 1).flag
    BY <1>3, <2>2, <2>4
  <2> QED BY <2>3, <2>5 DEF NodesOf
<1> QED BY <1>0, <1>4, <1>5, <1>6, StepKinds DEF Sends

(* The running tasks keep their own UGens.                                 *)
LEMMA CurrentNamesStep == IInv /\ CurrentNames /\ [Next]_vars => CurrentNames'
<1> SUFFICES ASSUME IInv, CurrentNames, [Next]_vars PROVE CurrentNames'
  OBVIOUS
<1>0. TypeOK /\ ChainLinked /\ ChunkInRing /\ CurrentReady
  BY DEF IInv
<1>1. CASE ApplyTaskData
  <2>0. chunk > 0
    BY <1>1 DEF ApplyTaskData
  <2>1. /\ Head(newTaskData) \in TaskData
        /\ current \in TaskData
        /\ Head(newTaskData) = newTaskData[1]
        /\ SameLength(Head(newTaskData))
        /\ SameLength(current)
        /\ Follows(Head(newTaskData), current)
    BY <1>0, <2>0, HeadOfChunk DEF TypeOK
  <2>2. OwnsItsUGens(TakeOver(Head(newTaskData), current))
    BY <1>0, <2>1, TakeOverOwns DEF CurrentReady
  <2>3. OwnsItsUGens(current')
    BY <1>1, <2>2 DEF ApplyTaskData
  <2>4. \A x, y : Dyn(x) = Dyn(y) => x = y
    BY DEF Dyn
  <2> QED BY <2>3, <2>4 DEF OwnsItsUGens, CurrentNames
<1>2. CASE ~ApplyTaskData
  <2>1. current'.order = current.order /\ current'.ugens = current.ugens
    BY <1>0, <1>2, StepKinds DEF Sends, SendTasks, SameChain, audio
  <2> QED BY <2>1 DEF CurrentNames
<1> QED BY <1>1, <1>2

-----------------------------------------------------------------------------
(***************************************************************************)
(* No UGen is lost.                                                        *)
(***************************************************************************)
(* UGensKept, in terms of the chain.                                       *)
LEMMA KeptInChain ==
  ASSUME TypeOK, NEW k
  PROVE  (\E td \in {current} \cup TaskDataIn(newTaskData) : HoldsUGen(td, k))
           <=> \E i \in 0..Len(newTaskData) : HoldsUGen(Chain(i), k)
<1> HIDE DEF TaskData
<1>1. newTaskData \in Seq(TaskData) /\ Len(newTaskData) \in Nat /\ DOMAIN newTaskData = 1..Len(newTaskData)
  BY DEF TypeOK
<1>2. Chain(0) = current /\ \A i \in 1..Len(newTaskData) : Chain(i) = newTaskData[i]
  BY <1>1 DEF Chain
<1>3. 0..Len(newTaskData) = {0} \cup 1..Len(newTaskData)
  BY <1>1
<1> QED BY <1>1, <1>2, <1>3 DEF TaskDataIn

(* A UGen that the chain holds and the update being applied leaves out has *)
(* the flag of that update.                                                *)
LEMMA LeftOutIsSafe ==
  ASSUME IInv, OwnInv, ApplyTaskData, NEW k \in nodes, HoldsUGen(current, k),
         k \notin NodesOf(newTaskData[1])
  PROVE  \E p \in pending : p[1] = k /\ p[2] \in applied'
<1>0. /\ TypeOK /\ ChainLinked /\ ChunkInRing /\ PendingLeft
      /\ CurrentNames /\ FlagsFollow /\ DeparturesFlagged
  BY DEF IInv, OwnInv
<1>1. Len(newTaskData) \in Nat \ {0} /\ Chain(1) = newTaskData[1] /\ Chain(0) = current
  BY <1>0, ApplyChain DEF Chain
<1>2. Chain(0) \in TaskData /\ Chain(1) \in TaskData
  BY <1>0, <1>1, ChainType
<1>3. k \in NodesOf(Chain(0)) /\ k \in Key
  BY <1>0, <1>1 DEF HoldsUGen, CurrentNames, NodesOf, nodes
<1>4. PICK p \in pending : p[1] = k /\ p[2] <= Chain(1).flag
  <2>1. 1 \in 1..Len(newTaskData) /\ 1 - 1 = 0
    BY <1>1
  <2> QED BY <1>0, <1>1, <1>3, <2>1 DEF DeparturesFlagged
<1>5. ~ (p[2] <= Chain(0).flag)
  <2>1. 0 \in 0..Len(newTaskData)
    BY <1>1
  <2> QED BY <1>0, <1>3, <1>4, <2>1 DEF PendingLeft
<1>6. Chain(1).flag = Chain(0).flag + 1
  <2>1. 1 \in 1..Len(newTaskData) /\ 1 - 1 = 0
    BY <1>1
  <2> QED BY <1>0, <2>1 DEF FlagsFollow
<1>7. p[2] = newTaskData[1].flag
  <2>1. p[2] \in Nat /\ Chain(0).flag \in Nat /\ Chain(1).flag \in Nat
    BY <1>0, <1>2 DEF TypeOK, TaskData
  <2> QED BY <1>1, <1>4, <1>5, <1>6, <2>1
<1>8. Head(newTaskData) = newTaskData[1]
  BY <1>0, HeadOfChunk DEF ApplyTaskData
<1> QED BY <1>4, <1>7, <1>8 DEF ApplyTaskData

(* Whatever a step does, the UGen of a node stays in the chain until a     *)
(* raised flag says that the node is safe to remove.                       *)
LEMMA UGensKeptStep == IInv /\ OwnInv /\ [Next]_vars => UGensKept'
<1> SUFFICES ASSUME IInv, OwnInv, [Next]_vars PROVE UGensKept'
  OBVIOUS
<1> SUFFICES ASSUME ctl' # "gone", NEW k \in nodes', k \notin SafeToRemove', nodeUGen'[k] # Local
             PROVE  \E i \in 0..Len(newTaskData') : HoldsUGen(Chain(i)', k)
  <2>1. TypeOK'
    BY TypeStep
  <2>2. ASSUME NEW k
        PROVE  (\E td \in {current'} \cup TaskDataIn(newTaskData') : HoldsUGen(td, k))
                 <=> \E i \in 0..Len(newTaskData') : HoldsUGen(Chain(i)', k)
    <3> HIDE DEF TaskData
    <3>1. Len(newTaskData') \in Nat /\ DOMAIN newTaskData' = 1..Len(newTaskData')
      BY <2>1 DEF TypeOK
    <3>2. /\ \A i \in Nat : i = 0 => Chain(i)' = current'
          /\ \A i \in 1..Len(newTaskData') : Chain(i)' = newTaskData'[i]
      BY <3>1 DEF Chain
    <3>3. 0..Len(newTaskData') = {0} \cup 1..Len(newTaskData')
      BY <3>1
    <3> QED BY <3>1, <3>2, <3>3 DEF TaskDataIn
  <2>3. UGensKept' <=>
          (ctl' # "gone" => \A x \in nodes' \ SafeToRemove' :
             nodeUGen'[x] = Local \/ \E td \in {current'} \cup TaskDataIn(newTaskData') : HoldsUGen(td, x))
    BY DEF UGensKept, TaskDataIn, HoldsUGen, Local
  <2> QED BY <2>2, <2>3
<1>0. /\ TypeOK /\ ChainLinked /\ ChunkInRing /\ CurrentReady
      /\ UGensKept
  BY DEF IInv, OwnInv
<1> DEFINE n == Len(newTaskData)
<1>1. n \in Nat /\ k \in Key
  BY <1>0 DEF TypeOK, nodes
<1>2. \A p \in pending : p[1] = k => p \in pending'
  BY <1>0, NodesStep
<1>3. k \notin SafeToRemove
  <2>1. applied \subseteq applied'
    BY <1>0, StepKinds DEF Sends, SendTasks, ApplyTaskData, SameChain
  <2> QED BY <1>2, <2>1 DEF SafeToRemove
<1>4. ctl # "gone"
  BY DEF vars, control, audio, shared, Next, Edit, PushNode, FreeNode, PushFeedbackNodes, SetMortality,
     ChangeEdges, DropGraph, BeginCommit, ReadMark, FreeMarked, FinishCommit, CheckOldNode, FreeOldBuffers,
     ReadRetired, DropRetired, Send, SendTasks, SendFails, Block, BeginBlock, ApplyTaskData, RetireTaskData,
     RunTasks, FreedBlock
<1>5. CASE nodeUGen[k] = Local
  <2>1. ASSUME ~Sends PROVE nodeUGen'[k] = Local
    <3> USE DEF vars, control, audio, shared
    <3>1. ASSUME NEW x \in Key, CheckOldNode(x) PROVE nodeUGen'[k] = Local
      <4>1. nodeUGen' = [nodeUGen EXCEPT ![x] = Removed] \/ nodeUGen' = nodeUGen
        BY <3>1 DEF CheckOldNode
      <4>2. nodeUGen'[k] # Removed
        BY DEF nodes, Removed
      <4> QED BY <1>0, <1>1, <1>5, <4>1, <4>2 DEF TypeOK
    <3>2. ASSUME NEW x \in Key, PushNode(x) PROVE nodeUGen'[k] = Local
      BY <1>0, <1>1, <1>5, <3>2 DEF PushNode, TypeOK
    <3>3. ASSUME NEW x \in Key, NEW y \in Key, PushFeedbackNodes(x, y) PROVE nodeUGen'[k] = Local
      BY <1>0, <1>1, <1>5, <3>3 DEF PushFeedbackNodes, TypeOK
    <3>4. CASE UNCHANGED nodeUGen
      BY <1>5, <3>4
    <3> QED BY <2>1, <3>1, <3>2, <3>3, <3>4 DEF Next, Edit, FreeNode, SetMortality, ChangeEdges, DropGraph,
       BeginCommit, ReadMark, FreeMarked, FinishCommit, FreeOldBuffers, ReadRetired, DropRetired, Send, Sends,
       SendFails, Block, BeginBlock, ApplyTaskData, RetireTaskData, RunTasks, FreedBlock
  <2>2. ASSUME NEW order \in Orders(nodes \ pendingKeys), NEW buffer, SendTasks(order, buffer)
        PROVE  \E i \in 0..n' : HoldsUGen(Chain(i)', k)
    <3>1. \E i \in DOMAIN order : order[i] = k
      <4>1. nodeUGen' = MadeLive(order)
        BY <2>2 DEF SendTasks
      <4> QED BY <1>1, <1>5, <4>1 DEF MadeLive
    <3>2. HoldsUGen(SentData(order, buffer), k)
      BY <1>5, <3>1 DEF HoldsUGen, SentData, MakeTasks
    <3>3. n' = n + 1 /\ \A i \in Nat : i = n + 1 => Chain(i)' = SentData(order, buffer)
      BY <1>0, <2>2, SendChain
    <3>4. n + 1 \in 0..n'
      BY <1>1, <3>3
    <3>5. \E i \in 0..n' : i = n + 1 /\ Chain(i)' = SentData(order, buffer)
      BY <1>1, <3>3, <3>4
    <3> QED BY <3>2, <3>5
  <2> QED BY <2>1, <2>2 DEF Sends
<1>6. CASE nodeUGen[k] # Local
  <2>0. k \in nodes \/ k \in Fresh
    BY <1>0, NodesStep
  <2>1. CASE k \notin nodes
    (* A node that is pushed has its UGen. *)
    <3>1. nodeUGen[k] = Absent
      BY <1>6, <2>0, <2>1 DEF Fresh
    <3> USE DEF vars, control, audio, shared
    <3>2. nodeUGen'[k] # Absent
      BY DEF nodes, Absent
    <3>3. ASSUME NEW x \in Key, PushNode(x) PROVE FALSE
      BY <1>0, <1>1, <3>1, <3>2, <3>3 DEF PushNode, TypeOK
    <3>4. ASSUME NEW x \in Key, NEW y \in Key, PushFeedbackNodes(x, y) PROVE FALSE
      BY <1>0, <1>1, <3>1, <3>2, <3>4 DEF PushFeedbackNodes, TypeOK
    <3>5. ASSUME NEW x \in Key, CheckOldNode(x) PROVE FALSE
      <4>1. nodeUGen' = [nodeUGen EXCEPT ![x] = Removed] \/ nodeUGen' = nodeUGen
        BY <3>5 DEF CheckOldNode
      <4>2. nodeUGen'[k] # Removed
        BY DEF nodes, Removed
      <4> QED BY <1>0, <1>1, <3>1, <3>2, <4>1, <4>2 DEF TypeOK
    <3>6. ASSUME NEW order \in Orders(nodes \ pendingKeys), NEW buffer, SendTasks(order, buffer) PROVE FALSE
      <4>1. ~ \E i \in DOMAIN order : order[i] = k
        BY <2>1, SentOrder
      <4>2. nodeUGen' = MadeLive(order)
        BY <3>6 DEF SendTasks
      <4> QED BY <1>1, <3>1, <3>2, <4>1, <4>2 DEF MadeLive
    <3>7. ~ UNCHANGED nodeUGen
      BY <3>1, <3>2
    <3> QED BY <3>3, <3>4, <3>5, <3>6, <3>7 DEF Next, Edit, FreeNode, SetMortality, ChangeEdges, DropGraph,
       BeginCommit, ReadMark, FreeMarked, FinishCommit, FreeOldBuffers, ReadRetired, DropRetired, Send, Sends,
       SendFails, Block, BeginBlock, ApplyTaskData, RetireTaskData, RunTasks, FreedBlock
  <2>2. CASE k \in nodes
    <3>1. PICK i \in 0..n : HoldsUGen(Chain(i), k)
      BY <1>0, <1>3, <1>4, <1>6, <2>2, KeptInChain DEF UGensKept
    <3>2. CASE SameChain
      BY <1>0, <3>1, <3>2, SameChainChain DEF HoldsUGen
    <3>3. CASE Sends
      <4>1. n' = n + 1 /\ Chain(i)' = Chain(i)
        BY <1>0, <3>1, <3>3, SendChain DEF Sends
      <4> QED BY <1>1, <3>1, <4>1
    <3>4. CASE ApplyTaskData
      <4>1. /\ n \in Nat \ {0} /\ n' = n - 1
            /\ \A j \in 1..n' : newTaskData'[j] = newTaskData[j + 1]
            /\ current' = TakeOver(newTaskData[1], current)
        BY <1>0, <3>4, ApplyChain
      <4>2. /\ newTaskData[1] \in TaskData /\ current \in TaskData
            /\ SameLength(newTaskData[1]) /\ SameLength(current)
            /\ Follows(newTaskData[1], current)
        BY <1>0, <3>4, HeadOfChunk DEF ApplyTaskData, TypeOK
      <4>3. SUFFICES HoldsUGen(current', k) \/ \E j \in 1..n' : HoldsUGen(newTaskData'[j], k)
        <5>1. \A j \in 1..n' : j \in 0..n' /\ Chain(j)' = newTaskData'[j]
          BY DEF Chain
        <5>2. \A j \in Nat : j = 0 => Chain(j)' = current'
          BY DEF Chain
        <5>3. \E j \in 0..n' : j = 0
          BY <4>1
        <5> QED BY <4>3, <5>1, <5>2, <5>3
      <4>4. CASE i = 0
        <5>1. HoldsUGen(current, k)
          BY <3>1, <4>4 DEF Chain
        <5>2. k \in NodesOf(newTaskData[1])
          <6>1. ASSUME k \notin NodesOf(newTaskData[1]) PROVE FALSE
            <7>1. \E p \in pending : p[1] = k /\ p[2] \in applied'
              BY <2>2, <3>4, <5>1, <6>1, LeftOutIsSafe
            <7> QED BY <1>2, <7>1 DEF SafeToRemove
          <6> QED BY <6>1
        <5>3. OwnsItsUGens(current')
          BY <1>0, <4>1, <4>2, TakeOverOwns DEF CurrentReady
        <5>4. current'.order = newTaskData[1].order
          BY <4>1, <4>2 DEF TakeOver, TaskData
        <5> QED BY <5>2, <5>3, <5>4 DEF OwnsItsUGens, HoldsUGen, NodesOf
      <4>5. CASE i = 1
        <5>1. PICK j \in DOMAIN newTaskData[1].ugens : newTaskData[1].ugens[j] = Dyn(k)
          BY <3>1, <4>5 DEF Chain, HoldsUGen
        <5>2. j \in DOMAIN current'.ugens /\ current'.ugens[j] = Dyn(k)
          BY <4>1, <4>2, <5>1 DEF TakeOver, TaskData, Dyn
        <5> QED BY <5>2 DEF HoldsUGen
      <4>6. CASE i > 1
        <5>1. i - 1 \in 1..n' /\ newTaskData'[i - 1] = newTaskData[i]
          BY <1>1, <4>1, <4>6
        <5>2. HoldsUGen(newTaskData[i], k)
          BY <3>1, <4>6 DEF Chain
        <5> QED BY <5>1, <5>2
      <4> QED BY <1>1, <4>4, <4>5, <4>6
    <3> QED BY <1>0, <3>2, <3>3, <3>4, StepKinds
  <2> QED BY <2>1, <2>2
<1> QED BY <1>5, <1>6

-----------------------------------------------------------------------------
(***************************************************************************)
(* No UGen is in two places.                                               *)
(***************************************************************************)
(* The places in a ring, one by one.                                       *)
LEMMA PlacesAre ==
  ASSUME NEW ring, NEW k, NEW p
  PROVE  p \in PlacesIn(ring, k)
           <=> \E n \in DOMAIN ring : \E i \in DOMAIN ring[n].ugens :
                  p = <<n, i>> /\ ring[n].ugens[i] = Dyn(k)
  BY DEF PlacesIn

(* Every place is in one of the four rings.                                *)
LEMMA HoldersAre ==
  ASSUME NEW k, NEW p
  PROVE  p \in Holders(k)
           <=> \E q : \/ p = <<"current", q>> /\ q \in PlacesIn(<<current>>, k)
                      \/ p = <<"new", q>> /\ q \in PlacesIn(newTaskData, k)
                      \/ p = <<"retired", q>> /\ q \in PlacesIn(retired, k)
                      \/ p = <<"retiring", q>> /\ q \in PlacesIn(retiring, k)
  BY DEF Holders

(* A place of the running TaskData, by its task.                           *)
LEMMA CurrentPlaces ==
  ASSUME NEW td, NEW k, NEW p
  PROVE  p \in PlacesIn(<<td>>, k)
           <=> \E i \in DOMAIN td.ugens : p = <<1, i>> /\ td.ugens[i] = Dyn(k)
  BY DEF PlacesIn

(* A retired TaskData moves along the returning ring, or out of it.        *)
LEMMA RetireMoves ==
  ASSUME TypeOK, RetireTaskData, NEW k, NEW p \in Holders(k)'
  PROVE  LET o == IF p[1] = "retired" /\ p[2][1] > Len(retired)
                  THEN <<"retiring", <<p[2][1] - Len(retired), p[2][2]>>>> ELSE p
         IN  o \in Holders(k) /\ p[1] # "retiring"
<1> HIDE DEF TaskData
<1>1. retired \in Seq(TaskData) /\ retiring \in Seq(TaskData) /\ Len(retired) \in Nat
  BY DEF TypeOK
<1>2. /\ retiring' = <<>> /\ current' = current /\ newTaskData' = newTaskData
      /\ retired' = retired \/ retired' = retired \o retiring
  BY DEF RetireTaskData
<1>3. PICK q : \/ p = <<"current", q>> /\ q \in PlacesIn(<<current'>>, k)
               \/ p = <<"new", q>> /\ q \in PlacesIn(newTaskData', k)
               \/ p = <<"retired", q>> /\ q \in PlacesIn(retired', k)
               \/ p = <<"retiring", q>> /\ q \in PlacesIn(retiring', k)
  BY DEF Holders
<1>4. q \notin PlacesIn(retiring', k)
  BY <1>2, PlacesAre
<1>5. CASE p = <<"current", q>> /\ q \in PlacesIn(<<current'>>, k)
  BY <1>2, <1>5, HoldersAre
<1>6. CASE p = <<"new", q>> /\ q \in PlacesIn(newTaskData', k)
  BY <1>2, <1>6, HoldersAre
<1>7. CASE p = <<"retired", q>> /\ q \in PlacesIn(retired', k)
  <2>1. PICK n \in DOMAIN retired' : \E i \in DOMAIN retired'[n].ugens :
               q = <<n, i>> /\ retired'[n].ugens[i] = Dyn(k)
    BY <1>7, PlacesAre
  <2>2. PICK i \in DOMAIN retired'[n].ugens : q = <<n, i>> /\ retired'[n].ugens[i] = Dyn(k)
    BY <2>1
  <2>3. CASE n \in DOMAIN retired /\ retired'[n] = retired[n]
    <3>1. n <= Len(retired) /\ n \in Nat
      BY <1>1, <2>3
    <3>2. q \in PlacesIn(retired, k)
      BY <2>2, <2>3, PlacesAre
    <3>3. p[1] = "retired" /\ p[2][1] = n /\ p = <<"retired", q>>
      BY <1>7, <2>2
    <3>4. ~ (n > Len(retired))
      BY <1>1, <3>1
    <3> QED BY <3>2, <3>3, <3>4, HoldersAre
  <2>4. CASE n > Len(retired) /\ n - Len(retired) \in DOMAIN retiring
             /\ retired'[n] = retiring[n - Len(retired)]
    <3>1. <<n - Len(retired), i>> \in PlacesIn(retiring, k)
      BY <2>2, <2>4, PlacesAre
    <3>2. p[1] = "retired" /\ p[2][1] = n /\ p[2][2] = i
      BY <1>7, <2>2
    <3> QED BY <2>4, <3>1, <3>2, HoldersAre
  <2>5. CASE retired' = retired
    BY <2>1, <2>3, <2>5
  <2>6. CASE retired' = retired \o retiring
    <3>1. /\ Len(retiring) \in Nat
          /\ n \in 1..(Len(retired) + Len(retiring))
          /\ n <= Len(retired) => n \in DOMAIN retired /\ retired'[n] = retired[n]
          /\ n > Len(retired) => n - Len(retired) \in DOMAIN retiring
                                 /\ retired'[n] = retiring[n - Len(retired)]
      BY <1>1, <2>1, <2>6
    <3> QED BY <1>1, <2>3, <2>4, <3>1
  <2> QED BY <1>2, <2>5, <2>6
<1> QED BY <1>3, <1>4, <1>5, <1>6, <1>7

(* Applying a TaskData moves every UGen that it takes from the running one *)
(* and leaves the others behind.                                           *)
Origin(p, k) ==
  CASE p[1] = "current" ->
         IF newTaskData[1].ugens[p[2][2]] = Dyn(k) THEN <<"new", <<1, p[2][2]>>>>
         ELSE <<"current", <<1, newTaskData[1].ugens[p[2][2]].from>>>>
    [] p[1] = "new" -> <<"new", <<p[2][1] + 1, p[2][2]>>>>
    [] p[1] = "retiring" -> <<"current", p[2]>>
    [] OTHER -> p

(* Each place comes from a place, and a place that comes from a task of    *)
(* the running TaskData tells which.                                       *)
LEMMA ApplyMoves ==
  ASSUME TypeOK, ChainLinked, ChunkInRing, ApplyTaskData, NEW k, NEW p \in Holders(k)'
  PROVE  /\ Origin(p, k) \in Holders(k)
         /\ p[1] \in {"current", "new", "retired", "retiring"}
         /\ p = <<p[1], p[2]>> /\ p[2] = <<p[2][1], p[2][2]>>
         /\ p[1] = "new" => p[2][1] \in Nat \ {0}
         /\ p[1] = "current" =>
              /\ p[2][1] = 1 /\ p[2][2] \in DOMAIN newTaskData[1].ugens
              /\ newTaskData[1].ugens[p[2][2]] # Dyn(k) =>
                   newTaskData[1].ugens[p[2][2]] = Take(newTaskData[1].ugens[p[2][2]].from)
         /\ p[1] = "retiring" =>
              /\ p[2][1] = 1
              /\ \A i \in DOMAIN newTaskData[1].ugens : newTaskData[1].ugens[i] # Take(p[2][2])
<1> HIDE DEF TaskData
<1>1. /\ Len(newTaskData) \in Nat \ {0} /\ Len(newTaskData') = Len(newTaskData) - 1
      /\ \A i \in 1..Len(newTaskData') : newTaskData'[i] = newTaskData[i + 1]
      /\ current' = TakeOver(newTaskData[1], current)
  BY ApplyChain
<1>2. /\ Head(newTaskData) = newTaskData[1] /\ newTaskData[1] \in TaskData /\ current \in TaskData
      /\ SameLength(newTaskData[1]) /\ SameLength(current) /\ Follows(newTaskData[1], current)
      /\ Tail(newTaskData) \in Seq(TaskData)
  BY HeadOfChunk DEF ApplyTaskData, TypeOK
<1>3. /\ retiring' = <<TakenFrom(current, newTaskData[1])>> /\ retired' = retired
      /\ newTaskData' = Tail(newTaskData)
  BY <1>2 DEF ApplyTaskData
<1>4. DOMAIN newTaskData = 1..Len(newTaskData) /\ DOMAIN newTaskData' = 1..Len(newTaskData')
  BY <1>2, <1>3 DEF TypeOK
<1>5. PICK q : \/ p = <<"current", q>> /\ q \in PlacesIn(<<current'>>, k)
               \/ p = <<"new", q>> /\ q \in PlacesIn(newTaskData', k)
               \/ p = <<"retired", q>> /\ q \in PlacesIn(retired', k)
               \/ p = <<"retiring", q>> /\ q \in PlacesIn(retiring', k)
  BY DEF Holders
<1>6. CASE p = <<"current", q>> /\ q \in PlacesIn(<<current'>>, k)
  <2>1. PICK i \in DOMAIN current'.ugens : q = <<1, i>> /\ current'.ugens[i] = Dyn(k)
    BY <1>6, CurrentPlaces
  <2>2. /\ i \in DOMAIN newTaskData[1].ugens
        /\ current'.ugens[i] = IF newTaskData[1].ugens[i].tag = "take"
                               THEN current.ugens[newTaskData[1].ugens[i].from]
                               ELSE newTaskData[1].ugens[i]
    BY <1>1, <1>2, <2>1 DEF TakeOver, TaskData
  <2>3. p[1] = "current" /\ p[2] = <<1, i>> /\ p[2][1] = 1 /\ p[2][2] = i
    BY <1>6, <2>1
  <2>4. CASE newTaskData[1].ugens[i] = Dyn(k)
    <3>1. <<1, i>> \in PlacesIn(newTaskData, k)
      BY <1>1, <1>4, <2>2, <2>4, PlacesAre
    <3>2. Origin(p, k) = <<"new", <<1, i>>>>
      BY <2>3, <2>4 DEF Origin
    <3> QED BY <1>6, <2>1, <2>2, <2>3, <2>4, <3>1, <3>2, HoldersAre
  <2>5. CASE newTaskData[1].ugens[i] # Dyn(k)
    <3>1. newTaskData[1].ugens[i].tag = "take"
      BY <2>1, <2>2, <2>5
    <3>2. PICK j \in DOMAIN current.order : newTaskData[1].ugens[i] = Take(j)
      <4>1. i \in DOMAIN newTaskData[1].order
        BY <1>2, <2>2 DEF SameLength
      <4>2. newTaskData[1].ugens[i] # Dyn(newTaskData[1].order[i])
        BY <3>1 DEF Dyn
      <4> QED BY <1>2, <4>1, <4>2 DEF Follows
    <3>3. newTaskData[1].ugens[i].from = j /\ j \in DOMAIN current.ugens
      BY <1>2, <3>2 DEF Take, SameLength
    <3>4. current.ugens[j] = Dyn(k)
      BY <2>1, <2>2, <3>1, <3>3
    <3>5. <<1, j>> \in PlacesIn(<<current>>, k)
      BY <3>3, <3>4, CurrentPlaces
    <3>6. Origin(p, k) = <<"current", <<1, j>>>>
      BY <2>3, <2>5, <3>3 DEF Origin
    <3> QED BY <1>6, <2>1, <2>2, <2>3, <2>5, <3>2, <3>3, <3>5, <3>6, HoldersAre
  <2> QED BY <2>4, <2>5
<1>7. CASE p = <<"new", q>> /\ q \in PlacesIn(newTaskData', k)
  <2>1. PICK n \in DOMAIN newTaskData' : \E i \in DOMAIN newTaskData'[n].ugens :
               q = <<n, i>> /\ newTaskData'[n].ugens[i] = Dyn(k)
    BY <1>7, PlacesAre
  <2>2. PICK i \in DOMAIN newTaskData'[n].ugens : q = <<n, i>> /\ newTaskData'[n].ugens[i] = Dyn(k)
    BY <2>1
  <2>3. n \in Nat \ {0} /\ n + 1 \in DOMAIN newTaskData /\ newTaskData'[n] = newTaskData[n + 1]
    BY <1>1, <1>4
  <2>4. <<n + 1, i>> \in PlacesIn(newTaskData, k)
    BY <2>2, <2>3, PlacesAre
  <2>5. p[1] = "new" /\ p[2] = <<n, i>> /\ p[2][1] = n /\ p[2][2] = i
    BY <1>7, <2>2
  <2>6. Origin(p, k) = <<"new", <<n + 1, i>>>>
    BY <2>5 DEF Origin
  <2> QED BY <1>7, <2>3, <2>4, <2>5, <2>6, HoldersAre
<1>8. CASE p = <<"retired", q>> /\ q \in PlacesIn(retired', k)
  <2>1. q \in PlacesIn(retired, k) /\ p[1] = "retired" /\ p[2] = q
    BY <1>3, <1>8
  <2>2. \E n, i : q = <<n, i>>
    BY <2>1, PlacesAre
  <2>3. Origin(p, k) = p
    BY <2>1 DEF Origin
  <2> QED BY <1>8, <2>1, <2>2, <2>3, HoldersAre
<1>9. CASE p = <<"retiring", q>> /\ q \in PlacesIn(retiring', k)
  <2>1. q \in PlacesIn(<<TakenFrom(current, newTaskData[1])>>, k)
    BY <1>3, <1>9
  <2>2. PICK j \in DOMAIN TakenFrom(current, newTaskData[1]).ugens :
           q = <<1, j>> /\ TakenFrom(current, newTaskData[1]).ugens[j] = Dyn(k)
    BY <2>1, CurrentPlaces
  <2>3. /\ j \in DOMAIN current.ugens
        /\ TakenFrom(current, newTaskData[1]).ugens[j] =
              IF \E i \in DOMAIN newTaskData[1].ugens : newTaskData[1].ugens[i] = Take(j)
              THEN Taken ELSE current.ugens[j]
    BY <1>2, <2>2 DEF TakenFrom, TaskData
  <2>4. /\ ~ \E i \in DOMAIN newTaskData[1].ugens : newTaskData[1].ugens[i] = Take(j)
        /\ current.ugens[j] = Dyn(k)
    BY <2>2, <2>3 DEF Taken, Dyn
  <2>5. <<1, j>> \in PlacesIn(<<current>>, k)
    BY <2>3, <2>4, CurrentPlaces
  <2>6. p[1] = "retiring" /\ p[2] = <<1, j>> /\ p[2][1] = 1 /\ p[2][2] = j
    BY <1>9, <2>2
  <2>7. Origin(p, k) = <<"current", <<1, j>>>>
    BY <2>6 DEF Origin
  <2> QED BY <1>9, <2>2, <2>4, <2>5, <2>6, <2>7, HoldersAre
<1> QED BY <1>5, <1>6, <1>7, <1>8, <1>9

(* The places of UGens after a push: those of before, and for each fresh   *)
(* node that is sent the one in its task.                                  *)
LEMMA SendMoves ==
  ASSUME TypeOK, NEW order \in Orders(nodes \ pendingKeys), NEW buffer, SendTasks(order, buffer),
         NEW k, NEW p \in Holders(k)'
  PROVE  \/ p \in Holders(k)
         \/ /\ k \in Fresh /\ nodeUGen'[k].tag = "live"
            /\ \E i \in DOMAIN order : p = <<"new", <<Len(newTaskData) + 1, i>>>> /\ order[i] = k
<1> HIDE DEF TaskData
<1>1. /\ current' = current /\ retired' = retired /\ retiring' = retiring
      /\ nodeUGen' = MadeLive(order)
  BY DEF SendTasks, audio
<1>2. /\ Len(newTaskData) \in Nat /\ Len(newTaskData') = Len(newTaskData) + 1
      /\ \A i \in 1..Len(newTaskData) : newTaskData'[i] = newTaskData[i]
      /\ newTaskData'[Len(newTaskData) + 1] = SentData(order, buffer)
  BY SendChain
<1>3. DOMAIN newTaskData = 1..Len(newTaskData) /\ DOMAIN newTaskData' = 1..Len(newTaskData')
  BY DEF TypeOK, SendTasks
<1>4. PICK q : \/ p = <<"current", q>> /\ q \in PlacesIn(<<current'>>, k)
               \/ p = <<"new", q>> /\ q \in PlacesIn(newTaskData', k)
               \/ p = <<"retired", q>> /\ q \in PlacesIn(retired', k)
               \/ p = <<"retiring", q>> /\ q \in PlacesIn(retiring', k)
  BY DEF Holders
<1>5. CASE p = <<"new", q>> /\ q \in PlacesIn(newTaskData', k)
  <2>1. PICK n \in DOMAIN newTaskData' : \E i \in DOMAIN newTaskData'[n].ugens :
               q = <<n, i>> /\ newTaskData'[n].ugens[i] = Dyn(k)
    BY <1>5, PlacesAre
  <2>2. PICK i \in DOMAIN newTaskData'[n].ugens : q = <<n, i>> /\ newTaskData'[n].ugens[i] = Dyn(k)
    BY <2>1
  <2>3. CASE n \in DOMAIN newTaskData
    <3>1. q \in PlacesIn(newTaskData, k)
      BY <1>2, <1>3, <2>2, <2>3, PlacesAre
    <3> QED BY <1>5, <3>1, HoldersAre
  <2>4. CASE n = Len(newTaskData) + 1
    <3>1. i \in DOMAIN order /\ MakeTasks(order)[i] = Dyn(k)
      <4>1. DOMAIN MakeTasks(order) = DOMAIN order
        BY DEF MakeTasks
      <4> QED BY <1>2, <2>2, <2>4, <4>1 DEF SentData
    <3>2. nodeUGen[order[i]] = Local /\ order[i] = k
      BY <3>1 DEF MakeTasks, Dyn, Take
    <3>3. k \in Key
      BY <3>1, <3>2, SentOrder DEF nodes
    <3>4. nodeUGen'[k].tag = "live"
      BY <1>1, <3>1, <3>2, <3>3 DEF MadeLive, Live
    <3> QED BY <1>5, <2>2, <2>4, <3>1, <3>2, <3>3, <3>4 DEF Fresh
  <2> QED BY <1>2, <1>3, <2>3, <2>4
<1>6. CASE p = <<"current", q>> /\ q \in PlacesIn(<<current'>>, k)
  BY <1>1, <1>6, HoldersAre
<1>7. CASE p = <<"retired", q>> /\ q \in PlacesIn(retired', k)
  BY <1>1, <1>7, HoldersAre
<1>8. CASE p = <<"retiring", q>> /\ q \in PlacesIn(retiring', k)
  BY <1>1, <1>8, HoldersAre
<1> QED BY <1>4, <1>5, <1>6, <1>7, <1>8

(* Dropping what has come back moves the rest forward.                     *)
LEMMA DropMoves ==
  ASSUME TypeOK, DropRetired, NEW k, NEW p \in Holders(k)'
  PROVE  /\ p[1] # "retired" => p \in Holders(k)
         /\ p[1] = "retired" => <<"retired", <<p[2][1] + draining, p[2][2]>>>> \in Holders(k)
         /\ p[1] = "retired" => p[2][1] \in Nat /\ p = <<p[1], <<p[2][1], p[2][2]>>>>
<1> HIDE DEF TaskData
<1>1. /\ current' = current /\ newTaskData' = newTaskData /\ retiring' = retiring
      /\ retired' = SubSeq(retired, draining + 1, Len(retired))
      /\ draining \in Nat /\ retired \in Seq(TaskData)
  BY DEF DropRetired, audio, TypeOK
<1>2. PICK q : \/ p = <<"current", q>> /\ q \in PlacesIn(<<current'>>, k)
               \/ p = <<"new", q>> /\ q \in PlacesIn(newTaskData', k)
               \/ p = <<"retired", q>> /\ q \in PlacesIn(retired', k)
               \/ p = <<"retiring", q>> /\ q \in PlacesIn(retiring', k)
  BY DEF Holders
<1>3. CASE p = <<"retired", q>> /\ q \in PlacesIn(retired', k)
  <2>1. PICK n \in DOMAIN retired' : \E i \in DOMAIN retired'[n].ugens :
               q = <<n, i>> /\ retired'[n].ugens[i] = Dyn(k)
    BY <1>3, PlacesAre
  <2>2. PICK i \in DOMAIN retired'[n].ugens : q = <<n, i>> /\ retired'[n].ugens[i] = Dyn(k)
    BY <2>1
  <2>3. n \in Nat /\ n + draining \in DOMAIN retired /\ retired'[n] = retired[n + draining]
    BY <1>1
  <2>4. <<n + draining, i>> \in PlacesIn(retired, k)
    BY <2>2, <2>3, PlacesAre
  <2>5. p[1] = "retired" /\ p[2] = <<n, i>> /\ p[2][1] = n /\ p[2][2] = i
    BY <1>3, <2>2
  <2> QED BY <1>3, <2>3, <2>4, <2>5, HoldersAre
<1>4. CASE p = <<"current", q>> /\ q \in PlacesIn(<<current'>>, k)
  BY <1>1, <1>4, HoldersAre
<1>5. CASE p = <<"new", q>> /\ q \in PlacesIn(newTaskData', k)
  BY <1>1, <1>5, HoldersAre
<1>6. CASE p = <<"retiring", q>> /\ q \in PlacesIn(retiring', k)
  BY <1>1, <1>6, HoldersAre
<1> QED BY <1>2, <1>3, <1>4, <1>5, <1>6

(* The other steps move no UGen.                                           *)
LEMMA NothingMoves ==
  ASSUME TypeOK, SameChain, retired' = retired, retiring' = retiring, NEW k
  PROVE  Holders(k)' = Holders(k)
<1>1. newTaskData' = newTaskData /\ current'.ugens = current.ugens
  BY DEF SameChain
<1>2. PlacesIn(<<current'>>, k) = PlacesIn(<<current>>, k)
  BY <1>1 DEF PlacesIn
<1> QED BY <1>1, <1>2 DEF Holders

(* The places of a UGen after a step are as many as before, unless it is   *)
(* sent.                                                                   *)
LEMMA OwnedOnceStep == IInv /\ OwnInv /\ [Next]_vars => OwnedOnce'
<1> SUFFICES ASSUME IInv, OwnInv, [Next]_vars PROVE OwnedOnce'
  OBVIOUS
<1> SUFFICES ASSUME NEW k \in Key
             PROVE  /\ \A p, q \in Holders(k)' : p = q
                    /\ k \in Fresh' => Holders(k)' = {}
  BY DEF OwnedOnce, Holders, PlacesIn, Fresh
<1>0. /\ TypeOK /\ ChainLinked /\ ChunkInRing /\ OrdersDistinct
      /\ \A p, q \in Holders(k) : p = q
      /\ k \in Fresh => Holders(k) = {}
      /\ k \in Fresh' => k \in Fresh
  BY FreshStep DEF IInv, OwnInv, OwnedOnce
<1>1. CASE RetireTaskData
  <2> DEFINE O(p) == IF p[1] = "retired" /\ p[2][1] > Len(retired)
                     THEN <<"retiring", <<p[2][1] - Len(retired), p[2][2]>>>> ELSE p
  <2>1. ASSUME NEW p \in Holders(k)' PROVE O(p) \in Holders(k) /\ p[1] # "retiring"
    BY <1>0, <1>1, RetireMoves
  <2>2. ASSUME NEW p \in Holders(k)', NEW q \in Holders(k)' PROVE p = q
    <3>1. O(p) = O(q) /\ p[1] # "retiring" /\ q[1] # "retiring"
      BY <1>0, <2>1
    <3>2. ASSUME NEW r \in Holders(k)', r[1] = "retired", r[2][1] > Len(retired)
          PROVE  /\ r[2][1] \in Nat /\ O(r)[1] = "retiring"
                 /\ r = <<"retired", <<O(r)[2][1] + Len(retired), O(r)[2][2]>>>>
      <4>1. PICK s : \/ r = <<"current", s>>
                     \/ r = <<"new", s>>
                     \/ r = <<"retired", s>> /\ s \in PlacesIn(retired', k)
                     \/ r = <<"retiring", s>>
        BY DEF Holders
      <4>2. PICK n \in DOMAIN retired' : \E i \in DOMAIN retired'[n].ugens : s = <<n, i>>
        BY <3>2, <4>1, PlacesAre
      <4>3. PICK i : s = <<n, i>>
        BY <4>2
      <4>4. n \in Nat /\ Len(retired) \in Nat
        BY <1>0, TypeStep DEF TypeOK
      <4>5. r = <<"retired", <<n, i>>>> /\ r[2][1] = n /\ r[2][2] = i
        BY <3>2, <4>1, <4>3
      <4>6. O(r) = <<"retiring", <<n - Len(retired), i>>>>
        BY <3>2, <4>5
      <4> QED BY <4>4, <4>5, <4>6
    <3>3. CASE p[1] = "retired" /\ p[2][1] > Len(retired)
      <4>1. O(q)[1] = "retiring"
        BY <3>1, <3>2, <3>3
      <4>2. q[1] = "retired" /\ q[2][1] > Len(retired)
        BY <3>1, <4>1
      <4> QED BY <3>1, <3>2, <3>3, <4>2
    <3>4. CASE ~ (p[1] = "retired" /\ p[2][1] > Len(retired))
      <4>1. O(p) = p
        BY <3>4
      <4>2. ~ (q[1] = "retired" /\ q[2][1] > Len(retired))
        BY <3>1, <3>2, <4>1
      <4> QED BY <3>1, <4>1, <4>2
    <3> QED BY <3>3, <3>4
  <2> QED BY <1>0, <2>1, <2>2
<1>2. CASE DropRetired
  <2>1. ASSUME NEW p \in Holders(k)', NEW q \in Holders(k)' PROVE p = q
    <3> DEFINE P == <<"retired", <<p[2][1] + draining, p[2][2]>>>>
               Q == <<"retired", <<q[2][1] + draining, q[2][2]>>>>
    <3>0. P[1] = "retired" /\ Q[1] = "retired" /\ draining \in Nat
      BY <1>0 DEF TypeOK
    <3>1. CASE p[1] = "retired" /\ q[1] = "retired"
      <4>1. P = Q /\ p[2][1] \in Nat /\ q[2][1] \in Nat
        BY <1>0, <1>2, <3>1, DropMoves
      <4>2. p[2][1] + draining = q[2][1] + draining /\ p[2][2] = q[2][2]
        BY <4>1
      <4>3. p = <<p[1], <<p[2][1], p[2][2]>>>> /\ q = <<q[1], <<q[2][1], q[2][2]>>>>
        BY <1>0, <1>2, <3>1, DropMoves
      <4>4. p[2][1] = q[2][1]
        BY <3>0, <4>1, <4>2
      <4> QED BY <3>1, <4>2, <4>3, <4>4
    <3>2. CASE p[1] # "retired" /\ q[1] # "retired"
      BY <1>0, <1>2, <3>2, DropMoves
    <3>3. CASE p[1] # "retired" /\ q[1] = "retired"
      <4>1. p = Q
        BY <1>0, <1>2, <3>3, DropMoves
      <4> QED BY <3>0, <3>3, <4>1
    <3>4. CASE p[1] = "retired" /\ q[1] # "retired"
      <4>1. q = P
        BY <1>0, <1>2, <3>4, DropMoves
      <4> QED BY <3>0, <3>4, <4>1
    <3> QED BY <3>1, <3>2, <3>3, <3>4
  <2>2. ASSUME k \in Fresh', NEW p \in Holders(k)' PROVE FALSE
    BY <1>0, <1>2, <2>2, DropMoves
  <2> QED BY <2>1, <2>2
<1>3. ASSUME NEW order \in Orders(nodes \ pendingKeys), NEW buffer, SendTasks(order, buffer)
      PROVE  /\ \A p, q \in Holders(k)' : p = q
             /\ k \in Fresh' => Holders(k)' = {}
  <2>1. \A i, j \in DOMAIN order : order[i] = order[j] => i = j
    BY DEF Orders
  <2>2. k \in Fresh' => nodeUGen'[k].tag # "live"
    BY DEF Fresh, Absent, Local
  <2>3. ASSUME NEW p \in Holders(k)', NEW q \in Holders(k)' PROVE p = q
    <3>1. ASSUME NEW r \in Holders(k)'
          PROVE  r \in Holders(k) \/ (k \in Fresh /\ \E i \in DOMAIN order :
                                       r = <<"new", <<Len(newTaskData) + 1, i>>>> /\ order[i] = k)
      BY <1>0, <1>3, SendMoves
    <3>2. CASE k \in Fresh
      <4>1. PICK i \in DOMAIN order : p = <<"new", <<Len(newTaskData) + 1, i>>>> /\ order[i] = k
        BY <1>0, <3>1, <3>2
      <4>2. PICK j \in DOMAIN order : q = <<"new", <<Len(newTaskData) + 1, j>>>> /\ order[j] = k
        BY <1>0, <3>1, <3>2
      <4> QED BY <2>1, <4>1, <4>2
    <3>3. CASE k \notin Fresh
      BY <1>0, <3>1, <3>3
    <3> QED BY <3>2, <3>3
  <2>4. ASSUME k \in Fresh', NEW p \in Holders(k)' PROVE FALSE
    BY <1>0, <1>3, <2>2, <2>4, SendMoves
  <2> QED BY <2>3, <2>4
<1>4. CASE ApplyTaskData
  <2> DEFINE u == newTaskData[1].ugens
  <2>1. ASSUME NEW i \in DOMAIN u, NEW j \in DOMAIN u, NEW m, u[i] = Take(m), u[j] = Take(m)
        PROVE  i = j
    <3>1. /\ SameLength(newTaskData[1]) /\ Follows(newTaskData[1], current)
      BY <1>0, <1>4, HeadOfChunk DEF ApplyTaskData
    <3>2. i \in DOMAIN newTaskData[1].order /\ j \in DOMAIN newTaskData[1].order
      BY <3>1 DEF SameLength
    <3>3. ASSUME NEW x \in DOMAIN newTaskData[1].order, u[x] = Take(m)
          PROVE  current.order[m] = newTaskData[1].order[x]
      <4>1. u[x] # Dyn(newTaskData[1].order[x])
        BY <3>3 DEF Take, Dyn
      <4>2. PICK y \in DOMAIN current.order : u[x] = Take(y) /\ current.order[y] = newTaskData[1].order[x]
        BY <3>1, <4>1 DEF Follows
      <4> QED BY <3>3, <4>2 DEF Take
    <3>4. newTaskData[1].order[i] = newTaskData[1].order[j]
      BY <2>1, <3>2, <3>3
    <3>5. 1 \in 0..Len(newTaskData) /\ Chain(1) = newTaskData[1]
      BY <1>0, <1>4, ApplyChain DEF Chain
    <3> QED BY <1>0, <3>2, <3>4, <3>5 DEF OrdersDistinct
  <2>2. ASSUME NEW p \in Holders(k)'
        PROVE  /\ Origin(p, k) \in Holders(k)
               /\ p[1] \in {"current", "new", "retired", "retiring"}
               /\ p = <<p[1], p[2]>> /\ p[2] = <<p[2][1], p[2][2]>>
               /\ p[1] = "new" => p[2][1] \in Nat \ {0}
               /\ p[1] = "current" =>
                    /\ p[2][1] = 1 /\ p[2][2] \in DOMAIN u
                    /\ u[p[2][2]] # Dyn(k) => u[p[2][2]] = Take(u[p[2][2]].from)
               /\ p[1] = "retiring" =>
                    /\ p[2][1] = 1
                    /\ \A i \in DOMAIN u : u[i] # Take(p[2][2])
    BY <1>0, <1>4, ApplyMoves
  <2>3. ASSUME NEW p \in Holders(k)', NEW q \in Holders(k)' PROVE p = q
    <3> HIDE DEF u
    <3>1. Origin(p, k) = Origin(q, k)
      BY <1>0, <2>2
    <3>2. ASSUME NEW r \in Holders(k)'
          PROVE  /\ r[1] = "current" /\ u[r[2][2]] = Dyn(k) => Origin(r, k) = <<"new", <<1, r[2][2]>>>>
                 /\ r[1] = "current" /\ u[r[2][2]] # Dyn(k) =>
                      Origin(r, k) = <<"current", <<1, u[r[2][2]].from>>>>
                 /\ r[1] = "new" => Origin(r, k) = <<"new", <<r[2][1] + 1, r[2][2]>>>>
                 /\ r[1] = "retiring" => Origin(r, k) = <<"current", r[2]>>
                 /\ r[1] = "retired" => Origin(r, k) = <<"retired", r[2]>>
      BY <2>2 DEF Origin, u
    <3>3. p[1] \in {"current", "new", "retired", "retiring"} /\ q[1] \in {"current", "new", "retired", "retiring"}
      BY <2>2
    <3>4. p[1] = q[1] /\ p[2] = q[2]
      <4>1. ASSUME NEW r \in Holders(k)', NEW s \in Holders(k)', Origin(r, k) = Origin(s, k),
                   r[1] = "current", u[r[2][2]] = Dyn(k)
            PROVE  r[1] = s[1] /\ r[2] = s[2]
        <5>1. Origin(s, k) = <<"new", <<1, r[2][2]>>>>
          BY <3>2, <4>1
        <5>2. s[1] # "new"
          BY <2>2, <3>2, <5>1
        <5>3. s[1] = "current"
          BY <2>2, <3>2, <5>1, <5>2
        <5> QED BY <2>2, <3>2, <4>1, <5>1, <5>3
      <4>2. ASSUME NEW r \in Holders(k)', NEW s \in Holders(k)', Origin(r, k) = Origin(s, k),
                   r[1] = "current", u[r[2][2]] # Dyn(k)
            PROVE  r[1] = s[1] /\ r[2] = s[2]
        <5>1. Origin(s, k) = <<"current", <<1, u[r[2][2]].from>>>>
          BY <3>2, <4>2
        <5>2. s[1] # "retiring"
          BY <2>2, <3>2, <4>2, <5>1
        <5>3. s[1] = "current" /\ u[s[2][2]] # Dyn(k)
          BY <2>2, <3>2, <5>1, <5>2
        <5>4. u[r[2][2]].from = u[s[2][2]].from
          BY <3>2, <5>1, <5>3
        <5>5. r[2][2] = s[2][2]
          BY <2>1, <2>2, <4>2, <5>3, <5>4
        <5>6. r[2] = <<1, r[2][2]>> /\ s[2] = <<1, s[2][2]>>
          BY <2>2, <4>2, <5>3
        <5> QED BY <4>2, <5>3, <5>5, <5>6
      <4>3. CASE p[1] = "current" \/ q[1] = "current"
        BY <3>1, <4>1, <4>2, <4>3
      <4>4. CASE p[1] # "current" /\ q[1] # "current"
        <5>1. CASE p[1] = "new"
          <6>1. q[1] = "new" /\ p[2][1] + 1 = q[2][1] + 1 /\ p[2][2] = q[2][2]
            BY <3>1, <3>2, <3>3, <4>4, <5>1
          <6> QED BY <2>2, <5>1, <6>1
        <5>2. CASE p[1] = "retiring"
          BY <3>1, <3>2, <3>3, <4>4, <5>2
        <5>3. CASE p[1] = "retired"
          BY <3>1, <3>2, <3>3, <4>4, <5>3
        <5> QED BY <3>3, <4>4, <5>1, <5>2, <5>3
      <4> QED BY <4>3, <4>4
    <3> QED BY <2>2, <3>4
  <2> QED BY <1>0, <2>2, <2>3
<1>5. CASE SameChain /\ retired' = retired /\ retiring' = retiring
  BY <1>0, <1>5, NothingMoves
<1>6. \/ SameChain /\ retired' = retired /\ retiring' = retiring
      \/ Sends \/ ApplyTaskData \/ RetireTaskData \/ DropRetired
  <2>1. UNCHANGED <<retired, retiring>> \/ Sends \/ ApplyTaskData \/ RetireTaskData \/ DropRetired
    BY DEF vars, control, audio, shared, Next, Edit, PushNode, FreeNode, PushFeedbackNodes, SetMortality,
       ChangeEdges, DropGraph, BeginCommit, ReadMark, FreeMarked, FinishCommit, CheckOldNode, FreeOldBuffers,
       ReadRetired, Send, SendFails, Sends, Block, BeginBlock, RunTasks, FreedBlock
  <2> QED BY <1>0, <2>1, StepKinds
<1> QED BY <1>1, <1>2, <1>3, <1>4, <1>5, <1>6 DEF Sends

-----------------------------------------------------------------------------
(* What a concatenation has at each place.                                 *)
LEMMA ConcatAt ==
  ASSUME NEW S, NEW s \in Seq(S), NEW t \in Seq(S)
  PROVE  /\ s \o t \in Seq(S) /\ Len(s \o t) = Len(s) + Len(t)
         /\ DOMAIN (s \o t) = 1..(Len(s) + Len(t))
         /\ Len(s) \in Nat /\ Len(t) \in Nat
         /\ \A x \in 1..Len(s) : (s \o t)[x] = s[x]
         /\ \A x \in 1..(Len(s) + Len(t)) :
              x > Len(s) => x - Len(s) \in DOMAIN t /\ (s \o t)[x] = t[x - Len(s)]
  OBVIOUS

(* Every place that Places counts is the node or a place of a ring, and    *)
(* different places of the rings are counted apart.                        *)
LEMMA PlaceOfHolder ==
  ASSUME TypeOK, NEW k, NEW n \in DOMAIN Everywhere,
         NEW i \in DOMAIN Everywhere[n].ugens, Everywhere[n].ugens[i] = Dyn(k)
  PROVE  \/ \E m \in {1} : n = 1 /\ <<"current", <<m, i>>>> \in Holders(k)
         \/ \E m \in Nat : n = 1 + m /\ <<"new", <<m, i>>>> \in Holders(k)
         \/ \E m \in Nat : n = 1 + Len(newTaskData) + m /\ <<"retired", <<m, i>>>> \in Holders(k)
         \/ \E m \in Nat : n = 1 + Len(newTaskData) + Len(retired) + m
                           /\ <<"retiring", <<m, i>>>> \in Holders(k)
<1> HIDE DEF TaskData
<1>1. /\ newTaskData \in Seq(TaskData) /\ retired \in Seq(TaskData) /\ retiring \in Seq(TaskData)
      /\ <<current>> \in Seq(TaskData) /\ Len(<<current>>) = 1 /\ <<current>>[1] = current
  BY DEF TypeOK
<1> DEFINE a == <<current>> \o newTaskData
           b == a \o retired
<1>2. /\ a \in Seq(TaskData) /\ Len(a) = 1 + Len(newTaskData) /\ a[1] = current
      /\ \A x \in 1..Len(a) : x > 1 => x - 1 \in DOMAIN newTaskData /\ a[x] = newTaskData[x - 1]
  <2>1. 1 \in 1..Len(<<current>>)
    BY <1>1
  <2> QED BY <1>1, <2>1, ConcatAt
<1> HIDE DEF a
<1>3. /\ b \in Seq(TaskData) /\ Len(b) = Len(a) + Len(retired) /\ Len(a) \in Nat
      /\ \A x \in 1..Len(a) : b[x] = a[x]
      /\ \A x \in 1..Len(b) : x > Len(a) => x - Len(a) \in DOMAIN retired /\ b[x] = retired[x - Len(a)]
  <2>1. a \in Seq(TaskData) /\ retired \in Seq(TaskData)
    BY <1>1, <1>2
  <2>2. /\ a \o retired \in Seq(TaskData) /\ Len(a \o retired) = Len(a) + Len(retired)
        /\ Len(a) \in Nat /\ Len(retired) \in Nat
        /\ \A x \in 1..Len(a) : (a \o retired)[x] = a[x]
        /\ \A x \in 1..(Len(a) + Len(retired)) :
             x > Len(a) => x - Len(a) \in DOMAIN retired /\ (a \o retired)[x] = retired[x - Len(a)]
    BY <2>1, ConcatAt
  <2> QED BY <2>2
<1> HIDE DEF b
<1>4. Everywhere = b \o retiring
  BY DEF Everywhere, a, b
<1>5. /\ n \in 1..(Len(b) + Len(retiring)) /\ Len(b) \in Nat
      /\ n \in 1..Len(b) => Everywhere[n] = b[n]
      /\ n > Len(b) => n - Len(b) \in DOMAIN retiring /\ Everywhere[n] = retiring[n - Len(b)]
  BY <1>1, <1>3, <1>4, ConcatAt
<1>6. /\ Len(newTaskData) \in Nat /\ Len(retired) \in Nat /\ Len(retiring) \in Nat /\ n \in Nat
      /\ n >= 1 /\ Len(a) = 1 + Len(newTaskData) /\ Len(b) = 1 + Len(newTaskData) + Len(retired)
  BY <1>1, <1>2, <1>3, <1>5
<1>7. CASE n = 1
  <2>0. n \in 1..Len(a) /\ n \in 1..Len(b)
    BY <1>6, <1>7
  <2>1. Everywhere[n] = current
    BY <1>2, <1>3, <1>5, <1>7, <2>0
  <2>2. <<1, i>> \in PlacesIn(<<current>>, k)
    BY <2>1, CurrentPlaces
  <2> QED BY <1>7, <2>2, HoldersAre
<1>8. CASE n > 1 /\ n <= Len(a)
  <2>0. n \in 1..Len(a) /\ n \in 1..Len(b)
    BY <1>6, <1>8
  <2>1. n - 1 \in DOMAIN newTaskData /\ Everywhere[n] = newTaskData[n - 1]
    BY <1>2, <1>3, <1>5, <1>8, <2>0
  <2>2. PICK m : m = n - 1
    OBVIOUS
  <2>3. <<m, i>> \in PlacesIn(newTaskData, k)
    BY <2>1, <2>2, PlacesAre
  <2>4. m \in Nat /\ n = 1 + m
    BY <1>6, <1>8, <2>2
  <2>5. <<"new", <<m, i>>>> \in Holders(k)
    BY <2>3, HoldersAre
  <2> QED BY <2>4, <2>5
<1>9. CASE n > Len(a) /\ n <= Len(b)
  <2>0. n \in 1..Len(b)
    BY <1>6, <1>9
  <2>1. n - Len(a) \in DOMAIN retired /\ Everywhere[n] = retired[n - Len(a)]
    BY <1>3, <1>5, <1>9, <2>0
  <2>2. PICK m : m = n - Len(a)
    OBVIOUS
  <2>3. <<m, i>> \in PlacesIn(retired, k)
    BY <2>1, <2>2, PlacesAre
  <2>4. m \in Nat /\ n = 1 + Len(newTaskData) + m
    BY <1>6, <1>9, <2>2
  <2>5. <<"retired", <<m, i>>>> \in Holders(k)
    BY <2>3, HoldersAre
  <2> QED BY <2>4, <2>5
<1>10. CASE n > Len(b)
  <2>2. PICK m : m = n - Len(b)
    OBVIOUS
  <2>3. <<m, i>> \in PlacesIn(retiring, k)
    BY <1>5, <1>10, <2>2, PlacesAre
  <2>4. m \in Nat /\ n = 1 + Len(newTaskData) + Len(retired) + m
    BY <1>6, <1>10, <2>2
  <2>5. <<"retiring", <<m, i>>>> \in Holders(k)
    BY <2>3, HoldersAre
  <2> QED BY <2>4, <2>5
<1>11. n = 1 \/ (n > 1 /\ n <= Len(a)) \/ (n > Len(a) /\ n <= Len(b)) \/ n > Len(b)
  BY <1>6
<1> QED BY <1>7, <1>8, <1>9, <1>10, <1>11, Zenon

(* Owned once is owned in at most one place.                               *)
LEMMA OnePlace == TypeOK /\ OwnedOnce => OneOwner
<1> SUFFICES ASSUME TypeOK, OwnedOnce, NEW k \in Key PROVE Cardinality(Places(k)) <= 1
  BY DEF OneOwner
<1>1. /\ \A p, q \in Holders(k) : p = q
      /\ nodeUGen[k] = Local => Holders(k) = {}
  BY DEF OwnedOnce, Fresh
<1>2. ASSUME NEW x \in Places(k)
      PROVE  \/ x = 0 /\ nodeUGen[k] = Local
             \/ \E n \in DOMAIN Everywhere : \E i \in DOMAIN Everywhere[n].ugens :
                   x = <<n, i>> /\ Everywhere[n].ugens[i] = Dyn(k)
  BY DEF Places
<1>3. ASSUME NEW x \in Places(k), NEW y \in Places(k) PROVE x = y
  <2>1. CASE nodeUGen[k] = Local
    BY <1>1, <1>2, <2>1, PlaceOfHolder
  <2>2. CASE nodeUGen[k] # Local
    <3>1a. PICK n \in DOMAIN Everywhere : \E i \in DOMAIN Everywhere[n].ugens :
             x = <<n, i>> /\ Everywhere[n].ugens[i] = Dyn(k)
      BY <1>2, <2>2
    <3>1. PICK i \in DOMAIN Everywhere[n].ugens :
             x = <<n, i>> /\ Everywhere[n].ugens[i] = Dyn(k)
      BY <3>1a
    <3>2a. PICK m \in DOMAIN Everywhere : \E j \in DOMAIN Everywhere[m].ugens :
             y = <<m, j>> /\ Everywhere[m].ugens[j] = Dyn(k)
      BY <1>2, <2>2
    <3>2. PICK j \in DOMAIN Everywhere[m].ugens :
             y = <<m, j>> /\ Everywhere[m].ugens[j] = Dyn(k)
      BY <3>2a
    <3>3. ASSUME NEW l \in DOMAIN Everywhere, NEW h \in DOMAIN Everywhere[l].ugens,
                 Everywhere[l].ugens[h] = Dyn(k)
          PROVE  \E r, c : /\ <<r, <<c, h>>>> \in Holders(k)
                           /\ \/ c = 1 /\ l = 1 /\ r = "current"
                              \/ c \in Nat /\ l = 1 + c /\ r = "new"
                              \/ c \in Nat /\ l = 1 + Len(newTaskData) + c /\ r = "retired"
                              \/ c \in Nat /\ l = 1 + Len(newTaskData) + Len(retired) + c /\ r = "retiring"
      <4>1. \/ \E c \in {1} : l = 1 /\ <<"current", <<c, h>>>> \in Holders(k)
            \/ \E c \in Nat : l = 1 + c /\ <<"new", <<c, h>>>> \in Holders(k)
            \/ \E c \in Nat : l = 1 + Len(newTaskData) + c /\ <<"retired", <<c, h>>>> \in Holders(k)
            \/ \E c \in Nat : l = 1 + Len(newTaskData) + Len(retired) + c
                              /\ <<"retiring", <<c, h>>>> \in Holders(k)
        BY <3>3, PlaceOfHolder
      <4> QED BY <4>1, Zenon
    <3>4. PICK r, c : /\ <<r, <<c, i>>>> \in Holders(k)
                      /\ \/ c = 1 /\ n = 1 /\ r = "current"
                         \/ c \in Nat /\ n = 1 + c /\ r = "new"
                         \/ c \in Nat /\ n = 1 + Len(newTaskData) + c /\ r = "retired"
                         \/ c \in Nat /\ n = 1 + Len(newTaskData) + Len(retired) + c /\ r = "retiring"
      BY <3>1, <3>3
    <3>5. PICK s, d : /\ <<s, <<d, j>>>> \in Holders(k)
                      /\ \/ d = 1 /\ m = 1 /\ s = "current"
                         \/ d \in Nat /\ m = 1 + d /\ s = "new"
                         \/ d \in Nat /\ m = 1 + Len(newTaskData) + d /\ s = "retired"
                         \/ d \in Nat /\ m = 1 + Len(newTaskData) + Len(retired) + d /\ s = "retiring"
      BY <3>2, <3>3
    <3>6. r = s /\ c = d /\ i = j
      BY <1>1, <3>4, <3>5
    <3>7. n = m
      BY <3>4, <3>5, <3>6
    <3> QED BY <3>1, <3>2, <3>6, <3>7
  <2> QED BY <2>1, <2>2
<1>4. CASE Places(k) = {}
  BY <1>4, FS_EmptySet
<1>5. CASE Places(k) # {}
  <2>1. PICK x : x \in Places(k)
    BY <1>5
  <2>2. Places(k) = {x}
    <3>1. ASSUME NEW y \in Places(k) PROVE y = x
      BY <1>3, <2>1, <3>1
    <3> QED BY <2>1, <3>1
  <2>3. Cardinality(Places(k)) = 1
    BY <2>2, FS_Singleton
  <2> QED BY <2>3
<1> QED BY <1>4, <1>5

(* The invariant of the ownership holds in every state.                    *)
THEOREM Ownership == Spec => []OwnInv
<1>1. Init => OwnInv
  BY InitOwn
<1>2. IInv /\ OwnInv /\ [Next]_vars => OwnInv'
  BY OwnedOnceStep, OrdersDistinctStep, CurrentNamesStep, FreshUnsentStep, FlagsFollowStep,
     DeparturesFlaggedStep, UGensKeptStep DEF OwnInv
<1> QED BY <1>1, <1>2, Invariance, PTL DEF Spec

(* make_task moves the UGen of a new node into its task and                *)
(* apply_self_on_audio_thread moves it from task to task: it is never in   *)
(* two of them, and never among those sent back to be dropped while its    *)
(* node is not safe to remove.                                             *)
THEOREM UGensAreMoved == Spec => []UGensMoved
<1>1. IInv /\ OwnInv => UGensMoved
  BY OnePlace DEF IInv, OwnInv, UGensMoved
<1> QED BY <1>1, Invariance, Ownership, PTL
=============================================================================
