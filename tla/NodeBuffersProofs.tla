-------------------------- MODULE NodeBuffersProofs -------------------------
(***************************************************************************)
(* Proofs about the buffers of a graph: what a task reads is what its      *)
(* sources wrote in the same block of audio, and the allocator gives every *)
(* task a buffer inside the allocation (knaster_graph:                     *)
(* buffer_allocator.rs, graph.rs, graph_gen.rs).                           *)
(*                                                                         *)
(* The argument counts borrows.  A block that holds data has at least as   *)
(* many borrows as edges have yet to return to it, so a block that is in   *)
(* return_order, which got there with its last borrow, is needed by no     *)
(* task: a task that is given it overwrites nothing that is still read.    *)
(* At least, and not exactly: a node without outputs has a block of length *)
(* zero, which starts where the next one does and takes its borrows.       *)
(***************************************************************************)
EXTENDS NodeBuffers, FiniteSetTheorems, TLAPS

(* The edges that borrow, with the task that lends to each. *)
Source(e) == reads[e[1]][e[2]]

(* The tasks that have been given a block. *)
Assigned ==
  {j \in Task : \/ phase \in {"run", "copied", "unconverted"}
                \/ j < task
                \/ j = task /\ phase # "get"}

(* The edges whose borrow has not been returned, those among them that     *)
(* borrow from block b, and the tasks whose outputs are still needed.      *)
Left ==
  {e \in Edges : ~ (e[1] < task \/ (phase # "get" /\ e[1] = task /\ e[2] < slot))}

At(j, b) == j \in Assigned /\ node_output[j] = Offset(blocks[b].start)

LentBy(b) == {e \in Left : At(Source(e), b)}

Needed(j) == EdgesFrom(j) = {} \/ \E e \in Left : Source(e) = j

(* A block is found by its offset: only the first of those with one start  *)
(* gets its borrows back.                                                  *)
First(b) == \A c \in 1..(b - 1) : blocks[c].start # blocks[b].start

(* A block other than the empty channel that holds data and is found. *)
Data(b) == b \in DOMAIN blocks /\ b > 1 /\ blocks[b].len > 0 /\ First(b)

(* The blocks lie one behind the other. *)
BlocksLaid ==
  /\ Len(blocks) >= 1
  /\ blocks[1].start = 0
  /\ blocks[1].len = 1
  /\ \A b, c \in DOMAIN blocks : b < c => blocks[b].start + blocks[b].len <= blocks[c].start
  /\ \A b \in DOMAIN blocks : blocks[b].start + blocks[b].len <= next_free_pos
  /\ \A b \in DOMAIN blocks : b > 1 => \E i \in Task : blocks[b].len = outputs[i]
  /\ next_free_pos <= virtual_allocation_size

(* A task that has been given a block has room in it; no other has moved.  *)
Placed ==
  \A j \in Task :
    IF j \in Assigned
    THEN \E b \in DOMAIN blocks : b > 1 /\ At(j, b) /\ outputs[j] <= blocks[b].len
    ELSE node_output[j].at = 0

(* A block of data has as many borrows as edges have yet to return, or     *)
(* more, and one task at a time needs it.                                  *)
BorrowsCover ==
  /\ blocks[1].borrows > Cardinality(Left)
  /\ \A b \in DOMAIN blocks : Data(b) =>
       /\ blocks[b].borrows >= Cardinality(LentBy(b))
       /\ \A j, l \in Task : At(j, b) /\ At(l, b) /\ Needed(j) /\ Needed(l) => j = l

(* A returned block of data is there once, lent to nobody and not needed.  *)
ReturnedFree ==
  \A p \in DOMAIN return_order :
    /\ return_order[p] > 1
    /\ First(return_order[p])
    /\ blocks[return_order[p]].len > 0 =>
         /\ blocks[return_order[p]].borrows = 0
         /\ \A q \in DOMAIN return_order : return_order[q] = return_order[p] => q = p
         /\ \A j \in Task : At(j, return_order[p]) => ~ Needed(j)

(* What a task writes is not overwritten before its last reader, or at all *)
(* if it has none.                                                         *)
ReadFrom(j, l) == EdgesFrom(j) = {} \/ \E e \in EdgesFrom(j) : e[1] >= l

Overwrites(l, j) == Units(j) \cap Units(l) # {}

KeptApart ==
  \A j, l \in Assigned : j < l /\ ReadFrom(j, l) => ~ Overwrites(l, j)

(* The buffers of a schedule that runs. *)
Fitted ==
  phase \in {"run", "copied"} =>
    /\ \A j \in Task : node_output[j].at >= 1 /\ node_output[j].at + outputs[j] <= allocation
    /\ DOMAIN memory = 0..(allocation - 1)
    /\ allocation >= 1
    /\ memory[0] = 0

Unspoilt ==
  phase = "run" => \A j \in Task : j < task /\ ReadFrom(j, task) => Holds(j)

Lending == phase \in {"get", "return"} => Placed /\ BorrowsCover /\ ReturnedFree

BuffersInv ==
  /\ BlocksLaid
  /\ Lending
  /\ KeptApart
  /\ Fitted
  /\ Unspoilt
  /\ UnreadOutputsKept
  /\ AllocatorSucceeds

(* The edges of a graph are in memory, so usize::MAX is more than them. *)
FewEdges == Cardinality(Edges) < UsizeMax

-----------------------------------------------------------------------------
(***************************************************************************)
(* Types.                                                                  *)
(***************************************************************************)
Block == [start : Nat, len : Nat, borrows : Nat]

Place == [kind : {"offset", "pointer"}, at : Nat]

TypeInv ==
  /\ TypeOK
  /\ phase = "return" => task <= NumTasks

(* The edges are finitely many: each task has a list of them. *)
LEMMA EdgesFinite ==
  ASSUME TypeOK
  PROVE  /\ IsFiniteSet(Edges)
         /\ \A S \in SUBSET Edges : IsFiniteSet(S) /\ Cardinality(S) \in Nat
PROOF
<1> DEFINE Of(i) == {<<i, k>> : k \in DOMAIN reads[i]}
<1>1. \A i \in Task : IsFiniteSet(Of(i))
  <2> SUFFICES ASSUME NEW i \in Task PROVE IsFiniteSet(Of(i))
    OBVIOUS
  <2>1. reads[i] \in Seq(0..NumTasks)
    BY DEF TypeOK
  <2>2. DOMAIN reads[i] = 1..Len(reads[i]) /\ Len(reads[i]) \in Nat
    BY <2>1
  <2>3. IsFiniteSet(DOMAIN reads[i])
    <3>1. IsFiniteSet(1..Len(reads[i]))
      BY <2>2, FS_Interval
    <3> QED BY <3>1, <2>2
  <2>4. PICK D : D = DOMAIN reads[i]
    OBVIOUS
  <2> DEFINE f == [k \in D |-> <<i, k>>]
  <2>5. f \in Surjection(D, {<<i, k>> : k \in D})
    BY DEF Surjection
  <2>6. IsFiniteSet({<<i, k>> : k \in D})
    BY <2>3, <2>4, <2>5, FS_Surjection
  <2> QED BY <2>4, <2>6
<1>2. PICK F : F = {Of(i) : i \in Task}
  OBVIOUS
<1>3. IsFiniteSet(F)
  <2> DEFINE g == [i \in Task |-> Of(i)]
  <2>1. g \in Surjection(Task, {Of(i) : i \in Task})
    BY Zenon DEF Surjection
  <2>2. IsFiniteSet(Task)
    BY TasksAssumption, FS_Interval DEF Task
  <2> QED BY <1>2, <2>1, <2>2, FS_Surjection
<1>4. \A s \in F : IsFiniteSet(s)
  BY <1>1, <1>2
<1>5. IsFiniteSet(UNION F)
  BY <1>3, <1>4, FS_UNION
<1>6. Edges = UNION F
  BY <1>2 DEF Edges
<1>7. IsFiniteSet(Edges)
  BY <1>5, <1>6
<1> HIDE DEF Of
<1> QED BY <1>7, FS_Subset, FS_CardinalityType

(* An element is taken out of a list: what is left, and where it was. *)
Without(r, p) == SubSeq(r, 1, p - 1) \o SubSeq(r, p + 1, Len(r))

LEMMA TakenOut ==
  ASSUME NEW S, NEW r \in Seq(S), NEW p \in DOMAIN r
  PROVE  /\ Without(r, p) \in Seq(S)
         /\ \A q \in DOMAIN Without(r, p) : \E o \in DOMAIN r :
              o = (IF q < p THEN q ELSE q + 1) /\ o # p /\ Without(r, p)[q] = r[o]
PROOF
<1>0. PICK w : w = Without(r, p)
  OBVIOUS
<1>1. p \in 1..Len(r) /\ Len(r) \in Nat
  OBVIOUS
<1>2. SubSeq(r, 1, p - 1) \in Seq(S) /\ Len(SubSeq(r, 1, p - 1)) = p - 1
      /\ \A q \in 1..(p - 1) : SubSeq(r, 1, p - 1)[q] = r[q]
  BY <1>1
<1>3. SubSeq(r, p + 1, Len(r)) \in Seq(S) /\ Len(SubSeq(r, p + 1, Len(r))) = Len(r) - p
      /\ \A q \in 1..(Len(r) - p) : SubSeq(r, p + 1, Len(r))[q] = r[p + q]
  BY <1>1
<1>4. PICK a : a = SubSeq(r, 1, p - 1)
  OBVIOUS
<1>5. PICK c : c = SubSeq(r, p + 1, Len(r))
  OBVIOUS
<1>6. /\ a \in Seq(S) /\ Len(a) = p - 1
      /\ c \in Seq(S) /\ Len(c) = Len(r) - p
      /\ w = a \o c
  BY <1>0, <1>2, <1>3, <1>4, <1>5 DEF Without
<1>7. w \in Seq(S)
  BY <1>6
<1>8. Len(w) = Len(r) - 1
  <2>1. Len(w) = Len(a) + Len(c)
    BY ONLY <1>6
  <2>2. Len(a) = p - 1 /\ Len(c) = Len(r) - p
    BY <1>6
  <2> QED BY ONLY <1>1, <2>1, <2>2
<1>9. ASSUME NEW q \in DOMAIN w
      PROVE  \E o \in DOMAIN r :
               o = (IF q < p THEN q ELSE q + 1) /\ o # p /\ w[q] = r[o]
  <2>1. q \in 1..(Len(r) - 1)
    BY <1>7, <1>8
  <2>2. CASE q < p
    <3>1. w[q] = a[q]
      BY <1>6, <1>1, <2>1, <2>2
    <3>2. a[q] = r[q]
      BY <1>2, <1>4, <2>1, <2>2, <1>1
    <3> QED BY <3>1, <3>2, <2>1, <2>2, <1>1
  <2>3. CASE ~ (q < p)
    <3>1. w[q] = c[q - (p - 1)]
      <4>1. q \in 1..(Len(a) + Len(c)) /\ ~ (q <= Len(a)) /\ Len(a) = p - 1
        BY <1>6, <1>1, <2>1, <2>3
      <4>2. w[q] = c[q - Len(a)]
        BY ONLY <1>6, <4>1
      <4> QED BY <4>1, <4>2
    <3>2. q - (p - 1) \in 1..(Len(r) - p) /\ p + (q - (p - 1)) = q + 1
      BY <1>1, <2>1, <2>3
    <3>3. c[q - (p - 1)] = r[p + (q - (p - 1))]
      <4>1. \A n \in 1..(Len(r) - p) : c[n] = r[p + n]
        BY <1>3, <1>5
      <4>2. PICK n : n = q - (p - 1)
        OBVIOUS
      <4>3. n \in 1..(Len(r) - p) /\ p + n = q + 1
        BY <3>2, <4>2
      <4> QED BY ONLY <4>1, <4>2, <4>3
    <3>4. q + 1 \in DOMAIN r /\ q + 1 # p
      BY <2>1, <2>3, <1>1
    <3>5. w[q] = r[q + 1]
      BY <3>1, <3>2, <3>3
    <3> QED BY <3>4, <3>5, <2>3
  <2> QED BY <2>2, <2>3
<1> QED BY <1>0, <1>7, <1>9

(* The source of an edge is a task, or 0. *)
LEMMA SourceTyped ==
  ASSUME TypeOK, NEW e \in Edges
  PROVE  /\ e[1] \in Task /\ e[2] \in DOMAIN reads[e[1]] /\ e = <<e[1], e[2]>>
         /\ DOMAIN reads[e[1]] = 1..Len(reads[e[1]]) /\ Len(reads[e[1]]) \in Nat
         /\ Source(e) \in 0..NumTasks
         /\ Source(e) # 0 => e \in EdgesFrom(Source(e))
PROOF
<1>1. PICK i \in Task : e \in {<<i, k>> : k \in DOMAIN reads[i]}
  BY DEF Edges
<1>2. PICK k \in DOMAIN reads[i] : e = <<i, k>>
  BY <1>1
<1>3. reads[i] \in Seq(0..NumTasks)
  BY DEF TypeOK
<1>4. DOMAIN reads[i] = 1..Len(reads[i]) /\ Len(reads[i]) \in Nat /\ reads[i][k] \in 0..NumTasks
  <2>1. PICK s : s = reads[i]
    OBVIOUS
  <2>2. s \in Seq(0..NumTasks) /\ k \in DOMAIN s
    BY <1>3, <2>1
  <2>3. DOMAIN s = 1..Len(s) /\ Len(s) \in Nat
    BY ONLY <2>2
  <2>4. s[k] \in 0..NumTasks
    <3>1. PICK T : T = 0..NumTasks
      OBVIOUS
    <3>2. s \in Seq(T) /\ k \in DOMAIN s
      BY <2>2, <3>1
    <3>3. s[k] \in T
      BY ONLY <3>2
    <3> QED BY <3>1, <3>3
  <2> QED BY <2>1, <2>3, <2>4
<1> QED BY <1>2, <1>4 DEF Source, EdgesFrom

LEMMA GraphKept ==
  ASSUME UNCHANGED graph
  PROVE  /\ Edges' = Edges
         /\ \A j : EdgesFrom(j)' = EdgesFrom(j)
         /\ \A j : NumOutputDependents(j)' = NumOutputDependents(j)
         /\ \A e : Source(e)' = Source(e)
PROOF
  BY DEF graph, Edges, EdgesFrom, NumOutputDependents, Source

LEMMA DependentsTyped ==
  ASSUME TypeOK, NEW j
  PROVE  NumOutputDependents(j) \in Nat
PROOF
<1>1. EdgesFrom(j) \in SUBSET Edges
  BY DEF EdgesFrom
<1> QED BY <1>1, EdgesFinite DEF NumOutputDependents

LEMMA InitTyped == Init => TypeInv
PROOF
<1> SUFFICES ASSUME Init PROVE TypeInv
  OBVIOUS
<1>1. reads \in [Task -> Seq(0..NumTasks)] /\ outputs \in [Task -> Nat]
  BY ReadsAssumption, ChannelsAssumption DEF Init
<1>2. blocks \in Seq(Block)
  BY UsizeMaxAssumption DEF Init, EmptyChannel, Block
<1>3. return_order \in Seq(DOMAIN blocks)
  BY DEF Init
<1>4. node_output \in [Task -> Place]
  BY DEF Init, Offset, Pointer, Place
<1> QED BY <1>1, <1>2, <1>3, <1>4, TasksAssumption, CapacityAssumption
        DEF Init, TypeInv, TypeOK, Block, Place

LEMMA NextTyped ==
  ASSUME TypeInv, [Next]_vars
  PROVE  TypeInv'
PROOF
<1> USE TasksAssumption DEF TypeInv
<1>1. ASSUME NEW p \in DOMAIN return_order, ReuseBlock(p)
      PROVE  TypeInv'
  <2> DEFINE b == return_order[p]
             lent == [blocks[b] EXCEPT !.borrows = NumOutputDependents(task)]
  <2>1. blocks \in Seq(Block) /\ return_order \in Seq(DOMAIN blocks) /\ task \in Task
    BY <1>1 DEF TypeOK, Block, ReuseBlock, GetBlock, Task
  <2>2. b \in DOMAIN blocks
    BY <2>1
  <2>3. blocks[b] \in Block
    BY <2>1, <2>2
  <2>4. lent \in Block
    BY <2>3, DependentsTyped DEF Block
  <2>5. blocks' = [blocks EXCEPT ![b] = lent]
    BY <1>1 DEF ReuseBlock
  <2>6. blocks' \in Seq(Block) /\ DOMAIN blocks' = DOMAIN blocks
    <3> HIDE DEF lent, b
    <3> QED BY <2>1, <2>2, <2>4, <2>5
  <2>7. return_order' \in Seq(DOMAIN blocks)
    BY <1>1, <2>1, TakenOut DEF ReuseBlock, Without
  <2>8. node_output' \in [Task -> Place]
    <3>1. blocks[b].start \in Nat
      BY <2>3 DEF Block
    <3>2. PICK n \in Nat : n = blocks[b].start
      BY <3>1
    <3>3. node_output' = [node_output EXCEPT ![task] = Offset(n)]
      BY <1>1, <3>2 DEF ReuseBlock
    <3>4. node_output \in [Task -> Place]
      BY DEF TypeOK, Place
    <3>5. Offset(n) \in Place
      BY <3>2 DEF Offset, Place
    <3>6. task \in Task
      BY <2>1
    <3> QED BY ONLY <3>3, <3>4, <3>5, <3>6
  <2>9. return_order' \in Seq(DOMAIN blocks')
    BY <2>6, <2>7
  <2>10. /\ UNCHANGED <<reads, outputs, allocation, task, memory, copied>>
         /\ UNCHANGED <<next_free_pos, virtual_allocation_size>>
         /\ phase' = "return" /\ slot' = 1 /\ task <= NumTasks
    BY <1>1 DEF ReuseBlock, GetBlock, graph
  <2>11. blocks' \in Seq([start : Nat, len : Nat, borrows : Nat])
    BY ONLY <2>6 DEF Block
  <2>12. node_output' \in [Task -> [kind : {"offset", "pointer"}, at : Nat]]
    BY ONLY <2>8 DEF Place
  <2> HIDE DEF lent, b
  <2>13. /\ reads' \in [Task -> Seq(0..NumTasks)] /\ outputs' \in [Task -> Nat]
         /\ next_free_pos' \in Nat /\ virtual_allocation_size' \in Nat
         /\ allocation' \in Nat /\ task' \in 1..(NumTasks + 1) /\ copied' \in 0..NumTasks
    BY <2>10 DEF TypeOK
  <2>14. slot' \in Nat \ {0} /\ phase' = "return" /\ task' <= NumTasks
    BY <2>10
  <2> QED BY ONLY <2>9, <2>11, <2>12, <2>13, <2>14 DEF TypeOK, TypeInv
<1>2. ASSUME AssignNewBlock
      PROVE  TypeInv'
  <2> DEFINE new == [start |-> next_free_pos, len |-> outputs[task],
                     borrows |-> NumOutputDependents(task)]
  <2>1. blocks \in Seq(Block) /\ return_order \in Seq(DOMAIN blocks) /\ task \in Task
    BY <1>2 DEF TypeOK, Block, AssignNewBlock, GetBlock, Task
  <2>2. outputs[task] \in Nat /\ next_free_pos \in Nat
    BY <2>1 DEF TypeOK
  <2>3. new \in Block
    BY <2>2, DependentsTyped DEF Block
  <2>4. blocks' = Append(blocks, new)
    BY <1>2 DEF AssignNewBlock
  <2>5. blocks' \in Seq(Block) /\ DOMAIN blocks \subseteq DOMAIN blocks'
    <3> HIDE DEF new
    <3> QED BY <2>1, <2>3, <2>4
  <2>6. return_order' \in Seq(DOMAIN blocks')
    BY <1>2, <2>1, <2>5 DEF AssignNewBlock
  <2>7. node_output' \in [Task -> Place]
    BY <1>2, <2>1, <2>2 DEF AssignNewBlock, TypeOK, Place, Offset
  <2> QED BY <1>2, <2>2, <2>5, <2>6, <2>7
          DEF AssignNewBlock, GetBlock, TypeOK, Block, Place, graph, SizeAfter
<1>3. ASSUME ReturnNothing
      PROVE  TypeInv'
  BY <1>3 DEF ReturnNothing, Returning, TypeOK, graph
<1>4. ASSUME NEW b \in DOMAIN blocks, ReturnBorrow(b)
      PROVE  TypeInv'
  <2>1. blocks \in Seq(Block) /\ return_order \in Seq(DOMAIN blocks)
    BY DEF TypeOK, Block
  <2>2. blocks[b] \in Block
    BY <2>1
  <2>3. ASSUME NEW n \in Nat, blocks' = [blocks EXCEPT ![b].borrows = n]
        PROVE  blocks' \in Seq(Block) /\ DOMAIN blocks' = DOMAIN blocks
    <3>1. PICK lent : lent = [blocks[b] EXCEPT !.borrows = n]
      OBVIOUS
    <3>2. lent \in Block
      BY <3>1, <2>2 DEF Block
    <3>3. blocks' = [blocks EXCEPT ![b] = lent]
      BY <3>1, <2>3
    <3> QED BY <3>2, <3>3, <2>1
  <2>4. blocks' \in Seq(Block) /\ DOMAIN blocks' = DOMAIN blocks
    <3>1. CASE blocks[b].borrows > 0 /\ blocks' = [blocks EXCEPT ![b].borrows = @ - 1]
      <4>1. PICK n : n = blocks[b].borrows - 1
        OBVIOUS
      <4>2. n \in Nat
        BY <4>1, <3>1, <2>2 DEF Block
      <4> QED BY <4>1, <4>2, <3>1, <2>3
    <3>2. CASE blocks' = [blocks EXCEPT ![b].borrows = UsizeMax]
      BY <3>2, <2>3, UsizeMaxAssumption
    <3>3. CASE UNCHANGED blocks
      BY <3>3, <2>1
    <3> QED BY <1>4, <3>1, <3>2, <3>3 DEF ReturnBorrow
  <2>5. return_order' \in Seq(DOMAIN blocks)
    <3>1. return_order' = Append(return_order, b) \/ return_order' = return_order
      BY <1>4 DEF ReturnBorrow, IndexOf
    <3>2. Append(return_order, b) \in Seq(DOMAIN blocks)
      <4>1. PICK D : D = DOMAIN blocks
        OBVIOUS
      <4>2. return_order \in Seq(D) /\ b \in D
        BY <2>1, <4>1
      <4>3. Append(return_order, b) \in Seq(D)
        BY ONLY <4>2
      <4> QED BY <4>1, <4>3
    <3> QED BY <2>1, <3>1, <3>2
  <2>6. /\ slot' \in Nat \ {0}
        /\ UNCHANGED <<graph, allocation, next_free_pos, virtual_allocation_size, task,
                       node_output, memory, copied>>
    <3>1. Returning
      BY <1>4 DEF ReturnBorrow
    <3>2. slot \in Nat \ {0}
      BY DEF TypeOK
    <3> QED BY <3>1, <3>2 DEF Returning
  <2>7. phase' \in {"return", "underflow"} /\ task <= NumTasks
    BY <1>4 DEF ReturnBorrow, Returning, TypeOK
  <2> QED BY <2>4, <2>5, <2>6, <2>7 DEF TypeOK, Block, graph
<1>5. ASSUME NextTask
      PROVE  TypeInv'
  BY <1>5 DEF NextTask, TypeOK, graph, allocator
<1>6. ASSUME FinishAssigning
      PROVE  TypeInv'
  <2>1. allocation' \in Nat
    BY <1>6 DEF FinishAssigning, TypeOK
  <2>2. node_output' \in [Task -> Place]
    BY <1>6 DEF FinishAssigning, TypeOK, Place, Pointer
  <2> QED BY <1>6, <2>1, <2>2 DEF FinishAssigning, TypeOK, Place, graph, allocator
<1>7. ASSUME RunTask
      PROVE  TypeInv'
  BY <1>7 DEF RunTask, TypeOK, graph, allocator
<1>8. ASSUME NEW j \in Task, CopyOutput(j)
      PROVE  TypeInv'
  BY <1>8 DEF CopyOutput, TypeOK, graph, allocator, Task
<1>9. ASSUME UNCHANGED vars
      PROVE  TypeInv'
  BY <1>9 DEF vars, TypeOK, graph, allocator
<1> QED BY <1>1, <1>2, <1>3, <1>4, <1>5, <1>6, <1>7, <1>8, <1>9 DEF Next

(* Every variable has its type: a block in return_order is one of the      *)
(* allocator's, and the calculation never goes past the last task.         *)
THEOREM BuffersTyped == Spec => []TypeOK
PROOF
<1>1. Init => TypeInv
  BY InitTyped
<1>2. TypeInv /\ [Next]_vars => TypeInv'
  BY NextTyped
<1>3. TypeInv => TypeOK
  BY DEF TypeInv
<1> QED BY <1>1, <1>2, <1>3, PTL DEF Spec

-----------------------------------------------------------------------------
(***************************************************************************)
(* What the steps leave alone.                                             *)
(***************************************************************************)
LEMMA Typed ==
  ASSUME TypeInv
  PROVE  /\ DOMAIN blocks = 1..Len(blocks) /\ Len(blocks) \in Nat
         /\ \A b \in DOMAIN blocks :
              blocks[b].start \in Nat /\ blocks[b].len \in Nat /\ blocks[b].borrows \in Nat
         /\ DOMAIN return_order = 1..Len(return_order) /\ Len(return_order) \in Nat
         /\ \A p \in DOMAIN return_order : return_order[p] \in DOMAIN blocks
         /\ \A j \in Task : outputs[j] \in Nat /\ node_output[j].at \in Nat
         /\ next_free_pos \in Nat /\ virtual_allocation_size \in Nat /\ allocation \in Nat
         /\ task \in 1..(NumTasks + 1) /\ slot \in Nat \ {0}
PROOF
<1>1. blocks \in Seq(Block) /\ return_order \in Seq(DOMAIN blocks)
  BY DEF TypeInv, TypeOK, Block
<1>2. \A b \in DOMAIN blocks : blocks[b] \in Block
  BY <1>1
<1>3. \A p \in DOMAIN return_order : return_order[p] \in DOMAIN blocks
  BY <1>1
<1>4. \A j \in Task : node_output[j] \in Place
  BY DEF TypeInv, TypeOK, Place
<1>5. \A b \in DOMAIN blocks :
        blocks[b].start \in Nat /\ blocks[b].len \in Nat /\ blocks[b].borrows \in Nat
  BY <1>2 DEF Block
<1>6. \A j \in Task : outputs[j] \in Nat /\ node_output[j].at \in Nat
  BY <1>4 DEF Place, TypeInv, TypeOK
<1>7. /\ DOMAIN blocks = 1..Len(blocks) /\ Len(blocks) \in Nat
      /\ DOMAIN return_order = 1..Len(return_order) /\ Len(return_order) \in Nat
  BY <1>1
<1> QED BY <1>3, <1>5, <1>6, <1>7 DEF TypeInv, TypeOK

LEMMA Counts ==
  ASSUME TypeInv
  PROVE  /\ Left \in SUBSET Edges
         /\ \A b : LentBy(b) \in SUBSET Edges
         /\ \A j : EdgesFrom(j) \in SUBSET Edges
         /\ \A S \in SUBSET Edges : IsFiniteSet(S) /\ Cardinality(S) \in Nat
         /\ \A S \in SUBSET Edges : \A T \in SUBSET S : Cardinality(T) <= Cardinality(S)
         /\ \A S \in SUBSET Edges : Cardinality(S) = 0 => S = {}
         /\ \A S \in SUBSET Edges : \A e \in S : Cardinality(S \ {e}) = Cardinality(S) - 1
PROOF
<1>1. \A S \in SUBSET Edges : IsFiniteSet(S) /\ Cardinality(S) \in Nat
  BY EdgesFinite DEF TypeInv
<1>2. Left \in SUBSET Edges
  BY DEF Left
<1>3. \A b : LentBy(b) \in SUBSET Edges
  BY <1>2 DEF LentBy
<1>4. \A j : EdgesFrom(j) \in SUBSET Edges
  BY DEF EdgesFrom
<1>5. \A S \in SUBSET Edges : \A T \in SUBSET S : Cardinality(T) <= Cardinality(S)
  BY <1>1, FS_Subset
<1>6. \A S \in SUBSET Edges : Cardinality(S) = 0 => S = {}
  BY <1>1, FS_EmptySet
<1>7. \A S \in SUBSET Edges : \A e \in S : Cardinality(S \ {e}) = Cardinality(S) - 1
  BY <1>1, FS_RemoveElement
<1> QED BY <1>1, <1>2, <1>3, <1>4, <1>5, <1>6, <1>7

(* An edge that is left, with the task that lends to it. *)
LEMMA Lender ==
  ASSUME TypeInv, NEW b, NEW e \in LentBy(b)
  PROVE  /\ e \in Left /\ e \in Edges
         /\ Source(e) \in Task /\ At(Source(e), b) /\ Needed(Source(e))
         /\ e \in EdgesFrom(Source(e))
PROOF
<1>1. e \in Left /\ At(Source(e), b) /\ e \in Edges
  BY DEF LentBy, Left
<1>2. Source(e) \in Task
  BY <1>1 DEF At, Assigned
<1> QED BY <1>1, <1>2 DEF Needed, EdgesFrom, Source

(* Blocks keep their place when they are lent and returned. *)
LEMMA ShapeKept ==
  ASSUME TypeInv, BlocksLaid, UNCHANGED graph, Len(blocks') = Len(blocks),
         DOMAIN blocks' = DOMAIN blocks,
         \A b \in DOMAIN blocks :
           blocks'[b].start = blocks[b].start /\ blocks'[b].len = blocks[b].len,
         UNCHANGED <<next_free_pos, virtual_allocation_size>>
  PROVE  /\ BlocksLaid'
         /\ \A b \in DOMAIN blocks : First(b)' <=> First(b)
         /\ \A b \in DOMAIN blocks : Data(b)' <=> Data(b)
PROOF
<1>1. 1 \in DOMAIN blocks
  BY Typed DEF BlocksLaid
<1>2. \A b \in DOMAIN blocks : First(b)' <=> First(b)
  <2> SUFFICES ASSUME NEW b \in DOMAIN blocks PROVE First(b)' <=> First(b)
    OBVIOUS
  <2>1. \A c \in 1..(b - 1) : c \in DOMAIN blocks
    BY Typed
  <2>2. \A c \in 1..(b - 1) : blocks'[c].start # blocks'[b].start
                                 <=> blocks[c].start # blocks[b].start
    BY <2>1
  <2> QED BY <2>2 DEF First
<1>3. \A b \in DOMAIN blocks : Data(b)' <=> Data(b)
  BY <1>2 DEF Data
<1>4. UNCHANGED outputs
  BY DEF graph
<1> QED BY <1>1, <1>2, <1>3, <1>4 DEF BlocksLaid

(* Two blocks that are found have different offsets. *)
LEMMA FoundApart ==
  ASSUME TypeInv, NEW b \in DOMAIN blocks, NEW c \in DOMAIN blocks, First(b), First(c), b # c
  PROVE  blocks[b].start # blocks[c].start
PROOF
<1>1. b \in Nat \ {0} /\ c \in Nat \ {0}
  BY Typed
<1>2. CASE b < c
  BY <1>1, <1>2 DEF First
<1>3. CASE c < b
  BY <1>1, <1>3 DEF First
<1> QED BY <1>1, <1>2, <1>3

(* The channels of a task are inside its block. *)
LEMMA UnitsInside ==
  ASSUME TypeInv, NEW j \in Task, NEW b \in DOMAIN blocks, At(j, b), outputs[j] <= blocks[b].len,
         NEW n \in Nat, NEW m \in Nat,
         n + m <= blocks[b].start \/ blocks[b].start + blocks[b].len <= n
  PROVE  Units(j) \cap (n .. (n + m - 1)) = {}
PROOF
<1>1. node_output[j].at = blocks[b].start
  BY DEF At, Offset
<1>2. PICK s : s = blocks[b].start
  OBVIOUS
<1>3. PICK o : o = outputs[j]
  OBVIOUS
<1>4. PICK l : l = blocks[b].len
  OBVIOUS
<1>5. s \in Nat /\ o \in Nat /\ l \in Nat /\ o <= l
  BY <1>2, <1>3, <1>4, Typed
<1>6. Units(j) = s .. (s + o - 1)
  BY <1>1, <1>2, <1>3 DEF Units
<1>7. n + m <= s \/ s + l <= n
  BY <1>2, <1>4
<1>8. (s .. (s + o - 1)) \cap (n .. (n + m - 1)) = {}
  BY ONLY <1>5, <1>7, n \in Nat, m \in Nat
<1> QED BY <1>6, <1>8

LEMMA InitBuffers ==
  ASSUME Init, FewEdges
  PROVE  BuffersInv
PROOF
<1>1. TypeInv
  BY InitTyped
<1>2. phase = "get" /\ task = 1 /\ blocks = <<EmptyChannel>> /\ return_order = <<>>
  BY DEF Init
<1>3. /\ Len(blocks) = 1 /\ DOMAIN blocks = {1}
      /\ blocks[1].start = 0 /\ blocks[1].len = 1 /\ blocks[1].borrows = UsizeMax
  BY <1>2 DEF EmptyChannel
<1>4. Assigned = {}
  BY <1>2, TasksAssumption DEF Assigned, Task
<1>5. BlocksLaid
  BY <1>3 DEF BlocksLaid, Init
<1>6. Placed
  BY <1>4 DEF Placed, Init, Offset, Pointer
<1>7. BorrowsCover
  <2>1. Cardinality(Left) <= Cardinality(Edges)
    BY <1>1, Counts
  <2>2. Cardinality(Left) \in Nat /\ Cardinality(Edges) \in Nat
    BY <1>1, Counts
  <2>3. blocks[1].borrows > Cardinality(Left)
    BY <1>3, <2>1, <2>2, UsizeMaxAssumption DEF FewEdges
  <2>4. \A b \in DOMAIN blocks : ~ Data(b)
    BY <1>3 DEF Data
  <2> QED BY <2>3, <2>4 DEF BorrowsCover
<1>8. ReturnedFree
  BY <1>2 DEF ReturnedFree
<1>9. KeptApart /\ Fitted /\ Unspoilt /\ UnreadOutputsKept /\ AllocatorSucceeds
  BY <1>2, <1>4 DEF KeptApart, Fitted, Unspoilt, UnreadOutputsKept, AllocatorSucceeds
<1> QED BY <1>5, <1>6, <1>7, <1>8, <1>9 DEF BuffersInv, Lending

-----------------------------------------------------------------------------
(***************************************************************************)
(* get_block and assign_new_block.                                         *)
(***************************************************************************)

(* The task is given its block; nothing has been returned yet. *)
LEMMA GetShifts ==
  ASSUME TypeInv, GetBlock
  PROVE  /\ Left' = Left
         /\ task \in Task /\ task \notin Assigned
         /\ Assigned' = Assigned \cup {task}
         /\ \A j \in Assigned : j < task
         /\ \A e \in Left : e \in Edges
         /\ \A j : EdgesFrom(j)' = EdgesFrom(j)
         /\ \A j : Needed(j)' <=> Needed(j)
         /\ \A e : Source(e)' = Source(e)
         /\ \A e \in Edges : e[1] >= task => e \in Left
PROOF
<1>1. /\ phase = "get" /\ phase' = "return" /\ task' = task /\ slot' = 1
      /\ UNCHANGED graph /\ task \in 1..NumTasks
  BY Typed, TasksAssumption DEF GetBlock
<1>2. task \in Task
  BY <1>1 DEF Task
<1>3. \A e \in Edges : e[1] \in Nat /\ e[2] \in Nat \ {0}
  <2> SUFFICES ASSUME NEW e \in Edges PROVE e[1] \in Nat /\ e[2] \in Nat \ {0}
    OBVIOUS
  <2>1. e[1] \in Task /\ e[2] \in 1..Len(reads[e[1]]) /\ Len(reads[e[1]]) \in Nat
    BY SourceTyped DEF TypeInv
  <2> QED BY <2>1, TasksAssumption DEF Task
<1>4. Edges' = Edges
  BY <1>1, GraphKept
<1>5. \A e \in Edges : ~ (e[1] < task \/ (phase # "get" /\ e[1] = task /\ e[2] < slot))
                        <=> ~ (e[1] < task' \/ (phase' # "get" /\ e[1] = task' /\ e[2] < slot'))
  BY <1>1, <1>3
<1>6. Left' = Left
  BY <1>4, <1>5 DEF Left
<1>7. \A j \in Task : j \in Nat
  BY TasksAssumption DEF Task
<1>8. Assigned = {j \in Task : j < task}
  BY <1>1 DEF Assigned
<1>9. Assigned' = {j \in Task : j < task \/ j = task}
  BY <1>1 DEF Assigned
<1>10. Assigned' = Assigned \cup {task}
  BY <1>2, <1>8, <1>9
<1>11. \A j : Needed(j)' <=> Needed(j)
  BY <1>6, <1>1, GraphKept DEF Needed
<1>12. \A e \in Edges : e[1] >= task => e \in Left
  BY <1>1, <1>3 DEF Left
<1> QED BY <1>1, <1>2, <1>6, <1>7, <1>8, <1>10, <1>11, <1>12, GraphKept DEF Left

(* The new task overwrites nothing that is still needed. *)
LEMMA GetApart ==
  ASSUME TypeInv, KeptApart, GetBlock, NEW n \in Nat,
         node_output' = [node_output EXCEPT ![task] = Offset(n)],
         \A j \in Assigned : Needed(j) => Units(j) \cap (n .. (n + outputs[task] - 1)) = {}
  PROVE  KeptApart'
PROOF
<1>1. UNCHANGED outputs
  BY DEF GetBlock, graph
<1>2. node_output \in [Task -> Place] /\ task \in Task
  BY GetShifts DEF TypeInv, TypeOK, Place
<1>3. \A j \in Task : j # task => Units(j)' = Units(j)
  BY <1>1, <1>2 DEF Units
<1>4. \A j \in Task : j = task => Units(j)' = n .. (n + outputs[task] - 1)
  <2> SUFFICES ASSUME NEW j \in Task, j = task
               PROVE  Units(j)' = n .. (n + outputs[j] - 1)
    OBVIOUS
  <2>1. node_output'[j] = Offset(n)
    BY <1>2
  <2>2. node_output'[j].at = n
    BY <2>1 DEF Offset
  <2> QED BY <2>2, <1>1 DEF Units
<1>5. \A j \in Task : j \in Nat
  BY TasksAssumption DEF Task
<1> SUFFICES ASSUME NEW j \in Assigned', NEW l \in Assigned', j < l, ReadFrom(j, l)'
             PROVE  ~ Overwrites(l, j)'
  BY DEF KeptApart
<1>6. j \in Assigned \cup {task} /\ l \in Assigned \cup {task} /\ j \in Task /\ l \in Task
  BY GetShifts DEF Assigned
<1>7. \A i \in Assigned : i < task
  BY GetShifts
<1>8. j \in Assigned /\ j # task
  BY <1>2, <1>5, <1>6, <1>7
<1>9. ReadFrom(j, l)
  BY GetShifts DEF ReadFrom
<1>10. CASE l # task
  <2>1. l \in Assigned
    BY <1>6, <1>10
  <2>2. ~ Overwrites(l, j)
    BY <1>8, <1>9, <2>1 DEF KeptApart
  <2> QED BY <2>2, <1>3, <1>6, <1>8, <1>10 DEF Overwrites
<1>11. CASE l = task
  <2>1. Needed(j)
    <3>1. CASE EdgesFrom(j) = {}
      BY <3>1 DEF Needed
    <3>2. CASE \E e \in EdgesFrom(j) : e[1] >= l
      <4>1. PICK e \in EdgesFrom(j) : e[1] >= task
        BY <3>2, <1>11
      <4>2. e \in Edges /\ Source(e) = j
        BY DEF EdgesFrom, Source
      <4> QED BY <4>1, <4>2, GetShifts DEF Needed
    <3> QED BY <3>1, <3>2, <1>9 DEF ReadFrom
  <2>2. Units(j) \cap (n .. (n + outputs[task] - 1)) = {}
    BY <2>1, <1>8
  <2> QED BY <2>2, <1>3, <1>4, <1>6, <1>8, <1>11 DEF Overwrites
<1> QED BY <1>10, <1>11

(* Where the tasks are after one has been given a block. *)
LEMMA GetAt ==
  ASSUME TypeInv, GetBlock, NEW n \in Nat,
         node_output' = [node_output EXCEPT ![task] = Offset(n)],
         NEW j \in Task, NEW b, blocks'[b].start = blocks[b].start
  PROVE  At(j, b)' <=> IF j = task THEN blocks[b].start = n ELSE At(j, b)
PROOF
<1>1. node_output \in [Task -> Place] /\ task \in Task
  BY GetShifts DEF TypeInv, TypeOK, Place
<1>2. \A s : Offset(n) = Offset(s) <=> s = n
  BY DEF Offset
<1>3. Assigned' = Assigned \cup {task}
  BY GetShifts
<1>4. CASE j = task
  <2>1. node_output'[j] = Offset(n)
    BY <1>1, <1>4
  <2>2. At(j, b)' <=> Offset(n) = Offset(blocks[b].start)
    BY <1>3, <1>4, <2>1 DEF At, Offset
  <2>3. Offset(n) = Offset(blocks[b].start) <=> blocks[b].start = n
    BY <1>2
  <2> QED BY <2>2, <2>3, <1>4
<1>5. CASE j # task
  <2>1. node_output'[j] = node_output[j]
    BY <1>1, <1>5
  <2> QED BY <1>3, <1>5, <2>1 DEF At, Offset
<1> QED BY <1>4, <1>5

(* Nothing runs while the buffers are assigned. *)
LEMMA NotRunning ==
  ASSUME phase' \in {"get", "return"}
  PROVE  Fitted' /\ Unspoilt' /\ UnreadOutputsKept' /\ AllocatorSucceeds'
PROOF
  BY DEF Fitted, Unspoilt, UnreadOutputsKept, AllocatorSucceeds

(* A block that has been returned is lent again: nothing needs it. *)
LEMMA ReuseKeeps ==
  ASSUME TypeInv, BuffersInv, NEW p \in DOMAIN return_order, ReuseBlock(p)
  PROVE  BuffersInv'
PROOF
<1>1. PICK b : b = return_order[p]
  OBVIOUS
<1>2. PICK s : s = blocks[b].start
  OBVIOUS
<1>3. PICK n : n = NumOutputDependents(task)
  OBVIOUS
<1>4. GetBlock /\ phase = "get" /\ phase' = "return" /\ UNCHANGED graph
  BY DEF ReuseBlock, GetBlock
<1>5. BlocksLaid /\ Placed /\ BorrowsCover /\ ReturnedFree /\ KeptApart
  BY <1>4 DEF BuffersInv, Lending
<1>6. /\ b \in DOMAIN blocks /\ b > 1 /\ First(b)
      /\ blocks[b].borrows = 0 /\ blocks[b].len >= outputs[task]
  BY <1>1, <1>5, Typed DEF ReturnedFree, ReuseBlock, Usable, LongEnough
<1>7. /\ blocks' = [blocks EXCEPT ![b].borrows = n]
      /\ node_output' = [node_output EXCEPT ![task] = Offset(s)]
      /\ UNCHANGED <<next_free_pos, virtual_allocation_size>>
  BY <1>1, <1>2, <1>3 DEF ReuseBlock
<1>8. blocks \in Seq(Block) /\ s \in Nat
  BY <1>2, <1>6, Typed DEF TypeInv, TypeOK, Block
<1>9. /\ Len(blocks') = Len(blocks) /\ DOMAIN blocks' = DOMAIN blocks
      /\ \A c \in DOMAIN blocks :
           blocks'[c].start = blocks[c].start /\ blocks'[c].len = blocks[c].len
      /\ \A c \in DOMAIN blocks : c # b => blocks'[c] = blocks[c]
      /\ blocks'[b].borrows = n
  <2>1. \A c \in DOMAIN blocks : c # b => blocks'[c] = blocks[c]
    BY <1>7
  <2>2. blocks'[b] = [blocks[b] EXCEPT !.borrows = n]
    BY <1>6, <1>7
  <2>3. blocks[b] \in Block
    BY <1>6, <1>8
  <2>4. /\ blocks'[b].borrows = n /\ blocks'[b].start = blocks[b].start
        /\ blocks'[b].len = blocks[b].len
    BY <2>2, <2>3 DEF Block
  <2>5. DOMAIN blocks' = DOMAIN blocks
    BY <1>7
  <2>6. Len(blocks') = Len(blocks)
    <3>1. PICK lent : lent = [blocks[b] EXCEPT !.borrows = n]
      OBVIOUS
    <3>2. lent \in Block
      BY <2>3, <3>1, <1>3, DependentsTyped DEF Block, TypeInv
    <3>3. blocks' = [blocks EXCEPT ![b] = lent]
      BY <1>7, <3>1
    <3> QED BY <3>2, <3>3, <1>6, <1>8
  <2> QED BY <2>1, <2>4, <2>5, <2>6
<1>10. /\ BlocksLaid'
       /\ \A c \in DOMAIN blocks : First(c)' <=> First(c)
       /\ \A c \in DOMAIN blocks : Data(c)' <=> Data(c)
  BY <1>4, <1>5, <1>7, <1>9, ShapeKept
<1>11. ASSUME NEW j \in Task, NEW c \in DOMAIN blocks
       PROVE  At(j, c)' <=> IF j = task THEN blocks[c].start = s ELSE At(j, c)
  BY <1>4, <1>7, <1>8, <1>9, GetAt
<1>12. \A c \in DOMAIN blocks : c # b /\ First(c) => blocks[c].start # s
  BY <1>2, <1>6, FoundApart
<1>13. blocks[b].len > 0 => \A j \in Task : At(j, b) => ~ Needed(j)
  BY <1>1, <1>5 DEF ReturnedFree
<1>14. KeptApart'
  <2> SUFFICES ASSUME NEW j \in Assigned, Needed(j)
               PROVE  Units(j) \cap (s .. (s + outputs[task] - 1)) = {}
    BY <1>4, <1>5, <1>7, <1>8, GetApart
  <2>1. j \in Task /\ task \in Task
    BY <1>4, GetShifts DEF Assigned
  <2>2. PICK o : o = outputs[task]
    OBVIOUS
  <2>3. o \in Nat
    BY <2>1, <2>2, Typed
  <2>4. CASE o = 0
    <3>1. s .. (s + o - 1) = {}
      BY <1>8, <2>4
    <3> QED BY <3>1, <2>2
  <2>5. CASE o > 0
    <3>1. PICK c \in DOMAIN blocks : At(j, c) /\ outputs[j] <= blocks[c].len
      BY <2>1, <1>5 DEF Placed
    <3>2. blocks[b].len > 0
      BY <1>6, <2>2, <2>3, <2>5, Typed
    <3>3. c # b
      BY <3>1, <3>2, <1>13, <2>1
    <3>4. CASE b < c
      <4>1. blocks[b].start + blocks[b].len <= blocks[c].start
        BY <1>5, <1>6, <3>4 DEF BlocksLaid
      <4>2. s + o <= blocks[c].start
        <5>1. o <= blocks[b].len /\ blocks[b].len \in Nat /\ blocks[c].start \in Nat
          BY <1>6, <2>2, <2>3, Typed
        <5> QED BY <4>1, <5>1, <1>2, <2>3, <1>8
      <4> QED BY <4>2, <3>1, <2>1, <2>2, <2>3, <1>8, UnitsInside
    <3>5. CASE c < b
      <4>1. blocks[c].start + blocks[c].len <= s
        BY <1>2, <1>5, <1>6, <3>5 DEF BlocksLaid
      <4> QED BY <4>1, <3>1, <2>1, <2>2, <2>3, <1>8, UnitsInside
    <3> QED BY <3>3, <3>4, <3>5, <1>6, Typed
  <2> QED BY <2>3, <2>4, <2>5
<1>15. Placed'
  <2> SUFFICES ASSUME NEW j \in Task
               PROVE  IF j \in Assigned'
                      THEN \E c \in DOMAIN blocks' :
                             c > 1 /\ At(j, c)' /\ outputs'[j] <= blocks'[c].len
                      ELSE node_output'[j].at = 0
    BY DEF Placed
  <2>1. Assigned' = Assigned \cup {task} /\ UNCHANGED outputs
    BY <1>4, GetShifts DEF graph
  <2>2. CASE j = task
    BY <2>1, <2>2, <1>2, <1>6, <1>9, <1>11
  <2>3. CASE j # task /\ j \in Assigned
    BY <2>1, <2>3, <1>5, <1>9, <1>11 DEF Placed
  <2>4. CASE j # task /\ j \notin Assigned
    BY <2>1, <2>4, <1>5, <1>7 DEF Placed, TypeInv, TypeOK
  <2> QED BY <2>2, <2>3, <2>4
<1>16. BorrowsCover'
  <2>1. /\ Left' = Left /\ task \in Task
        /\ \A j : EdgesFrom(j)' = EdgesFrom(j)
        /\ \A j : Needed(j)' <=> Needed(j)
        /\ \A e : Source(e)' = Source(e)
    BY <1>4, GetShifts
  <2>2. blocks'[1].borrows > Cardinality(Left)'
    <3>1. 1 \in DOMAIN blocks /\ 1 # b
      BY <1>5, <1>6, Typed DEF BlocksLaid
    <3> QED BY <3>1, <2>1, <1>5, <1>9 DEF BorrowsCover
  <2>3. ASSUME NEW c \in DOMAIN blocks', Data(c)'
        PROVE  /\ blocks'[c].borrows >= Cardinality(LentBy(c))'
               /\ \A j, l \in Task : At(j, c)' /\ At(l, c)' /\ Needed(j)' /\ Needed(l)' => j = l
    <3>1. c \in DOMAIN blocks /\ Data(c)
      BY <2>3, <1>9, <1>10
    <3>2. CASE c = b
      <4>1. blocks[b].len > 0
        BY <3>1, <3>2 DEF Data
      <4>2. LentBy(c)' \subseteq EdgesFrom(task)
        <5> SUFFICES ASSUME NEW e \in LentBy(c)' PROVE e \in EdgesFrom(task)
          OBVIOUS
        <5>1. PICK k : k = Source(e)
          OBVIOUS
        <5>2. e \in Left /\ k \in Task /\ At(k, c)'
          BY <5>1, <2>1 DEF LentBy, At, Assigned
        <5>3. Needed(k) /\ e \in Edges
          BY <5>1, <5>2 DEF Needed, Left
        <5>4. k = task
          BY <5>2, <5>3, <1>11, <1>13, <3>1, <3>2, <4>1
        <5> QED BY <5>1, <5>3, <5>4 DEF EdgesFrom, Source
      <4>3. Cardinality(LentBy(c)') <= Cardinality(EdgesFrom(task))
        BY <4>2, Counts
      <4>4. Cardinality(LentBy(c)') \in Nat /\ Cardinality(EdgesFrom(task)) \in Nat
        BY <4>2, Counts
      <4>5. blocks'[c].borrows = Cardinality(EdgesFrom(task))
        BY <1>3, <1>9, <3>2 DEF NumOutputDependents
      <4>6. \A j \in Task : At(j, c)' /\ Needed(j)' => j = task
        BY <2>1, <1>11, <1>13, <3>1, <3>2, <4>1
      <4> QED BY <4>3, <4>4, <4>5, <4>6
    <3>3. CASE c # b
      <4>1. blocks[c].start # s
        BY <3>1, <3>3, <1>12 DEF Data
      <4>2. \A j \in Task : At(j, c)' => At(j, c)
        BY <3>1, <4>1, <1>11
      <4>3. LentBy(c)' \subseteq LentBy(c)
        <5> SUFFICES ASSUME NEW e \in LentBy(c)' PROVE e \in LentBy(c)
          OBVIOUS
        <5>1. PICK k : k = Source(e)
          OBVIOUS
        <5>2. e \in Left /\ k \in Task /\ At(k, c)'
          BY <5>1, <2>1 DEF LentBy, At, Assigned
        <5> QED BY <5>1, <5>2, <4>2 DEF LentBy
      <4>4. Cardinality(LentBy(c)') <= Cardinality(LentBy(c))
        BY <4>3, Counts
      <4>5. Cardinality(LentBy(c)') \in Nat /\ Cardinality(LentBy(c)) \in Nat
        BY <4>3, Counts
      <4>6. blocks'[c].borrows = blocks[c].borrows /\ blocks[c].borrows \in Nat
        BY <3>1, <3>3, <1>9, Typed
      <4>7. blocks[c].borrows >= Cardinality(LentBy(c))
        BY <3>1, <1>5 DEF BorrowsCover
      <4>8. \A j, l \in Task : At(j, c) /\ At(l, c) /\ Needed(j) /\ Needed(l) => j = l
        BY <3>1, <1>5 DEF BorrowsCover
      <4> QED BY <4>2, <4>4, <4>5, <4>6, <4>7, <4>8, <2>1
    <3> QED BY <3>2, <3>3
  <2> QED BY <2>2, <2>3 DEF BorrowsCover
<1>17. ReturnedFree'
  <2>1. PICK w : w = return_order'
    OBVIOUS
  <2>2. return_order \in Seq(DOMAIN blocks)
    BY DEF TypeInv, TypeOK
  <2>3. w = Without(return_order, p)
    BY <2>1 DEF ReuseBlock, Without
  <2>4. \A q \in DOMAIN w : \E o \in DOMAIN return_order :
          o = (IF q < p THEN q ELSE q + 1) /\ o # p /\ w[q] = return_order[o]
    <3>1. PICK D : D = DOMAIN blocks
      OBVIOUS
    <3>2. return_order \in Seq(D)
      BY <2>2, <3>1
    <3>3. PICK r : r = return_order
      OBVIOUS
    <3>4. /\ r \in Seq(D) /\ p \in DOMAIN r
          /\ w = Without(r, p)
      BY <2>3, <3>2, <3>3
    <3>5. \A q \in DOMAIN w : \E o \in DOMAIN r :
            o = (IF q < p THEN q ELSE q + 1) /\ o # p /\ w[q] = r[o]
      BY ONLY <3>4, TakenOut
    <3> QED BY <3>3, <3>5
  <2>5. w \in Seq(DOMAIN blocks)
    BY <2>2, <2>3, TakenOut
  <2>6. DOMAIN w \subseteq Nat /\ p \in Nat
    <3>1. DOMAIN w = 1..Len(w) /\ Len(w) \in Nat
      BY <2>5
    <3> QED BY <3>1, Typed
  <2>7. ASSUME NEW q \in DOMAIN w
        PROVE  /\ w[q] > 1
               /\ First(w[q])'
               /\ blocks'[w[q]].len > 0 =>
                    /\ blocks'[w[q]].borrows = 0
                    /\ \A r \in DOMAIN w : w[r] = w[q] => r = q
                    /\ \A j \in Task : At(j, w[q])' => ~ Needed(j)'
    <3>1. PICK o \in DOMAIN return_order :
             o = (IF q < p THEN q ELSE q + 1) /\ o # p /\ w[q] = return_order[o]
      BY <2>4
    <3>2. PICK c : c = return_order[o]
      OBVIOUS
    <3>3. c \in DOMAIN blocks /\ c > 1 /\ First(c)
      BY <3>2, <1>5, Typed DEF ReturnedFree
    <3>4. w[q] = c
      BY <3>1, <3>2
    <3>5. ASSUME blocks'[c].len > 0
          PROVE  /\ blocks'[c].borrows = 0
                 /\ \A r \in DOMAIN w : w[r] = c => r = q
                 /\ \A j \in Task : At(j, c)' => ~ Needed(j)'
      <4>1. blocks[c].len > 0
        BY <3>3, <3>5, <1>9
      <4>2. /\ blocks[c].borrows = 0
            /\ \A r \in DOMAIN return_order : return_order[r] = c => r = o
            /\ \A j \in Task : At(j, c) => ~ Needed(j)
        BY <3>2, <4>1, <1>5 DEF ReturnedFree
      <4>3. c # b
        BY <4>2, <1>1, <3>1
      <4>4. blocks'[c].borrows = 0
        BY <4>2, <4>3, <3>3, <1>9
      <4>5. ASSUME NEW r \in DOMAIN w, w[r] = c
            PROVE  r = q
        <5>1. PICK u \in DOMAIN return_order :
                 u = (IF r < p THEN r ELSE r + 1) /\ w[r] = return_order[u]
          BY <2>4
        <5>2. u = o
          BY <5>1, <4>2, <4>5
        <5>3. r \in Nat /\ q \in Nat /\ p \in Nat
          BY <2>6
        <5> QED BY <5>1, <5>2, <5>3, <3>1
      <4>6. ASSUME NEW j \in Task, At(j, c)'
            PROVE  ~ Needed(j)'
        <5>1. blocks[c].start # s
          BY <1>12, <3>3, <4>3
        <5>2. At(j, c)
          BY <4>6, <5>1, <1>11, <3>3
        <5> QED BY <5>2, <4>2, <1>4, GetShifts
      <4> QED BY <4>4, <4>5, <4>6
    <3>6. First(c)'
      BY <3>3, <1>10
    <3> QED BY <3>3, <3>4, <3>5, <3>6
  <2> QED BY <2>1, <2>7 DEF ReturnedFree
<1>18. Fitted' /\ Unspoilt' /\ UnreadOutputsKept' /\ AllocatorSucceeds'
  BY <1>4, NotRunning
<1> QED BY <1>10, <1>14, <1>15, <1>16, <1>17, <1>18 DEF BuffersInv, Lending

(* A new block lies behind the others. *)
LEMMA AssignKeeps ==
  ASSUME TypeInv, BuffersInv, AssignNewBlock
  PROVE  BuffersInv'
PROOF
<1>1. PICK n : n = Len(blocks) + 1
  OBVIOUS
<1>2. PICK s : s = next_free_pos
  OBVIOUS
<1>3. PICK m : m = outputs[task]
  OBVIOUS
<1>4. PICK new : new = [start |-> s, len |-> m, borrows |-> NumOutputDependents(task)]
  OBVIOUS
<1>5. GetBlock /\ phase = "get" /\ phase' = "return" /\ UNCHANGED graph
  BY DEF AssignNewBlock, GetBlock
<1>6. BlocksLaid /\ Placed /\ BorrowsCover /\ ReturnedFree /\ KeptApart
  BY <1>5 DEF BuffersInv, Lending
<1>7. /\ Left' = Left /\ task \in Task
      /\ \A j : EdgesFrom(j)' = EdgesFrom(j)
      /\ \A j : Needed(j)' <=> Needed(j)
      /\ \A e : Source(e)' = Source(e)
      /\ Assigned' = Assigned \cup {task} /\ task \notin Assigned
  BY <1>5, GetShifts
<1>8. /\ blocks' = Append(blocks, new)
      /\ node_output' = [node_output EXCEPT ![task] = Offset(s)]
      /\ UNCHANGED <<return_order, outputs>>
      /\ next_free_pos' = s + m
      /\ virtual_allocation_size' >= s + m
  <2>1. s + m \in Int /\ virtual_allocation_size \in Nat
    BY <1>2, <1>3, <1>7, Typed
  <2> QED BY <1>2, <1>3, <1>4, <2>1 DEF AssignNewBlock, GetBlock, graph, SizeAfter
<1>9. s \in Nat /\ m \in Nat /\ blocks \in Seq(Block) /\ new \in Block
  BY <1>2, <1>3, <1>4, <1>7, Typed, DependentsTyped DEF TypeInv, TypeOK, Block
<1>10. /\ n \in Nat /\ n \notin DOMAIN blocks /\ \A c \in DOMAIN blocks : c < n /\ c \in Nat
       /\ DOMAIN blocks' = DOMAIN blocks \cup {n} /\ Len(blocks') = n
       /\ \A c \in DOMAIN blocks : blocks'[c] = blocks[c]
       /\ blocks'[n] = new
  BY <1>1, <1>8, <1>9
<1>11. new.start = s /\ new.len = m /\ new.borrows = NumOutputDependents(task)
  BY <1>4
<1>12. \A c \in DOMAIN blocks :
         /\ blocks[c].start \in Nat /\ blocks[c].len \in Nat /\ blocks[c].borrows \in Nat
         /\ blocks[c].start + blocks[c].len <= s
  BY <1>2, <1>6, Typed DEF BlocksLaid
<1>13. BlocksLaid'
  <2>1. 1 \in DOMAIN blocks
    BY <1>6, Typed DEF BlocksLaid
  <2>2. Len(blocks') >= 1 /\ blocks'[1].start = 0 /\ blocks'[1].len = 1
    BY <2>1, <1>6, <1>10 DEF BlocksLaid
  <2>3. ASSUME NEW b \in DOMAIN blocks', NEW c \in DOMAIN blocks', b < c
        PROVE  blocks'[b].start + blocks'[b].len <= blocks'[c].start
    <3>1. b \in DOMAIN blocks
      BY <2>3, <1>10
    <3>2. CASE c \in DOMAIN blocks
      BY <2>3, <3>1, <3>2, <1>6, <1>10 DEF BlocksLaid
    <3>3. CASE c = n
      BY <3>1, <3>3, <1>10, <1>11, <1>12
    <3> QED BY <3>2, <3>3, <1>10
  <2>4. ASSUME NEW b \in DOMAIN blocks'
        PROVE  /\ blocks'[b].start + blocks'[b].len <= next_free_pos'
               /\ b > 1 => \E i \in Task : blocks'[b].len = outputs'[i]
    <3>1. CASE b \in DOMAIN blocks
      <4>1. blocks[b].start + blocks[b].len <= s /\ blocks'[b] = blocks[b]
        BY <3>1, <1>10, <1>12
      <4>2. blocks[b].start + blocks[b].len <= s + m
        BY <4>1, <3>1, <1>9, <1>12
      <4> QED BY <4>1, <4>2, <3>1, <1>6, <1>8 DEF BlocksLaid
    <3>2. CASE b = n
      BY <3>2, <1>3, <1>7, <1>8, <1>9, <1>10, <1>11
    <3> QED BY <3>1, <3>2, <1>10
  <2> QED BY <2>2, <2>3, <2>4, <1>8 DEF BlocksLaid
<1>14. ASSUME NEW c \in DOMAIN blocks
       PROVE  /\ First(c)' <=> First(c)
              /\ Data(c)' <=> Data(c)
              /\ blocks'[c].start = blocks[c].start
              /\ blocks'[c].len = blocks[c].len
              /\ blocks'[c].borrows = blocks[c].borrows
  <2>1. \A d \in 1..(c - 1) : d \in DOMAIN blocks
    BY Typed
  <2>2. \A d \in 1..(c - 1) : blocks'[d] = blocks[d]
    BY <2>1, <1>10
  <2>3. blocks'[c] = blocks[c]
    BY <1>10
  <2>4. First(c)' <=> First(c)
    BY <2>2, <2>3 DEF First
  <2> QED BY <2>3, <2>4, <1>10 DEF Data
<1>15. ASSUME NEW j \in Task, NEW c \in DOMAIN blocks
       PROVE  At(j, c)' <=> IF j = task THEN blocks[c].start = s ELSE At(j, c)
  BY <1>5, <1>8, <1>9, <1>14, GetAt
<1>16. \A c \in DOMAIN blocks : blocks[c].len > 0 => blocks[c].start # s
  BY <1>9, <1>12
<1>17. ASSUME NEW j \in Task
       PROVE  At(j, n)' <=> j = task \/ (j \in Assigned /\ node_output[j] = Offset(s))
  <2>1. node_output \in [Task -> Place]
    BY DEF TypeInv, TypeOK, Place
  <2>2. At(j, n)' <=> j \in Assigned' /\ node_output'[j] = Offset(s)
    BY <1>10, <1>11 DEF At, Offset
  <2> QED BY <2>1, <2>2, <1>7, <1>8
<1>18. KeptApart'
  <2> SUFFICES ASSUME NEW j \in Assigned
               PROVE  Units(j) \cap (s .. (s + outputs[task] - 1)) = {}
    BY <1>5, <1>6, <1>8, <1>9, GetApart
  <2>1. j \in Task
    BY DEF Assigned
  <2>2. PICK c \in DOMAIN blocks : At(j, c) /\ outputs[j] <= blocks[c].len
    BY <2>1, <1>6 DEF Placed
  <2> QED BY <2>1, <2>2, <1>3, <1>9, <1>12, UnitsInside
<1>19. Placed'
  <2> SUFFICES ASSUME NEW j \in Task
               PROVE  IF j \in Assigned'
                      THEN \E c \in DOMAIN blocks' :
                             c > 1 /\ At(j, c)' /\ outputs'[j] <= blocks'[c].len
                      ELSE node_output'[j].at = 0
    BY DEF Placed
  <2>1. CASE j = task
    <3>1. n > 1
      BY <1>1, <1>6, Typed DEF BlocksLaid
    <3>2. outputs'[j] <= blocks'[n].len
      BY <2>1, <1>3, <1>8, <1>9, <1>10, <1>11
    <3> QED BY <2>1, <3>1, <3>2, <1>7, <1>10, <1>17
  <2>2. CASE j # task /\ j \in Assigned
    <3>1. PICK c \in DOMAIN blocks : c > 1 /\ At(j, c) /\ outputs[j] <= blocks[c].len
      BY <2>2, <1>6 DEF Placed
    <3>2. At(j, c)' /\ outputs'[j] <= blocks'[c].len
      BY <2>2, <3>1, <1>8, <1>14, <1>15
    <3> QED BY <3>1, <3>2, <2>2, <1>7, <1>10
  <2>3. CASE j # task /\ j \notin Assigned
    BY <2>3, <1>6, <1>7, <1>8 DEF Placed, TypeInv, TypeOK
  <2> QED BY <2>1, <2>2, <2>3
<1>20. BorrowsCover'
  <2>1. blocks'[1].borrows > Cardinality(Left)'
    <3>1. 1 \in DOMAIN blocks
      BY <1>6, Typed DEF BlocksLaid
    <3> QED BY <3>1, <1>6, <1>7, <1>14 DEF BorrowsCover
  <2>2. ASSUME NEW c \in DOMAIN blocks', Data(c)'
        PROVE  /\ blocks'[c].borrows >= Cardinality(LentBy(c))'
               /\ \A j, l \in Task : At(j, c)' /\ At(l, c)' /\ Needed(j)' /\ Needed(l)' => j = l
    <3>1. CASE c = n
      <4>1. \A d \in DOMAIN blocks : blocks[d].start # s
        <5> SUFFICES ASSUME NEW d \in DOMAIN blocks PROVE blocks[d].start # s
          OBVIOUS
        <5>1. d \in 1..(n - 1)
          BY <1>1, Typed
        <5>2. blocks'[d].start # blocks'[n].start
          BY <5>1, <2>2, <3>1 DEF Data, First
        <5> QED BY <5>2, <1>10, <1>11
      <4>2. \A j \in Task : At(j, c)' => j = task
        <5> SUFFICES ASSUME NEW j \in Task, At(j, c)', j # task PROVE FALSE
          OBVIOUS
        <5>1. j \in Assigned /\ node_output[j] = Offset(s)
          BY <3>1, <1>17
        <5>2. PICK d \in DOMAIN blocks : At(j, d)
          BY <5>1, <1>6 DEF Placed
        <5> QED BY <5>1, <5>2, <4>1 DEF At, Offset
      <4>3. LentBy(c)' \subseteq EdgesFrom(task)
        <5> SUFFICES ASSUME NEW e \in LentBy(c)' PROVE e \in EdgesFrom(task)
          OBVIOUS
        <5>1. PICK k : k = Source(e)
          OBVIOUS
        <5>2. e \in Left /\ k \in Task /\ At(k, c)'
          BY <5>1, <1>7 DEF LentBy, At, Assigned
        <5>3. k = task
          BY <5>2, <4>2
        <5> QED BY <5>1, <5>2, <5>3 DEF EdgesFrom, Source, Left
      <4>4. Cardinality(LentBy(c)') <= Cardinality(EdgesFrom(task))
        BY <4>3, Counts
      <4>5. Cardinality(LentBy(c)') \in Nat /\ Cardinality(EdgesFrom(task)) \in Nat
        BY <4>3, Counts
      <4>6. blocks'[c].borrows = Cardinality(EdgesFrom(task))
        BY <3>1, <1>10, <1>11 DEF NumOutputDependents
      <4> QED BY <4>2, <4>4, <4>5, <4>6
    <3>2. CASE c \in DOMAIN blocks
      <4>1. blocks[c].start # s /\ Data(c)
        BY <3>2, <2>2, <1>14, <1>16 DEF Data
      <4>2. \A j \in Task : At(j, c)' => At(j, c)
        BY <3>2, <4>1, <1>15
      <4>3. LentBy(c)' \subseteq LentBy(c)
        <5> SUFFICES ASSUME NEW e \in LentBy(c)' PROVE e \in LentBy(c)
          OBVIOUS
        <5>1. PICK k : k = Source(e)
          OBVIOUS
        <5>2. e \in Left /\ k \in Task /\ At(k, c)'
          BY <5>1, <1>7 DEF LentBy, At, Assigned
        <5> QED BY <5>1, <5>2, <4>2 DEF LentBy
      <4>4. Cardinality(LentBy(c)') <= Cardinality(LentBy(c))
        BY <4>3, Counts
      <4>5. Cardinality(LentBy(c)') \in Nat /\ Cardinality(LentBy(c)) \in Nat
        BY <4>3, Counts
      <4>6. blocks'[c].borrows = blocks[c].borrows /\ blocks[c].borrows \in Nat
        BY <3>2, <1>14, <1>12
      <4>7. blocks[c].borrows >= Cardinality(LentBy(c))
        BY <4>1, <3>2, <1>6 DEF BorrowsCover
      <4>8. \A j, l \in Task : At(j, c) /\ At(l, c) /\ Needed(j) /\ Needed(l) => j = l
        BY <4>1, <3>2, <1>6 DEF BorrowsCover
      <4> QED BY <4>2, <4>4, <4>5, <4>6, <4>7, <4>8, <1>7
    <3> QED BY <3>1, <3>2, <1>10
  <2> QED BY <2>1, <2>2 DEF BorrowsCover
<1>21. ReturnedFree'
  <2>1. ASSUME NEW q \in DOMAIN return_order, NEW c, c = return_order[q]
        PROVE  /\ c > 1
               /\ First(c)'
               /\ blocks'[c].len > 0 =>
                    /\ blocks'[c].borrows = 0
                    /\ \A r \in DOMAIN return_order : return_order[r] = c => r = q
                    /\ \A j \in Task : At(j, c)' => ~ Needed(j)'
    <3>1. c \in DOMAIN blocks /\ c > 1 /\ First(c)
      BY <2>1, <1>6, Typed DEF ReturnedFree
    <3>2. blocks[c].len > 0 =>
            /\ blocks[c].borrows = 0
            /\ \A r \in DOMAIN return_order : return_order[r] = c => r = q
            /\ \A j \in Task : At(j, c) => ~ Needed(j)
      BY <2>1, <1>6 DEF ReturnedFree
    <3> QED BY <3>1, <3>2, <1>7, <1>14, <1>15, <1>16
  <2>2. UNCHANGED return_order
    BY <1>8
  <2> QED BY <2>1, <2>2 DEF ReturnedFree
<1>22. Fitted' /\ Unspoilt' /\ UnreadOutputsKept' /\ AllocatorSucceeds'
  BY <1>5, NotRunning
<1> QED BY <1>13, <1>18, <1>19, <1>20, <1>21, <1>22 DEF BuffersInv, Lending

-----------------------------------------------------------------------------
(***************************************************************************)
(* return_block.                                                           *)
(***************************************************************************)

(* The edge that a step of the loop is at is no longer left. *)
LEMMA ReturnShifts ==
  ASSUME TypeInv, Returning, phase' \in {"return", "underflow"}
  PROVE  /\ <<task, slot>> \in Left /\ Source(<<task, slot>>) = reads[task][slot]
         /\ Left' = Left \ {<<task, slot>>}
         /\ task \in Task
         /\ Assigned' = Assigned
         /\ \A j : EdgesFrom(j)' = EdgesFrom(j)
         /\ \A j : Needed(j)' => Needed(j)
         /\ \A e : Source(e)' = Source(e)
         /\ UNCHANGED <<node_output, outputs, next_free_pos, virtual_allocation_size>>
PROOF
<1>1. /\ phase = "return" /\ task' = task /\ slot' = slot + 1
      /\ UNCHANGED graph /\ UNCHANGED <<next_free_pos, virtual_allocation_size, node_output>>
      /\ slot \in DOMAIN reads[task]
  BY DEF Returning
<1>2. task \in Task /\ task \in Nat
  BY <1>1, Typed, TasksAssumption DEF TypeInv, Task
<1>3. PICK at : at = <<task, slot>>
  OBVIOUS
<1>4. at \in Edges /\ at[1] = task /\ at[2] = slot
  BY <1>1, <1>2, <1>3 DEF Edges
<1>5. slot \in Nat
  BY Typed
<1>6. at \in Left
  BY <1>1, <1>2, <1>4, <1>5 DEF Left
<1>7. Edges' = Edges
  BY <1>1, GraphKept
<1>8. ASSUME NEW e \in Edges
      PROVE  e \in Left' <=> e \in Left /\ e # at
  <2>1. e[1] \in Nat /\ e[2] \in Nat /\ e = <<e[1], e[2]>>
    <3>1. e[1] \in Task /\ e[2] \in 1..Len(reads[e[1]]) /\ Len(reads[e[1]]) \in Nat
          /\ e = <<e[1], e[2]>>
      BY SourceTyped DEF TypeInv
    <3> QED BY <3>1, TasksAssumption DEF Task
  <2>2. e = at <=> e[1] = task /\ e[2] = slot
    BY <2>1, <1>3
  <2>3. phase # "get" /\ phase' # "get"
    BY <1>1
  <2>4. e \in Left <=> ~ (e[1] < task \/ (e[1] = task /\ e[2] < slot))
    BY <2>3 DEF Left
  <2>5. e \in Left' <=> ~ (e[1] < task \/ (e[1] = task /\ e[2] < slot + 1))
    BY <2>3, <1>1, <1>7 DEF Left
  <2>6. PICK i : i = e[1]
    OBVIOUS
  <2>7. PICK k : k = e[2]
    OBVIOUS
  <2>8. i \in Nat /\ k \in Nat
    BY <2>1, <2>6, <2>7
  <2>9. ~ (i < task \/ (i = task /\ k < slot + 1))
          <=> ~ (i < task \/ (i = task /\ k < slot)) /\ ~ (i = task /\ k = slot)
    BY ONLY <2>8, <1>2, <1>5
  <2> QED BY <2>2, <2>4, <2>5, <2>6, <2>7, <2>9
<1>9. Left \subseteq Edges /\ Left' \subseteq Edges
  BY <1>7 DEF Left
<1>10. Left' = Left \ {at}
  BY <1>8, <1>9
<1>11. Assigned' = Assigned
  <2>1. Task' = Task /\ phase \notin {"run", "copied", "unconverted"}
        /\ phase' \notin {"run", "copied", "unconverted"} /\ phase # "get" /\ phase' # "get"
    BY <1>1 DEF Task
  <2> QED BY <2>1, <1>1 DEF Assigned
<1>12. \A j : Needed(j)' => Needed(j)
  BY <1>10, <1>1, GraphKept DEF Needed
<1> QED BY <1>1, <1>2, <1>3, <1>4, <1>6, <1>10, <1>11, <1>12, GraphKept DEF Source, graph

(* Fewer edges are left and the allocator stays as it is. *)
LEMMA LessLeft ==
  ASSUME TypeInv, BlocksLaid, Placed, BorrowsCover, ReturnedFree,
         UNCHANGED <<blocks, return_order, node_output, outputs>>,
         Assigned' = Assigned, Left' \subseteq Left,
         \A j : Needed(j)' => Needed(j),
         \A e : Source(e)' = Source(e)
  PROVE  Placed' /\ BorrowsCover' /\ ReturnedFree'
PROOF
<1>1. \A j, b : At(j, b)' <=> At(j, b)
  BY DEF At, Offset
<1>2. \A b : First(b)' <=> First(b)
  BY DEF First
<1>3. \A b : Data(b)' <=> Data(b)
  BY <1>2 DEF Data
<1>4. \A b : LentBy(b)' \subseteq LentBy(b)
  <2> SUFFICES ASSUME NEW b, NEW e \in LentBy(b)' PROVE e \in LentBy(b)
    OBVIOUS
  <2>1. PICK k : k = Source(e)
    OBVIOUS
  <2>2. e \in Left /\ At(k, b)'
    BY <2>1 DEF LentBy, At
  <2> QED BY <2>1, <2>2, <1>1 DEF LentBy
<1>5. Placed'
  BY <1>1 DEF Placed
<1>6. BorrowsCover'
  <2>1. Cardinality(Left') <= Cardinality(Left)
    BY Counts
  <2>2. \A b : Cardinality(LentBy(b)') <= Cardinality(LentBy(b))
    BY <1>4, Counts
  <2>3. /\ Cardinality(Left') \in Nat /\ Cardinality(Left) \in Nat
        /\ \A b : Cardinality(LentBy(b)') \in Nat /\ Cardinality(LentBy(b)) \in Nat
    <3>1. Left' \in SUBSET Edges /\ \A b : LentBy(b)' \in SUBSET Edges
      BY <1>4, Counts
    <3> QED BY <3>1, Counts
  <2>4. 1 \in DOMAIN blocks
    BY Typed DEF BlocksLaid
  <2>5. blocks'[1].borrows > Cardinality(Left')
    BY <2>1, <2>3, <2>4, Typed DEF BorrowsCover
  <2>6. ASSUME NEW b \in DOMAIN blocks, Data(b)
        PROVE  /\ blocks'[b].borrows >= Cardinality(LentBy(b)')
               /\ \A j, l \in Task : At(j, b)' /\ At(l, b)' /\ Needed(j)' /\ Needed(l)' => j = l
    <3>1. blocks[b].borrows >= Cardinality(LentBy(b)) /\ blocks[b].borrows \in Nat
      BY <2>6, Typed DEF BorrowsCover
    <3>2. \A j, l \in Task : At(j, b) /\ At(l, b) /\ Needed(j) /\ Needed(l) => j = l
      BY <2>6 DEF BorrowsCover
    <3>3. \A j, l \in Task : At(j, b)' /\ At(l, b)' /\ Needed(j)' /\ Needed(l)' => j = l
      BY <3>2, <1>1
    <3>4. blocks'[b].borrows >= Cardinality(LentBy(b)')
      BY <3>1, <2>2, <2>3
    <3> QED BY <3>3, <3>4
  <2> QED BY <2>5, <2>6, <1>3 DEF BorrowsCover
<1>7. ReturnedFree'
  <2>1. ASSUME NEW q \in DOMAIN return_order, NEW c, c = return_order[q]
        PROVE  /\ c > 1
               /\ First(c)'
               /\ blocks'[c].len > 0 =>
                    /\ blocks'[c].borrows = 0
                    /\ \A r \in DOMAIN return_order : return_order[r] = c => r = q
                    /\ \A j \in Task : At(j, c)' => ~ Needed(j)'
    BY <2>1, <1>1, <1>2 DEF ReturnedFree
  <2> QED BY <2>1 DEF ReturnedFree
<1> QED BY <1>5, <1>6, <1>7

(* The buffers of the tasks do not move. *)
LEMMA ApartKept ==
  ASSUME KeptApart, Assigned' = Assigned, UNCHANGED outputs,
         \A j \in Task : node_output'[j].at = node_output[j].at,
         \A j : EdgesFrom(j)' = EdgesFrom(j)
  PROVE  KeptApart' /\ \A j \in Task : Units(j)' = Units(j)
PROOF
<1>1. \A j \in Task : Units(j)' = Units(j)
  BY DEF Units
<1>2. \A j, l : ReadFrom(j, l)' <=> ReadFrom(j, l)
  BY DEF ReadFrom
<1>3. \A j, l \in Task : Overwrites(l, j)' <=> Overwrites(l, j)
  BY <1>1 DEF Overwrites
<1>4. Assigned \subseteq Task
  BY DEF Assigned
<1> QED BY <1>1, <1>2, <1>3, <1>4 DEF KeptApart

LEMMA ReturnNothingKeeps ==
  ASSUME TypeInv, BuffersInv, ReturnNothing
  PROVE  BuffersInv'
PROOF
<1>1. Returning /\ phase = "return" /\ phase' = "return" /\ UNCHANGED <<blocks, return_order>>
  BY DEF ReturnNothing, Returning
<1>2. BlocksLaid /\ Placed /\ BorrowsCover /\ ReturnedFree /\ KeptApart
  BY <1>1 DEF BuffersInv, Lending
<1>3. /\ Left' \subseteq Left /\ Assigned' = Assigned
      /\ \A j : EdgesFrom(j)' = EdgesFrom(j)
      /\ \A j : Needed(j)' => Needed(j)
      /\ \A e : Source(e)' = Source(e)
      /\ UNCHANGED <<node_output, outputs, next_free_pos, virtual_allocation_size>>
  BY <1>1, ReturnShifts
<1>4. Placed' /\ BorrowsCover' /\ ReturnedFree'
  BY <1>1, <1>2, <1>3, LessLeft
<1>5. KeptApart'
  BY <1>2, <1>3, ApartKept
<1>6. BlocksLaid'
  BY <1>1, <1>2, <1>3 DEF BlocksLaid
<1>7. Fitted' /\ Unspoilt' /\ UnreadOutputsKept' /\ AllocatorSucceeds'
  BY <1>1, NotRunning
<1> QED BY <1>4, <1>5, <1>6, <1>7 DEF BuffersInv, Lending

(* A block is returned when the last edge that was lent its borrow is      *)
(* done, and no count falls below zero.                                    *)
LEMMA ReturnBorrowKeeps ==
  ASSUME TypeInv, BuffersInv, NEW b \in DOMAIN blocks, ReturnBorrow(b)
  PROVE  BuffersInv'
PROOF
<1>1. PICK edge : edge = <<task, slot>>
  OBVIOUS
<1>2. PICK s : s = reads[task][slot]
  OBVIOUS
<1>3. /\ Returning /\ phase = "return" /\ phase' \in {"return", "underflow"}
      /\ UNCHANGED graph
  BY DEF ReturnBorrow, Returning
<1>4. BlocksLaid /\ Placed /\ BorrowsCover /\ ReturnedFree /\ KeptApart
  BY <1>3 DEF BuffersInv, Lending
<1>5. /\ edge \in Left /\ Source(edge) = s /\ Left' = Left \ {edge} /\ task \in Task
      /\ Assigned' = Assigned
      /\ \A j : EdgesFrom(j)' = EdgesFrom(j)
      /\ \A j : Needed(j)' => Needed(j)
      /\ \A e : Source(e)' = Source(e)
      /\ UNCHANGED <<node_output, outputs, next_free_pos, virtual_allocation_size>>
  BY <1>1, <1>2, <1>3, ReturnShifts
<1>6. s # 0 /\ node_output[s] = Offset(blocks[b].start)
  BY <1>2 DEF ReturnBorrow, LentAt
<1>7. First(b)
  BY <1>2, <1>6 DEF ReturnBorrow, LentAt, First
<1>8. edge \in Edges /\ s \in Task
  <2>1. edge \in Edges
    BY <1>5 DEF Left
  <2>2. Source(edge) \in 0..NumTasks
    BY <2>1, SourceTyped DEF TypeInv
  <2> QED BY <2>1, <2>2, <1>5, <1>6, TasksAssumption DEF Task
<1>9. PICK n : n = blocks[b].borrows
  OBVIOUS
<1>10. n \in Nat
  BY <1>9, Typed
<1>11. PICK len : len = blocks[b].len
  OBVIOUS
<1>12. ASSUME b > 1
       PROVE  At(s, b) /\ edge \in LentBy(b)
  <2>1. blocks[b].start > 0
    <3>1. 1 \in DOMAIN blocks /\ blocks[1].start # blocks[b].start /\ blocks[1].start = 0
      BY <1>12, <1>4, <1>7, Typed DEF First, BlocksLaid
    <3> QED BY <3>1, Typed
  <2>2. node_output[s].at # 0
    BY <2>1, <1>6, Typed DEF Offset
  <2>3. s \in Assigned
    BY <2>2, <1>4, <1>8 DEF Placed
  <2> QED BY <2>3, <1>5, <1>6, <1>8 DEF At, LentBy
<1>13. b = 1 \/ len > 0 => n > 0
  <2>1. CASE b = 1
    <3>1. Cardinality(Left) \in Nat
      BY Counts
    <3> QED BY <2>1, <3>1, <1>4, <1>9, <1>10 DEF BorrowsCover
  <2>2. CASE b # 1 /\ len > 0
    <3>1. b > 1
      BY <2>2, Typed
    <3>2. Data(b)
      BY <3>1, <2>2, <1>7, <1>11 DEF Data
    <3>3. edge \in LentBy(b) /\ n >= Cardinality(LentBy(b))
      BY <3>1, <3>2, <1>4, <1>9, <1>12 DEF BorrowsCover
    <3>4. Cardinality(LentBy(b)) # 0 /\ Cardinality(LentBy(b)) \in Nat
      BY <3>3, Counts
    <3> QED BY <3>3, <3>4, <1>10
  <2> QED BY <2>1, <2>2
<1>14. PICK k \in Nat :
         /\ blocks' = IF phase' = "return" THEN [blocks EXCEPT ![b].borrows = k] ELSE blocks
         /\ n > 0 => phase' = "return" /\ k = n - 1
  <2>1. CASE n > 0
    <3>1. phase' = "return" /\ blocks' = [blocks EXCEPT ![b].borrows = n - 1]
      BY <2>1, <1>3, <1>9 DEF ReturnBorrow
    <3>2. PICK k \in Nat : k = n - 1
      BY <2>1, <1>10
    <3>3. blocks' = [blocks EXCEPT ![b].borrows = k]
      BY <3>1, <3>2
    <3> QED BY <3>1, <3>2, <3>3
  <2>2. CASE ~ (n > 0)
    <3>1. CASE phase' = "return"
      <4>1. blocks' = [blocks EXCEPT ![b].borrows = UsizeMax]
        BY <2>2, <3>1, <1>9 DEF ReturnBorrow
      <4> QED BY <4>1, <2>2, <3>1, UsizeMaxAssumption
    <3>2. CASE phase' # "return"
      <4>1. blocks' = blocks
        BY <2>2, <3>2, <1>3, <1>9 DEF ReturnBorrow
      <4> QED BY <4>1, <2>2, <3>2
    <3> QED BY <3>1, <3>2
  <2> QED BY <2>1, <2>2
<1>15. /\ Len(blocks') = Len(blocks) /\ DOMAIN blocks' = DOMAIN blocks
       /\ \A c \in DOMAIN blocks :
            blocks'[c].start = blocks[c].start /\ blocks'[c].len = blocks[c].len
       /\ \A c \in DOMAIN blocks : c # b => blocks'[c] = blocks[c]
       /\ phase' = "return" => blocks'[b].borrows = k
  <2>1. CASE phase' = "return"
    <3>1. blocks \in Seq(Block) /\ blocks[b] \in Block
      <4>1. blocks \in Seq(Block)
        BY DEF TypeInv, TypeOK, Block
      <4> QED BY <4>1
    <3>2. PICK lent : lent = [blocks[b] EXCEPT !.borrows = k]
      OBVIOUS
    <3>3. /\ lent \in Block /\ lent.borrows = k
          /\ lent.start = blocks[b].start /\ lent.len = blocks[b].len
      BY <3>1, <3>2 DEF Block
    <3>4. blocks' = [blocks EXCEPT ![b] = lent]
      BY <2>1, <3>2, <1>14
    <3>5. /\ Len(blocks') = Len(blocks) /\ DOMAIN blocks' = DOMAIN blocks
          /\ \A c \in DOMAIN blocks : c # b => blocks'[c] = blocks[c]
          /\ blocks'[b] = lent
      BY <3>1, <3>3, <3>4
    <3> QED BY <3>3, <3>5
  <2>2. CASE phase' # "return"
    BY <2>2, <1>14
  <2> QED BY <2>1, <2>2
<1>16. /\ BlocksLaid'
       /\ \A c \in DOMAIN blocks : First(c)' <=> First(c)
       /\ \A c \in DOMAIN blocks : Data(c)' <=> Data(c)
  BY <1>3, <1>4, <1>5, <1>15, ShapeKept
<1>17. \A j : \A c \in DOMAIN blocks : At(j, c)' <=> At(j, c)
  BY <1>5, <1>15 DEF At, Offset
<1>18. KeptApart'
  BY <1>4, <1>5, ApartKept
<1>19. Placed'
  BY <1>4, <1>5, <1>15, <1>17 DEF Placed
<1>20. ASSUME phase' = "return"
       PROVE  BorrowsCover'
  <2>1. blocks'[1].borrows > Cardinality(Left')
    <3>1. 1 \in DOMAIN blocks
      BY <1>4, Typed DEF BlocksLaid
    <3>2. Cardinality(Left') = Cardinality(Left) - 1 /\ Cardinality(Left) \in Nat
      BY <1>5, Counts
    <3>3. blocks[1].borrows > Cardinality(Left) /\ blocks[1].borrows \in Nat
      BY <1>4, <3>1, Typed DEF BorrowsCover
    <3>4. CASE b = 1
      <4>1. blocks'[1].borrows = n - 1
        BY <3>4, <1>13, <1>14, <1>15, <1>20
      <4>2. n > Cardinality(Left)
        BY <3>3, <3>4, <1>9
      <4> QED BY <4>1, <4>2, <3>2, <1>10
    <3>5. CASE b # 1
      <4>1. blocks'[1].borrows = blocks[1].borrows
        BY <3>1, <3>5, <1>15
      <4> QED BY <4>1, <3>2, <3>3
    <3> QED BY <3>4, <3>5
  <2>2. ASSUME NEW c \in DOMAIN blocks', Data(c)'
        PROVE  /\ blocks'[c].borrows >= Cardinality(LentBy(c)')
               /\ \A j, l \in Task : At(j, c)' /\ At(l, c)' /\ Needed(j)' /\ Needed(l)' => j = l
    <3>1. c \in DOMAIN blocks /\ Data(c)
      BY <2>2, <1>15, <1>16
    <3>2. \A j, l \in Task : At(j, c) /\ At(l, c) /\ Needed(j) /\ Needed(l) => j = l
      BY <3>1, <1>4 DEF BorrowsCover
    <3>3. LentBy(c)' = LentBy(c) \ {edge}
      <4>1. ASSUME NEW e
            PROVE  e \in LentBy(c)' <=> e \in LentBy(c) /\ e # edge
        <5>1. PICK i : i = Source(e)
          OBVIOUS
        <5>2. At(i, c)' <=> At(i, c)
          BY <3>1, <1>17
        <5>3. e \in LentBy(c)' <=> e \in Left' /\ At(i, c)'
          BY <5>1, <1>5 DEF LentBy, At
        <5>4. e \in LentBy(c) <=> e \in Left /\ At(i, c)
          BY <5>1 DEF LentBy
        <5> QED BY <5>2, <5>3, <5>4, <1>5
      <4> QED BY <4>1
    <3>4. blocks[c].borrows >= Cardinality(LentBy(c)) /\ blocks[c].borrows \in Nat
      BY <3>1, <1>4, Typed DEF BorrowsCover
    <3>5. blocks'[c].borrows >= Cardinality(LentBy(c)')
      <4>1. CASE c = b
        <5>1. b > 1 /\ len > 0
          BY <3>1, <4>1, <1>11 DEF Data
        <5>2. edge \in LentBy(c)
          BY <5>1, <4>1, <1>12
        <5>3. Cardinality(LentBy(c)') = Cardinality(LentBy(c)) - 1 /\ Cardinality(LentBy(c)) \in Nat
          BY <3>3, <5>2, Counts
        <5>4. blocks'[c].borrows = n - 1
          BY <4>1, <5>1, <1>13, <1>14, <1>15, <1>20
        <5>5. n >= Cardinality(LentBy(c))
          BY <3>4, <4>1, <1>9
        <5> QED BY <5>3, <5>4, <5>5, <1>10
      <4>2. CASE c # b
        <5>1. blocks'[c].borrows = blocks[c].borrows
          BY <3>1, <4>2, <1>15
        <5>2. Cardinality(LentBy(c)') <= Cardinality(LentBy(c))
          BY <3>3, Counts
        <5>3. LentBy(c)' \in SUBSET Edges /\ LentBy(c) \in SUBSET Edges
          BY <3>3, Counts
        <5>4. Cardinality(LentBy(c)') \in Nat /\ Cardinality(LentBy(c)) \in Nat
          BY <5>3, Counts
        <5> QED BY <5>1, <5>2, <5>4, <3>4
      <4> QED BY <4>1, <4>2
    <3>6. \A j, l \in Task : At(j, c)' /\ At(l, c)' /\ Needed(j)' /\ Needed(l)' => j = l
      BY <3>1, <3>2, <1>5, <1>17
    <3> QED BY <3>5, <3>6
  <2> QED BY <2>1, <2>2 DEF BorrowsCover
<1>21. ASSUME phase' = "return"
       PROVE  ReturnedFree'
  <2>1. return_order \in Seq(DOMAIN blocks)
    BY DEF TypeInv, TypeOK
  (* A block that has a borrow to give back was not returned before. *)
  <2>2. ASSUME NEW q \in DOMAIN return_order, NEW c, c = return_order[q], len > 0
        PROVE  c # b
    <3>1. blocks[c].len > 0 => blocks[c].borrows = 0
      BY <2>2, <1>4 DEF ReturnedFree
    <3> QED BY <3>1, <2>2, <1>9, <1>11, <1>13
  <2>3. ASSUME NEW q \in DOMAIN return_order, NEW c, c = return_order[q]
        PROVE  /\ c > 1 /\ First(c)' /\ c \in DOMAIN blocks
               /\ blocks'[c].len > 0 =>
                    /\ blocks'[c].borrows = 0
                    /\ \A r \in DOMAIN return_order : return_order[r] = c => r = q
                    /\ \A j \in Task : At(j, c)' => ~ Needed(j)'
    <3>1. c \in DOMAIN blocks /\ c > 1 /\ First(c)
      BY <2>3, <1>4, Typed DEF ReturnedFree
    <3>2. blocks[c].len > 0 =>
            /\ blocks[c].borrows = 0
            /\ \A r \in DOMAIN return_order : return_order[r] = c => r = q
            /\ \A j \in Task : At(j, c) => ~ Needed(j)
      BY <2>3, <1>4 DEF ReturnedFree
    <3>3. blocks[c].len > 0 => c # b
      BY <2>2, <2>3, <1>11
    <3> QED BY <3>1, <3>2, <3>3, <1>5, <1>15, <1>16, <1>17
  <2>4. CASE UNCHANGED return_order
    BY <2>3, <2>4 DEF ReturnedFree
  <2>5. CASE n = 1 /\ return_order' = Append(return_order, b)
    <3>1. PICK w : w = return_order'
      OBVIOUS
    <3>2. PICK z : z = Len(return_order) + 1
      OBVIOUS
    <3>3. /\ DOMAIN w = DOMAIN return_order \cup {z} /\ z \notin DOMAIN return_order
          /\ w[z] = b
          /\ \A q \in DOMAIN return_order : w[q] = return_order[q]
      <4>1. PICK D : D = DOMAIN blocks
        OBVIOUS
      <4>2. PICK r : r = return_order
        OBVIOUS
      <4>3. r \in Seq(D) /\ b \in D /\ w = Append(r, b) /\ z = Len(r) + 1
        BY <2>1, <2>5, <3>1, <3>2, <4>1, <4>2
      <4>4. /\ DOMAIN w = DOMAIN r \cup {z} /\ z \notin DOMAIN r
            /\ w[z] = b
            /\ \A q \in DOMAIN r : w[q] = r[q]
        BY ONLY <4>3
      <4> QED BY <4>2, <4>4
    <3>4. b > 1
      <4>1. CASE b = 1
        <5>1. 1 > Cardinality(Left)
          BY <4>1, <2>5, <1>4, <1>9 DEF BorrowsCover
        <5>2. Cardinality(Left) \in Nat /\ Cardinality(Left) # 0
          BY <1>5, Counts
        <5> QED BY <5>1, <5>2
      <4> QED BY <4>1, Typed
    <3>5. ASSUME blocks'[b].len > 0
          PROVE  /\ blocks'[b].borrows = 0
                 /\ \A r \in DOMAIN w : w[r] = b => r = z
                 /\ \A j \in Task : At(j, b)' => ~ Needed(j)'
      <4>1. len > 0
        BY <3>5, <1>11, <1>15
      <4>2. blocks'[b].borrows = 0
        BY <2>5, <1>14, <1>15, <1>21
      <4>3. \A r \in DOMAIN w : w[r] = b => r = z
        BY <4>1, <3>3, <2>2
      <4>4. ASSUME NEW j \in Task, At(j, b)', Needed(j)'
            PROVE  FALSE
        <5>1. At(j, b) /\ Needed(j)
          BY <4>4, <1>5, <1>17
        <5>2. At(s, b) /\ edge \in LentBy(b)
          BY <3>4, <1>12
        <5>3. Needed(s) /\ edge \in EdgesFrom(s)
          BY <5>2, <1>5, Lender
        <5>4. Data(b)
          BY <3>4, <4>1, <1>7, <1>11 DEF Data
        <5>5. j = s
          BY <5>1, <5>2, <5>3, <5>4, <1>4, <1>8 DEF BorrowsCover
        <5>6. PICK e \in Left' : Source(e)' = j
          BY <4>4, <5>3, <5>5, <1>5 DEF Needed
        <5>7. e \in Left /\ e # edge /\ Source(e) = j
          BY <5>6, <1>5
        <5>8. e \in LentBy(b)
          BY <5>7, <5>1 DEF LentBy
        <5>9. Cardinality(LentBy(b)) <= 1
          BY <5>4, <2>5, <1>4, <1>9 DEF BorrowsCover
        <5>10. /\ Cardinality(LentBy(b) \ {edge}) = Cardinality(LentBy(b)) - 1
               /\ LentBy(b) \ {edge} \in SUBSET Edges
          BY <5>2, Counts
        <5>11. Cardinality(LentBy(b) \ {edge}) = 0
          BY <5>9, <5>10, Counts
        <5>12. LentBy(b) \ {edge} = {}
          BY <5>10, <5>11, Counts
        <5> QED BY <5>7, <5>8, <5>12
      <4> QED BY <4>2, <4>3, <4>4
    <3>6. First(b)'
      BY <1>7, <1>16
    <3>7. ASSUME NEW q \in DOMAIN w, NEW c, c = w[q]
          PROVE  /\ c > 1
                 /\ First(c)'
                 /\ blocks'[c].len > 0 =>
                      /\ blocks'[c].borrows = 0
                      /\ \A r \in DOMAIN w : w[r] = c => r = q
                      /\ \A j \in Task : At(j, c)' => ~ Needed(j)'
      <4>1. CASE q = z
        BY <4>1, <3>3, <3>4, <3>5, <3>6, <3>7
      <4>2. CASE q # z
        <5>1. q \in DOMAIN return_order /\ c = return_order[q]
          BY <4>2, <3>3, <3>7
        <5>2. /\ c > 1 /\ First(c)' /\ c \in DOMAIN blocks
              /\ blocks'[c].len > 0 =>
                   /\ blocks'[c].borrows = 0
                   /\ \A r \in DOMAIN return_order : return_order[r] = c => r = q
                   /\ \A j \in Task : At(j, c)' => ~ Needed(j)'
          BY <5>1, <2>3
        <5>3. blocks'[c].len > 0 => c # b
          <6>1. CASE len > 0
            BY <5>1, <6>1, <2>2
          <6>2. CASE ~ (len > 0)
            BY <6>2, <1>11, <1>15
          <6> QED BY <6>1, <6>2
        <5> QED BY <5>2, <5>3, <3>3
      <4> QED BY <4>1, <4>2
    <3> QED BY <3>1, <3>7 DEF ReturnedFree
  <2> QED BY <2>4, <2>5, <1>9, <1>21 DEF ReturnBorrow, NoBorrowLeft, IndexOf
<1>22. ASSUME \A i \in Task : outputs'[i] > 0
       PROVE  phase' = "return"
  <2>1. \A i \in Task : outputs[i] > 0
    BY <1>22, <1>5
  <2>2. b > 1 => len > 0
    BY <2>1, <1>4, <1>11 DEF BlocksLaid
  <2>3. b = 1 \/ len > 0
    BY <2>2, Typed
  <2> QED BY <2>3, <1>13, <1>14
<1>23. Fitted' /\ Unspoilt' /\ UnreadOutputsKept' /\ AllocatorSucceeds'
  BY <1>3, <1>22 DEF Fitted, Unspoilt, UnreadOutputsKept, AllocatorSucceeds
<1> QED BY <1>3, <1>16, <1>18, <1>19, <1>20, <1>21, <1>23 DEF BuffersInv, Lending

LEMMA NextTaskKeeps ==
  ASSUME TypeInv, BuffersInv, NextTask
  PROVE  BuffersInv'
PROOF
<1>1. /\ phase = "return" /\ phase' = "get" /\ task' = task + 1 /\ slot' = slot
      /\ UNCHANGED graph /\ UNCHANGED <<allocator, node_output>>
      /\ slot \notin DOMAIN reads[task]
  BY DEF NextTask
<1>2. BlocksLaid /\ Placed /\ BorrowsCover /\ ReturnedFree /\ KeptApart
  BY <1>1 DEF BuffersInv, Lending
<1>3. task \in Task /\ task \in Nat /\ \A i \in Task : i \in Nat
  BY <1>1, Typed, TasksAssumption DEF TypeInv, Task
<1>4. Edges' = Edges
  BY <1>1, GraphKept
<1>5. ASSUME NEW e \in Edges
      PROVE  e \in Left' <=> e \in Left
  <2>1. e[1] \in Task /\ e[2] \in DOMAIN reads[e[1]] /\ DOMAIN reads[e[1]] = 1..Len(reads[e[1]])
        /\ Len(reads[e[1]]) \in Nat
    BY SourceTyped DEF TypeInv
  <2>2. e[1] = task => e[2] < slot
    <3> SUFFICES ASSUME e[1] = task PROVE e[2] < slot
      OBVIOUS
    <3>1. PICK m : m = Len(reads[task])
      OBVIOUS
    <3>2. e[2] \in 1..m /\ slot \notin 1..m /\ m \in Nat /\ slot \in Nat \ {0}
      BY <1>1, <2>1, <3>1, Typed
    <3> QED BY ONLY <3>2
  <2>3. e[1] \in Nat
    BY <2>1, <1>3
  <2>4. e \in Left <=> ~ (e[1] < task \/ (e[1] = task /\ e[2] < slot))
    BY <1>1 DEF Left
  <2>5. e \in Left' <=> ~ (e[1] < task + 1)
    BY <1>1, <1>4 DEF Left
  <2>6. e[1] < task + 1 <=> e[1] < task \/ e[1] = task
    BY <2>3, <1>3
  <2> QED BY <2>2, <2>4, <2>5, <2>6
<1>6. Left' = Left
  BY <1>4, <1>5 DEF Left
<1>7. Assigned' = Assigned
  <2>1. \A j \in Task : j < task + 1 <=> j < task \/ j = task
    BY <1>3
  <2>2. Assigned = {j \in Task : j < task \/ j = task}
    BY <1>1 DEF Assigned
  <2>3. Assigned' = {j \in Task : j < task + 1}
    BY <1>1 DEF Assigned
  <2> QED BY <2>1, <2>2, <2>3
<1>8. /\ \A j : EdgesFrom(j)' = EdgesFrom(j)
      /\ \A j : Needed(j)' => Needed(j)
      /\ \A e : Source(e)' = Source(e)
      /\ UNCHANGED <<blocks, return_order, node_output, outputs,
                     next_free_pos, virtual_allocation_size>>
  BY <1>1, <1>6, GraphKept DEF Needed, graph, allocator
<1>9. Placed' /\ BorrowsCover' /\ ReturnedFree'
  BY <1>2, <1>6, <1>7, <1>8, LessLeft
<1>10. KeptApart'
  BY <1>2, <1>7, <1>8, ApartKept
<1>11. BlocksLaid'
  BY <1>2, <1>8 DEF BlocksLaid
<1>12. Fitted' /\ Unspoilt' /\ UnreadOutputsKept' /\ AllocatorSucceeds'
  BY <1>1, NotRunning
<1> QED BY <1>9, <1>10, <1>11, <1>12 DEF BuffersInv, Lending

-----------------------------------------------------------------------------
(***************************************************************************)
(* The allocation is made and a block of audio runs in it.                 *)
(***************************************************************************)

(* Every offset is in the allocation, which is no smaller than what the    *)
(* blocks take up.                                                         *)
LEMMA FinishKeeps ==
  ASSUME TypeInv, BuffersInv, FinishAssigning
  PROVE  BuffersInv'
PROOF
<1>1. /\ phase = "get" /\ phase' \in {"run", "unconverted"} /\ task' = 1
      /\ UNCHANGED graph /\ UNCHANGED allocator /\ task > NumTasks
  BY DEF FinishAssigning
<1>2. BlocksLaid /\ Placed /\ KeptApart
  BY <1>1 DEF BuffersInv, Lending
<1>3. UNCHANGED <<blocks, outputs, next_free_pos, virtual_allocation_size>>
  BY <1>1 DEF graph, allocator
<1>4. Assigned = Task /\ Assigned' = Task
  BY <1>1, Typed, TasksAssumption DEF Assigned, Task
<1>5. allocation' \in Nat /\ virtual_allocation_size <= allocation'
  <2>1. allocation' = IF virtual_allocation_size <= allocation
                      THEN allocation ELSE virtual_allocation_size
    BY DEF FinishAssigning
  <2> QED BY <2>1, Typed
<1>6. ASSUME NEW j \in Task
      PROVE  /\ node_output[j].at >= 1
             /\ node_output[j].at + outputs[j] <= allocation'
  <2>1. PICK b \in DOMAIN blocks : b > 1 /\ At(j, b) /\ outputs[j] <= blocks[b].len
    BY <1>2, <1>4 DEF Placed
  <2>2. node_output[j].at = blocks[b].start
    BY <2>1 DEF At, Offset
  <2>3. blocks[b].start + blocks[b].len <= next_free_pos /\ next_free_pos <= virtual_allocation_size
    BY <1>2 DEF BlocksLaid
  <2>4. blocks[b].start >= 1
    <3>1. 1 \in DOMAIN blocks /\ 1 < b
      BY <2>1, <1>2, Typed DEF BlocksLaid
    <3>2. blocks[1].start = 0 /\ blocks[1].len = 1
      BY <1>2 DEF BlocksLaid
    <3>3. blocks[1].start + blocks[1].len <= blocks[b].start
      BY <2>1, <3>1, <1>2 DEF BlocksLaid
    <3> QED BY <2>1, <3>2, <3>3, Typed
  <2>5. PICK s : s = blocks[b].start
    OBVIOUS
  <2>6. PICK l : l = blocks[b].len
    OBVIOUS
  <2>7. /\ s \in Nat /\ l \in Nat /\ outputs[j] \in Nat
        /\ next_free_pos \in Nat /\ virtual_allocation_size \in Nat
    BY <2>5, <2>6, Typed
  <2>8. s + outputs[j] <= allocation'
    BY <2>1, <2>3, <2>5, <2>6, <2>7, <1>5
  <2> QED BY <2>2, <2>4, <2>5, <2>8
<1>7. node_output' = [i \in Task |-> IF node_output[i].at < allocation'
                                     THEN Pointer(node_output[i].at) ELSE node_output[i]]
  BY DEF FinishAssigning
<1>8. \A j \in Task : node_output'[j].at = node_output[j].at
  BY <1>7 DEF Pointer
<1>9. KeptApart'
  <2>1. \A j : EdgesFrom(j)' = EdgesFrom(j)
    BY <1>1, GraphKept
  <2> QED BY <2>1, <1>2, <1>3, <1>4, <1>8, ApartKept
<1>10. BlocksLaid'
  BY <1>2, <1>3 DEF BlocksLaid
<1>11. Fitted'
  <2>1. memory' = [n \in 0..(allocation' - 1) |-> 0]
    BY DEF FinishAssigning
  <2>2. allocation' >= 1
    <3>1. /\ 1 \in DOMAIN blocks /\ blocks[1].start = 0 /\ blocks[1].len = 1
          /\ blocks[1].start + blocks[1].len <= next_free_pos
          /\ next_free_pos <= virtual_allocation_size
      BY <1>2, Typed DEF BlocksLaid
    <3>2. 1 <= next_free_pos
      BY <3>1
    <3> QED BY <3>1, <3>2, <1>5, Typed
  <2>3. DOMAIN memory' = 0..(allocation' - 1) /\ memory'[0] = 0
    <3>1. PICK a : a = allocation'
      OBVIOUS
    <3>2. a \in Nat /\ a >= 1
      BY <3>1, <2>2, <1>5
    <3>3. 0 \in 0..(a - 1)
      BY ONLY <3>2
    <3> QED BY <3>1, <3>3, <2>1
  <2> QED BY <2>2, <2>3, <1>3, <1>6, <1>8 DEF Fitted
<1>12. Unspoilt'
  BY <1>1, TasksAssumption DEF Unspoilt, Task
<1>13. UnreadOutputsKept'
  BY <1>1 DEF UnreadOutputsKept
<1>14. AllocatorSucceeds'
  <2> SUFFICES ASSUME \A i \in Task : outputs[i] > 0
               PROVE  phase' = "run"
    BY <1>3 DEF AllocatorSucceeds
  <2>1. ASSUME NEW j \in Task
        PROVE  node_output'[j].kind = "pointer"
    <3>1. node_output[j].at < allocation'
      <4>1. PICK a : a = node_output[j].at
        OBVIOUS
      <4>2. a \in Nat /\ outputs[j] \in Nat /\ outputs[j] > 0 /\ a + outputs[j] <= allocation'
        BY <4>1, <1>6, Typed
      <4> QED BY <4>1, <4>2, <1>5
    <3> QED BY <3>1, <1>7 DEF Pointer
  <2>2. phase' = IF \A i \in Task : node_output'[i].kind = "pointer" THEN "run" ELSE "unconverted"
    BY DEF FinishAssigning
  <2> QED BY <2>1, <2>2
<1>15. Lending'
  BY <1>1 DEF Lending
<1> QED BY <1>9, <1>10, <1>11, <1>12, <1>13, <1>14, <1>15 DEF BuffersInv

(* A task writes over nothing that a later one reads. *)
LEMMA RunKeeps ==
  ASSUME TypeInv, BuffersInv, RunTask
  PROVE  BuffersInv'
PROOF
<1>1. PICK t : t = task
  OBVIOUS
<1>2. /\ phase = "run" /\ phase' = "run" /\ task' = t + 1 /\ t \in Task
      /\ UNCHANGED graph /\ UNCHANGED <<allocator, allocation, node_output>>
  BY <1>1, Typed, TasksAssumption DEF RunTask, Task
<1>3. BlocksLaid /\ KeptApart /\ Fitted /\ Unspoilt
  BY DEF BuffersInv
<1>4. /\ UNCHANGED <<blocks, outputs, next_free_pos, virtual_allocation_size>>
      /\ \A j : EdgesFrom(j)' = EdgesFrom(j)
  BY <1>2, GraphKept DEF graph, allocator
<1>5. Assigned = Task /\ Assigned' = Task
  BY <1>2 DEF Assigned, Task
<1>6. KeptApart' /\ \A j \in Task : Units(j)' = Units(j)
  BY <1>2, <1>3, <1>4, <1>5, ApartKept
<1>7. memory' = [n \in DOMAIN memory |-> IF n \in Units(t) THEN t ELSE memory[n]]
  BY <1>1 DEF RunTask
<1>8. /\ \A j \in Task : node_output[j].at >= 1 /\ node_output[j].at + outputs[j] <= allocation
      /\ DOMAIN memory = 0..(allocation - 1)
      /\ allocation >= 1
      /\ memory[0] = 0
  BY <1>2, <1>3 DEF Fitted
<1>9. Fitted'
  <2>1. 0 \notin Units(t)
    BY <1>2, <1>8, Typed DEF Units
  <2>2. 0 \in DOMAIN memory
    BY <1>8, Typed
  <2>3. memory'[0] = 0
    BY <2>1, <2>2, <1>7, <1>8
  <2>4. DOMAIN memory' = 0..(allocation - 1)
    BY <1>7, <1>8
  <2> QED BY <2>3, <2>4, <1>2, <1>4, <1>8 DEF Fitted
<1>10. Unspoilt'
  <2> SUFFICES ASSUME NEW j \in Task, j < t + 1, ReadFrom(j, t + 1)
               PROVE  \A n \in Units(j) : memory'[n] = j
    <3>1. ASSUME NEW j \in Task, j < task', ReadFrom(j, task)'
          PROVE  Holds(j)'
      <4>1. j < t + 1 /\ ReadFrom(j, t + 1)
        BY <3>1, <1>2, <1>4 DEF ReadFrom
      <4>2. \A n \in Units(j) : memory'[n] = j
        BY <4>1
      <4> QED BY <4>2, <1>6 DEF Holds
    <3> QED BY <3>1 DEF Unspoilt
  <2>1. t \in Nat /\ j \in Nat
    BY <1>2, TasksAssumption DEF Task
  <2>2. Units(j) \subseteq DOMAIN memory
    <3>1. PICK a : a = node_output[j].at
      OBVIOUS
    <3>2. PICK o : o = outputs[j]
      OBVIOUS
    <3>3. a \in Nat /\ o \in Nat /\ a + o <= allocation /\ allocation \in Nat
      BY <3>1, <3>2, <1>8, Typed
    <3>4. a .. (a + o - 1) \subseteq 0..(allocation - 1)
      BY <3>3
    <3> QED BY <3>1, <3>2, <3>4, <1>8 DEF Units
  <2>3. CASE j = t
    BY <2>2, <2>3, <1>7
  <2>4. CASE j < t
    <3>1. ReadFrom(j, t)
      <4>1. \A e \in EdgesFrom(j) : e[1] >= t + 1 => e[1] >= t
        <5> SUFFICES ASSUME NEW e \in EdgesFrom(j), e[1] >= t + 1 PROVE e[1] >= t
          OBVIOUS
        <5>1. e[1] \in Task
          BY SourceTyped DEF EdgesFrom, TypeInv
        <5>2. e[1] \in Nat
          BY <5>1, TasksAssumption DEF Task
        <5> QED BY <5>2, <2>1
      <4> QED BY <4>1 DEF ReadFrom
    <3>2. Units(j) \cap Units(t) = {}
      BY <2>4, <3>1, <1>2, <1>3, <1>5 DEF KeptApart, Overwrites
    <3>3. \A n \in Units(j) : memory[n] = j
      BY <2>4, <3>1, <1>1, <1>2, <1>3 DEF Unspoilt, Holds
    <3> QED BY <3>2, <3>3, <2>2, <1>7
  <2> QED BY <2>1, <2>3, <2>4
<1>11. BlocksLaid'
  BY <1>3, <1>4 DEF BlocksLaid
<1>12. Lending' /\ UnreadOutputsKept' /\ AllocatorSucceeds'
  BY <1>2 DEF Lending, UnreadOutputsKept, AllocatorSucceeds
<1> QED BY <1>6, <1>9, <1>10, <1>11, <1>12 DEF BuffersInv

LEMMA CopyKeeps ==
  ASSUME TypeInv, BuffersInv, NEW j \in Task, CopyOutput(j)
  PROVE  BuffersInv'
PROOF
<1>1. /\ phase = "run" /\ phase' = "copied" /\ copied' = j /\ task > NumTasks
      /\ UNCHANGED graph /\ UNCHANGED <<allocator, allocation, node_output, memory>>
  BY DEF CopyOutput
<1>2. BlocksLaid /\ KeptApart /\ Fitted /\ Unspoilt
  BY DEF BuffersInv
<1>3. /\ UNCHANGED <<blocks, outputs, next_free_pos, virtual_allocation_size>>
      /\ \A i : EdgesFrom(i)' = EdgesFrom(i)
  BY <1>1, GraphKept DEF graph, allocator
<1>4. Assigned = Task /\ Assigned' = Task
  BY <1>1 DEF Assigned, Task
<1>5. KeptApart' /\ \A i \in Task : Units(i)' = Units(i)
  BY <1>1, <1>2, <1>3, <1>4, ApartKept
<1>6. Fitted'
  BY <1>1, <1>2, <1>3 DEF Fitted
<1>7. UnreadOutputsKept'
  <2> SUFFICES ASSUME EdgesFrom(j) = {}
               PROVE  \A n \in Units(j) : memory[n] = j
    BY <1>1, <1>3, <1>5 DEF UnreadOutputsKept, Holds
  <2>1. j < task /\ ReadFrom(j, task)
    BY <1>1, TasksAssumption, Typed DEF ReadFrom, Task
  <2> QED BY <2>1, <1>1, <1>2 DEF Unspoilt, Holds
<1>8. BlocksLaid'
  BY <1>2, <1>3 DEF BlocksLaid
<1>9. Lending' /\ Unspoilt' /\ AllocatorSucceeds'
  BY <1>1 DEF Lending, Unspoilt, AllocatorSucceeds
<1> QED BY <1>5, <1>6, <1>7, <1>8, <1>9 DEF BuffersInv

LEMMA StutterKeeps ==
  ASSUME BuffersInv, UNCHANGED vars
  PROVE  BuffersInv'
PROOF
<1>1. UNCHANGED graph /\ UNCHANGED <<reads, outputs, blocks, return_order, next_free_pos,
         virtual_allocation_size, allocation, phase, task, slot, node_output, memory, copied>>
  BY DEF vars, graph, allocator
<1>2. /\ Edges' = Edges
      /\ \A j : EdgesFrom(j)' = EdgesFrom(j)
      /\ \A e : Source(e)' = Source(e)
  BY <1>1, GraphKept
<1>3. Left' = Left /\ Assigned' = Assigned
  BY <1>1, <1>2 DEF Left, Assigned
<1>4. /\ \A j, b : At(j, b)' <=> At(j, b)
      /\ \A j : Needed(j)' <=> Needed(j)
      /\ \A b : First(b)' <=> First(b)
      /\ \A b : Data(b)' <=> Data(b)
  BY <1>1, <1>2, <1>3 DEF At, Needed, First, Data, Offset
<1>5. \A b : LentBy(b)' = LentBy(b)
  BY <1>1, <1>2, <1>3 DEF LentBy, At, Offset, Source
<1>6. \A j : Units(j)' = Units(j) /\ (Holds(j)' <=> Holds(j))
  BY <1>1 DEF Units, Holds
<1>7. \A j, l : ReadFrom(j, l)' <=> ReadFrom(j, l)
  BY <1>2 DEF ReadFrom
<1>8. BlocksLaid' /\ Fitted' /\ AllocatorSucceeds'
  BY <1>1 DEF BuffersInv, BlocksLaid, Fitted, AllocatorSucceeds
<1>9. Lending'
  <2>1. Placed => Placed'
    BY <1>1, <1>3, <1>4 DEF Placed
  <2>2. BorrowsCover => BorrowsCover'
    BY <1>1, <1>3, <1>4, <1>5 DEF BorrowsCover
  <2>3. ReturnedFree => ReturnedFree'
    <3> SUFFICES ASSUME ReturnedFree PROVE ReturnedFree'
      OBVIOUS
    <3>1. ASSUME NEW q \in DOMAIN return_order, NEW c, c = return_order[q]
          PROVE  /\ c > 1
                 /\ First(c)'
                 /\ blocks[c].len > 0 =>
                      /\ blocks[c].borrows = 0
                      /\ \A r \in DOMAIN return_order : return_order[r] = c => r = q
                      /\ \A j \in Task : At(j, c)' => ~ Needed(j)'
      BY <3>1, <1>4 DEF ReturnedFree
    <3> QED BY <3>1, <1>1 DEF ReturnedFree
  <2> QED BY <2>1, <2>2, <2>3, <1>1 DEF BuffersInv, Lending
<1>10. KeptApart'
  BY <1>3, <1>6, <1>7 DEF BuffersInv, KeptApart, Overwrites
<1>11. Unspoilt'
  <2> SUFFICES ASSUME phase = "run", NEW j \in Task, j < task, ReadFrom(j, task)'
               PROVE  Holds(j)
    BY <1>1, <1>6 DEF Unspoilt
  <2>1. ReadFrom(j, task)
    BY <1>1, <1>2 DEF ReadFrom
  <2> QED BY <2>1 DEF BuffersInv, Unspoilt
<1>12. UnreadOutputsKept'
  <2> SUFFICES ASSUME phase = "copied", NEW j, j = copied, EdgesFrom(j) = {}
               PROVE  Holds(j)'
    BY <1>1, <1>2 DEF UnreadOutputsKept, Holds, Units
  <2> QED BY <1>6 DEF BuffersInv, UnreadOutputsKept
<1> QED BY <1>8, <1>9, <1>10, <1>11, <1>12 DEF BuffersInv

-----------------------------------------------------------------------------
(* What the edges are does not change, and they are fewer than usize::MAX: *)
(* every invariant below is about such a graph.                            *)
LEMMA NextBuffers ==
  ASSUME TypeInv, BuffersInv, [Next]_vars
  PROVE  BuffersInv'
PROOF
<1>1. ASSUME NEW p \in DOMAIN return_order, ReuseBlock(p)
      PROVE  BuffersInv'
  BY <1>1, ReuseKeeps
<1>2. ASSUME NEW b \in DOMAIN blocks, ReturnBorrow(b)
      PROVE  BuffersInv'
  BY <1>2, ReturnBorrowKeeps
<1>3. ASSUME NEW j \in Task, CopyOutput(j)
      PROVE  BuffersInv'
  BY <1>3, CopyKeeps
<1> QED BY <1>1, <1>2, <1>3, AssignKeeps, ReturnNothingKeeps, NextTaskKeeps, FinishKeeps,
           RunKeeps, StutterKeeps DEF Next

LEMMA EdgesStay ==
  ASSUME [Next]_vars
  PROVE  FewEdges' <=> FewEdges
PROOF
<1>1. UNCHANGED graph
  BY DEF Next, ReuseBlock, AssignNewBlock, GetBlock, ReturnNothing, ReturnBorrow, Returning,
         NextTask, FinishAssigning, RunTask, CopyOutput, vars
<1> QED BY <1>1, GraphKept DEF FewEdges

(* The counts of borrows cover the edges that are left, block by block.    *)
(* FewEdges is no restriction of the code: each edge takes up memory, and  *)
(* the empty channel starts with usize::MAX borrows so that no number of   *)
(* returns uses them up.                                                   *)
THEOREM BuffersInvariance == Spec => [](FewEdges => BuffersInv)
PROOF
<1> DEFINE Inv == TypeInv /\ (FewEdges => BuffersInv)
<1>1. Init => Inv
  BY InitTyped, InitBuffers
<1>2. Inv /\ [Next]_vars => Inv'
  <2> SUFFICES ASSUME Inv, [Next]_vars PROVE Inv'
    OBVIOUS
  <2>1. TypeInv'
    BY NextTyped
  <2>2. FewEdges' => BuffersInv'
    BY NextBuffers, EdgesStay
  <2> QED BY <2>1, <2>2
<1>3. Inv => (FewEdges => BuffersInv)
  OBVIOUS
<1> QED BY <1>1, <1>2, <1>3, PTL DEF Spec

(* A task reads what its sources wrote in the same block of audio, however *)
(* the buffers are reused (get_block, return_block), an output of the      *)
(* graph that nothing reads is copied as it was written, and the channel   *)
(* of the missing inputs stays zero.                                       *)
THEOREM DataIsKept == Spec => [](FewEdges => DataKept)
PROOF
<1>1. TypeOK /\ BuffersInv => DataKept
  <2> SUFFICES ASSUME TypeOK, BuffersInv PROVE DataKept
    OBVIOUS
  <2>1. ReadsFresh
    <3> SUFFICES ASSUME phase = "run", task <= NumTasks, NEW j \in SourcesBefore(task)
                 PROVE  Holds(j)
      BY DEF ReadsFresh
    <3>1. PICK k \in DOMAIN reads[task] : j = reads[task][k]
      BY DEF SourcesBefore
    <3>2. j \in 1..(task - 1) /\ task \in Task
      BY TasksAssumption DEF SourcesBefore, TypeOK, Task
    <3>3. j \in Task /\ j < task /\ task \in Nat
      BY <3>2, TasksAssumption DEF Task
    <3>4. PICK e : e = <<task, k>>
      OBVIOUS
    <3>5. e \in EdgesFrom(j) /\ e[1] >= task
      BY <3>1, <3>2, <3>3, <3>4 DEF EdgesFrom, Edges
    <3>6. ReadFrom(j, task)
      BY <3>5 DEF ReadFrom
    <3> QED BY <3>3, <3>6 DEF BuffersInv, Unspoilt
  <2>2. EmptyStaysZero
    BY DEF BuffersInv, Fitted, EmptyStaysZero
  <2> QED BY <2>1, <2>2 DEF BuffersInv, DataKept
<1> QED BY <1>1, BuffersTyped, BuffersInvariance, PTL

(* No task writes outside the allocation, and unless a node has no outputs *)
(* no count of borrows falls below zero (return_block) and every node has  *)
(* a buffer when its task is made (offset_to_ptr).                         *)
THEOREM AllocationIsEnough == Spec => [](FewEdges => AllocationFits)
PROOF
<1>1. TypeInv /\ BuffersInv => AllocationFits
  <2> SUFFICES ASSUME TypeInv, BuffersInv PROVE AllocationFits
    OBVIOUS
  <2>1. InsideAllocation
    <3> SUFFICES ASSUME phase = "run", NEW j \in Task
                 PROVE  Units(j) \subseteq DOMAIN memory
      BY DEF InsideAllocation
    <3>1. PICK a : a = node_output[j].at
      OBVIOUS
    <3>2. PICK o : o = outputs[j]
      OBVIOUS
    <3>3. /\ a \in Nat /\ o \in Nat /\ a + o <= allocation /\ allocation \in Nat
          /\ DOMAIN memory = 0..(allocation - 1)
      BY <3>1, <3>2, Typed DEF BuffersInv, Fitted
    <3>4. a .. (a + o - 1) \subseteq 0..(allocation - 1)
      BY <3>3
    <3> QED BY <3>1, <3>2, <3>3, <3>4 DEF Units
  <2> QED BY <2>1 DEF BuffersInv, AllocationFits
<1>2. Init => TypeInv
  BY InitTyped
<1>3. TypeInv /\ [Next]_vars => TypeInv'
  BY NextTyped
<1> QED BY <1>1, <1>2, <1>3, BuffersInvariance, PTL DEF Spec
=============================================================================
