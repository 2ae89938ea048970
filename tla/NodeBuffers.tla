----------------------------- MODULE NodeBuffers ----------------------------
(***************************************************************************)
(* The buffers of a graph: BufferAllocator, Graph::allocate_node_buffers   *)
(* and the block of the audio thread that runs in them (knaster_graph:     *)
(* buffer_allocator.rs, graph.rs, graph_gen.rs).                           *)
(*                                                                         *)
(* A task has the number of its place in the node order.  A block of the   *)
(* allocator is lent to the edges that read from the task that was given   *)
(* it; when the last of them has been returned, a later task may be given  *)
(* the same block.                                                         *)
(*                                                                         *)
(* One channel is one unit of memory.  What a unit holds is the number of  *)
(* the task that wrote it in this block of audio, 0 if none has.           *)
(***************************************************************************)
EXTENDS Integers, Sequences, FiniteSets

CONSTANTS
  NumTasks,       \* the nodes in the order are numbered 1..NumTasks
  Reads,          \* what the tasks may read: a list of sources each, 0 for none
  Channels,       \* the numbers of outputs that a task may have
  Capacity,       \* the units in the allocation the Graph has so far
  UsizeMax        \* usize::MAX

Task == 1..NumTasks

ASSUME TasksAssumption == NumTasks \in Nat
ASSUME ReadsAssumption == Reads \subseteq [Task -> Seq(0..NumTasks)]
ASSUME ChannelsAssumption == Channels \subseteq Nat
ASSUME CapacityAssumption == Capacity \in Nat \ {0}
ASSUME UsizeMaxAssumption == UsizeMax \in Nat \ {0}

VARIABLES
  (* The graph. *)
  reads,              \* node_input_edges, then node_parameter_edges, of each task
  outputs,            \* data.outputs

  (* The BufferAllocator. *)
  blocks,             \* allocated_blocks
  return_order,
  next_free_pos,
  virtual_allocation_size,
  allocation,         \* the length of `buffer`

  (* The calculation and the block of audio. *)
  phase, task, slot,
  node_output,        \* of each node: an offset or a pointer
  memory,
  copied              \* the task that an output of the graph has been copied from

graph == <<reads, outputs>>
allocator == <<blocks, return_order, next_free_pos, virtual_allocation_size>>
vars == <<graph, allocator, allocation, phase, task, slot, node_output, memory, copied>>

-----------------------------------------------------------------------------
(* The edges, and those that read from a task. *)
Edges == UNION {{<<i, k>> : k \in DOMAIN reads[i]} : i \in Task}
EdgesFrom(j) == {e \in Edges : reads[e[1]][e[2]] = j}

(* num_output_dependents.  The edges to the outputs of the graph are not   *)
(* counted.                                                                *)
OneDependent(j) == IF EdgesFrom(j) = {} THEN 0 ELSE 1        \* mutant: a node read twice counts once

NumOutputDependents(j) == Cardinality(EdgesFrom(j))

(* A connection is from an output that exists.  Its task may run after the *)
(* one that reads it, or be the same, since the order of the nodes is not  *)
(* always topological: what is read then is from the block before.  A      *)
(* feedback connection goes through two nodes that have one input and no   *)
(* output each, since both are FeedbackSinks: the source reads nothing and *)
(* is read once.                                                           *)
FromOutput(j) == outputs[j] > 0
FromFeedbackSource(j) == outputs[j] = 0 /\ reads[j] = <<>> /\ Cardinality(EdgesFrom(j)) = 1

WellFormed ==
  \A i \in Task : \A k \in DOMAIN reads[i] :
    reads[i][k] # 0 => FromOutput(reads[i][k]) \/ FromFeedbackSource(reads[i][k])

Offset(n)  == [kind |-> "offset", at |-> n]
Pointer(n) == [kind |-> "pointer", at |-> n]

(* BufferAllocator::reset: one channel that stays zero, never returned.    *)
EmptyChannel == [start |-> 0, len |-> 1, borrows |-> UsizeMax]

Init ==
  /\ reads \in Reads
  /\ outputs \in [Task -> Channels]
  /\ WellFormed
  /\ blocks = <<EmptyChannel>>
  /\ return_order = <<>>
  /\ next_free_pos = 1
  /\ virtual_allocation_size = 1
  /\ allocation = Capacity
  /\ phase = "get"
  /\ task = 1
  /\ slot = 1
  /\ node_output \in [Task -> {Offset(0), Pointer(0)}]      \* new nodes and others
  /\ memory = <<>>
  /\ copied = 0

-----------------------------------------------------------------------------
(* BufferAllocator::get_block: the block returned last that is long enough *)
(* is lent again, to as many edges as read from the task.                  *)
LongEnough(len) == len >= outputs[task]

Usable(p) ==
  LET block == blocks[return_order[p]]
  IN  block.borrows = 0 /\ LongEnough(block.len)

GetBlock ==
  /\ phase = "get"
  /\ task <= NumTasks
  /\ phase' = "return"
  /\ slot' = 1
  /\ UNCHANGED <<graph, allocation, task, memory, copied>>

ReuseBlock(p) ==
  /\ GetBlock
  /\ Usable(p)
  /\ \A q \in DOMAIN return_order : Usable(q) => q <= p
  /\ blocks' = [blocks EXCEPT ![return_order[p]].borrows = NumOutputDependents(task)]
  /\ return_order' = SubSeq(return_order, 1, p - 1)
                       \o SubSeq(return_order, p + 1, Len(return_order))
  /\ node_output' = [node_output EXCEPT ![task] = Offset(blocks[return_order[p]].start)]
  /\ UNCHANGED <<next_free_pos, virtual_allocation_size>>

(* BufferAllocator::assign_new_block. *)
SizeBefore == next_free_pos                                  \* mutant: without the new block

SizeAfter == next_free_pos + outputs[task]

AssignNewBlock ==
  /\ GetBlock
  /\ \A p \in DOMAIN return_order : ~ Usable(p)
  /\ blocks' = Append(blocks, [start |-> next_free_pos, len |-> outputs[task],
                                borrows |-> NumOutputDependents(task)])
  /\ next_free_pos' = next_free_pos + outputs[task]
  /\ virtual_allocation_size' = IF SizeAfter > virtual_allocation_size
                                 THEN SizeAfter ELSE virtual_allocation_size
  /\ node_output' = [node_output EXCEPT ![task] = Offset(next_free_pos)]
  /\ UNCHANGED return_order

(* BufferAllocator::return_block: the first block that starts at the       *)
(* offset.  A source whose buffer is still the pointer of the schedule     *)
(* before this one runs later, and returns nothing.                        *)
Returning ==
  /\ phase = "return"
  /\ slot \in DOMAIN reads[task]
  /\ slot' = slot + 1
  /\ UNCHANGED <<graph, allocation, next_free_pos, virtual_allocation_size, task, node_output,
                 memory, copied>>

LentAt(b) == reads[task][slot] # 0 /\ node_output[reads[task][slot]] = Offset(blocks[b].start)

ReturnNothing ==
  /\ Returning
  /\ \A b \in DOMAIN blocks : ~ LentAt(b)
  /\ UNCHANGED <<blocks, return_order, phase>>

StartOf(b) == blocks[b].start                                \* mutant: the offset, not the index

IndexOf(b) == b

NoBorrowLeft(borrows) == borrows = 1

ReturnBorrow(b) ==
  /\ Returning
  /\ LentAt(b)
  /\ \A c \in 1..(b - 1) : ~ LentAt(c)
  /\ \/ /\ blocks[b].borrows > 0
        /\ blocks' = [blocks EXCEPT ![b].borrows = @ - 1]
        /\ return_order' = IF NoBorrowLeft(blocks[b].borrows)
                           THEN Append(return_order, IndexOf(b)) ELSE return_order
        /\ UNCHANGED phase
     \/ /\ blocks[b].borrows = 0       \* usize wraps in a release build
        /\ blocks' = [blocks EXCEPT ![b].borrows = UsizeMax]
        /\ UNCHANGED <<return_order, phase>>
     \/ /\ blocks[b].borrows = 0       \* and panics in a debug build
        /\ phase' = "underflow"
        /\ UNCHANGED <<blocks, return_order>>

NextTask ==
  /\ phase = "return"
  /\ slot \notin DOMAIN reads[task]
  /\ task' = task + 1
  /\ phase' = "get"
  /\ UNCHANGED <<graph, allocator, allocation, slot, node_output, memory, copied>>

-----------------------------------------------------------------------------
(* finished_assigning_make_allocation, then swap_offset_to_ptr of every    *)
(* node.  A node whose offset is not in the allocation keeps it, and       *)
(* make_task panics.                                                       *)
FinishAssigning ==
  /\ phase = "get"
  /\ task > NumTasks
  /\ allocation' = IF virtual_allocation_size <= allocation
                   THEN allocation ELSE virtual_allocation_size
  /\ node_output' = [i \in Task |-> IF node_output[i].at < allocation'
                                    THEN Pointer(node_output[i].at) ELSE node_output[i]]
  /\ phase' = IF \A i \in Task : node_output'[i].kind = "pointer" THEN "run" ELSE "unconverted"
  /\ task' = 1
  /\ memory' = [n \in 0..(allocation' - 1) |-> 0]
  /\ UNCHANGED <<graph, allocator, slot, copied>>

(* Task::run: the outputs are written over what the block held. *)
Units(j) == node_output[j].at .. (node_output[j].at + outputs[j] - 1)

RunTask ==
  /\ phase = "run"
  /\ task <= NumTasks
  /\ memory' = [n \in DOMAIN memory |-> IF n \in Units(task) THEN task ELSE memory[n]]
  /\ task' = task + 1
  /\ UNCHANGED <<graph, allocator, allocation, phase, slot, node_output, copied>>

(* After the tasks, the outputs of the graph are copied.  Nothing before   *)
(* depends on which they are: an edge to an output borrows nothing.        *)
CopyOutput(j) ==
  /\ phase = "run"
  /\ task > NumTasks
  /\ outputs[j] > 0
  /\ copied' = j
  /\ phase' = "copied"
  /\ UNCHANGED <<graph, allocator, allocation, task, slot, node_output, memory>>

Next ==
  \/ \E p \in DOMAIN return_order : ReuseBlock(p)
  \/ AssignNewBlock
  \/ ReturnNothing
  \/ \E b \in DOMAIN blocks : ReturnBorrow(b)
  \/ NextTask \/ FinishAssigning \/ RunTask
  \/ \E j \in Task : CopyOutput(j)

Spec == Init /\ [][Next]_vars

-----------------------------------------------------------------------------
(***************************************************************************)
(* Properties.                                                             *)
(***************************************************************************)
TypeOK ==
  /\ reads \in [Task -> Seq(0..NumTasks)]
  /\ outputs \in [Task -> Nat]
  /\ blocks \in Seq([start : Nat, len : Nat, borrows : Nat])
  /\ return_order \in Seq(DOMAIN blocks)
  /\ next_free_pos \in Nat
  /\ virtual_allocation_size \in Nat
  /\ allocation \in Nat
  /\ phase \in {"get", "return", "run", "copied", "underflow", "unconverted"}
  /\ task \in 1..(NumTasks + 1)
  /\ slot \in Nat \ {0}
  /\ node_output \in [Task -> [kind : {"offset", "pointer"}, at : Nat]]
  /\ copied \in 0..NumTasks

(* A task that runs reads what its sources wrote in the same block of      *)
(* audio, whichever buffers have been reused in between.                   *)
Holds(j) == \A n \in Units(j) : memory[n] = j
SourcesBefore(i) == {reads[i][k] : k \in DOMAIN reads[i]} \cap 1..(i - 1)
ReadsFresh ==
  phase = "run" /\ task <= NumTasks => \A j \in SourcesBefore(task) : Holds(j)

(* The channel that every missing input reads stays zero ("This is         *)
(* important for soundness").                                              *)
EmptyStaysZero == phase \in {"run", "copied"} => memory[0] = 0

(* No task writes outside the allocation. *)
InsideAllocation == phase = "run" => \A j \in Task : Units(j) \subseteq DOMAIN memory

(* A graph output of a task that no task reads is copied as it was written. *)
UnreadOutputsKept ==
  phase = "copied" /\ EdgesFrom(copied) = {} => Holds(copied)

(* A block is "valid until returned" (get_block): what the outputs of the  *)
(* graph are copied from is not overwritten before.                        *)
OutputsKept == phase = "copied" => Holds(copied)

(* "When they have returned their borrows the block can be reused"         *)
(* (AllocatedBlock): a borrow is returned to the block that lent it, so no *)
(* count falls below zero.  "If used correctly, it should always return a  *)
(* Some" (offset_to_ptr): every node has a buffer when its task is made.   *)
(* A node without outputs breaks both: its block of length zero starts     *)
(* where the next one does, or at the end of the allocation.               *)
AllocatorSucceeds ==
  (\A i \in Task : outputs[i] > 0) => phase \notin {"underflow", "unconverted"}

(* What is read as it was written: between tasks, by the copy of the graph *)
(* outputs where nothing else reads them, and the empty channel as zero.   *)
DataKept == ReadsFresh /\ EmptyStaysZero /\ UnreadOutputsKept

(* The allocator gives every node a buffer inside the allocation. *)
AllocationFits == InsideAllocation /\ AllocatorSucceeds
=============================================================================
