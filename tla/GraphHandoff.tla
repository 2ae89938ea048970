---------------------------- MODULE GraphHandoff ----------------------------
(***************************************************************************)
(* The handoff between a Graph, on the control thread, and its GraphGen,   *)
(* on the audio thread (knaster_graph: graph.rs, graph_gen.rs, task.rs,    *)
(* node.rs).                                                               *)
(*                                                                         *)
(* Every edit ends in a commit, which sends a TaskData: the new order of   *)
(* the nodes and, for each, either its UGen, when the node is new, or the  *)
(* index of the task of the PREVIOUS TaskData that holds it.  The audio    *)
(* thread takes the UGens over, raises the `applied` flag of the TaskData, *)
(* and sends the one it replaces back to be dropped.  The control thread   *)
(* forgets a removed node when the flag of the first update without it is  *)
(* raised, and a buffer allocation when nothing else holds an Arc to it.   *)
(*                                                                         *)
(* The edges of the graph are abstracted: the order of a new TaskData is   *)
(* any order of the nodes that are not pending removal, and an update may  *)
(* or may not need a larger buffer allocation.                             *)
(***************************************************************************)
EXTENDS Naturals, Sequences, FiniteSets

CONSTANTS
  Key,            \* the keys of the slot map `nodes`; a key is never reused
  SelfFreeing,    \* the nodes that can set their own remove_me flag (WrDone)
  AutoMath,       \* the math nodes that free_old may find without an input
  Guarded,        \* the nodes whose mortality the user changes
  RingSize,       \* ring_buffer_size, the capacity of each ring
  MaxUpdates      \* bound on the updates that a change of edges may ask for

ASSUME KeyAssumption ==
  /\ IsFiniteSet(Key)
  /\ SelfFreeing \subseteq Key
  /\ AutoMath \subseteq Key
  /\ Guarded \subseteq Key
ASSUME RingAssumption == RingSize \in Nat \ {0}
ASSUME BoundAssumption == MaxUpdates \in Nat

VARIABLES
  \* ---- owned by the control thread ----
  ctl,            \* where the control thread is in an edit or a commit
  nodeUGen,       \* Node.ugen for every key: absent, Local, Live(i), removed
  strong,         \* Node.strong_dependent as a function to sets of keys
  immortal,       \* the nodes whose node_mortality is false
  pending,        \* node_keys_to_free_when_safe: pairs of a key and a flag
  recalculate,    \* recalculation_required
  nextFlag,       \* next_change_flag, numbered in the order of creation
  allocation,     \* the buffer allocation of the BufferAllocator
  oldBuffers,     \* buffers_to_free_when_safe
  draining,       \* the number of TaskData that free_old_task_data will drop
  scan,           \* the nodes whose flag the loop of free_old has yet to read
  freeQueue,      \* the nodes it has found marked for removal
  \* ---- shared ----
  newTaskData,    \* ring of the TaskData on their way to the audio thread
  retired,        \* ring of the TaskData on their way back
  applied,        \* the flags that have been raised
  removeMe,       \* the nodes whose remove_me flag is raised
  \* ---- owned by the audio thread ----
  aud,            \* where the audio thread is in a block
  current,        \* current_task_data
  chunk,          \* the TaskData of the chunk still to be applied
  taken,          \* the slots of the chunk read and not yet given back
  retiring,       \* the TaskData just replaced, as a sequence of 0 or 1
  genBuffer,      \* the allocation held by _arc_buffer_allocation_ptr
  freed           \* the GraphGen has been freed from inside

control == <<ctl, nodeUGen, strong, immortal, pending, recalculate, nextFlag,
             allocation, oldBuffers, draining, scan, freeQueue>>
audio   == <<aud, current, chunk, taken, retiring, genBuffer, freed>>
shared  == <<newTaskData, retired, applied, removeMe>>
vars    == <<control, audio, shared>>

-----------------------------------------------------------------------------
(* The UGen of a task: here, still in a task of the previous TaskData, or  *)
(* taken by the next one.                                                  *)
Dyn(k)  == [tag |-> "dyn", node |-> k]
Take(j) == [tag |-> "take", from |-> j]
Taken   == [tag |-> "taken"]

(* The UGen field of a node. *)
Absent  == [tag |-> "absent"]
Local   == [tag |-> "local"]
Live(i) == [tag |-> "live", index |-> i]
Removed == [tag |-> "removed"]

TaskUGens == [tag : {"dyn"}, node : Key] \cup [tag : {"take"}, from : Nat] \cup {Taken}
NodeUGens == {Absent, Local, Removed} \cup [tag : {"live"}, index : Nat]

(* `holds` is whether current_buffer_allocation is still Some; `buffer` is *)
(* the allocation that the pointers of the tasks point into.               *)
TaskData == [order : Seq(Key), ugens : Seq(TaskUGens),
             flag : Nat, buffer : Nat, holds : BOOLEAN]

NodesOf(td) == {td.order[i] : i \in DOMAIN td.order}
TaskDataIn(ring) == {ring[i] : i \in DOMAIN ring}

nodes == {k \in Key : nodeUGen[k].tag \in {"local", "live"}}
pendingKeys == {p[1] : p \in pending}

-----------------------------------------------------------------------------
(* A Graph is built empty, or with the nodes of an init callback.  In the  *)
(* second case the TaskData of the callback's commit, which has the UGens, *)
(* is in the ring, and the one the GraphGen is built with, generated       *)
(* afterwards, only names them.                                            *)
Orders(S) == {o \in [1..Cardinality(S) -> S] :
                /\ \A k \in S : \E i \in 1..Cardinality(S) : o[i] = k
                /\ \A i, j \in 1..Cardinality(S) : o[i] = o[j] => i = j}

InitWith(order) ==
  /\ nodeUGen = [k \in Key |-> IF \E i \in DOMAIN order : order[i] = k
                               THEN Live(CHOOSE i \in DOMAIN order : order[i] = k)
                               ELSE Absent]
  /\ current = [order |-> order, ugens |-> [i \in DOMAIN order |-> Take(i)],
                flag |-> 0, buffer |-> 0, holds |-> TRUE]
  /\ newTaskData = IF order = <<>> THEN <<>>
                   ELSE <<[order |-> order, ugens |-> [i \in DOMAIN order |-> Dyn(order[i])],
                           flag |-> 1, buffer |-> 0, holds |-> TRUE]>>
  /\ nextFlag = IF order = <<>> THEN 1 ELSE 2

Init ==
  /\ \E S \in SUBSET Key : \E order \in Orders(S) : InitWith(order)
  /\ ctl = "edit"
  /\ strong = [k \in Key |-> {}]
  /\ immortal = {}
  /\ pending = {}
  /\ recalculate = FALSE
  /\ allocation = 0
  /\ oldBuffers = {}
  /\ draining = 0
  /\ scan = {}
  /\ freeQueue = {}
  /\ retired = <<>>
  /\ applied = {}
  /\ removeMe = {}
  /\ aud = "idle"
  /\ chunk = 0
  /\ taken = 0
  /\ retiring = <<>>
  /\ genBuffer = 0
  /\ freed = FALSE

-----------------------------------------------------------------------------
(***************************************************************************)
(* The control thread: edits.                                              *)
(***************************************************************************)
PushNode(k) ==
  /\ ctl = "edit"
  /\ nodeUGen[k] = Absent
  /\ nodeUGen' = [nodeUGen EXCEPT ![k] = Local]
  /\ recalculate' = TRUE
  /\ UNCHANGED <<ctl, strong, immortal, pending, nextFlag, allocation, oldBuffers, draining, scan, freeQueue>>
  /\ UNCHANGED <<audio, shared>>

(* A feedback connection pushes two nodes that are freed together. *)
PushFeedbackNodes(source, sink) ==
  /\ ctl = "edit"
  /\ source # sink
  /\ nodeUGen[source] = Absent /\ nodeUGen[sink] = Absent
  /\ nodeUGen' = [nodeUGen EXCEPT ![source] = Local, ![sink] = Local]
  /\ strong' = [strong EXCEPT ![source] = {sink}, ![sink] = {source}]
  /\ recalculate' = TRUE
  /\ UNCHANGED <<ctl, immortal, pending, nextFlag, allocation, oldBuffers, draining, scan, freeQueue>>
  /\ UNCHANGED <<audio, shared>>

(* A connection is added or removed. *)
ChangeEdges ==
  /\ ctl = "edit"
  /\ nextFlag <= MaxUpdates
  /\ ~recalculate
  /\ recalculate' = TRUE
  /\ UNCHANGED <<ctl, nodeUGen, strong, immortal, pending, nextFlag, allocation,
                 oldBuffers, draining, scan, freeQueue>>
  /\ UNCHANGED <<audio, shared>>

SetMortality(k, mortality) ==
  /\ ctl = "edit"
  /\ k \in nodes
  /\ immortal' = IF mortality THEN immortal \ {k} ELSE immortal \cup {k}
  /\ UNCHANGED <<ctl, nodeUGen, strong, pending, recalculate, nextFlag, allocation,
                 oldBuffers, draining, scan, freeQueue>>
  /\ UNCHANGED <<audio, shared>>

(* free_node_from_key for each key of S: the nodes that become pending,    *)
(* each with its strong dependent.                                         *)
CanFree(k) == k \in nodes /\ k \notin immortal /\ k \notin pendingKeys
NewlyFreed(S) ==
  LET asked == {k \in S : CanFree(k)}
  IN  asked \cup {d \in UNION {strong[k] : k \in asked} : CanFree(d)}

(* Mutants: the flag cloned is that of the update before; no update is     *)
(* asked for.                                                              *)
FreeEarly(S) ==
  /\ pending' = pending \cup {<<k, nextFlag - 1>> : k \in NewlyFreed(S)}
  /\ recalculate' = (recalculate \/ NewlyFreed(S) # {})
FreeSilently(S) ==
  /\ pending' = pending \cup {<<k, nextFlag>> : k \in NewlyFreed(S)}
  /\ recalculate' = recalculate

Free(S) ==
  /\ pending' = pending \cup {<<k, nextFlag>> : k \in NewlyFreed(S)}
  /\ recalculate' = (recalculate \/ NewlyFreed(S) # {})

FreeNode(k) ==
  /\ ctl = "edit"
  /\ CanFree(k)
  /\ Free({k})
  /\ UNCHANGED <<ctl, nodeUGen, strong, immortal, nextFlag, allocation, oldBuffers, draining, scan, freeQueue>>
  /\ UNCHANGED <<audio, shared>>

(* The Graph is dropped; its end of every ring is gone. *)
DropGraph ==
  /\ ctl = "edit"
  /\ ctl' = "gone"
  /\ UNCHANGED <<nodeUGen, strong, immortal, pending, recalculate, nextFlag, allocation,
                 oldBuffers, draining, scan, freeQueue>>
  /\ UNCHANGED <<audio, shared>>

-----------------------------------------------------------------------------
(***************************************************************************)
(* The control thread: commit_changes, which runs when a GraphEdit is      *)
(* dropped.  Each read or write of shared state is a step.                 *)
(***************************************************************************)
BeginCommit ==
  /\ ctl = "edit"
  /\ ctl' = "marks"
  /\ scan' = SelfFreeing \cap nodes
  /\ UNCHANGED <<nodeUGen, strong, immortal, pending, recalculate, nextFlag, allocation,
                 oldBuffers, draining, freeQueue>>
  /\ UNCHANGED <<audio, shared>>

(* free_old reads the remove_me flags one after the other ... *)
ReadMark(k) ==
  /\ ctl = "marks"
  /\ k \in scan
  /\ scan' = scan \ {k}
  /\ freeQueue' = IF k \in removeMe THEN freeQueue \cup {k} ELSE freeQueue
  /\ UNCHANGED <<ctl, nodeUGen, strong, immortal, pending, recalculate, nextFlag, allocation,
                 oldBuffers, draining>>
  /\ UNCHANGED <<audio, shared>>

(* ... and frees the nodes that marked themselves for removal and the math *)
(* nodes left with too few inputs.                                         *)
FreeMarked ==
  /\ ctl = "marks"
  /\ scan = {}
  /\ \E orphans \in SUBSET (AutoMath \cap nodes) : Free(freeQueue \cup orphans)
  /\ freeQueue' = {}
  /\ scan' = {p[1] : p \in pending'}
  /\ ctl' = "remove"
  /\ UNCHANGED <<nodeUGen, strong, immortal, nextFlag, allocation, oldBuffers, draining>>
  /\ UNCHANGED <<audio, shared>>

(* free_old removes the pending nodes whose flag it finds raised. *)
PendingIsSafe == {p[1] : p \in pending}     \* mutant: the flag is not asked for

SafeToRemove == {p[1] : p \in {q \in pending : q[2] \in applied}}
CheckOldNode(k) ==
  /\ ctl = "remove"
  /\ k \in scan
  /\ scan' = scan \ {k}
  /\ IF k \in SafeToRemove
     THEN /\ nodeUGen' = [nodeUGen EXCEPT ![k] = Removed]
          /\ pending' = {p \in pending : p[1] # k}
     ELSE UNCHANGED <<nodeUGen, pending>>
  /\ UNCHANGED <<ctl, strong, immortal, recalculate, nextFlag, allocation, oldBuffers, draining,
                 freeQueue>>
  /\ UNCHANGED <<audio, shared>>

(* free_old drops the old allocations that have no Arc but its own.  The   *)
(* counts are read in one step: one read just before the audio thread lets *)
(* go keeps its allocation until the next commit, as a commit begun a      *)
(* little earlier would.                                                   *)
AllTaskData ==
  {current} \cup TaskDataIn(newTaskData) \cup TaskDataIn(retiring) \cup TaskDataIn(retired)
Lent == {genBuffer} \cup {td.buffer : td \in {x \in AllTaskData : x.holds}}

(* Mutant: only what the GraphGen plays from counts as lent. *)
PlayedBuffers == oldBuffers \cap {genBuffer}

KeptBuffers == oldBuffers \cap (Lent \cup {allocation})

FreeOldBuffers ==
  /\ ctl = "remove"
  /\ scan = {}
  /\ oldBuffers' = KeptBuffers
  /\ ctl' = "retired"
  /\ UNCHANGED <<nodeUGen, strong, immortal, pending, recalculate, nextFlag, allocation,
                 draining, scan, freeQueue>>
  /\ UNCHANGED <<audio, shared>>

AllButOneSlot == Len(retired) - 1     \* mutant: one TaskData is left in the ring

RetiredSlots == Len(retired)

(* free_old_task_data reads how many TaskData have come back ... *)
ReadRetired ==
  /\ ctl = "retired"
  /\ draining' = RetiredSlots
  /\ ctl' = "drain"
  /\ UNCHANGED <<nodeUGen, strong, immortal, pending, recalculate, nextFlag, allocation,
                 oldBuffers, scan, freeQueue>>
  /\ UNCHANGED <<audio, shared>>

(* ... and drops that many; their slots become free together. *)
DropRetired ==
  /\ ctl = "drain"
  /\ retired' = SubSeq(retired, draining + 1, Len(retired))
  /\ draining' = 0
  /\ ctl' = IF recalculate THEN "send" ELSE "edit"
  /\ UNCHANGED <<nodeUGen, strong, immortal, pending, recalculate, nextFlag, allocation,
                 oldBuffers, scan, freeQueue>>
  /\ UNCHANGED <<newTaskData, applied, removeMe>>
  /\ UNCHANGED audio

(* Node::make_task for the nodes in their new order. *)
MakeTasks(order) ==
  [i \in DOMAIN order |-> LET ugen == nodeUGen[order[i]]
                          IN  IF ugen = Local THEN Dyn(order[i]) ELSE Take(ugen.index)]
MadeLive(order) ==
  [k \in Key |-> IF \E i \in DOMAIN order : order[i] = k
                 THEN Live(CHOOSE i \in DOMAIN order : order[i] = k)
                 ELSE nodeUGen[k]]

NewRingFull == Len(newTaskData) + taken >= RingSize

(* The TaskData of an update.                                              *)
SentData(order, buffer) ==
  [order |-> order, ugens |-> MakeTasks(order), flag |-> nextFlag, buffer |-> buffer, holds |-> TRUE]

(* The update is generated for some order of the nodes that remain, with a *)
(* new flag for the update after it, and pushed.                           *)
SendTasks(order, buffer) ==
  /\ ctl = "send"
  /\ ~NewRingFull
  /\ newTaskData' = Append(newTaskData, SentData(order, buffer))
  /\ nodeUGen' = MadeLive(order)
  /\ nextFlag' = nextFlag + 1
  /\ allocation' = buffer
  /\ oldBuffers' = IF buffer = allocation THEN oldBuffers ELSE oldBuffers \cup {allocation}
  /\ recalculate' = FALSE
  /\ ctl' = "edit"
  /\ UNCHANGED <<strong, immortal, pending, draining, scan, freeQueue>>
  /\ UNCHANGED <<retired, applied, removeMe>>
  /\ UNCHANGED audio

(* With the ring full the push fails: GraphEdit::drop unwraps the error    *)
(* and the Graph is lost in the unwinding.                                 *)
SendFails ==
  /\ ctl = "send"
  /\ NewRingFull
  /\ ctl' = "gone"
  /\ UNCHANGED <<nodeUGen, strong, immortal, pending, recalculate, nextFlag, allocation,
                 oldBuffers, draining, scan, freeQueue>>
  /\ UNCHANGED <<audio, shared>>

-----------------------------------------------------------------------------
(***************************************************************************)
(* The audio thread: GraphGen::process_block.                              *)
(***************************************************************************)
NewSlotsButLast == IF newTaskData = <<>> THEN 0 ELSE Len(newTaskData) - 1     \* mutant

NewSlots == Len(newTaskData)

(* The number of new TaskData is read once, at the start of the block. *)
BeginBlock ==
  /\ aud = "idle"
  /\ ~freed
  /\ chunk' = NewSlots
  /\ aud' = IF NewSlots = 0 THEN "run" ELSE "apply"
  /\ UNCHANGED <<current, taken, retiring, genBuffer, freed>>
  /\ UNCHANGED <<control, shared>>

(* apply_self_on_audio_thread: take the UGens over and raise the flag. *)
(* Mutants: only the UGens whose place is the same are moved; the UGens    *)
(* are copied and not taken.                                               *)
TakeOverInPlace(td, old) ==
  [td EXCEPT !.ugens = [i \in DOMAIN td.ugens |->
                          IF td.ugens[i] = Take(i) THEN old.ugens[i] ELSE td.ugens[i]]]
CopiedFrom(old, td) == old

TakeOver(td, old) ==
  [td EXCEPT !.ugens = [i \in DOMAIN td.ugens |->
                          IF td.ugens[i].tag = "take" THEN old.ugens[td.ugens[i].from]
                                                      ELSE td.ugens[i]]]
TakenFrom(old, td) ==
  [old EXCEPT !.ugens = [j \in DOMAIN old.ugens |->
                           IF \E i \in DOMAIN td.ugens : td.ugens[i] = Take(j)
                           THEN Taken ELSE old.ugens[j]]]

ApplyTaskData ==
  /\ aud = "apply"
  /\ retiring = <<>>
  /\ chunk > 0
  /\ current' = TakeOver(Head(newTaskData), current)
  /\ retiring' = <<TakenFrom(current, Head(newTaskData))>>
  /\ applied' = applied \cup {Head(newTaskData).flag}
  /\ newTaskData' = Tail(newTaskData)
  /\ chunk' = chunk - 1
  /\ taken' = taken + 1
  /\ UNCHANGED <<aud, genBuffer, freed, retired, removeMe>>
  /\ UNCHANGED control

(* The replaced TaskData is sent back, or dropped here when there is no    *)
(* room.  After the last one the slots of the chunk become free together.  *)
RetireTaskData ==
  /\ aud = "apply"
  /\ retiring # <<>>
  /\ retired' = IF Len(retired) < RingSize THEN retired \o retiring ELSE retired
  /\ retiring' = <<>>
  /\ taken' = IF chunk = 0 THEN 0 ELSE taken
  /\ aud' = IF chunk = 0 THEN "run" ELSE "apply"
  /\ UNCHANGED <<current, chunk, genBuffer, freed, newTaskData, applied, removeMe>>
  /\ UNCHANGED control

(* The Arc of a new allocation is moved into the GraphGen and the tasks    *)
(* are run.  A node that is done marks itself for removal (FreeSelf) or    *)
(* frees the whole graph (FreeParent).                                     *)
RunTasks(done, freeParent) ==
  /\ aud = "run"
  /\ done \subseteq NodesOf(current) \cap SelfFreeing
  /\ freeParent => NodesOf(current) \cap SelfFreeing # {}
  /\ genBuffer' = IF current.holds THEN current.buffer ELSE genBuffer
  /\ current' = [current EXCEPT !.holds = FALSE]
  /\ removeMe' = removeMe \cup done
  /\ freed' = freeParent
  /\ aud' = "idle"
  /\ UNCHANGED <<chunk, taken, retiring, newTaskData, retired, applied>>
  /\ UNCHANGED control

(* A freed GraphGen reads no ring: it fills its output with zeroes. *)
FreedBlock ==
  /\ aud = "idle"
  /\ freed
  /\ UNCHANGED vars

-----------------------------------------------------------------------------
Edit ==
  \/ \E k \in Key : PushNode(k) \/ FreeNode(k)
  \/ \E source, sink \in Key : PushFeedbackNodes(source, sink)
  \/ \E k \in Guarded : \E mortality \in BOOLEAN : SetMortality(k, mortality)
  \/ ChangeEdges
  \/ DropGraph

Send ==
  \/ \E order \in Orders(nodes \ pendingKeys) :
       \E buffer \in {allocation, nextFlag} : SendTasks(order, buffer)
  \/ SendFails

(* The rest of a commit once it has begun. *)
FinishCommit ==
  \/ \E k \in Key : ReadMark(k) \/ CheckOldNode(k)
  \/ FreeMarked \/ FreeOldBuffers \/ ReadRetired \/ DropRetired \/ Send

Block ==
  \/ BeginBlock
  \/ ApplyTaskData
  \/ RetireTaskData
  \/ \E done \in SUBSET SelfFreeing : \E freeParent \in BOOLEAN : RunTasks(done, freeParent)
  \/ FreedBlock

Next == Edit \/ BeginCommit \/ FinishCommit \/ Block

Spec == Init /\ [][Next]_vars

(* The audio driver keeps asking for blocks, and a commit that has begun   *)
(* is ordinary sequential code; nothing obliges the user to edit.          *)
FairSpec == Spec /\ WF_vars(Block) /\ WF_vars(FinishCommit)

-----------------------------------------------------------------------------
(***************************************************************************)
(* Properties.                                                             *)
(***************************************************************************)
TypeOK ==
  /\ ctl \in {"edit", "marks", "remove", "retired", "drain", "send", "gone"}
  /\ nodeUGen \in [Key -> NodeUGens]
  /\ strong \in [Key -> SUBSET Key]
  /\ immortal \subseteq Key
  /\ pending \subseteq Key \X Nat
  /\ recalculate \in BOOLEAN
  /\ nextFlag \in Nat
  /\ allocation \in Nat
  /\ oldBuffers \subseteq Nat
  /\ draining \in Nat
  /\ scan \subseteq Key
  /\ freeQueue \subseteq Key
  /\ newTaskData \in Seq(TaskData)
  /\ retired \in Seq(TaskData)
  /\ applied \subseteq Nat
  /\ removeMe \subseteq Key
  /\ aud \in {"idle", "apply", "run"}
  /\ current \in TaskData
  /\ chunk \in Nat
  /\ taken \in Nat
  /\ retiring \in Seq(TaskData)
  /\ genBuffer \in Nat
  /\ freed \in BOOLEAN

(* Whenever the audio thread runs its tasks, every task holds the UGen of  *)
(* its own node.  A task without one panics ("unreachable!" in             *)
(* UGenEnum::process_block), and one with another node's UGen would read   *)
(* the wrong buffers.                                                      *)
OwnsItsUGens(td) ==
  /\ DOMAIN td.ugens = DOMAIN td.order
  /\ \A i \in DOMAIN td.order : td.ugens[i] = Dyn(td.order[i])

TasksOwnTheirUGens == aud = "run" => OwnsItsUGens(current)

(* A UGen is moved, never copied: whatever the order of edits and blocks,  *)
(* it is in at most one place.                                             *)
HoldsUGen(td, k) == \E i \in DOMAIN td.ugens : td.ugens[i] = Dyn(k)
Everywhere == <<current>> \o newTaskData \o retired \o retiring
Places(k) ==
  {0 : x \in {y \in {nodeUGen[k]} : y = Local}}
    \cup UNION {{<<n, i>> : i \in {j \in DOMAIN Everywhere[n].ugens :
                                    Everywhere[n].ugens[j] = Dyn(k)}} : n \in DOMAIN Everywhere}
OneOwner == \A k \in Key : Cardinality(Places(k)) <= 1

(* The state of a node survives every update: until the update that leaves *)
(* the node out has been applied, its UGen is in the node, in the running  *)
(* TaskData or in one on its way, never among those on their way back.     *)
UGensKept ==
  ctl # "gone" => \A k \in nodes \ SafeToRemove :
     nodeUGen[k] = Local \/ \E td \in {current} \cup TaskDataIn(newTaskData) : HoldsUGen(td, k)

(* "None is used to move the UGenEnum between Tasks" (UGenEnum): both of   *)
(* these together.  Whatever the order of edits and blocks, no UGen is     *)
(* played twice and none is lost.                                          *)
UGensMoved == OneOwner /\ UGensKept

(* "it never accesses or deallocates a node while it can be accessed by    *)
(* the GraphGen through a Task" (GraphGen): a node that free_old removed   *)
(* is in no TaskData that the audio thread runs or will run.               *)
RemovedUnreachable ==
  \A k \in Key : nodeUGen[k] = Removed =>
     \A td \in {current} \cup TaskDataIn(newTaskData) : k \notin NodesOf(td)

(* The pointers of the running tasks point into an allocation that the     *)
(* GraphGen keeps alive itself, also when it skips over several updates    *)
(* and whether or not the Graph still exists.                              *)
PointersBacked == current.holds \/ genBuffer = current.buffer

(* While the Graph exists the audio thread never has the last Arc to an    *)
(* allocation, so it never deallocates one.                                *)
AllocationsKept == ctl # "gone" => Lent \subseteq oldBuffers \cup {allocation}

(* The rings have the same capacity and every commit empties the returning *)
(* one before it sends: at most one TaskData more than a ring holds is     *)
(* under way, so between two commits at most one is dropped by the audio   *)
(* thread, and only if it emptied a full ring during the commit.           *)
UnderWay == Len(newTaskData) + Len(retiring) + Len(retired)
OneTooMany == ctl # "gone" => UnderWay <= RingSize + 1

(* Nothing that the tasks point to is deallocated, and nothing at all on   *)
(* the audio thread but the one TaskData that overfills the ring.          *)
MemoryKept == PointersBacked /\ AllocationsKept /\ OneTooMany

(* The two sides implement GraphUpdates: the audio thread plays every      *)
(* update in the order of the commits and nodes are reclaimed only when    *)
(* they are out of its reach.                                              *)
Updates == INSTANCE GraphUpdates WITH
  queue     <- [i \in DOMAIN newTaskData |-> NodesOf(newTaskData[i])],
  playing   <- NodesOf(current),
  reclaimed <- {k \in Key : nodeUGen[k] = Removed}
ImplementsUpdates == Updates!Spec

(* "all changes will be sent to the audio thread and applied at the start  *)
(* of the next block": a node that was sent comes to run, unless the graph *)
(* has freed itself.                                                       *)
SentIsPlayed ==
  \A k \in Key :
     (\E td \in TaskDataIn(newTaskData) : k \in NodesOf(td)) ~> (HoldsUGen(current, k) \/ freed)

(* A node that has marked itself for removal is removed, if the user goes  *)
(* on committing edits, unless the graph has freed itself or is dropped or *)
(* the node is made immortal.                                              *)
MarkedIsRemoved ==
  []<>(ctl = "remove") =>
     \A k \in Key : (k \in removeMe /\ k \in nodes) ~>
                      (nodeUGen[k] = Removed \/ freed \/ ctl = "gone" \/ k \in immortal)

(* A node that is pending removal is removed, if the user goes on          *)
(* committing edits, unless the graph has freed itself or is dropped.      *)
PendingIsRemoved ==
  []<>(ctl = "remove") =>
     \A k \in Key : k \in pendingKeys ~> (nodeUGen[k] = Removed \/ freed \/ ctl = "gone")

(* A node that is to go goes, whether it or the user decides it. *)
FreedIsRemoved == MarkedIsRemoved /\ PendingIsRemoved
=============================================================================
