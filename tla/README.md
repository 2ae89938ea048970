# Verification of knaster

knaster is a real-time audio graph library. A user edits a `Graph` on a control thread; a `GraphGen` runs
the nodes of that graph in blocks on the audio thread, where nothing may block, allocate or be dropped. This
directory holds TLA+ models of the code that makes this work, TLC configurations that check them on small
instances, and TLAPS proofs of the theorems that hold for every instance. `PROJECT.json` maps every
definition to the lines it translates, and lists the runs, the hazards, the theorems and the findings.

Paths below are relative to `src/`; `graph.rs` means `knaster_graph/src/graph.rs`, and likewise for other files.

## 1. Inventory

| Part | Where | State | Operations |
|---|---|---|---|
| Graph, control side | `graph.rs` | nodes (slot map), input, parameter and output edges, mortality, keys pending removal, old buffers, `recalculation_required` | push, connect, disconnect, free, set mortality, commit |
| GraphGen, audio side | `graph_gen.rs`, `task.rs`, `node.rs`, `dynugen.rs` | current TaskData, Arc of the buffers, waiting parameter changes, `freed` | process_block |
| Channel between them | `GraphGenCommunicator` in `graph.rs` | ring of new TaskData, ring of TaskData to drop, ring of events, the `applied` flags | push, read, drop |
| Order of evaluation | `graph.rs` | none that lasts | calculate_node_order, depth_first_search, get_deepest_output_node |
| Buffer allocator | `buffer_allocator.rs`, `graph.rs` | blocks with borrows, return order, the allocation | get, return, reset, finish, convert |
| Edit API | `graph_edit.rs`, `handle.rs` | handles that borrow the graph | connect, stack, arithmetic, link; a drop commits |
| Parameter scheduling | `scheduling.rs`, `graph_gen.rs`, `knaster_core/src/parameters.rs` | events, tokens, waiting changes | set, apply, expire |
| Wrappers of parameters | `knaster_core_dsp/src/wrappers_core/` | delayed changes, ramps, audio rate buffers | param_apply, process_block |
| Done actions | `wrappers_graph/done.rs`, `knaster_core/src/ugen.rs`, envelopes | flags in a block, `remove_me` | mark, free self, free parent |
| Processor and backends | `processor.rs`, `audio_backend/` | frame clock, shared clock, position in the block | run |
| Time | `knaster_primitives/src/time.rs` | Seconds, Beats | conversions, arithmetic |
| Log | `knaster_core/src/log.rs` | ring of message parts | send, recv |
| Blocks | `knaster_primitives/src/block.rs`, `block.rs` | where the samples of a channel lie | read, write, slices, parts of blocks |
| UGens, macros, examples | the other crates | sample data | arithmetic on samples |

How they interact. An edit closure calls the methods of `Graph`; when its `GraphEdit` is dropped,
`commit_changes` calls `free_old`, drops the TaskData that came back, and, if anything requires it, calculates
the order, the buffers and the tasks and pushes a TaskData into the ring. The audio driver calls
`AudioProcessor::run`, which calls `GraphGen::process_block`: it applies every TaskData in the ring, applies
parameter changes, runs the tasks and copies the outputs. The two threads share the two rings, the `applied`
flags, the `remove_me` flags, the Arcs of the buffers and nothing else, except the raw pointers in the tasks.

What is hard:

* **Interleaving.** A UGen is in one place at a time but moves from the node to a TaskData and through the
  TaskData after it, by index. A node and a buffer may be dropped only when no task can reach them, and the
  control thread learns that from flags and reference counts that it reads while the audio thread runs.
* **Long sequences of legal calls.** Connections push math and feedback nodes, which commits and disconnects
  remove again. What is heard has to be what was asked for after any sequence.
* **Order and reuse of memory.** Tasks read blocks that are reused later in the same block of audio; every
  mistake in the order or in the count of borrows is silent.
* **Nested wrappers.** A parameter change and a block go down a stack of wrappers, each of which may keep, delay,
  split or drop what it is given; what is right depends on the order of the stack.
* **Partial failure.** A call connects channel by channel with a lock held, and may fail or panic in between;
  the edit that is dropped then commits what is there.
* **Limits.** Rings and queues of fixed size; counts that may go below zero; an allocation whose end is hit.

What makes each part correct is stated by its properties, in section 3. The hazards at their lines are in
`PROJECT.json`.

## 2. Modules

| Module | Extends | What it is |
|---|---|---|
| `GraphUpdates` | | abstract: updates are played once and in order, nothing reachable is reclaimed |
| `GraphHandoff` | | the handoff, one action for each step that another thread can see |
| `GraphHandoffInv` | GraphHandoff | the inductive invariants |
| `GraphHandoffProofs` | GraphHandoffInv, TLAPS | theorems |
| `NodeOrder`, `NodeOrderProofs` | | the order of evaluation; its theorems |
| `NodeBuffers`, `NodeBuffersProofs` | | buffers, and the block of audio that runs in them; theorems |
| `Connections` | | abstract: what is connected to what, as a bag of outlets at each sink |
| `GraphEdges`, `GraphEdgesProofs` | instantiates Connections | edges, math and feedback nodes, free_old; theorems, the refinement of Connections included |
| `Handles`, `HandlesProofs` | | typed and dynamic handles: which channels a call stands for, and what a panic leaves; theorems |
| `Seconds`, `Beats` | | time in tesimals: conversions, order, arithmetic |
| `ParameterChanges`, `ParameterChangesProofs` | Seconds | scheduled parameter changes, from the handle to the frame; theorems, those about time included |
| `Envelopes` | | the UGens inside the wrappers, sample by sample |
| `Wrapped` | Envelopes | wrappers, the flags of a block, and a Graph that plays them |
| `RtLog`, `RtLogProofs` | | the log of the audio threads; theorems |
| `Blocks` | | blocks of memory and parts of blocks |
| `Driver`, `DriverProofs` | Blocks, Seconds | the AudioProcessor between the backends and a Graph; theorems, those about blocks included |
| `MC*` | one of the above | definitions for the `.cfg` files |

The detailed models of the graph share a graph but not a state. The handoff does not depend on what the edges are,
only on which nodes are in an update and in which order, and is checked and proved for every order. The order
is calculated within a commit, from edges that do not change meanwhile, so `NodeOrder` starts from any graph;
and `NodeBuffers` starts from any list of tasks with any sources, before or after them in the list. Each therefore
covers more graphs than a product of the three could. `ParameterChanges` needs of all that only which nodes an
update plays, and that a block applies every update that has arrived before it looks at a change. `Wrapped` starts
where it ends: a change has reached the block it is due in. `Handles` abstracts the math and feedback nodes of
`GraphEdges` to sums, which is what `ImplementsConnections` justifies, and `Driver` asks for the blocks whose repetition
is the fairness of the others.

## 3. The models and what is checked

### 3.1 Handoff: `GraphHandoff`

State: the fields of `Graph` that a commit uses, the rings, the flags, and the fields of `GraphGen`. The
variable names are the code's, in camel case. `nodeUGen[k]` is the UGen field of the node with key `k`: still
local, or at an index of the last TaskData sent. An update is numbered by the creation of its flag; a flag is
an `Arc<AtomicBool>`, so `applied` is the set of the flags that are raised.

Actions. `PushNode`, `PushFeedbackNodes`, `ChangeEdges`, `SetMortality`, `FreeNode` and `DropGraph` are what
the user does; they need `&mut Graph`, so they do not interleave with a commit. A commit is `BeginCommit`,
then `ReadMark` for each node, `FreeMarked`, `CheckOldNode` for each pending node, `FreeOldBuffers`,
`ReadRetired`, `DropRetired`, and `SendTasks` or `SendFails`: each reads or writes shared state once. A block
is `BeginBlock` (reads the number of slots), `ApplyTaskData` and `RetireTaskData` for each TaskData, and
`RunTasks`, or `FreedBlock`.

Abstractions: the order of an update is any order of the nodes that are not pending; an update may or may not
need a new allocation; any node with a `remove_me` flag may raise it in any block. The nodes of an init
callback are in the first state, with the two TaskData that `Graph::new` then makes. It is assumed that the
commit does not panic on a stale edge (section 5).

| Property | What it says |
|---|---|
| `TasksOwnTheirUGens` | when tasks run, each has the UGen of its own node |
| `UGensMoved` | a UGen is in at most one place (`OneOwner`), and while its node lives it is where the audio thread will find it (`UGensKept`) |
| `RemovedUnreachable` | a node that was removed is in no TaskData that runs or will run |
| `MemoryKept` | the tasks' pointers are into an allocation the GraphGen holds (`PointersBacked`); while the Graph exists the audio thread never has the last Arc (`AllocationsKept`); at most `RingSize + 1` TaskData are under way, so at most one is dropped on the audio thread (`OneTooMany`) |
| `ImplementsUpdates` | the handoff implements `GraphUpdates` under a refinement mapping |
| `SentIsPlayed`, `FreedIsRemoved` | what is sent is played; what the user frees (`PendingIsRemoved`) or frees itself (`MarkedIsRemoved`) is removed |

Runs. `handoff`: two nodes, two slots in each ring, every way a node may go away. `handoff_live`: liveness, with
one node and one slot. With one slot each side can already run any number of
its steps between two of the other, which makes every race between a commit and a block; two slots add chains
of TaskData of which neither end has been applied, and several of them in one block. Keys are never reused
(slot map keys carry a generation). `MaxUpdates` bounds the updates that changes of edges ask for: none in
`handoff`, where the pushes and frees of two nodes already make four, and one in `handoff_live`.

Fairness. `FairSpec` is weak fairness of `Block` and of `FinishCommit`: the driver calls the processor again
and again (`processor.rs:119`, `audio_backend/cpal.rs:164`), and a commit that has begun is ordinary
sequential code. Nothing obliges the user to edit or to commit, so `FreedIsRemoved`
is stated for behaviours with infinitely many commits.

### 3.2 Order of evaluation: `NodeOrder`

Every local of `calculate_node_order`, `get_deepest_output_node` and `depth_first_search` is a variable and
every iteration of a loop an action. `Init` is every graph over `NumNodes` nodes with acyclic inputs, with
any parameter edges, any feedback sinks and any nodes pending removal. Keys are numbered in the order in which the slot
map visits them, and `get_deepest_output_node` follows the first consumer it meets, the one with the smallest key (`WalkOn`). Slots are
reused, so that a node may have any key: `Init` has every graph, hence every numbering of the nodes of a graph.

`EachOnce`: every node that is not pending is in the order exactly once. `SearchOrder`: a node runs after its sources *whenever a ranking of the nodes
agrees with the edges and with the order of the roots* - the condition under which the algorithm is right.
`Terminates`: the calculation ends, with every node that has an edge to a graph output searched, also with circles of parameter edges, which nothing forbids; it is sequential code,
so its steps are fair. Outside that condition the roots are in the wrong order and `DirectEdgesOrder` is
violated (section 5).

Three nodes, each with up to two inputs and a parameter edge, suffice for every shape of the walk and of the
search: a branch, a diamond, a chain, a circle through parameters, and two outputs that depend on each other
through a third node.

### 3.3 Buffers and a block of audio: `NodeBuffers`

A unit of memory is one channel; what it holds is the task that wrote it in this block of audio.
`GetBlock`/`ReuseBlock`/`AssignNewBlock` and the returns of borrows follow `allocate_node_buffers` edge by
edge; `FinishAssigning` makes the allocation and converts offsets to pointers; `RunTask` and `CopyOutput` are
the block that follows. `UsizeMax` is the width of the count of borrows, so that the build without overflow
checks is covered too.

`DataKept`: a task reads what its source wrote in this block (`ReadsFresh`), the empty channel is never written
(`EmptyStaysZero`), and the output of a node that nobody else reads is still there when it is copied
(`UnreadOutputsKept`). `AllocationFits`: what tasks read and write is inside the allocation (`InsideAllocation`), every return finds a
block with a borrow left, and every offset a pointer (`AllocatorSucceeds`). The last is stated for lists of tasks that
all have outputs: with a node without outputs the run reaches both failures (section 5), and in the build that wraps, where it
goes on, the other properties hold all the same. Without the condition that nobody else reads it, `OutputsKept` is violated (section 5).

Four tasks with up to two sources give a block that is lent twice, returned, lent again and read after that;
a fault of reuse needs a writer, a reader, a reuser and a late reader. One or two outputs give blocks that are
too short to be reused. Nodes without outputs are sinks, among them the two nodes of a feedback connection as
`new_feedback_nodes` makes them. Up to two of the reads are of a task that runs later, since the order is not always topological (section 5), or one
is of the task's own output, since a parameter may be connected to its own node: what is read then is from the block before, which
`ReadsFresh` leaves out, and what matters is that the borrow returned too early, or never, harms no other task. What a node's output was before the calculation (`KnownWhereRead`) is only varied
where such a read looks at it.

### 3.4 Edges: `Connections` and `GraphEdges`

`GraphEdges.graph` is a record of the fields of `Graph`. The user's nodes and the nodes that the graph adds
are two sets of keys; keys of removed nodes are used again. The calls of `GraphEdit` are actions; a call that
is refused changes nothing and is no action. `free_old` is a step for each node it evaluates, in any order,
because the order of its keys is that of slots that are reused. The flag of an update may have been raised in
any commit after the one that sent it (that it has been raised only then is what `GraphHandoff` shows).
`unsent` remembers which kinds of edges have changed since the last update.

`connected` follows every edge through math nodes (a sum) and feedback pairs (a delay): how many times each
outlet is heard at each sink. It is the refinement mapping to `Connections`, in which connecting adds or
replaces and disconnecting and freeing remove.

| Property | What it says |
|---|---|
| `EdgesNameNodes` | exactly the nodes that are not freed have edges, edges name only them, and the two nodes of a feedback connection are freed together |
| `InputsAcyclic` | no circle of direct edges |
| `InputChangesMarked` | a change of the edges between nodes asks for an update |
| `CallsAsAsked` | a connection adds or replaces one outlet at one sink, a call that takes away - disconnecting an input or an output, freeing a node - takes away what it names, and nothing else is heard differently |
| `CommitsKeepConnections` | a commit, which removes math and feedback nodes, is not heard |
| `ImplementsConnections` | every behaviour implements `Connections` |

Two user nodes with an input and an output each, one graph output and three added nodes give chains of two
math nodes and a feedback pair with a math node, in every state of removal. With `Own` of three nodes a call that needs
a fourth added node is not taken: that is the bound. User nodes and added nodes are symmetric, and no run
that uses the symmetry checks liveness. A Graph that nobody edits stops: `CHECK_DEADLOCK FALSE`, as in the
runs of finished calculations.

Runs. `edges`: two user nodes, all calls between nodes. `edges_calls`: what each call adds and takes away, with two added
nodes, and the refinement; a behaviour makes the calls between nodes, or those on parameters, or those on graph inputs (`CallSets`).
Parameters are not combined with freeing and disconnecting, since the code breaks `EdgesNameNodes` there (section 5).
A commit that panics stops the model.

Left out: the handle of a freed node used again (`Handles` has such calls), `set_mortality`, the math
nodes' own ids in the hands of the user, the links of audio rate parameters and subgraphs.

### 3.5 Parameter changes: `Seconds`, `Beats` and `ParameterChanges`

A handle pushes a `SchedulingEvent` into a ring (`Send`; a handle may be used by any thread, under a mutex). In a
block the `GraphGen` first applies the updates of the graph (`BeginBlock`), then looks once at each change that
waits (`LookAtWaiting`), takes what the ring has at that moment (`TakeSlots`), looks at those (`LookAtNew`) and frees
their slots (`FreeSlots`). `ApplyParameterChange` is `apply_parameter_change` with what the UGen does with the call:
a UGen in a `WrPreciseTiming` has a delay for each parameter and a few slots for delayed calls, which it makes as the
block runs (`RunTasks`); a UGen without one is told at once. A change that is not applied waits, with its relative time
counted down by a block (`CountDown`), and is given up when it has waited a second's worth of blocks.

`sent`, `applied` and `gone` are history: what was sent, which `param_apply` reached the UGen at which frame, and
what was given up and why. In the code the latter is silent, apart from a log message. `Parts` is whether an event sets a value, a
smoothing, or both, which are two calls. An event without a time and one with `Time::asap` are treated alike by
the code, so one stands for both.

| Property | What it says |
|---|---|
| `NeverEarly` | no change is made before its frame, without `WrPreciseTiming` not before the block of its frame (`NotBeforeItsFrame`); nor before its token is activated (`NotBeforeItsToken`) |
| `NothingReadyWaits` | when the tasks run, no change waits that could have been applied |
| `ChangesPrecedeTasks` | what is sent to a node before the edit that adds it has ended has been read when the node first plays, and then waits for a later block or for its token only |
| `KeptForASecond` | a change is given up after a second, no sooner, and kept for at most two blocks more |
| `OnceInOrder` | every call is in one place: in the ring, waiting, delayed, made, or given up (`EachOnce`); changes of a parameter with the same token are made in the order they were sent in, unless the later is due earlier (`InOrder`) |
| `SampleAccurate` | violated: a change at the start of a block gets the delay of the change before it (finding) |

`changes`: a second has 6 tesimals and 3 samples, so that times fall between samples; blocks of 2, so that a second is
not a whole number of blocks; a ring and a queue of 2 slots each and 3 events, so that both can be full; 8 frames, so that a change
that arrives in the first block can expire. `OneNodeChanges` restricts a behaviour to the changes of one of the two nodes - the
one with the wrapper, which is not played yet, or the one without, which is: nodes share nothing but the clock
and the queues. `changes_accurate`: a played node with a wrapper. All clocks and histories are bounded, so the runs stop:
`CHECK_DEADLOCK FALSE`.

`Seconds` and `Beats` are pure operators on whole units and tesimals. `MCParameterChanges` checks their arithmetic on every
value below two and a half units, and section 4 proves it for all of them. The code's operators are 32 bits wide; the
models do not wrap, and `AdditionExact` says how much room the intermediate sum needs.

Left out: tokens that are activated on another thread than the audio thread (`SchedulingToken::activate` is a
`todo!()`, and the comment of `activate_inner` asks for it); a freed `GraphGen`, which no longer reads its events; the
warnings about changes that come late; finding a parameter by its name; conversions through floating point.

### 3.6 Handles: `Handles`

A handle is a list of input and a list of output channels. Pushing a node, selecting channels, stacking and arithmetic
make handles; connecting pairs the outputs of one with the inputs of another, and connects pair after pair with the
lock of the graph held. `ConnectPairs` is that loop; what an error does to it - it is logged, it ends the call, it
panics - is the difference between `to`, `try_to` and the typed `to_replace`. `heard` has the sources that each sink
sums; that the Graph implements such sums with math and feedback nodes is section 3.4.

A panic unwinds through the `GraphEdit`, whose drop commits (`Drop`). A lock that was held is poisoned, so the drop
panics as well and the program aborts (`AfterPanic`). That is the `RwLock` of `std`: without the feature `std` the lock is a spin lock that
nothing poisons (`graph_edit.rs:62`), and a panic that unwinds there would commit half a call, which is what the mutant `NotPoisoned` shows. Handles of nodes that were freed are used like any other.

| Property | What it says |
|---|---|
| `ResultsAsAsked` | a handle to arithmetic stands for the operators applied to its operands, channel by channel and in their order; stacking and selecting keep the order of channels; only disconnecting and freeing change what a handle stands for later |
| `ConnectsAllThatFits` | `to` connects every pair that makes no circle and those it leaves out would have made one, also with the pairs before it; `try_to` connects a beginning of them; replacing leaves one source |
| `HalfCallsNeverPlayed` | what a call that panicked had already connected is never committed |

`ResultsAsAsked` and `ConnectsAllThatFits` are made of named parts, one for each kind of call (`Calculates`, `Stacks`, `AllThatFit`,
`ThoseBeforeACircle`, `OneForASink`...). What an output stands for (`Value`) is a term over the outputs of the user's nodes, which
`ResultsAsAsked` compares; a math node is replaced by the operator that it was made for.

`handles`: seven starting points (`SomeStarts`), each with one or two nodes of one or two channels and the calls that
have to do with one another, three or four calls long: two stereo pairs are enough for a channel that is taken from
the wrong node, three calls for a circle that closes in the middle of a call, and two for a connection to the handle of a node that
was freed. A pair whose sink is gone with its node makes the call panic, unless it would close a circle as well: `connect2`
looks for a path before it looks for the node, and refuses it. The proof showed that such a pair had been counted among those added;
`Adds` and `Closes` now tell them apart. Left out: subgraphs, whose callback
runs with the lock held; handles of another graph.

### 3.7 UGens in wrappers: `Envelopes` and `Wrapped`

A node is a stack of wrapper records around a UGen record. `Apply`, `SetDelay` and `Process` are the calls
`param_apply`, `set_delay_within_block_for_param` and `process_block` or `process`; each goes from a layer to the one
inside, and each kind of layer does with it what its `impl UGen` does: `WrPreciseTiming` keeps changes and splits the block at
their frames, `WrSmoothParams` turns values into ramps, `WrArParams` plays a buffer frame by frame and calls `process`,
`WrDone` clears the flags before and looks at them after, the math wrappers change what comes out. The flags are one record for
all nodes of the block, as in the code. `Block` is `GraphGen::process_block`: the changes, the tasks, and the cut
from the frame at which the Graph frees itself.

`Envelopes` has `Constant`, `DoneOnTrig`, `EnvAsr`, `EnvAr` and `Envelope` as functions from one sample to the next. Time
is in frames and values are integers in units that make a cubic release exact (`One` to the fourth power is 1.0).

| Property | What it says |
|---|---|
| `HeardWhenDue` | behind `WrPreciseTiming`, with math wrappers on either side, scheduled changes are heard in the order they were sent, none before its frame, and all by the end of the block unless there are more than slots; an audio rate buffer is played frame by frame |
| `FreedAtItsEnd` | a node is freed, and a Graph cut, by a UGen that ended in that block and by no other, though all share the flags; an envelope that counts frames is cut at the frame it ends at |
| `Settles` | an envelope that is released or in its last segment frees what it should; a ramp arrives at its value - unless something else is asked for |

`wrapped`: blocks of 4 frames and two slots for delayed changes; eleven Graphs (`SomeGraphs`), each a stack or two with
the changes and triggers that matter to it, and up to four of them in any blocks and at up to three frames. Two changes fill the slots
and a third is lost; a ramp of 8 frames takes two blocks; two nodes are enough for a flag that is left up. Fairness: `WF` of
`NextBlock` - the backend goes on asking for blocks (`cpal.rs:164`, `processor.rs:119`); `parity` changes with each of them, so that a
block that changes nothing else is still a step. `Settles` excuses what the code does not promise: a smoothing that is
set while a ramp runs (section 5), a `t_stop`, an envelope that is restarted.

### 3.8 The log: `RtLog`

`Log` begins an `rt_log!`, which then sends part after part and an End (`Send`); a part that finds the ring full is gone.
`Recv` goes through the channels: it asks for the parts that are there (`ReadChunk`), hands chain after chain to the
handler (`Hand`) and gives the slots back (`Commit`), while the senders go on. `Slice0` and `Slice1` are the two slices
of a chain, translated from the index arithmetic of `recv`; that the ring gives its memory in two pieces is rtrb's
(external). `HandedAsItLies`: a chain that is handed over is what lies in the ring up to the next End, whichever way it
lies around the end of the memory, and nothing is given back that was not handed over. `MessagesArrive`: as long as nothing
was dropped every chain is one whole message, in order; and every End that fitted comes out, under weak fairness of a
thread that has begun to send and of a receiver that is asked again.

`log`: a ring of 4 and one of 2 slots, three messages of up to three parts on the first. Messages of one, two and
three parts bring the start of the ring to every slot, and a message does not fit while another is read.

### 3.9 Blocks and the driver: `Blocks` and `Driver`

A block is the addresses of its channels, its size, and how far an access may go before it panics: `VecBlock` looks only
at the end of its whole buffer, and a part of a block leaves it to the block inside. `Driver` puts a Graph with one node between
a backend and blocks of this kind: the node plays the number of each frame, its wrappers split every block twice. cpal
asks for any number of frames, which `counter` joins to blocks across callbacks; jack copies one block, whatever it asks for.

`HeardInStep`: the host hears each frame of the Graph once and in order, together with the input it gave for
it, and the time that other threads read is never before a frame that is heard and at most a block ahead. The shared clock is in `Seconds`, as in the code
(`processor.rs:134`): `Store` converts the frame clock and `StoredFrame` converts it back. `StartCpal` may fail: when it is running already, on the wrong
number of outputs, or because the device does not open, which loses the processor. For jack this is
stated for periods of the size it was opened with; `HeardWhatever`, without that condition, is violated (section 5).
`driver`: blocks of 4, callbacks of 1, 3 and 7 frames (fewer and more than a block, and no divisor of it), 13
frames, two starts, every pair of splits; 3 samples and 6 tesimals in a second. Left out: devices and formats, and the conversion of samples.

## 4. What is proved

All theorems hold for every value of the constants under the modules' named assumptions: finite sets of
keys, capacities of at least one, lists of edges that are lists of sources, and sample rates that divide the tesimals of a second where time is converted.

**`GraphHandoffProofs`: `Invariance`, `TypeCorrect`, `TasksOwn`, `RemovedSafe`.** That every task has its own
UGen is not inductive: it depends on what is in the rings and in the nodes. `IInv` says that the TaskData
that runs and those on their way form a chain: each names its UGens by their place in the one before
(`ChainLinked`), the nodes by their place in the last (`NodesLinked`), the first has all of its own or is
about to be replaced (`CurrentReady`); that flags rise along the chain (`FlagsRise`), so that a raised flag
speaks for everything before it; and that a pending node is in no TaskData at or after its flag
(`PendingLeft`). Applying a TaskData replaces the head of the chain, sending one appends to it. Removal is then
safe: a raised flag is at most that of the TaskData that runs, and the node is in none from there on.

**`Refinement`** (same module). `Spec => ImplementsUpdates`: `SendTasks` publishes, `ApplyTaskData`
plays, `CheckOldNode` reclaims, and every other step stutters; the guard of reclaiming is `RemovedUnreachable`
after the step.

**Memory and UGens: `MemoryInvariance`, `MemoryIsKept`, `Ownership`, `UGensAreMoved`** (same module). The invariant
`MemoryInv` counts what is in the rings against what a commit has read of them, and says where the Arcs are.
`UGensMoved` rests on it and on `OwnInv`: a UGen is at one index of one TaskData (`OwnedOnce`), along a chain
in which every TaskData names a node once (`OrdersDistinct`), a node that was never sent is named by none
(`FreshUnsent`), and when a node is missing from a TaskData its flag is at or before that one (`DeparturesFlagged`).
So what `apply_self_on_audio_thread` leaves behind for the control thread to drop belongs to nodes that are gone.

**`NodeOrderProofs`: `OrderTyped`, `OrderInvariance`, `NodesRunOnce`, `SearchIsOrdered`.** The invariant says that visited
nodes are those of the order together with those of the stack, without repetition once the search runs, and
that along the stack every ranking that agrees with the edges of the visited nodes and with the roots falls. So the top
has no unvisited source when it is popped, and its visited sources cannot lie below it: they are in the order.

**`NodeBuffersProofs`: `BuffersTyped`, `BuffersInvariance`, `DataIsKept`, `AllocationIsEnough`.** That a block is not overwritten
too early says nothing about the allocator's state, so the invariant counts: a block of data has *at least* as many borrows as edges that have yet to
return one (`BorrowsCover`), so when the last borrow is gone no task needs the block any more; it then is in `return_order` once,
and no task that needs it was given it (`ReturnedFree`). Hence two tasks that are needed at the same time have their channels apart
(`KeptApart`), which is all that the block of audio needs (`Unspoilt`). It has to be "at least": a source may run after its
reader, whose borrow is then never returned, and the block of a node without outputs has length zero, starts where the next does
and takes borrows that belong to that. Both leak a block for the rest of the calculation and harm nothing, and the theorem
holds of them. The hypothesis `FewEdges` is that the edges are fewer than `usize::MAX`, which memory guarantees: it is what
keeps the empty channel lent for ever. Neither the order of the tasks nor the widths of the feedback nodes are needed.

**`GraphEdgesProofs`: `EdgesTyped`, `EdgesKept`, `NamesNodes`, `NoCircles`, `ChangesMarked`.** The calls are compositions of a few
operations on the record of the Graph, and there is a lemma for each: that it keeps the fields well formed (`Sound`) and,
as long as there are no parameter edges, that every edge names a node that is there and the inputs stay acyclic (`Sane`).
For acyclicity, `~ HasPath` gives a set that is closed under sources and does not have the sink in it; adding an
edge out of that set makes no circle, and removing a math node joins two edges that were a path before. Feedback pairs need no
such argument: their source node reads nothing. The hypothesis `"parameter" \notin calls` - no parameter has been connected in this
behaviour - is needed because the code needs it: an edge to a parameter survives the node it comes from (section 5), and a math node that is
made for it then names what is gone. `EdgesTyped` and `ChangesMarked` hold without it.

**`EdgesImplementConnections`, `CallsDoAsAsked`, `CommitsDisconnectNothing`** (same module). What a sink hears is `CountIn`, a recursive
function that is cut off after as many steps as there are own nodes. `CountInCounts` says that the cut loses nothing: in
a graph without circles it is a function that counts 1 at the edge of an outlet and at each math node the sum of its two inputs
(`Counts`), and `CountsAre` that there is only one. Each step of the recursion settles at least one more math node (`SettledGrows`), since of those
that are not settled one reads none of the others, as there are no circles; so all are settled after as many steps as there are
keys (`AllSettle`). From there on nothing is recursive. Each operation on the record has a lemma that
gives the counts of the new graph by those of the old: edges struck out (`StruckGone`, `StruckStays`), a node or an output disconnected
(`FreedUserHears`, `OutputDisconnectedHears`), a math node bypassed or taken out (`BypassedHears`, `EvaluatedHears`), nodes that nothing
reads yet (`ExtendedHears`), an edge put at a sink (`PutHears`), a source summed (`SummedHears`), a feedback pair (`FeedbackHears`). The invariant
`HeardInv` adds `Tidy` to that of the edges: a math node is in no feedback pair, a feedback node delays an output of the user's and not
one of the graph's own nodes, and no chain of math nodes from a graph output reaches a feedback node. The last is needed because
`evaluate_if_node_should_be_removed` frees a feedback pair that no node reads, and does not look at the graph outputs: none of them reads
it, since feedback connects to nodes only and bypassing stays within a chain. A commit that panics in the loop over the graph outputs stops after
the inputs have been redirected, and still changes no connection. Every action is then one step of `Connections` - the panic of `DisconnectGraphInput` too - or a stutter.
The hypothesis `"parameter" \notin calls` is again what the code needs, since freeing a node and disconnecting an output leave the edges to
parameters, which `Connections` would have removed; `edges_calls` checks the connections to parameters in behaviours that make only those.

**`ParameterChangesProofs`: time** (`SubtractionSaturates`, `TesimalsRoundTrip`, `AdditionExact`, `LosslessConversion`,
`ConversionBetweenRates`, `CountdownExact`, `BeatsExact`, `FractionsExact`). Times and beats are numbers of two digits, and the lemmas
`Ordered`, `Carried` and `Borrowed` are about those: so sums, differences and the order are those of tesimals. For every
sample rate that divides the tesimals of a second (282 240 000, "all common sample rates") samples survive the way to
`Seconds` and back; at another such rate they become the last sample that is not later; and subtracting a block's worth of
time from *any* time takes exactly the block from its samples - also when the time is not a whole number of samples, where
truncation could have lost one. The proofs are about quotients and remainders, from uniqueness of division.

**`ParameterChangesProofs`: all safety properties of `ParameterChanges`**, along four invariants, each resting on the ones before it.

* `ChangesInv` (`ChangesInvariance`, `NothingIsMissed`, `GivenUpAfterASecond`). What a waiting change has left is
  counted from now while the loop has yet to look at it, and from the next block once it was pushed back
  (`Right`). A change that was pushed back was not ready, and neither its token, nor the tasks, nor the clock change
  before the tasks run. `CountdownExact` carries the count over a block. The blocks a change has waited for are those since
  it was read, and `blocks_to_keep_scheduled_changes` of them, rounded down, are at most a second; hence the bounds.
  The assumption on the sample rate is `RateAssumption`; without it the count would drift.
* `CallsInv` (`CallsInvariance`, `ChangesTyped`, `NothingIsEarly`). A delay within the block is the distance to the frame the change is due
  at, so it is less than a block and the delayed call is made at that frame (`DelaysKept`). The tokens need no more than that they stay active: a call is
  made, or handed to the node, when its token is active (`OnlyActivated`).
* `AheadInv` (`ChangesComeFirst`). A node that is not played has not been sent; a change of it that arrives while the loop of new events runs
  was sent with an edit that this block cannot have seen. So all that was sent before the edit ended has been read, and what of it still waits was not ready
  (`NothingReadyWaits`).
* `OrderlyInv` (`OrderlyInvariance`, `NothingLostOrSwapped`). The ring holds the last events sent, and the queue is in the order of sending
  but for the changes that this block has pushed back behind those it has yet to look at (`Turned`): that turn is undone when the loop ends,
  which is why pushing back keeps the order (`QueueInv`). A call is in one place at a time (`PlacesInv`). What is made, delayed or
  waits could be made in this order (`OrderInv`, `WaitingInOrder`): a change is applied only when the changes that were sent before it with the same token
  and no later time are not waiting either, since they would have been ready; and it does not overtake one that is delayed in the
  node, because after the first delay a parameter is always delayed (`DelaySet`) - the very thing that makes `SampleAccurate` false (section 5)
  makes `InOrder` true.

**`RtLogProofs`: `Typed`, `Handed`.** `TypeOK` is inductive: the receiver's chunk is at most what the ring holds, since
only `Commit` takes from it, and `Send` appends only when it fits. `Handed` is then a fact about sequences: the two slices
of a chain of a ring that is itself cut in two, put together, are the chain - by cases on whether the chain ends
in the first piece, starts in the second, or lies across.

**`DriverProofs`: blocks** (`ContiguousDisjoint`, `PartialWithin`, `PartialOfPartial`). The channels of a contiguous block share no
sample, which `iter_mut` relies on; a part that is taken within a block touches only its samples, so the same holds of it;
and a part of a part is a part, also by its metadata.

**`HostHearsInStep`** (same module). Wherever a wrapper splits, the parts before and after the split play what the whole would
(`PlayedTwice`), and so do the parts of the parts: a block is played whole. The invariant `HeardInv` then relates the three counters -
of the backend, of the Graph, of the clock that other threads read (`CountsAgree`) - to what lies in memory
(`BlocksInMemory`) and to all that was heard (`AllHeard`): between two callbacks of cpal the rest of a block waits there. That the time survives its conversion to `Seconds` is assumed of sample rates that divide the tesimals of a second
(`DriverRateAssumption`) and proved from that (`StoredAsItIs`); at other rates the clock is the last tesimal before the frame.

**`HandlesProofs`: `NoHalfCalls`.** A call that panics with part of its channels connected holds the lock, so the drop
of the edit aborts; a call that panics without the lock has connected nothing. The proof goes through every call, whatever
operators and channels it is given.

**`HandlesTyped`, `NeverACircle`** (same module). The invariant `HandlesInv` says that every edge names an output that there is, also after
its node is freed or removed (`NamesOutputs`), that every channel of a handle is one of a node (`Fits`), and that both inputs of an
operator are there for good and hear nodes that are older than it (`OperatorsHearEarlier`) - which is why an operator can never
close a circle. What the user's calls connect can, and `has_path` is what prevents it: `Upstream` is searched level by level, each level that is not closed yet
has a node that the one before lacks (`LevelsGrow`), so as many levels as nodes reach everything (`UpstreamClosed`);
so what is upstream of the source is closed under sources, and an edge into a node that is not in it makes no circle (`NoPathNoCircle`).
Conversely every node upstream is at the end of a path (`UpstreamOnPath`), which the edge would close (`PathCloses`). Freeing and disconnecting take edges away.

**`ConnectedAsAsked`** (same module). `to` and `try_to` connect pair after pair and may stop at one. `Runs` is such a course, with the
graph after each pair (`PairsRun`): a pair that may be connected joins (`Joins`), one that makes a circle is refused (`Refuses`), and
after a panic or an error nothing happens any more (`Ends`). Edges are only added while a call runs (`MoreHeard`), so a pair that was refused half-way
would close a circle at the end too (`RefusedCloses`): the pairs left out are exactly those that fit nowhere, however they
depend on those before them. What each sink hears is what it heard, followed by the joined pairs in their order
(`HeardSoFar`); when a call replaces, it is the source that was joined last (`RunReplaces`).

**`StandsForWhatWasAsked`** (same module). The value of an output is defined by a function that refers to itself. It exists
(`ValuesExist`) because an operator hears older nodes only, by induction on the numbers of the nodes, and it is the only one for the nodes in question
(`ValueKept`): so a value is the same in two graphs in which the operators below it hear the same (`SameOperands`), and every call but
freeing and disconnecting is such a step. A new operator then stands for its operands (`ValueOfOperator`), and the
operators of one call are made channel by channel, each without changing those before it (`OperatorsSteps`).

The theorems of `Handles` assume of the constants what the names say: `StartsAssumption` that a shape is three numbers, `SelectionsAssumption`
that channels are counted from 1, and `OperationsAssumption` that no operator has the name of a kind of node.

The inductive invariants were checked by TLC on the instances of the runs before they were proved.

Induction over data. The library's induction theorems take an operator as a parameter, for which the installed backends have no
support. `LeastNumber` and `LargestNumber` in `ParameterChangesProofs` are the way round: a set of numbers that is not empty has a least, and one
that is bounded a largest, so a property of every number is proved by looking at its least counterexample. `SetInduction`
in `GraphEdgesProofs` and `HandlesProofs` is the same for a set of numbers, from the library's `WFMin`. The folds of the community modules
are such a recursion too: `FoldExists` and `LevelsExist` in `HandlesProofs` show once that there is a list of intermediate results, one from the
other, whenever the step is a function; what a fold computes is then a statement about that list.

Only model-checked: liveness (`SentIsPlayed`, `FreedIsRemoved`, `Terminates`, `Settles`, the second half of `MessagesArrive`), which is out
of the prover's reach; the connections of parameters; and all of `Wrapped` (`TypeOK`, `HeardWhenDue`, `FreedAtItsEnd`), whose stacks of
wrappers are recursive operators, which the prover has no backend for.

A definition that starts with `UNION` is in parentheses, as in `Outputs`, because the prover reads `UNION A \cup B` as the union of
`A \cup B`, and the model checker as `UNION A` with `B`.

## 5. Findings

The run `changes_accurate` is violated: `precise_timing.rs:7` promises sample accurate changes, but `next_delay` of a
parameter is never reset, so a change at the start of a block is delayed as much as the change of the parameter before it.

These properties are in the modules, and no run checks them because what the code does violates them:

| Property | What the code does |
|---|---|
| `DirectEdgesOrder` in `NodeOrder` | the deepest output node is missed on another branch; a node runs after its reader (`graph.rs:1989`) |
| `OutputsKept` in `NodeBuffers` | the block of a node that feeds an output and another node is overwritten before it is copied (`graph.rs:1594`) |
| `LeftConstantIsLeft` in `Handles` | `1.0 - node` and `1.0 / node` are `node - 1.0` and `node / 1.0` (`graph_edit.rs:1188`) |
| `NeverAboveOne` in `Wrapped` | an `EnvAsr` that is restarted while it sustains starts where its attack left `t`, above 1.0 (`envelopes.rs:50`) |
| `OnlyFullMessages` in `RtLog` | "only full message chains are received" (`log.rs:155`), but a message whose End was dropped is received as the beginning of the next |
| `HeardWhatever` in `Driver` | when jack changes its period, frames are lost or left as they were (`jack.rs:145`) |

The actions of the modules contain these too:

* `FreeNode` in `GraphEdges`: freeing a node leaves parameter edges that name it, and a later commit panics (`graph.rs:1753`).
* `SendFails`: more commits than the ring has slots before a block is played, and `send_updated_tasks` fails after the UGens
  have been moved out of their nodes; they are lost and the drop of `GraphEdit` panics (`graph_edit.rs:260`).
* `Panics`: a math node that has one input left is removed in a loop over the graph outputs that unwraps every one of
  them: a panic when any is not connected (`graph.rs:1120`).
* `LookAtNew`: the comment at `graph_gen.rs:167` fears that changes for removed nodes accumulate until there is a
  crash; they are given up after a second (`KeptForASecond`), and the queue never grows past its capacity.
* `ReturnBorrow` and `FinishAssigning`: the zero-length block of a node without outputs starts where the next block
  does and gets its borrows back, so that the count panics or wraps; at the end of a full allocation its offset has
  no pointer and `make_task` panics (`buffer_allocator.rs:94`, `graph.rs:101`).
* `AddRemaining`: nodes that reach no output run in slot order, whatever their edges (`graph.rs:2047`).
* `ConnectParameter`, `DisconnectInput`: connecting a parameter, or disconnecting a graph output, asks for no update, so
  the change is not sent until another does (`graph.rs:684`, `graph.rs:1084`).
* `OutputDisconnected`, `Bypassed`: disconnecting an output leaves the parameters that read it connected, and a math
  node of a parameter is removed without passing its remaining source on (`graph.rs:1033`, `graph.rs:1109`).
* `DisconnectGraphInput`: disconnecting graph input *n* also disconnects graph output *n*, or panics when there is none
  (`graph.rs:1025`).

* `AfterPanic`: a typed `to_replace` that would make a circle panics with the lock held; the drop of the edit then panics on
  the poisoned lock and the program aborts (`graph_edit.rs:341`, `graph_edit.rs:260`); without `std` there is no poison and half a call is
  committed (`graph_edit.rs:62`).
* `SetSmoothing`: set during a ramp it marks the ramp as done, and the parameter stays between its values
  (`smooth_params.rs:95`); without smoothing it goes on counting from the old ramp. `NotSmoothed(0)`: the first ramp starts
  at zero, whatever the parameter was. `Between`: a ramp of no frames is 0/0. `Advanced`: a ramp at audio rate comes one frame further
  with every block.
* `MarkedFrame`: an `Envelope`, and everything inside a `WrArParams`, is done at frame 0, so that its graph is cut at the start of the
  block; `Set` with `t_stop` never marks it as done. `MarkRemoveParent`: of two nodes that free the graph in a block the later
  decides the frame.
* `SetDelay`: `WrDone`, `WrSmoothParams` and `WrArParams` do not forward the delay of a parameter, so a change under them is made at the
  start of its block (`ugen.rs:337`); a `WrMul` forwards that of its own parameter, and a `WrPreciseTiming` inside panics
  (`math.rs:109`).
* `Committed` in `RtLog`: a ring that is full of parts without an End is never read again.
* `StartJack`, `StopJack`: a start that fails, and every stop, loses the client. `Run`: a Graph with inputs panics in its first block
  under cpal.
* `Mul` in `Seconds`: the products of the parts are added without being scaled and the cross terms are missing, so that half a second times
  half a second is no quarter (`time.rs:180`). Nothing uses it. `Seconds::MAX` has more tesimals than a second.

Read in the source and in no model: `!a == b` in the checks for a node of another graph (`graph.rs:507`); both nodes of a
feedback connection are `FeedbackSink`s (`graph.rs:882`); `Graph::set` checks the index of a parameter (`graph.rs:1366`) and
`Handle::set` does not (`handle.rs:223`); the callback of `subgraph` runs with the lock of the outer graph held (`graph_edit.rs:216`).

## 6. Not modelled

Sample arithmetic (oscillators, filters, noise, effects), which is floating point and out of TLC's reach, with the delay lines and
sample players for now; the conversions of times and beats through floating point; macros, examples and
benchmarks; inspection, which changes nothing; the forwarding through vtables, which has no state; user functions
in closures; subgraphs, and handles of another graph; `connectable.rs` and `connectable2.rs`, which `lib.rs` does not include.

## 7. Plan

Done: the handoff, the order, the buffers, parameter changes, the log, time, blocks and the driver, and the edges down to the
refinement of `Connections`, and handles, each with proofs of all their safety properties; wrappers and envelopes, checked by TLC.

Next, in this order:

1. An abstract specification for `ParameterChanges`: each change is made once, at its time, or dropped for a named reason.
2. A composition of `GraphEdges`, `NodeOrder` and `NodeBuffers` on one graph, implementing `Connections` down to what a
   sink hears; feedback as data, and audio rate links.
3. The indices of delay lines and sample players, with their interpolation left out.
4. Theorems about `Wrapped`: the layers of a stack as functions on numbers instead of recursive operators.

## 8. Running

In this directory: `tlc -config MCGraphHandoff.cfg MCGraphHandoff` for a run (the module and the `.cfg` of each
are in `PROJECT.json`), `tlapm GraphHandoffProofs.tla` for the proofs. Definitions marked `mutant` are plausible
bugs; replacing the named definition by one of them makes TLC find the property violated.
