------------------------------ MODULE Wrapped -------------------------------
(***************************************************************************)
(* UGens in their wrappers: how a parameter change and a block go down a   *)
(* stack of WrDone, WrPreciseTiming, WrSmoothParams, WrArParams and math   *)
(* wrappers, what comes up, and how a UGen that is done frees its node or  *)
(* its Graph.                                                              *)
(*                                                                         *)
(* A node is the stack of its wrappers, the outermost first, and the UGen  *)
(* inside.  Every call goes from one layer to the next: Apply is           *)
(* param_apply, SetDelay is set_delay_within_block_for_param, Process is   *)
(* process_block, or process for a single frame.  Scheduling is in         *)
(* ParameterChanges: here a change has reached the block that it is due in *)
(* and has a delay within it.                                              *)
(***************************************************************************)
EXTENDS Envelopes, FiniteSets

CONSTANTS
  Graphs,                   \* [nodes, sends, delays, most]: the nodes of a Graph in
                            \* their order, for each the <<parameter, value>> that are
                            \* sent to it, the frames in a block that those are due at,
                            \* and how many are sent (a bound for TLC)
  BlockSize,
  Slots,                    \* DELAYED_CHANGES_PER_BLOCK
  NaN                       \* what 0.0 / 0.0 is, a value that is not a sample

ASSUME WrappedAssumption ==
  /\ BlockSize \in Nat \ {0} /\ Slots \in Nat \ {0}
  /\ \A g \in Graphs : g.delays \subseteq 0 .. BlockSize - 1
  /\ NaN \notin Nat

VARIABLES
  graph,                    \* the nodes, and what is sent to them
  queue,                    \* the changes that are due in the next block
  number,                   \* of changes sent
  freed,                    \* GraphGen.freed, and remove_me_flag
  parity,                   \* of the blocks that were asked for
  last                      \* the block that was processed last (history)
vars == <<graph, queue, number, freed, parity, last>>

Frames == 0 .. BlockSize - 1
Empty == [f \in Frames |-> 0]

-----------------------------------------------------------------------------
(***************************************************************************)
(* The wrappers                                                            *)
(***************************************************************************)
Done(action) == [kind |-> "done", action |-> action, free_self |-> FALSE]

NoChange == [parameter |-> "none", value |-> Trigger, delay |-> 0]
PreciseTiming(parameters) ==
  [kind |-> "precise", next_delay |-> [p \in parameters |-> 0], next_delay_i |-> 0,
   waiting |-> [i \in 1 .. Slots |-> NoChange]]

(* The smoothing of the one float parameter, "value".                      *)
NotSmoothed(value) == [type |-> "none", current |-> value]
Ramp(start, end, frames, elapsed, rate, done) ==
  [type |-> "linear", start |-> start, end |-> end, frames |-> frames,
   elapsed |-> elapsed, rate |-> rate, done |-> done]
SmoothParams == [kind |-> "smooth", state |-> NotSmoothed(0)]

(* `value` plays the frames of a buffer that is written in every block.    *)
ArParams(buffer) == [kind |-> "ar", buffer |-> buffer, block_index |-> 0]

Math(op, value) == [kind |-> "math", op |-> op, value |-> value]

(* What each of the math wrappers makes of a sample.                       *)
Mul(s, v) == s * v
Add(s, v) == s + v
Sub(s, v) == s - v
VSub(s, v) == v - s
Div(s, v) == s \div v
VDiv(s, v) == v \div s
Powf(s, v) == s ^ v
Powi(s, v) == s ^ v
MathOf(layer, s) ==
  CASE layer.op = "mul"   -> Mul(s, layer.value)
    [] layer.op = "add"   -> Add(s, layer.value)
    [] layer.op = "sub"   -> Sub(s, layer.value)
    [] layer.op = "v_sub" -> VSub(s, layer.value)
    [] layer.op = "div"   -> Div(s, layer.value)
    [] layer.op = "v_div" -> VDiv(s, layer.value)
    [] layer.op = "powf"  -> Powf(s, layer.value)
    [] layer.op = "powi"  -> Powi(s, layer.value)

-----------------------------------------------------------------------------
(***************************************************************************)
(* UGenFlags: one record for all the tasks of a Graph in a block.          *)
(***************************************************************************)
NoFrame == BlockSize * 1000                       \* u32::MAX
NewFlags == [supported |-> FALSE, done |-> FALSE, done_frame |-> NoFrame, remove_self |-> FALSE,
             remove_parent |-> FALSE, parent_frame |-> NoFrame]
MarkDone(flags, frame) == [flags EXCEPT !.done = TRUE, !.done_frame = frame]
MarkRemoveSelf(flags) == IF flags.supported THEN [flags EXCEPT !.remove_self = TRUE] ELSE flags
MarkRemoveParent(flags, frame) ==
  [flags EXCEPT !.remove_parent = TRUE, !.parent_frame = frame]
MarkSupported(flags) == [flags EXCEPT !.supported = TRUE]
FlagsKept(flags) == flags                          \* mutant: the node before is still done
ClearNodeFlags(flags) ==
  [flags EXCEPT !.supported = FALSE, !.done = FALSE, !.done_frame = NoFrame,
                !.remove_self = FALSE]

-----------------------------------------------------------------------------
(***************************************************************************)
(* A call works on the node, the flags, the frames that the node has       *)
(* played, and whether it has panicked; ended is the frame of the block    *)
(* that the UGen ended with (history).                                     *)
(***************************************************************************)
Call(node, flags) ==
  [layers |-> node.layers, ugen |-> node.ugen, flags |-> flags, out |-> Empty,
   ended |-> NoFrame, panicked |-> FALSE]
Layer(s, l) == s.layers[l]
WithLayer(s, l, layer) == [s EXCEPT !.layers[l] = layer]
Inside(s, l) == l > Len(s.layers)

(* The parameters of what is inside the layers before l: a WrMul and a     *)
(* WrDone have one of their own.                                           *)
Own(layer) ==
  CASE layer.kind = "done"                      -> {"done_action"}
    [] layer.kind = "math" /\ layer.op = "mul"  -> {"wr_mul"}
    [] OTHER                                    -> {}
ParametersOf(s, l) ==
  Parameters(s.ugen) \cup UNION {Own(s.layers[k]) : k \in l .. Len(s.layers)}

(* How far a ramp has come: 0 / 0 frames is no number.                     *)
Between(start, end, elapsed, frames) ==
  IF frames = 0 \/ start = NaN THEN NaN ELSE start + ((end - start) * elapsed) \div frames
Now(r) == Between(r.start, r.end, r.elapsed, r.frames)

(* A ramp to a new value starts from where the one before it is.           *)
Retarget(r, value) ==
  Ramp(IF r.done THEN r.end ELSE Now(r), value, r.frames, 0, r.rate, FALSE)

(* set_smoothing.  A ramp under way is marked as done where it is.         *)
SetSmoothing(r, value) ==
  CASE value.type = "no_smoothing" /\ r.type = "none"   -> r
    [] value.type = "no_smoothing" /\ r.type = "linear" -> NotSmoothed(Now(r))
    [] value.type = "smoothing" /\ r.type = "none" ->
         Ramp(r.current, r.current, value.frames, 0, value.rate, TRUE)
    [] value.type = "smoothing" /\ r.type = "linear" /\ r.done ->
         Ramp(r.end, r.end, value.frames, 0, value.rate, TRUE)
    [] value.type = "smoothing" /\ r.type = "linear" /\ ~r.done ->
         Ramp(Now(r), r.end, value.frames, r.elapsed, value.rate, TRUE)

RECURSIVE Apply(_, _, _, _)
ApplyDone(s, l, parameter, value) ==
  IF parameter = "done_action" THEN [s EXCEPT !.layers[l].action = value.x]
  ELSE Apply(s, l + 1, parameter, value)

(* A change is kept for the delay that was last given for its parameter.   *)
ApplyAtOnce(s, l, parameter, value) ==             \* mutant: the delay is not looked at
  Apply(s, l + 1, parameter, value)
ApplyPrecise(s, l, parameter, value) ==
  LET w == Layer(s, l) IN
  CASE w.next_delay[parameter] = 0 -> Apply(s, l + 1, parameter, value)
    [] w.next_delay[parameter] > 0 /\ w.next_delay_i < Slots ->
         WithLayer(s, l, [w EXCEPT
           !.waiting[w.next_delay_i + 1] =
              [parameter |-> parameter, value |-> value, delay |-> w.next_delay[parameter]],
           !.next_delay_i = @ + 1])
    [] OTHER -> s

ApplySmooth(s, l, parameter, value) ==
  LET r == Layer(s, l).state IN
  CASE value.type \in {"integer", "trigger"} -> Apply(s, l + 1, parameter, value)
    [] value.type = "float" /\ r.type = "none" -> Apply(s, l + 1, parameter, value)
    [] value.type = "float" /\ r.type = "linear" ->
         [s EXCEPT !.layers[l].state = Retarget(r, value.x)]
    [] value.type \in {"smoothing", "no_smoothing"} ->
         [s EXCEPT !.layers[l].state = SetSmoothing(r, value)]

(* A parameter that has a buffer takes no other values.                    *)
ApplyAr(s, l, parameter, value) ==
  IF parameter = "value" THEN s ELSE Apply(s, l + 1, parameter, value)

ApplyMath(s, l, parameter, value) ==
  IF parameter \in Own(Layer(s, l)) THEN [s EXCEPT !.layers[l].value = value.x]
  ELSE Apply(s, l + 1, parameter, value)

Apply(s, l, parameter, value) ==
  IF Inside(s, l) THEN [s EXCEPT !.ugen = Set(@, parameter, value)]
  ELSE CASE Layer(s, l).kind = "done"    -> ApplyDone(s, l, parameter, value)
         [] Layer(s, l).kind = "precise" -> ApplyPrecise(s, l, parameter, value)
         [] Layer(s, l).kind = "smooth"  -> ApplySmooth(s, l, parameter, value)
         [] Layer(s, l).kind = "ar"      -> ApplyAr(s, l, parameter, value)
         [] Layer(s, l).kind = "math"    -> ApplyMath(s, l, parameter, value)

(* Only the math wrappers hand the delay on, for their own parameter too,  *)
(* which is none of those that a WrPreciseTiming inside has a place for.   *)
RECURSIVE SetDelay(_, _, _, _)
SetDelay(s, l, parameter, delay) ==
  CASE ~Inside(s, l) /\ Layer(s, l).kind = "math" -> SetDelay(s, l + 1, parameter, delay)
    [] ~Inside(s, l) /\ Layer(s, l).kind = "precise" ->
         IF parameter \in DOMAIN Layer(s, l).next_delay
         THEN [s EXCEPT !.layers[l].next_delay[parameter] = delay]
         ELSE [s EXCEPT !.panicked = TRUE]
    [] OTHER -> s

-----------------------------------------------------------------------------
(***************************************************************************)
(* Playing n frames from a frame of the block on.  A part of a block is    *)
(* processed like a block; single is a call of process for one frame.      *)
(***************************************************************************)
EachFrame(n) == [k \in 1 .. n |-> k - 1]
MarkedFrame(u, k, single) == IF CountsFrames(u) /\ ~single THEN k ELSE 0
RunUGen(s, from, n, single) ==
  FoldLeft(LAMBDA acc, k :
             LET next == NextSample(acc.ugen) IN
             [acc EXCEPT !.ugen = next.ugen, !.out[from + k] = next.out,
                         !.flags = IF next.done
                                   THEN MarkDone(@, MarkedFrame(acc.ugen, k, single)) ELSE @,
                         !.ended = IF next.done /\ @ = NoFrame THEN from + k ELSE @],
           s, EachFrame(n))

RECURSIVE Process(_, _, _, _, _)

(* process_flags: the action of WrDone.                                    *)
DoneFlags(flags, action) ==
  CASE flags.done /\ action = "free_self"   -> MarkRemoveSelf(flags)
    [] flags.done /\ action = "free_parent" -> MarkRemoveParent(flags, flags.done_frame)
    [] OTHER                                -> flags
ProcessFlags(s, l) ==
  LET flags == DoneFlags(s.flags, Layer(s, l).action)
  IN  [s EXCEPT !.flags = flags, !.layers[l].free_self = @ \/ flags.remove_self]
ProcessDone(s, l, from, n, single) ==
  ProcessFlags(Process([s EXCEPT !.flags = MarkSupported(ClearNodeFlags(@))],
                       l + 1, from, n, single), l)

(* Every slot is emptied, whatever it waits for, and none is given back.   *)
AllWaiting(s, l) ==
  FoldLeft(LAMBDA acc, c : IF c = NoChange THEN acc ELSE Apply(acc, l + 1, c.parameter, c.value),
           WithLayer(s, l, [Layer(s, l) EXCEPT !.waiting = [i \in 1 .. Slots |-> NoChange]]),
           Layer(s, l).waiting)

(* The changes of a WrPreciseTiming from the c-th on that are due at a     *)
(* frame, up to the first that is not; what comes next is the c-th then.   *)
RECURSIVE ApplyDue(_, _, _, _)
ApplyDue(s, l, at, c) ==
  LET w == Layer(s, l) IN
  IF c <= w.next_delay_i /\ w.waiting[c].delay <= at
  THEN LET change == w.waiting[c]
           taken == WithLayer(s, l, [w EXCEPT !.waiting[c] = NoChange])
       IN  ApplyDue(IF change = NoChange THEN s
                    ELSE Apply(taken, l + 1, change.parameter, change.value), l, at, c + 1)
  ELSE [call |-> s, next |-> c]

(* The block is split at the frames that changes wait for.                 *)
RECURSIVE Pieces(_, _, _, _, _, _)
Pieces(s, l, from, n, i, c) ==
  LET due == ApplyDue(s, l, from + i, c)
      w == Layer(due.call, l)
      until == IF due.next <= w.next_delay_i THEN w.waiting[due.next].delay - from ELSE n
      end == IF until < n THEN until ELSE n
  IN  IF i >= n THEN [due.call EXCEPT !.layers[l].next_delay_i = 0]
      ELSE Pieces(Process(due.call, l + 1, from + i, end - i, FALSE), l, from, n, end, due.next)
ProcessPrecise(s, l, from, n, single) ==
  IF single THEN Process(AllWaiting(s, l), l + 1, from, n, TRUE)
  ELSE Pieces(s, l, from, n, 0, 1)

(* next_value.  The end of a ramp is played once more before it is done; a *)
(* ramp at audio rate comes one frame further with every block.            *)
Ramping(r) == r.type = "linear" /\ ~r.done
DoneAtOnce(r, frames) ==                           \* mutant: done before the end is played
  [r EXCEPT !.done = r.elapsed + frames >= r.frames, !.elapsed = r.elapsed + frames]
Advanced(r, frames) ==
  CASE r.elapsed = r.frames -> [r EXCEPT !.done = TRUE]
    [] r.elapsed # r.frames /\ r.rate = "block" ->
         [r EXCEPT !.elapsed = IF @ + frames < r.frames THEN @ + frames ELSE r.frames]
    [] r.elapsed # r.frames /\ r.rate = "audio" -> [r EXCEPT !.elapsed = @ + 1]
NextValue(s, l, frames) ==
  LET r == Layer(s, l).state
  IN  IF ~Ramping(r) THEN s
      ELSE Apply([s EXCEPT !.layers[l].state = Advanced(r, frames)], l + 1, "value", Float(Now(r)))
(* Nothing sets the rate of a parameter, so the block is never run frame   *)
(* by frame; a part of a block counts as a whole one.                      *)
ProcessSmooth(s, l, from, n, single) ==
  Process(NextValue(s, l, IF single THEN 1 ELSE BlockSize), l + 1, from, n, single)

(* WrArParams has no process_block of its own: frame by frame.             *)
FrameAfter(s, l) ==                                \* mutant: past the end of the buffer
  [s EXCEPT !.layers[l].block_index = @ + 1]
NextFrame(s, l) ==
  [s EXCEPT !.layers[l].block_index = (@ + 1) % BlockSize]
ProcessAr(s, l, from, n) ==
  FoldLeft(LAMBDA acc, k :
             Process(NextFrame(Apply(acc, l + 1, "value",
                                     Float(Layer(acc, l).buffer[Layer(acc, l).block_index])), l),
                     l + 1, from + k, 1, TRUE),
           s, EachFrame(n))

ProcessMath(s, l, from, n, single) ==
  LET inner == Process(s, l + 1, from, n, single)
  IN  [inner EXCEPT !.out = [f \in Frames |-> IF f \in from .. from + n - 1
                                              THEN MathOf(Layer(inner, l), @[f]) ELSE @[f]]]

Process(s, l, from, n, single) ==
  IF Inside(s, l) THEN RunUGen(s, from, n, single)
  ELSE CASE Layer(s, l).kind = "done"    -> ProcessDone(s, l, from, n, single)
         [] Layer(s, l).kind = "precise" -> ProcessPrecise(s, l, from, n, single)
         [] Layer(s, l).kind = "smooth"  -> ProcessSmooth(s, l, from, n, single)
         [] Layer(s, l).kind = "ar"      -> ProcessAr(s, l, from, n)
         [] Layer(s, l).kind = "math"    -> ProcessMath(s, l, from, n, single)

-----------------------------------------------------------------------------
(***************************************************************************)
(* A Graph that plays its nodes.                                           *)
(***************************************************************************)
NodesOf(g) == DOMAIN g.nodes
Silence(g) == [i \in NodesOf(g) |-> Empty]
NoBlock(g) ==
  [changes |-> <<>>, before |-> g.nodes, out |-> Silence(g), panicked |-> FALSE,
   ended |-> [i \in NodesOf(g) |-> NoFrame], cut |-> NoFrame]

Init ==
  /\ graph \in Graphs
  /\ queue = <<>> /\ number = 0 /\ freed = FALSE /\ parity = 0
  /\ last = NoBlock(graph)

(* A change becomes due in the next block, at one of its frames.           *)
Send ==
  /\ number < graph.most /\ ~freed
  /\ \E i \in NodesOf(graph), delay \in graph.delays :
       \E change \in graph.sends[i] :
         queue' = Append(queue, [node |-> i, parameter |-> change[1], value |-> change[2],
                                 delay |-> delay])
  /\ number' = number + 1
  /\ UNCHANGED <<graph, freed, parity, last>>

(* apply_parameter_change                                                  *)
Changed(node, change) ==
  LET call == Call(node, NewFlags)
      delayed == IF change.delay > 0 THEN SetDelay(call, 1, change.parameter, change.delay)
                 ELSE call
      applied == IF delayed.panicked THEN delayed
                 ELSE Apply(delayed, 1, change.parameter, change.value)
  IN  [layers |-> applied.layers, ugen |-> applied.ugen, panicked |-> applied.panicked]
AllChanged(nodes) ==
  FoldLeft(LAMBDA acc, change :
             LET node == Changed(acc.nodes[change.node], change)
             IN  IF acc.panicked THEN acc
                 ELSE [nodes |-> [acc.nodes EXCEPT
                                    ![change.node] = [layers |-> node.layers, ugen |-> node.ugen]],
                       panicked |-> node.panicked],
           [nodes |-> nodes, panicked |-> FALSE], queue)

(* The tasks, one after the other, with the flags of the block.            *)
RunTasks(nodes) ==
  FoldLeft(LAMBDA acc, i :
             LET s == Process(Call(nodes[i], acc.flags), 1, 0, BlockSize, FALSE)
             IN  [acc EXCEPT !.nodes[i] = [layers |-> s.layers, ugen |-> s.ugen],
                             !.flags = s.flags, !.out[i] = s.out, !.ended[i] = s.ended],
           [nodes |-> nodes, flags |-> NewFlags, out |-> [i \in DOMAIN nodes |-> Empty],
            ended |-> [i \in DOMAIN nodes |-> NoFrame]],
           [i \in 1 .. Len(nodes) |-> i])

(* Silence from a frame on, which may be past the end of the block.        *)
CutFrom(out, frame) ==
  [i \in DOMAIN out |-> [f \in Frames |-> IF f >= frame THEN 0 ELSE out[i][f]]]

(* process_block of the GraphGen                                           *)
Block ==
  /\ ~freed /\ ~last.panicked
  /\ LET changed == AllChanged(graph.nodes)
         run == RunTasks(changed.nodes)
         cut == IF run.flags.remove_parent THEN run.flags.parent_frame ELSE NoFrame
     IN  IF changed.panicked
         THEN /\ last' = [NoBlock(graph) EXCEPT !.panicked = TRUE]
              /\ UNCHANGED <<graph, freed>>
         ELSE /\ graph' = [graph EXCEPT !.nodes = run.nodes]
              /\ freed' = run.flags.remove_parent
              /\ last' = [changes |-> queue, before |-> graph.nodes, panicked |-> FALSE,
                          out |-> CutFrom(run.out, cut), ended |-> run.ended, cut |-> cut]
  /\ queue' = <<>> /\ parity' = 1 - parity
  /\ UNCHANGED number

(* A Graph that is freed plays silence.                                    *)
FreedBlock ==
  /\ freed
  /\ last' = NoBlock(graph) /\ parity' = 1 - parity
  /\ UNCHANGED <<graph, queue, number, freed>>

Next == Send \/ Block \/ FreedBlock

(* The audio backend keeps asking for blocks.                              *)
NextBlock == ~last.panicked /\ parity' = 1 - parity
Spec == Init /\ [][Next]_vars /\ WF_parity(NextBlock)

-----------------------------------------------------------------------------
(***************************************************************************)
(* Properties                                                              *)
(***************************************************************************)
Kinds(i) == [l \in DOMAIN graph.nodes[i].layers |-> graph.nodes[i].layers[l].kind]
HasLayer(i, kind) == kind \in ToSet(Kinds(i))
UGenKind(i) == graph.nodes[i].ugen.kind

Sample_ == Int \cup {NaN}
LayerType(layer) ==
  CASE layer.kind = "done" ->
         layer.action \in {"none", "free_self", "free_parent"} /\ layer.free_self \in BOOLEAN
    [] layer.kind = "precise" -> layer.next_delay_i \in 0 .. Slots
    [] layer.kind = "smooth" ->
         Ramping(layer.state) => layer.state.elapsed \in 0 .. layer.state.frames
    [] layer.kind = "ar" -> layer.block_index \in Frames
    [] layer.kind = "math" -> layer.value \in Int

(* Every wrapper's state has its type; in particular the count of the      *)
(* changes that WrPreciseTiming keeps stays within its slots, a ramp       *)
(* within its frames, and the index into an audio rate buffer within it.   *)
TypeOK ==
  /\ \A i \in NodesOf(graph) : \A l \in DOMAIN graph.nodes[i].layers :
       LayerType(graph.nodes[i].layers[l])
  /\ Len(queue) <= number /\ number \in 0 .. graph.most
  /\ freed \in BOOLEAN
  /\ \A i \in NodesOf(graph) : last.out[i] \in [Frames -> Sample_]

(* What is heard of a value behind the math wrappers of a node.            *)
Through(node, value) ==
  FoldRight(LAMBDA layer, v : IF layer.kind = "math" THEN MathOf(layer, v) ELSE v,
            node.layers, value)
ChangesOf(i) == SelectSeq(last.changes, LAMBDA c : c.node = i /\ c.parameter = "value")

(* A frame that plays the j-th change of the block, or the value before.   *)
Plays(i, f, j) ==
  LET cs == ChangesOf(i)
      before == last.before[i].ugen.value
  IN  last.out[i][f] = Through(graph.nodes[i], IF j = 0 THEN before ELSE cs[j].value.x)

(* Scheduled changes of a parameter behind WrPreciseTiming and any math    *)
(* wrappers are heard in the order they were sent, none before its frame,  *)
(* and the last one by the end of the block unless there were more of them *)
(* than slots.  A parameter with an audio rate buffer plays the buffer     *)
(* frame by frame whatever is sent (precise_timing.rs, audio_rate.rs).     *)
InTheirOrder(i) ==
  LET cs == ChangesOf(i) IN
  \E played \in [Frames -> 0 .. Len(cs)] :
    /\ \A f \in Frames : /\ Plays(i, f, played[f])
                         /\ played[f] > 0 => cs[played[f]].delay <= f
    /\ \A f, g \in Frames : f < g => played[f] <= played[g]
    /\ Len(cs) <= Slots => played[BlockSize - 1] = Len(cs)
PlaysBuffer(i) ==
  LET k == CHOOSE k \in DOMAIN Kinds(i) : Kinds(i)[k] = "ar"
  IN  \A f \in Frames :
        last.out[i][f] = Through(graph.nodes[i], graph.nodes[i].layers[k].buffer[f])
HeardWhenDue ==
  last # NoBlock(graph) /\ ~last.panicked =>
    \A i \in NodesOf(graph) :
      UGenKind(i) = "constant" =>
        /\ ToSet(Kinds(i)) \subseteq {"math", "precise"} /\ HasLayer(i, "precise")
             => InTheirOrder(i)
        /\ ToSet(Kinds(i)) \subseteq {"math", "ar"} /\ HasLayer(i, "ar") => PlaysBuffer(i)

(* A node is freed, and a Graph cut off, by a UGen that has come to its    *)
(* end in that block and by no other, although all of them share the flags *)
(* of the block; an EnvAsr or EnvAr that frees its Graph is heard up to    *)
(* the frame it ends at (done.rs, ugen.rs, graph_gen.rs).                  *)
DoneLayer(node) == node.layers[CHOOSE l \in DOMAIN node.layers : node.layers[l].kind = "done"]
Frees(i, action) == HasLayer(i, "done") /\ DoneLayer(graph.nodes[i]).action = action
FlagUp(node) == \E l \in DOMAIN node.layers :
                  node.layers[l].kind = "done" /\ node.layers[l].free_self
FreedAtItsEnd ==
  [][/\ \A i \in NodesOf(graph) : FlagUp(graph'.nodes[i]) /\ ~FlagUp(graph.nodes[i]) =>
          Frees(i, "free_self")' /\ last'.ended[i] # NoFrame
     /\ freed' /\ ~freed =>
          \E i \in NodesOf(graph) :
            /\ Frees(i, "free_parent")' /\ last'.ended[i] # NoFrame
            /\ UGenKind(i) \in {"asr", "ar"} /\ ~HasLayer(i, "ar") => last'.cut = last'.ended[i]
    ]_vars

(* What is bound to end does: a UGen that is being released, or that plays *)
(* its last segments, frees what it is to free unless it is started again, *)
(* stopped or told not to; and the value of a ramp arrives at the value    *)
(* that it goes to unless another value or smoothing is asked for          *)
(* (envelopes.rs, smooth_params.rs).                                       *)
Ending(i) ==
  \/ UGenKind(i) \in {"asr", "ar"} /\ graph.nodes[i].ugen.state = "releasing"
  \/ UGenKind(i) = "trig" /\ graph.nodes[i].ugen.triggered
  \/ /\ UGenKind(i) = "segments" /\ graph.nodes[i].ugen.state = "running"
     /\ ~graph.nodes[i].ugen.looping /\ graph.nodes[i].ugen.time_scale > 0
Excused(i) ==
  \/ UGenKind(i) \in {"asr", "ar"} /\ graph.nodes[i].ugen.state = "attacking"
  \/ UGenKind(i) = "segments" /\ "t_stop" \in {c[1] : c \in graph.sends[i]}
  \/ Frees(i, "none") \/ ~HasLayer(i, "done")
RampOf(i) == graph.nodes[i].layers[CHOOSE l \in DOMAIN Kinds(i) : Kinds(i)[l] = "smooth"].state
RampTo(i, v) ==
  HasLayer(i, "smooth") /\ Ramping(RampOf(i)) /\ RampOf(i).end = v /\ RampOf(i).frames > 0
SmoothingAsked ==
  \E k \in DOMAIN last.changes : last.changes[k].value.type \in {"smoothing", "no_smoothing"}
Values == {Unit \div 4, Unit}                  \* those that the runs send
Arrived(v) ==
  \/ graph.nodes[1].ugen.value = v
  \/ RampOf(1).type = "linear" /\ RampOf(1).end # v
  \/ SmoothingAsked
Bound(i) == i \in NodesOf(graph) /\ Ending(i)
Served(i) == freed \/ (i \in NodesOf(graph) => FlagUp(graph.nodes[i]) \/ Excused(i))
Settles ==
  /\ \A i \in 1 .. 2 : Bound(i) ~> Served(i)
  /\ \A v \in Values : RampTo(1, v) ~> (HasLayer(1, "smooth") => Arrived(v))

(* A restart "from the current value" (envelopes.rs:50) of an envelope     *)
(* that holds its value goes on at 1.0.  It does not: t stays where the    *)
(* attack before left it, so every further restart begins higher.          *)
NeverAboveOne ==
  \A i \in NodesOf(graph) : UGenKind(i) = "asr" => \A f \in Frames : last.out[i][f] <= Unit
=============================================================================
