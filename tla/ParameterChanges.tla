-------------------------- MODULE ParameterChanges --------------------------
(***************************************************************************)
(* Parameter changes on their way from the handles of nodes to the nodes:  *)
(* the ring that SchedulingChannelSender fills and GraphGen empties, the   *)
(* changes that wait in the GraphGen for their time, their token or their  *)
(* node, and those that WrPreciseTiming keeps for a frame within the block.*)
(*                                                                         *)
(* The control thread takes steps between any two steps of the audio       *)
(* thread.  Updates of the graph are reduced to the nodes they play        *)
(* (GraphHandoff has the rest), values to the change they come from.       *)
(***************************************************************************)
EXTENDS Seconds, Sequences, FiniteSets

CONSTANTS
  Node, Parameter,
  Playing,                  \* the nodes that are played at the start
  Timed,                    \* the nodes that have a WrPreciseTiming around them
  Delayed,                  \* DELAYED_CHANGES_PER_BLOCK of that wrapper
  Token, NoToken,
  Schedules,                \* the times and tokens that events are sent with; no
                            \* time means what Time::asap means
  Parts,                    \* what events set: a value, a smoothing, or one after
                            \* the other, which are two calls of param_apply
  RingSize, BlockSize, SampleRate,
  MaxSent, MaxFrame         \* bounds for TLC, not in the code

Time == [seconds : AllSeconds, absolute : BOOLEAN]

ASSUME ChangesAssumption ==
  /\ Timed \subseteq Node /\ Playing \subseteq Node /\ NoToken \notin Token
  /\ {RingSize, BlockSize, SampleRate} \subseteq Nat \ {0}
  /\ {Delayed, MaxSent, MaxFrame} \subseteq Nat
  /\ Parts \subseteq {<<"value">>, <<"smoothing">>, <<"smoothing", "value">>}
  /\ Schedules \subseteq [time : Time, token : Token \union {NoToken}]

(* As it is at "all common sample rates" (time.rs).                        *)
ASSUME RateAssumption == \E k \in 1 .. TESIMALS : SampleRate * k = TESIMALS

VARIABLES
  nodes,                    \* what the control thread has done with each node
  sent,                     \* every SchedulingEvent that was sent (history)
  ring,                     \* the events in the ring, by their index in sent
  tasks,                    \* the nodes of current_task_data
  active,                   \* the tokens that have been activated
  phase,                    \* what process_block of the GraphGen is at
  left,                     \* how many more events its loop looks at
  looked,                   \* how many of the chunk of new events it has looked at
  waiting,                  \* waiting_parameter_changes
  next_delay,               \* of each WrPreciseTiming
  waiting_changes,          \* of each WrPreciseTiming
  frame_clock,
  applied, gone             \* what became of the events (history)

control == <<nodes, sent>>
wrappers == <<next_delay, waiting_changes>>
vars == <<nodes, sent, ring, tasks, active, phase, left, looked, waiting,
          next_delay, waiting_changes, frame_clock, applied, gone>>

blocks_to_keep_scheduled_changes == SampleRate \div BlockSize

Init ==
  /\ nodes = [n \in Node |-> IF n \in Playing THEN "committed" ELSE "pushed"]
  /\ sent = <<>> /\ ring = <<>>
  /\ tasks = Playing
  /\ active = {}
  /\ phase = "idle" /\ left = 0 /\ looked = 0
  /\ waiting = <<>>
  /\ next_delay = [n \in Node |-> [p \in Parameter |-> 0]]
  /\ waiting_changes = [n \in Node |-> <<>>]
  /\ frame_clock = 0
  /\ applied = [n \in Node |-> <<>>] /\ gone = {}

(***************************************************************************)
(* The control thread.                                                     *)
(***************************************************************************)
(* HandleTrait::set.  When the ring is full, the caller is told.           *)
Send(n, p, schedule, parts) ==
  /\ Len(sent) < MaxSent
  /\ Len(ring) < RingSize
  /\ sent' = Append(sent, [node_key |-> n, parameter |-> p, time |-> schedule.time,
                           token |-> schedule.token, parts |-> parts,
                           ahead |-> nodes[n] = "pushed"])
  /\ ring' = Append(ring, Len(sent) + 1)
  /\ UNCHANGED <<nodes, tasks, active, phase, left, looked, waiting, wrappers,
                 frame_clock, applied, gone>>

(* An edit ends: the next TaskData has the node, or no longer has it.      *)
Commit(n) ==
  /\ \/ nodes[n] = "pushed" /\ nodes' = [nodes EXCEPT ![n] = "committed"]
     \/ nodes[n] = "committed" /\ nodes' = [nodes EXCEPT ![n] = "freed"]
  /\ UNCHANGED <<sent, ring, tasks, active, phase, left, looked, waiting,
                 wrappers, frame_clock, applied, gone>>

(***************************************************************************)
(* Time and the wrapper.                                                   *)
(***************************************************************************)
(* Time::to_samples_until_due, and what it leaves of a relative time.      *)
SamplesUntilDue(time) ==
  LET samples == ToSamples(time.seconds, SampleRate) IN
  IF ~time.absolute THEN samples
  ELSE IF samples < frame_clock THEN 0
  ELSE samples - frame_clock

CountDownAll(time) ==                              \* mutant: absolute times too
  [time EXCEPT !.seconds = SaturatingSub(@, FromSamples(BlockSize, SampleRate))]
KeepTime(time) == time                             \* mutant: times stay as they were

CountDown(time) ==
  IF time.absolute THEN time
  ELSE [time EXCEPT !.seconds =
          SaturatingSub(@, FromSamples(BlockSize, SampleRate))]

(* What param_apply is called with, once or twice for an event.            *)
Calls(c) == [k \in DOMAIN sent[c.id].parts |->
               [id |-> c.id, part |-> sent[c.id].parts[k], received |-> c.received]]

Lose(c, lost, why) ==
  gone' = gone \union {[call |-> Calls(c)[k], why |-> why, frame |-> frame_clock] : k \in lost}

(* The UGen is told at once, or a slot for delayed changes is taken.       *)
ApplyNow(n, c) ==
  /\ applied' = [applied EXCEPT ![n] = @ \o
       [k \in DOMAIN Calls(c) |-> [call |-> Calls(c)[k], frame |-> frame_clock]]]
  /\ UNCHANGED <<waiting_changes, gone>>

ApplyLater(n, c, delay) ==
  LET room == Delayed - Len(waiting_changes[n])
      kept == {k \in DOMAIN Calls(c) : k <= room}
  IN
  /\ waiting_changes' = [waiting_changes EXCEPT ![n] =
       @ \o [k \in kept |-> [call |-> Calls(c)[k], delay |-> delay]]]
  /\ Lose(c, DOMAIN Calls(c) \ kept, "no slot")
  /\ UNCHANGED applied

(* set_delay_within_block_for_param and param_apply of the task's UGen.    *)
ApplyTo(n, p, c, delay) ==
  LET set == delay > 0 /\ n \in Timed
      delays == IF set THEN [next_delay EXCEPT ![n][p] = delay] ELSE next_delay
  IN
  /\ next_delay' = delays
  /\ \/ (n \notin Timed \/ delays[n][p] = 0) /\ ApplyNow(n, c)
     \/ n \in Timed /\ delays[n][p] > 0 /\ ApplyLater(n, c, delays[n][p])

ReadyBeforeToken(c) ==                             \* mutant: whatever its token
  /\ SamplesUntilDue(c.time) < BlockSize
  /\ sent[c.id].node_key \in tasks

Ready(c) ==
  /\ sent[c.id].token \in active \union {NoToken}
  /\ SamplesUntilDue(c.time) < BlockSize
  /\ sent[c.id].node_key \in tasks

ApplyParameterChange(c) ==
  /\ Ready(c)
  /\ ApplyTo(sent[c.id].node_key, sent[c.id].parameter, c, SamplesUntilDue(c.time))

Unapplied(c) == ~Ready(c) /\ UNCHANGED <<wrappers, applied>>

(***************************************************************************)
(* GraphGen::process_block.                                                *)
(***************************************************************************)
(* All updates that have arrived are applied, then the waiting changes     *)
(* that there are now are looked at.                                       *)
BeginBlock ==
  /\ phase = "idle" /\ frame_clock < MaxFrame
  /\ tasks' = {n \in Node : nodes[n] = "committed"}
  /\ phase' = "waiting" /\ left' = Len(waiting)
  /\ UNCHANGED <<control, ring, active, looked, waiting, wrappers, frame_clock,
                 applied, gone>>

KeptForever(c) == [c EXCEPT !.time = CountDown(@)]  \* mutant: blocks are not counted
Kept(c) == [c EXCEPT !.time = CountDown(@), !.blocks = @ + 1]

LookAtWaiting ==
  /\ phase = "waiting" /\ left > 0
  /\ left' = left - 1
  /\ LET c == Head(waiting) IN
     \/ /\ c.blocks > blocks_to_keep_scheduled_changes
        /\ Lose(c, DOMAIN Calls(c), "expired")
        /\ waiting' = Tail(waiting)
        /\ UNCHANGED <<wrappers, applied>>
     \/ /\ c.blocks <= blocks_to_keep_scheduled_changes
        /\ \/ ApplyParameterChange(c) /\ waiting' = Tail(waiting)
           \/ /\ Unapplied(c) /\ UNCHANGED gone
              /\ waiting' = Append(Tail(waiting), Kept(c))
  /\ UNCHANGED <<control, ring, tasks, active, phase, looked, frame_clock>>

(* The events that are in the ring at this moment are read in one chunk.   *)
TakeSlots ==
  /\ phase = "waiting" /\ left = 0
  /\ phase' = "new" /\ left' = Len(ring) /\ looked' = 0
  /\ UNCHANGED <<control, ring, tasks, active, waiting, wrappers, frame_clock,
                 applied, gone>>

Stacked(c) == <<[c EXCEPT !.time = CountDown(@)]>> \o waiting  \* mutant: at the front
Queued(c) == Append(waiting, [c EXCEPT !.time = CountDown(@)])

QueueOverfull == Len(waiting) > RingSize           \* mutant: one change too many
QueueFull == Len(waiting) >= RingSize

LookAtNew ==
  /\ phase = "new" /\ left > 0
  /\ left' = left - 1 /\ looked' = looked + 1
  /\ LET id == ring[looked + 1]
         c == [id |-> id, time |-> sent[id].time, received |-> frame_clock, blocks |-> 0]
     IN
     \/ ApplyParameterChange(c) /\ UNCHANGED waiting
     \/ /\ Unapplied(c) /\ ~QueueFull
        /\ waiting' = Queued(c)
        /\ UNCHANGED gone
     \/ /\ Unapplied(c) /\ QueueFull
        /\ Lose(c, DOMAIN Calls(c), "queue full")
        /\ UNCHANGED waiting
  /\ UNCHANGED <<control, ring, tasks, active, phase, frame_clock>>

(* The slots of the chunk are free again when all of it has been read.     *)
UnreadEvents == SubSeq(ring, looked + 1, Len(ring))

FreeSlotsAndUpdate ==                              \* mutant: TaskData is read last
  /\ phase = "new" /\ left = 0
  /\ phase' = "run"
  /\ ring' = UnreadEvents /\ looked' = 0
  /\ tasks' = {n \in Node : nodes[n] = "committed"}
  /\ UNCHANGED <<control, active, left, waiting, wrappers, frame_clock, applied, gone>>

FreeSlots ==
  /\ phase = "new" /\ left = 0
  /\ phase' = "run"
  /\ ring' = UnreadEvents /\ looked' = 0
  /\ UNCHANGED <<control, tasks, active, left, waiting, wrappers, frame_clock,
                 applied, gone>>

(* In WrPreciseTiming::process_block a delayed change waits for its own    *)
(* frame and for the changes before it.                                    *)
FrameOf(changes, k) ==
  frame_clock + (CHOOSE d \in {changes[i].delay : i \in 1 .. k} :
                   \A i \in 1 .. k : changes[i].delay <= d)

DelayedCalls(n) == [k \in DOMAIN waiting_changes[n] |->
                      [call |-> waiting_changes[n][k].call,
                       frame |-> FrameOf(waiting_changes[n], k)]]

(* A UGen may call activate_inner on some tokens while it runs.            *)
RunTasks(tokens) ==
  /\ phase = "run" /\ phase' = "idle"
  /\ applied' = [n \in Node |-> IF n \in tasks THEN applied[n] \o DelayedCalls(n)
                                                ELSE applied[n]]
  /\ waiting_changes' = [n \in Node |-> IF n \in tasks THEN <<>> ELSE waiting_changes[n]]
  /\ active' = active \union tokens
  /\ frame_clock' = frame_clock + BlockSize
  /\ UNCHANGED <<control, ring, tasks, left, looked, waiting, next_delay, gone>>

Next ==
  \/ \E n \in Node, p \in Parameter, schedule \in Schedules, parts \in Parts :
       Send(n, p, schedule, parts)
  \/ \E n \in Node : Commit(n)
  \/ BeginBlock \/ LookAtWaiting \/ TakeSlots \/ LookAtNew \/ FreeSlots
  \/ \E tokens \in SUBSET Token : RunTasks(tokens)

Spec == Init /\ [][Next]_vars
-----------------------------------------------------------------------------
Event == [node_key : Node, parameter : Parameter, time : Time,
          token : Token \union {NoToken}, parts : Parts, ahead : BOOLEAN]
WaitingChange == [id : DOMAIN sent, time : Time, received : Nat,
                  blocks : 0 .. blocks_to_keep_scheduled_changes + 1]
Call == [id : DOMAIN sent, part : {"smoothing", "value"}, received : Nat]

(* The type invariant: every state component stays within its type, and    *)
(* the queues of the code within their capacity.                           *)
TypeOK ==
  /\ nodes \in [Node -> {"pushed", "committed", "freed"}]
  /\ sent \in Seq(Event)
  /\ ring \in Seq(DOMAIN sent) /\ Len(ring) <= RingSize
  /\ tasks \subseteq Node /\ active \subseteq Token
  /\ phase \in {"idle", "waiting", "new", "run"}
  /\ left \in Nat /\ looked \in Nat
  /\ waiting \in Seq(WaitingChange) /\ Len(waiting) <= RingSize
  /\ next_delay \in [Node -> [Parameter -> 0 .. BlockSize - 1]]
  /\ waiting_changes \in [Node -> Seq([call : Call, delay : 1 .. BlockSize - 1])]
  /\ \A n \in Node : Len(waiting_changes[n]) <= Delayed
  /\ frame_clock \in Nat
  /\ applied \in [Node -> Seq([call : Call, frame : Nat])]
  /\ gone \subseteq [call : Call, why : {"expired", "queue full", "no slot"}, frame : Nat]

(* The frame that a change is meant for: relative times count from the     *)
(* block in which the event reaches the audio thread.                      *)
Due(c) ==
  LET samples == ToSamples(sent[c.id].time.seconds, SampleRate) IN
  IF sent[c.id].time.absolute THEN samples ELSE c.received + samples

(* No change is made before the frame it is scheduled for, however the     *)
(* countdown of a waiting relative time, the block it is applied in and    *)
(* the delay within the block add up; without WrPreciseTiming, not before  *)
(* the block of that frame.                                                *)
NotBeforeItsFrame ==
  \A n \in Node : \A k \in DOMAIN applied[n] :
    LET a == applied[n][k] IN
    a.frame >= Due(a.call) - (IF n \in Timed THEN 0 ELSE BlockSize - 1)

(* What scheduling.rs says of changes that share a token: "None of the     *)
(* changes will be applied until the token is activated."  Tokens stay     *)
(* active, and a call that a WrPreciseTiming keeps is past the check.      *)
NotBeforeItsToken ==
  \A n \in Node :
    /\ \A k \in DOMAIN applied[n] :
         sent[applied[n][k].call.id].token \in active \union {NoToken}
    /\ \A k \in DOMAIN waiting_changes[n] :
         sent[waiting_changes[n][k].call.id].token \in active \union {NoToken}

(* No change is made before its time and its token say.                    *)
NeverEarly == NotBeforeItsFrame /\ NotBeforeItsToken

(* When the tasks run, no change waits whose token is active, whose node   *)
(* is played and which is due in this block: both loops of process_block   *)
(* together miss nothing, and counting down never falls behind the clock.  *)
NothingReadyWaits ==
  phase = "run" =>
    \A i \in DOMAIN waiting :
      LET c == waiting[i] IN
      \/ sent[c.id].token \notin active \union {NoToken}
      \/ sent[c.id].node_key \notin tasks
      \/ Due(c) >= frame_clock + BlockSize

(* Two changes of one parameter with the same token reach the UGen in the  *)
(* order they were sent in, unless the later one is due before the other:  *)
(* looking at the waiting changes, pushing them back, looking at the new   *)
(* ones and delaying some of them never swaps them.                        *)
InOrder ==
  \A n \in Node : \A j \in DOMAIN applied[n] : \A i \in 1 .. j - 1 :
    LET c == applied[n][i].call
        d == applied[n][j].call
    IN  d.id < c.id =>
          \/ sent[c.id].parameter # sent[d.id].parameter
          \/ sent[c.id].token # sent[d.id].token
          \/ Due(c) < Due(d)

(* What is sent to a node before the edit that adds it has ended has been  *)
(* read when the node plays its first block, and then waits for a later    *)
(* block or for its token only: TaskData is read before the events in each *)
(* block, so that a node is never played ahead of its first values.        *)
ChangesPrecedeTasks ==
  phase = "run" =>
    /\ \A i \in DOMAIN ring : sent[ring[i]].ahead => sent[ring[i]].node_key \notin tasks
    /\ \A i \in DOMAIN waiting :
         LET c == waiting[i] IN
         sent[c.id].ahead /\ sent[c.id].node_key \in tasks =>
           \/ sent[c.id].token \notin active \union {NoToken}
           \/ Due(c) >= frame_clock + BlockSize

(* A change that cannot be applied is given up after a second and no       *)
(* sooner, and never kept for more than two blocks longer.                 *)
KeptForASecond ==
  /\ \A g \in gone : g.why = "expired" => g.frame - g.call.received >= SampleRate
  /\ \A i \in DOMAIN waiting :
       frame_clock - waiting[i].received <= SampleRate + 2 * BlockSize

(* Each call that an event stands for is in one place: still in the ring,  *)
(* waiting, in a slot of a wrapper, made, or known to be given up; none is *)
(* made twice, forgotten, or made after it was given up.                   *)
InQueues(id) ==
  Cardinality({i \in looked + 1 .. Len(ring) : ring[i] = id})
    + Cardinality({i \in DOMAIN waiting : waiting[i].id = id})

Settled(id, part) ==
  LET of(call) == call.id = id /\ call.part = part
      n == sent[id].node_key
  IN  Cardinality({k \in DOMAIN waiting_changes[n] : of(waiting_changes[n][k].call)})
        + Cardinality({k \in DOMAIN applied[n] : of(applied[n][k].call)})
        + Cardinality({g \in gone : of(g.call)})

EachOnce ==
  \A id \in DOMAIN sent :
    LET queued == InQueues(id) IN
    \A k \in DOMAIN sent[id].parts : queued + Settled(id, sent[id].parts[k]) = 1

(* Nothing is lost, doubled, or swapped on the way. *)
OnceInOrder == EachOnce /\ InOrder

(* What precise_timing.rs says: "Enables sample accurate parameter changes *)
(* within a block.  Changes must be scheduled in the order they are to be  *)
(* applied."  A change that reached the audio thread at least a block      *)
(* before it is due, after its node, and that nothing before it is due     *)
(* later than, is made at its frame.                                       *)
SampleAccurate ==
  \A n \in Timed : \A k \in DOMAIN applied[n] :
    LET c == applied[n][k].call IN
    /\ ~sent[c.id].ahead /\ sent[c.id].token = NoToken
    /\ Due(c) >= c.received + BlockSize
    /\ \A j \in 1 .. k : Due(applied[n][j].call) <= Due(c)
    => applied[n][k].frame = Due(c)
=============================================================================
