---------------------------- MODULE HandlesProofs -----------------------------
(***************************************************************************)
(* Proofs about Handles, for every graph, every list of channels that is   *)
(* selected and every set of operators.                                    *)
(***************************************************************************)
EXTENDS Handles, WellFoundedInduction, FiniteSetTheorems, SequenceTheorems, TLAPS

(* Only a call that holds the lock of the graph panics with the graph      *)
(* changed, and the poisoned lock then aborts; a call needs an edit.       *)
LEMMA PanicKeepsHalf ==
  ASSUME NEW locked \in BOOLEAN, NEW g, Panic(locked, g), locked \/ g = graph
  PROVE  HalfCallsNeverPlayed'
  BY DEF Panic, AfterPanic, HalfCallsNeverPlayed

LEMMA CallKeepsHalf ==
  ASSUME HalfCallsNeverPlayed, phase = "edit", UNCHANGED half
  PROVE  HalfCallsNeverPlayed'
  BY DEF HalfCallsNeverPlayed

LEMMA ConnectAllKeepsHalf ==
  ASSUME HalfCallsNeverPlayed, phase = "edit", NEW pairs, NEW how, ConnectAll(pairs, how)
  PROVE  HalfCallsNeverPlayed'
<1> DEFINE result == ConnectPairs(graph, pairs, how)
<1>1. \/ Panic(TRUE, result.graph)
      \/ UNCHANGED half
  BY DEF ConnectAll
<1>. HIDE DEF result
<1>. QED  BY <1>1, PanicKeepsHalf, CallKeepsHalf

LEMMA NextKeepsHalf == HalfCallsNeverPlayed /\ [Next]_vars => HalfCallsNeverPlayed'
<1> SUFFICES ASSUME HalfCallsNeverPlayed, [Next]_vars PROVE HalfCallsNeverPlayed'
  OBVIOUS
<1>1. ASSUME NEW node PROVE Push(node) => phase = "edit" /\ UNCHANGED half
  BY DEF Push, Call, NewHandle
<1>2. ASSUME NEW node PROVE PushWithDoneAction(node) => phase = "edit" /\ UNCHANGED half
  BY <1>1 DEF PushWithDoneAction
<1>3. ASSUME NEW n
      PROVE  HandleOf(n) \/ HandleFromName(n) \/ FreeNode(n) => phase = "edit" /\ UNCHANGED half
  BY DEF HandleOf, HandleFromName, FreeNode, Call, NewHandle
<1>4. ASSUME NEW channels PROVE FromInputs(channels) => phase = "edit" /\ UNCHANGED half
  BY DEF FromInputs, Call, NewHandle
<1>5. ASSUME NEW a, NEW channels, Out(a, channels) PROVE HalfCallsNeverPlayed'
  BY <1>5, PanicKeepsHalf, CallKeepsHalf DEF Out, Call, NewHandle
<1>6. ASSUME NEW a, NEW channels, NEW additive, ToGraphOutChannels(a, channels, additive)
      PROVE  HalfCallsNeverPlayed'
  BY <1>6, ConnectAllKeepsHalf DEF ToGraphOutChannels, Call
<1>7. ASSUME NEW a, NEW b
      PROVE  StaticStack(a, b) \/ DynamicStack(a, b) => phase = "edit" /\ UNCHANGED half
  BY DEF StaticStack, DynamicStack, Call, NewHandle
<1>8. ASSUME NEW a, NEW b, TryTo(a, b) PROVE HalfCallsNeverPlayed'
  BY <1>8, ConnectAllKeepsHalf DEF TryTo, Call
<1>9. ASSUME NEW a, NEW b, NEW additive, NEW feedback,
             StaticTo(a, b, additive, feedback) \/ DynamicTo(a, b, additive, feedback)
      PROVE  HalfCallsNeverPlayed'
  BY <1>9, ConnectAllKeepsHalf DEF StaticTo, DynamicTo, CallTo, Call
<1>10. ASSUME NEW a, NEW b, NEW op, StaticArithmetic(op, a, b) PROVE HalfCallsNeverPlayed'
  BY <1>10, CallKeepsHalf DEF StaticArithmetic, Call, NewHandle
<1>11. ASSUME NEW a, NEW b, NEW op, DynamicArithmetic(op, a, b) PROVE HalfCallsNeverPlayed'
  <2>1. phase = "edit" /\ (Panic(FALSE, graph) \/ UNCHANGED half)
    BY <1>11 DEF DynamicArithmetic, Call, NewHandle
  <2>. QED  BY <2>1, PanicKeepsHalf, CallKeepsHalf
<1>12. ASSUME NEW a, NEW p, NEW b, Link(a, p, b) PROVE HalfCallsNeverPlayed'
  <2>1. phase = "edit" /\ (Panic(TRUE, graph) \/ UNCHANGED half)
    BY <1>12 DEF Link, Call
  <2>. QED  BY <2>1, PanicKeepsHalf, CallKeepsHalf
<1>13. ASSUME NEW a
       PROVE  Name(a) \/ Dynamic(a) \/ ToChannelsHandle(a) => phase = "edit" /\ UNCHANGED half
  BY DEF Name, Dynamic, ToChannelsHandle, Call, NewHandle
<1>14. ASSUME NEW a, NEW additive, ToGraphOut(a, additive) PROVE HalfCallsNeverPlayed'
  BY <1>14, ConnectAllKeepsHalf DEF ToGraphOut, Call
<1>15. ASSUME NEW a, NEW op, ArithmeticWithConstant(op, a) \/ ConstantOnTheLeft(op, a)
       PROVE  HalfCallsNeverPlayed'
  BY <1>15, CallKeepsHalf DEF ArithmeticWithConstant, ConstantOnTheLeft, WithConstant, Call, NewHandle
<1>16. ASSUME NEW a, NEW c, DisconnectOutput(a, c) \/ DisconnectInput(a, c)
       PROVE  HalfCallsNeverPlayed'
  <2>1. phase = "edit" /\ (Panic(TRUE, graph) \/ UNCHANGED half)
    BY <1>16 DEF DisconnectOutput, DisconnectInput, Call
  <2>. QED  BY <2>1, PanicKeepsHalf, CallKeepsHalf
<1>17. ASSUME NEW K, Drop(K) PROVE HalfCallsNeverPlayed'
  BY <1>17 DEF Drop, HalfCallsNeverPlayed
<1>18. CASE UNCHANGED vars
  BY <1>18 DEF vars, HalfCallsNeverPlayed
<1>. QED  BY <1>1, <1>2, <1>3, <1>4, <1>5, <1>6, <1>7, <1>8, <1>9, <1>10, <1>11, <1>12, <1>13,
             <1>14, <1>15, <1>16, <1>17, <1>18, CallKeepsHalf, Zenon DEF Next

(* What a call has connected before it panics is never committed: the drop *)
(* of the edit finds the lock poisoned, whatever the call and whatever was *)
(* done to the graph before (graph_edit.rs: Drop of GraphEdit).            *)
THEOREM NoHalfCalls == Spec => []HalfCallsNeverPlayed
<1>1. Init => HalfCallsNeverPlayed
  BY DEF Init, HalfCallsNeverPlayed
<1>. QED  BY <1>1, NextKeepsHalf, PTL DEF Spec
-----------------------------------------------------------------------------
(***************************************************************************)
(* Folds and levels.  A fold over a list is a function on the sets of      *)
(* places, each from the set without its last place; what is searched is   *)
(* a function on numbers, each level from the one before.  That there are  *)
(* such functions is proved once, for steps that are functions.            *)
(***************************************************************************)
Smaller == {pair \in Nat \X Nat : pair[1] < pair[2]}

(* Induction, for a set of numbers. *)
LEMMA SetInduction ==
  ASSUME NEW S, 0 \in S, \A n \in Nat : n \in S => n + 1 \in S
  PROVE  Nat \subseteq S
<1> SUFFICES ASSUME Nat \ S # {} PROVE FALSE
  OBVIOUS
<1>1. IsWellFoundedOn(Smaller, Nat)
  BY NatLessThanWellFounded DEF OpToRel, Smaller
<1>2. \E x \in Nat \ S : \A y \in Nat \ S : ~ (<<y, x>> \in Smaller)
  BY <1>1, WFMin
<1>3. PICK x \in Nat \ S : \A y \in Nat \ S : ~ (<<y, x>> \in Smaller)
  BY <1>2
<1>4. x # 0 /\ x - 1 \in Nat /\ x - 1 + 1 = x /\ x - 1 < x
  BY <1>3
<1>5. <<x - 1, x>> \in Smaller
  BY <1>3, <1>4 DEF Smaller
<1>6. x - 1 \in S
  BY <1>3, <1>4, <1>5
<1>. QED  BY <1>3, <1>4, <1>6

LEMMA MaxIs ==
  ASSUME NEW s, s \subseteq Nat, NEW n \in s, \A m \in s : n >= m
  PROVE  Max(s) = n
<1>1. \A x \in s : (\A y \in s : x >= y) => x = n
  <2> SUFFICES ASSUME NEW x \in s, \A y \in s : x >= y PROVE x = n
    OBVIOUS
  <2>1. x >= n /\ n >= x /\ x \in Nat /\ n \in Nat
    OBVIOUS
  <2>. QED  BY <2>1
<1>. QED  BY <1>1, Zenon DEF Max

(* The first n places. *)
LEMMA MaxOfPlaces ==
  ASSUME NEW n \in Nat, n # 0
  PROVE  Max(1..n) = n /\ (1..n) \ {n} = 1..(n - 1) /\ 1..n # {}
<1>1. 1..n \subseteq Nat /\ n \in 1..n /\ \A m \in 1..n : n >= m
  OBVIOUS
<1>2. (1..n) \ {n} = 1..(n - 1)
  OBVIOUS
<1>3. Max(1..n) = n
  BY <1>1, MaxIs
<1>. QED  BY <1>1, <1>2, <1>3

LEMMA MaxOfSome ==
  ASSUME NEW n \in Nat, NEW s \in SUBSET (1..n), s # {}
  PROVE  Max(s) \in 1..n /\ s \ {Max(s)} \in SUBSET (1..n)
<1> DEFINE up == {m \in Nat : s \subseteq 1..m}
<1>2. PICK m \in up : \A k \in up : ~ (<<k, m>> \in Smaller)
  <2>1. IsWellFoundedOn(Smaller, Nat)
    BY NatLessThanWellFounded DEF OpToRel, Smaller
  <2>2. n \in up
    OBVIOUS
  <2>. HIDE DEF up
  <2>3. up \subseteq Nat
    BY DEF up
  <2>. QED  BY <2>1, <2>2, <2>3, WFMin
<1>3. m \in Nat /\ s \subseteq 1..m
  OBVIOUS
<1>4. m \in s
  <2> SUFFICES ASSUME m \notin s PROVE FALSE
    OBVIOUS
  <2>1. m # 0
    <3>1. 1..0 = {}
      OBVIOUS
    <3>. HIDE DEF up
    <3>. QED  BY <1>3, <3>1
  <2>2. m - 1 \in Nat /\ (1..m) \ {m} = 1..(m - 1) /\ m - 1 < m
    BY <1>3, <2>1
  <2>3. s \subseteq 1..(m - 1)
    BY <1>3, <2>2
  <2>4. m - 1 \in up
    BY <2>2, <2>3
  <2>5. <<m - 1, m>> \in Smaller
    BY <1>3, <2>2 DEF Smaller
  <2>. HIDE DEF up
  <2>. QED  BY <1>2, <2>4, <2>5
<1>. HIDE DEF up
<1>5. \A k \in s : m >= k /\ k \in Nat
  BY <1>3
<1>6. Max(s) = m
  <2>1. s \subseteq Nat
    BY <1>5
  <2>. QED  BY <1>4, <1>5, <2>1, MaxIs
<1>. QED  BY <1>4, <1>6

Folds(iter, V, base, step, n) ==
  /\ iter \in [SUBSET (1..n) -> V]
  /\ \A s \in SUBSET (1..n) :
       iter[s] = IF s = {} THEN base ELSE step[<<iter[s \ {Max(s)}], Max(s)>>]

LEMMA FoldExists ==
  ASSUME NEW V, NEW base \in V, NEW step, \A v \in V : \A i \in Nat : step[<<v, i>>] \in V,
         NEW N \in Nat
  PROVE  \E iter : Folds(iter, V, base, step, N)
<1> DEFINE S == {n \in Nat : \E iter : Folds(iter, V, base, step, n)}
<1>1. 0 \in S
  <2> DEFINE iter == [s \in SUBSET (1..0) |-> base]
  <2>1. \A s \in SUBSET (1..0) : s = {} /\ iter[s] = base
    OBVIOUS
  <2>2. iter \in [SUBSET (1..0) -> V]
    OBVIOUS
  <2>. HIDE DEF iter
  <2>3. Folds(iter, V, base, step, 0)
    BY <2>1, <2>2 DEF Folds
  <2>. QED  BY <2>3
<1>2. ASSUME NEW n \in Nat, n \in S PROVE n + 1 \in S
  <2>1. PICK f : Folds(f, V, base, step, n)
    BY <1>2
  <2> DEFINE m == n + 1
             iter == [s \in SUBSET (1..m) |-> IF m \in s THEN step[<<f[s \ {m}], m>>] ELSE f[s]]
  <2>2. m \in Nat /\ \A s \in SUBSET (1..m) : /\ s \ {m} \in SUBSET (1..n)
                                              /\ m \notin s => s \in SUBSET (1..n)
    <3>1. m \in Nat /\ (1..m) \ {m} = 1..n
      OBVIOUS
    <3>. HIDE DEF m
    <3>. QED  BY <3>1
  <2>3. \A s \in SUBSET (1..m) : iter[s] = IF m \in s THEN step[<<f[s \ {m}], m>>] ELSE f[s]
    OBVIOUS
  <2>4. \A s \in SUBSET (1..n) : s \in SUBSET (1..m) /\ m \notin s
    <3>1. 1..n \subseteq 1..m /\ m \notin 1..n
      OBVIOUS
    <3>. HIDE DEF m
    <3>. QED  BY <3>1
  <2>5. \A s \in SUBSET (1..m) : iter[s] \in V
    <3>. HIDE DEF m, iter
    <3>. QED  BY <2>1, <2>2, <2>3 DEF Folds
  <2>6. iter \in [SUBSET (1..m) -> V]
    <3>1. iter = [s \in SUBSET (1..m) |-> iter[s]]
      OBVIOUS
    <3>. HIDE DEF iter, m
    <3>. QED  BY <2>5, <3>1
  <2>7. ASSUME NEW s \in SUBSET (1..m), m \in s PROVE Max(s) = m
    <3>1. s \subseteq Nat /\ \A x \in s : m >= x
      <4>1. 1..m \subseteq Nat /\ \A x \in 1..m : m >= x
        OBVIOUS
      <4>. HIDE DEF m
      <4>. QED  BY <4>1
    <3>. QED  BY <2>7, <3>1, MaxIs
  <2>8. \A s \in SUBSET (1..n) : iter[s] = f[s]
    <3>. HIDE DEF m, iter
    <3>. QED  BY <2>3, <2>4
  <2>. HIDE DEF m, iter
  <2>9. ASSUME NEW s \in SUBSET (1..m)
        PROVE  iter[s] = IF s = {} THEN base ELSE step[<<iter[s \ {Max(s)}], Max(s)>>]
    <3>1. CASE m \in s
      <4>1. Max(s) = m /\ iter[s \ {m}] = f[s \ {m}] /\ s # {}
        BY <2>2, <2>7, <2>8, <3>1
      <4>. QED  BY <2>3, <3>1, <4>1
    <3>2. CASE m \notin s
      <4>1. s \in SUBSET (1..n) /\ s \ {Max(s)} \in SUBSET (1..n)
        BY <2>2, <3>2
      <4>2. iter[s] = f[s] /\ iter[s \ {Max(s)}] = f[s \ {Max(s)}]
        BY <2>8, <4>1
      <4>. QED  BY <2>1, <4>1, <4>2 DEF Folds
    <3>. QED  BY <3>1, <3>2
  <2>10. Folds(iter, V, base, step, m)
    BY <2>6, <2>9 DEF Folds
  <2>11. m \in Nat /\ m = n + 1
    BY DEF m
  <2>. QED  BY <2>10, <2>11
<1>. HIDE DEF S
<1>3. N \in S
  BY <1>1, <1>2, SetInduction
<1>. QED  BY <1>3 DEF S

(* Levels. *)
LevelsTo(f, V, base, step, n) ==
  /\ f \in [0..n -> V]
  /\ f[0] = base
  /\ \A i \in 0..n : i # 0 => f[i] = step[f[i - 1]]

LEMMA LevelsToExist ==
  ASSUME NEW V, NEW base \in V, NEW step \in [V -> V], NEW N \in Nat
  PROVE  \E f : LevelsTo(f, V, base, step, N)
<1> DEFINE S == {n \in Nat : \E f : LevelsTo(f, V, base, step, n)}
<1>1. 0 \in S
  <2> DEFINE f == [i \in 0..0 |-> base]
  <2>1. f \in [0..0 -> V] /\ f[0] = base /\ \A i \in 0..0 : i = 0
    OBVIOUS
  <2>. HIDE DEF f
  <2>2. LevelsTo(f, V, base, step, 0)
    BY <2>1 DEF LevelsTo
  <2>. QED  BY <2>2
<1>2. ASSUME NEW n \in Nat, n \in S PROVE n + 1 \in S
  <2>1. PICK f : LevelsTo(f, V, base, step, n)
    BY <1>2
  <2> DEFINE h == [i \in 0..(n + 1) |-> IF i = n + 1 THEN step[f[n]] ELSE f[i]]
  <2>2. /\ h = [i \in 0..(n + 1) |-> h[i]] /\ h[n + 1] = step[f[n]]
        /\ \A i \in 0..n : h[i] = f[i]
    OBVIOUS
  <2>3. f[n] \in V /\ f[0] = base /\ \A i \in 0..n : f[i] \in V /\ (i # 0 => f[i] = step[f[i - 1]])
    BY <2>1 DEF LevelsTo
  <2>. HIDE DEF h
  <2>4. ASSUME NEW i \in 0..(n + 1) PROVE h[i] \in V /\ (i # 0 => h[i] = step[h[i - 1]])
    <3>1. CASE i = n + 1
      <4>1. h[i] = step[f[n]] /\ i - 1 = n /\ n \in 0..n
        BY <2>2, <3>1
      <4>. QED  BY <2>2, <2>3, <4>1
    <3>2. CASE i # n + 1
      <4>1. i \in 0..n /\ (i # 0 => i - 1 \in 0..n)
        BY <3>2
      <4>. QED  BY <2>2, <2>3, <4>1
    <3>. QED  BY <3>1, <3>2
  <2>5. h \in [0..(n + 1) -> V]
    BY <2>2, <2>4
  <2>6. h[0] = base
    BY <2>2, <2>3
  <2>7. LevelsTo(h, V, base, step, n + 1)
    BY <2>4, <2>5, <2>6 DEF LevelsTo
  <2>. QED  BY <2>7
<1>. HIDE DEF S
<1>3. N \in S
  BY <1>1, <1>2, SetInduction
<1>. QED  BY <1>3 DEF S

LEMMA LevelsToAgree ==
  ASSUME NEW V, NEW base, NEW step, NEW n \in Nat, NEW f, LevelsTo(f, V, base, step, n),
         NEW k \in Nat, NEW h, LevelsTo(h, V, base, step, k), NEW i \in Nat, i <= n, i <= k
  PROVE  f[i] = h[i]
<1> DEFINE S == {j \in Nat : j <= n /\ j <= k => f[j] = h[j]}
<1>1. 0 \in S
  BY DEF LevelsTo
<1>2. ASSUME NEW j \in Nat, j \in S PROVE j + 1 \in S
  <2> SUFFICES ASSUME j + 1 <= n, j + 1 <= k PROVE f[j + 1] = h[j + 1]
    OBVIOUS
  <2>1. f[j] = h[j] /\ j + 1 - 1 = j /\ j + 1 # 0 /\ j + 1 \in 0..n /\ j + 1 \in 0..k
    BY <1>2
  <2>. QED  BY <2>1 DEF LevelsTo
<1>. HIDE DEF S
<1>3. i \in S
  BY <1>1, <1>2, SetInduction
<1>. QED  BY <1>3 DEF S

LEMMA LevelsExist ==
  ASSUME NEW V, NEW base \in V, NEW step \in [V -> V]
  PROVE  \E F : /\ F \in [Nat -> V] /\ F[0] = base
                /\ \A n \in Nat : n # 0 => F[n] = step[F[n - 1]]
<1> DEFINE prefix(n) == CHOOSE f : LevelsTo(f, V, base, step, n)
           F == [n \in Nat |-> prefix(n)[n]]
<1>1. \A n \in Nat : LevelsTo(prefix(n), V, base, step, n)
  BY LevelsToExist
<1>2. \A n \in Nat : F[n] = prefix(n)[n]
  OBVIOUS
<1>3. F = [n \in Nat |-> F[n]]
  OBVIOUS
<1>. HIDE DEF prefix, F
<1>4. \A n \in Nat : F[n] \in V
  <2> SUFFICES ASSUME NEW n \in Nat PROVE prefix(n)[n] \in V
    BY <1>2
  <2>1. n \in 0..n
    OBVIOUS
  <2>. QED  BY <1>1, <2>1 DEF LevelsTo
<1>5. F[0] = base
  BY <1>1, <1>2 DEF LevelsTo
<1>6. ASSUME NEW n \in Nat, n # 0 PROVE F[n] = step[F[n - 1]]
  <2>1. n - 1 \in Nat /\ n - 1 <= n /\ n - 1 <= n - 1 /\ n \in 0..n
    BY <1>6
  <2>2. prefix(n)[n] = step[prefix(n)[n - 1]]
    BY <1>1, <1>6, <2>1 DEF LevelsTo
  <2>3. prefix(n)[n - 1] = prefix(n - 1)[n - 1]
    BY <1>1, <2>1, LevelsToAgree
  <2>. QED  BY <1>2, <2>1, <2>2, <2>3
<1>. QED  BY <1>3, <1>4, <1>5, <1>6
-----------------------------------------------------------------------------
(***************************************************************************)
(* The invariant.                                                          *)
(***************************************************************************)
Kinds == {"ugen", "constant"} \cup Operations
NodeType ==
  [kind : Kinds, inputs : Nat, outputs : Nat, parameters : Nat,
   state : {"live", "freed", "sent", "removed"}, named : BOOLEAN]
SinkType == {"input", "parameter"} \X Nat \X Nat
EdgeType == [port : Nat \X Nat, delayed : BOOLEAN]
GraphType ==
  [nodes : Seq(NodeType), required : BOOLEAN,
   heard : UNION {[sinks -> Seq(EdgeType)] : sinks \in SUBSET SinkType}]
HandleType == [typed : BOOLEAN, node : Nat, ins : Seq(Nat \X Nat), outs : Seq(Nat \X Nat)]

OutputsOf(g) ==
  {port \in Nat \X Nat : IF port[1] = 0 THEN port[2] \in 1..GraphInputs
                         ELSE port[1] \in DOMAIN g.nodes /\ port[2] \in 1..g.nodes[port[1]].outputs}

(* Edges name outputs that there are. *)
NamesOutputs(g) ==
  \A s \in DOMAIN g.heard : \A i \in DOMAIN g.heard[s] : g.heard[s][i].port \in OutputsOf(g)

(* Operators have their inputs for good, and those hear what was there     *)
(* before.                                                                 *)
Operand(n, c) == Input(<<n, c>>)
OperatorsHearEarlier(g) ==
  \A n \in Operators(g) : \A c \in 1..2 :
     /\ Operand(n, c) \in DOMAIN g.heard
     /\ \A i \in DOMAIN g.heard[Operand(n, c)] : g.heard[Operand(n, c)][i].port[1] < n

SinksOfNodes(g) == \A s \in DOMAIN g.heard : s[2] \in DOMAIN g.nodes \cup {0}

Fine(g) == g \in GraphType /\ SinksOfNodes(g) /\ NamesOutputs(g) /\ OperatorsHearEarlier(g)

(* The inputs of a handle are those of nodes that the user pushed. *)
UserInputs(g) ==
  {port \in Nat \X Nat : /\ port[1] \in DOMAIN g.nodes
                         /\ g.nodes[port[1]].kind = "ugen"
                         /\ port[2] \in 1..g.nodes[port[1]].inputs}
Fits(g, h) ==
  /\ h \in HandleType
  /\ \A i \in DOMAIN h.outs : h.outs[i] \in OutputsOf(g)
  /\ \A i \in DOMAIN h.ins : h.ins[i] \in UserInputs(g)
  /\ h.node # 0 => h.node \in DOMAIN g.nodes /\ g.nodes[h.node].kind = "ugen"

HandlesInv ==
  /\ Fine(graph)
  /\ handles \in Seq(HandleType)
  /\ \A a \in DOMAIN handles : Fits(graph, handles[a])
  /\ phase \in {"edit", "unwinding", "aborted", "panicked", "ended"}
  /\ half \in BOOLEAN
  /\ left \in Nat

(* The nodes stay what they are, and others are added. *)
Grown(g, h) ==
  /\ DOMAIN g.nodes \subseteq DOMAIN h.nodes
  /\ \A n \in DOMAIN g.nodes : /\ h.nodes[n].kind = g.nodes[n].kind
                               /\ h.nodes[n].inputs = g.nodes[n].inputs
                               /\ h.nodes[n].outputs = g.nodes[n].outputs

(* A call makes no circle. *)
Keeps(g, h) == Fine(h) /\ Grown(g, h) /\ (Acyclic(g) => Acyclic(h))

(* The operators hear what they heard. *)
SameOperands(g, h) ==
  \A n \in Operators(g) : \A c \in 1..2 : h.heard[Operand(n, c)] = g.heard[Operand(n, c)]

-----------------------------------------------------------------------------
(***************************************************************************)
(* Graphs and what their sinks hear.                                       *)
(***************************************************************************)
LEMMA SinkIs ==
  ASSUME NEW port
  PROVE  /\ Input(port) = <<"input", port[1], port[2]>>
         /\ Input(port)[1] = "input" /\ Input(port)[2] = port[1] /\ Input(port)[3] = port[2]
         /\ port \in Nat \X Nat => Input(port) \in SinkType
  BY DEF Input, SinkType

LEMMA OperandIs ==
  ASSUME NEW n, NEW c
  PROVE  /\ Operand(n, c) = <<"input", n, c>>
         /\ Operand(n, c)[1] = "input" /\ Operand(n, c)[2] = n /\ Operand(n, c)[3] = c
         /\ n \in Nat /\ c \in Nat => Operand(n, c) \in SinkType
  BY DEF Operand, Input, SinkType

LEMMA ParameterIs ==
  ASSUME NEW n, NEW p
  PROVE  /\ Parameter(n, p) = <<"parameter", n, p>>
         /\ Parameter(n, p)[1] = "parameter" /\ Parameter(n, p)[2] = n
         /\ n \in Nat /\ p \in Nat => Parameter(n, p) \in SinkType
  BY DEF Parameter, SinkType

LEMMA GraphParts ==
  ASSUME NEW g, g \in GraphType
  PROVE  /\ g = [nodes |-> g.nodes, required |-> g.required, heard |-> g.heard]
         /\ g.nodes \in Seq(NodeType) /\ g.required \in BOOLEAN
         /\ DOMAIN g.nodes = 1..Len(g.nodes) /\ Len(g.nodes) \in Nat
         /\ \A n \in DOMAIN g.nodes : g.nodes[n] \in NodeType /\ n \in Nat /\ n # 0
         /\ DOMAIN g.heard \subseteq SinkType
         /\ g.heard \in [DOMAIN g.heard -> Seq(EdgeType)]
<1>1. g = [nodes |-> g.nodes, required |-> g.required, heard |-> g.heard]
  BY DEF GraphType
<1>2. g.nodes \in Seq(NodeType) /\ g.required \in BOOLEAN
  BY DEF GraphType
<1>3. PICK sinks \in SUBSET SinkType : g.heard \in [sinks -> Seq(EdgeType)]
  BY DEF GraphType
<1>4. DOMAIN g.nodes = 1..Len(g.nodes) /\ Len(g.nodes) \in Nat
  BY <1>2
<1>5. \A n \in DOMAIN g.nodes : g.nodes[n] \in NodeType /\ n \in Nat /\ n # 0
  BY <1>2, <1>4
<1>. QED  BY <1>1, <1>2, <1>3, <1>4, <1>5

LEMMA GraphMade ==
  ASSUME NEW nodes \in Seq(NodeType), NEW required \in BOOLEAN, NEW sinks \in SUBSET SinkType,
         NEW heard \in [sinks -> Seq(EdgeType)]
  PROVE  [nodes |-> nodes, required |-> required, heard |-> heard] \in GraphType
  BY DEF GraphType

LEMMA EdgeParts ==
  ASSUME NEW g, g \in GraphType, NEW s \in DOMAIN g.heard
  PROVE  /\ g.heard[s] \in Seq(EdgeType) /\ DOMAIN g.heard[s] = 1..Len(g.heard[s])
         /\ \A i \in DOMAIN g.heard[s] : /\ g.heard[s][i] \in EdgeType
                                          /\ g.heard[s][i].port \in Nat \X Nat
                                          /\ g.heard[s][i].port[1] \in Nat
                                          /\ g.heard[s][i].delayed \in BOOLEAN
<1>1. g.heard[s] \in Seq(EdgeType)
  BY GraphParts
<1>2. DOMAIN g.heard[s] = 1..Len(g.heard[s]) /\ \A i \in DOMAIN g.heard[s] : g.heard[s][i] \in EdgeType
  BY <1>1
<1>3. \A e \in EdgeType : e.port \in Nat \X Nat /\ e.port[1] \in Nat /\ e.delayed \in BOOLEAN
  BY DEF EdgeType
<1>. QED  BY <1>1, <1>2, <1>3

SourcesOf(g, n) == Sources(g, InputSinks(g, {n}))
Feeds(g, s, m) == m # 0 /\ \E i \in DOMAIN g.heard[s] : ~ g.heard[s][i].delayed /\ g.heard[s][i].port[1] = m

LEMMA SourcesAre ==
  ASSUME NEW g, NEW sinks
  PROVE  \A m : m \in Sources(g, sinks) <=> \E s \in sinks : Feeds(g, s, m)
<1>1. \A e : e \in UNION {ToSet(g.heard[s]) : s \in sinks}
             <=> \E s \in sinks : \E i \in DOMAIN g.heard[s] : e = g.heard[s][i]
  BY DEF ToSet
<1>2. \A m : m \in Sources(g, sinks)
             <=> m # 0 /\ \E e \in UNION {ToSet(g.heard[s]) : s \in sinks} : ~ e.delayed /\ e.port[1] = m
  BY Zenon DEF Sources
<1>3. ASSUME NEW m, m \in Sources(g, sinks) PROVE \E s \in sinks : Feeds(g, s, m)
  <2>1. PICK e \in UNION {ToSet(g.heard[s]) : s \in sinks} : m # 0 /\ ~ e.delayed /\ e.port[1] = m
    BY <1>2, <1>3
  <2>2. PICK s \in sinks : \E i \in DOMAIN g.heard[s] : e = g.heard[s][i]
    BY <1>1
  <2>. QED  BY <2>1, <2>2 DEF Feeds
<1>4. ASSUME NEW m, NEW s \in sinks, Feeds(g, s, m) PROVE m \in Sources(g, sinks)
  <2>1. PICK i \in DOMAIN g.heard[s] : m # 0 /\ ~ g.heard[s][i].delayed /\ g.heard[s][i].port[1] = m
    BY <1>4 DEF Feeds
  <2>2. g.heard[s][i] \in UNION {ToSet(g.heard[t]) : t \in sinks}
    BY <1>1
  <2>. QED  BY <1>2, <2>1, <2>2
<1>. QED  BY <1>3, <1>4

LEMMA SourcesOfAre ==
  ASSUME NEW g, NEW n
  PROVE  \A m : m \in SourcesOf(g, n)
                <=> \E s \in DOMAIN g.heard : s[1] = "input" /\ s[2] = n /\ Feeds(g, s, m)
<1>1. \A s : s \in InputSinks(g, {n}) <=> s \in DOMAIN g.heard /\ s[1] = "input" /\ s[2] = n
  BY DEF InputSinks
<1>2. \A m : m \in SourcesOf(g, n) <=> \E s \in InputSinks(g, {n}) : Feeds(g, s, m)
  BY SourcesAre DEF SourcesOf
<1>. QED  BY <1>1, <1>2

LEMMA InputSourcesAre ==
  ASSUME NEW g, NEW K
  PROVE  \A m : m \in Sources(g, InputSinks(g, K)) <=> \E n \in K : m \in SourcesOf(g, n)
<1>1. \A s : s \in InputSinks(g, K) <=> s \in DOMAIN g.heard /\ s[1] = "input" /\ s[2] \in K
  BY DEF InputSinks
<1>2. \A m : m \in Sources(g, InputSinks(g, K)) <=> \E s \in InputSinks(g, K) : Feeds(g, s, m)
  BY SourcesAre
<1>3. \A n, m : m \in SourcesOf(g, n)
               <=> \E s \in DOMAIN g.heard : s[1] = "input" /\ s[2] = n /\ Feeds(g, s, m)
  BY SourcesOfAre
<1>. QED  BY <1>1, <1>2, <1>3

LEMMA SourcesThere ==
  ASSUME NEW g, Fine(g), NEW s \in DOMAIN g.heard, NEW m, Feeds(g, s, m)
  PROVE  m \in DOMAIN g.nodes
  BY DEF Fine, NamesOutputs, OutputsOf, Feeds

LEMMA SourcesOfThere ==
  ASSUME NEW g, Fine(g), NEW n
  PROVE  SourcesOf(g, n) \subseteq DOMAIN g.nodes
  BY SourcesOfAre, SourcesThere, Zenon

LEMMA AcyclicIs ==
  ASSUME NEW g
  PROVE  Acyclic(g) <=> \A S \in SUBSET DOMAIN g.nodes :
                          S # {} => \E n \in S : SourcesOf(g, n) \cap S = {}
  BY DEF Acyclic, SourcesOf

LEMMA GrownTrans ==
  ASSUME NEW f, NEW g, NEW h, Grown(f, g), Grown(g, h)
  PROVE  Grown(f, h)
  BY DEF Grown

LEMMA KeepsTrans ==
  ASSUME NEW f, NEW g, NEW h, Keeps(f, g), Keeps(g, h)
  PROVE  Keeps(f, h)
  BY GrownTrans DEF Keeps

LEMMA KeepsSame == ASSUME NEW g, Fine(g) PROVE Keeps(g, g) /\ SameOperands(g, g)
  BY DEF Keeps, Grown, SameOperands

LEMMA OperatorsGrow ==
  ASSUME NEW g, NEW h, Grown(g, h)
  PROVE  /\ Operators(g) \subseteq Operators(h)
         /\ \A n \in DOMAIN g.nodes : n \in Operators(h) => n \in Operators(g)
  BY DEF Grown, Operators

LEMMA SameOperandsTrans ==
  ASSUME NEW f, NEW g, NEW h, Grown(f, g), SameOperands(f, g), SameOperands(g, h)
  PROVE  SameOperands(f, h)
  BY OperatorsGrow DEF SameOperands

LEMMA OutputsGrow ==
  ASSUME NEW g, NEW h, Grown(g, h)
  PROVE  OutputsOf(g) \subseteq OutputsOf(h) /\ UserInputs(g) \subseteq UserInputs(h)
  BY DEF Grown, OutputsOf, UserInputs

LEMMA FitsGrow ==
  ASSUME NEW g, NEW h, Grown(g, h), NEW a, Fits(g, a)
  PROVE  Fits(h, a)
  BY OutputsGrow DEF Fits, Grown

-----------------------------------------------------------------------------
(***************************************************************************)
(* A node is pushed.                                                       *)
(***************************************************************************)
LEMMA PushedIs ==
  ASSUME NEW g, Fine(g), NEW node \in NodeType
  PROVE  /\ Pushed(g, node) \in GraphType
         /\ Len(Pushed(g, node).nodes) = Len(g.nodes) + 1
         /\ DOMAIN Pushed(g, node).nodes = DOMAIN g.nodes \cup {Len(g.nodes) + 1}
         /\ \A n \in DOMAIN g.nodes : Pushed(g, node).nodes[n] = g.nodes[n]
         /\ Pushed(g, node).nodes[Len(g.nodes) + 1] = node
         /\ Len(g.nodes) + 1 \notin DOMAIN g.nodes
         /\ DOMAIN Pushed(g, node).heard = SinksOf(Len(g.nodes) + 1, node) \cup DOMAIN g.heard
         /\ \A s \in SinksOf(Len(g.nodes) + 1, node) : /\ s[2] = Len(g.nodes) + 1
                                                        /\ Pushed(g, node).heard[s] = <<>>
         /\ \A s \in DOMAIN g.heard : /\ s \notin SinksOf(Len(g.nodes) + 1, node)
                                       /\ Pushed(g, node).heard[s] = g.heard[s]
<1> DEFINE n == Len(g.nodes) + 1
           sinks == SinksOf(n, node)
           heard == [s \in sinks \cup DOMAIN g.heard |-> IF s \in sinks THEN <<>> ELSE g.heard[s]]
<1>0. g \in GraphType /\ SinksOfNodes(g)
  BY DEF Fine
<1>1. Pushed(g, node) = [nodes |-> Append(g.nodes, node), required |-> TRUE, heard |-> heard]
  BY DEF Pushed
<1>2. /\ g.nodes \in Seq(NodeType) /\ DOMAIN g.nodes = 1..Len(g.nodes) /\ Len(g.nodes) \in Nat
      /\ DOMAIN g.heard \subseteq SinkType /\ g.heard \in [DOMAIN g.heard -> Seq(EdgeType)]
  BY <1>0, GraphParts
<1>3. n \in Nat /\ n \notin DOMAIN g.nodes /\ 1..n = (1..Len(g.nodes)) \cup {n} /\ n # 0
  BY <1>2
<1>4. /\ Append(g.nodes, node) \in Seq(NodeType) /\ Len(Append(g.nodes, node)) = n
      /\ DOMAIN Append(g.nodes, node) = 1..n
      /\ Append(g.nodes, node)[n] = node
      /\ \A k \in DOMAIN g.nodes : Append(g.nodes, node)[k] = g.nodes[k]
  BY <1>2
<1>5. node.inputs \in Nat /\ node.parameters \in Nat
  BY DEF NodeType
<1>6. \A s \in sinks : s \in SinkType /\ s[2] = n
  <2>1. ASSUME NEW c \in 1..node.inputs PROVE Input(<<n, c>>) \in SinkType /\ Input(<<n, c>>)[2] = n
    <3>1. c \in Nat
      BY <1>5
    <3>. QED  BY <1>3, <3>1, OperandIs DEF Operand
  <2>2. ASSUME NEW p \in 1..node.parameters PROVE Parameter(n, p) \in SinkType /\ Parameter(n, p)[2] = n
    <3>1. p \in Nat
      BY <1>5
    <3>. QED  BY <1>3, <3>1, ParameterIs
  <2>. HIDE DEF n
  <2>. QED  BY <2>1, <2>2 DEF SinksOf
<1>7. \A s \in DOMAIN g.heard : s \notin sinks
  <2>. HIDE DEF n, sinks
  <2>. QED  BY <1>0, <1>3, <1>6 DEF SinksOfNodes
<1>8. /\ \A s \in sinks : heard[s] = <<>>
      /\ \A s \in DOMAIN g.heard : heard[s] = g.heard[s]
      /\ DOMAIN heard = sinks \cup DOMAIN g.heard
  <2>. HIDE DEF n, sinks
  <2>. QED  BY <1>7
<1>9. heard \in [sinks \cup DOMAIN g.heard -> Seq(EdgeType)]
  <2>1. <<>> \in Seq(EdgeType)
    OBVIOUS
  <2>. HIDE DEF n, sinks
  <2>. QED  BY <1>2, <2>1
<1>10. sinks \cup DOMAIN g.heard \in SUBSET SinkType
  <2>. HIDE DEF n, sinks
  <2>. QED  BY <1>2, <1>6
<1>. HIDE DEF heard
<1>11. Pushed(g, node) \in GraphType
  BY <1>1, <1>4, <1>9, <1>10, GraphMade
<1>12. Pushed(g, node).nodes = Append(g.nodes, node) /\ Pushed(g, node).heard = heard
  BY <1>1
<1>. QED  BY <1>2, <1>3, <1>4, <1>6, <1>7, <1>8, <1>11, <1>12

LEMMA PushedKeeps ==
  ASSUME NEW g, Fine(g), NEW node \in NodeType, node.kind \in Operations => node.inputs = 2
  PROVE  Keeps(g, Pushed(g, node)) /\ SameOperands(g, Pushed(g, node))
<1> DEFINE n == Len(g.nodes) + 1
           sinks == SinksOf(n, node)
           h == Pushed(g, node)
<1>0. /\ g \in GraphType /\ SinksOfNodes(g) /\ NamesOutputs(g) /\ OperatorsHearEarlier(g)
      /\ \A k \in DOMAIN g.nodes : k \in Nat
  BY GraphParts DEF Fine
<1>1. /\ h \in GraphType
      /\ DOMAIN h.nodes = DOMAIN g.nodes \cup {n} /\ n \notin DOMAIN g.nodes
      /\ \A k \in DOMAIN g.nodes : h.nodes[k] = g.nodes[k]
      /\ h.nodes[n] = node
      /\ DOMAIN h.heard = sinks \cup DOMAIN g.heard
      /\ \A s \in sinks : s[2] = n /\ h.heard[s] = <<>>
      /\ \A s \in DOMAIN g.heard : s \notin sinks /\ h.heard[s] = g.heard[s]
  BY PushedIs
<1>2. node.kind \in Operations => Operand(n, 1) \in sinks /\ Operand(n, 2) \in sinks
  <2>1. node.kind \in Operations => 1 \in 1..node.inputs /\ 2 \in 1..node.inputs
    OBVIOUS
  <2>. HIDE DEF n
  <2>. QED  BY <2>1 DEF SinksOf, Operand
<1>3. DOMAIN <<>> = {}
  OBVIOUS
<1>. HIDE DEF n, sinks, h
<1>4. Grown(g, h)
  BY <1>1 DEF Grown
<1>5. SinksOfNodes(h)
  BY <1>0, <1>1 DEF SinksOfNodes
<1>6. NamesOutputs(h)
  <2>1. ASSUME NEW s \in DOMAIN h.heard, NEW i \in DOMAIN h.heard[s]
        PROVE  h.heard[s][i].port \in OutputsOf(h)
    <3>1. s \in DOMAIN g.heard /\ h.heard[s] = g.heard[s]
      BY <1>1, <1>3, <2>1
    <3>2. g.heard[s][i].port \in OutputsOf(g)
      BY <1>0, <3>1 DEF NamesOutputs
    <3>. QED  BY <1>4, <3>1, <3>2, OutputsGrow
  <2>. QED  BY <2>1 DEF NamesOutputs
<1>7. Operators(h) \subseteq Operators(g) \cup {n} /\ (n \in Operators(h) => node.kind \in Operations)
  BY <1>1 DEF Operators
<1>8. SameOperands(g, h)
  BY <1>0, <1>1 DEF SameOperands, OperatorsHearEarlier
<1>9. OperatorsHearEarlier(h)
  <2>1. ASSUME NEW k \in Operators(h), NEW c \in 1..2
        PROVE  /\ Operand(k, c) \in DOMAIN h.heard
               /\ \A i \in DOMAIN h.heard[Operand(k, c)] : h.heard[Operand(k, c)][i].port[1] < k
    <3>1. CASE k \in Operators(g)
      BY <1>0, <1>1, <1>8, <3>1 DEF OperatorsHearEarlier, SameOperands
    <3>2. CASE k = n
      <4>1. c = 1 \/ c = 2
        OBVIOUS
      <4>2. Operand(k, c) \in sinks
        BY <1>2, <1>7, <3>2, <4>1
      <4>. QED  BY <1>1, <1>3, <4>2
    <3>. QED  BY <1>7, <3>1, <3>2
  <2>. QED  BY <2>1 DEF OperatorsHearEarlier
<1>10. ASSUME Acyclic(g) PROVE Acyclic(h)
  <2>1. SourcesOf(h, n) = {}
    <3>1. ASSUME NEW s \in DOMAIN h.heard, s[2] = n, NEW m PROVE ~ Feeds(h, s, m)
      <4>1. s \notin DOMAIN g.heard \/ n = 0
        BY <1>0, <1>1, <3>1 DEF SinksOfNodes
      <4>2. n # 0
        BY <1>0, GraphParts DEF n
      <4>. QED  BY <1>1, <1>3, <4>1, <4>2 DEF Feeds
    <3>. QED  BY <3>1, SourcesOfAre
  <2>2. ASSUME NEW k \in DOMAIN g.nodes PROVE SourcesOf(h, k) = SourcesOf(g, k)
    <3>1. \A s : s \in DOMAIN h.heard /\ s[2] = k <=> s \in DOMAIN g.heard /\ s[2] = k
      BY <1>1
    <3>2. \A s \in DOMAIN g.heard : \A m : Feeds(h, s, m) <=> Feeds(g, s, m)
      BY <1>1 DEF Feeds
    <3>3. \A m : m \in SourcesOf(h, k) <=> m \in SourcesOf(g, k)
      BY <3>1, <3>2, SourcesOfAre
    <3>. QED  BY <3>3
  <2>3. ASSUME NEW S \in SUBSET DOMAIN h.nodes, S # {} PROVE \E k \in S : SourcesOf(h, k) \cap S = {}
    <3>1. CASE n \in S
      BY <2>1, <3>1
    <3>2. CASE n \notin S
      <4>1. S \in SUBSET DOMAIN g.nodes
        BY <1>1, <3>2
      <4>2. PICK k \in S : SourcesOf(g, k) \cap S = {}
        BY <1>10, <2>3, <4>1, AcyclicIs
      <4>. QED  BY <2>2, <4>1, <4>2
    <3>. QED  BY <3>1, <3>2
  <2>. QED  BY <2>3, AcyclicIs
<1>11. Fine(h)
  BY <1>1, <1>5, <1>6, <1>9 DEF Fine
<1>12. Keeps(g, h)
  BY <1>4, <1>10, <1>11 DEF Keeps
<1>. QED  BY <1>8, <1>12 DEF h
-----------------------------------------------------------------------------
(***************************************************************************)
(* has_path: what is upstream of a node is closed under sources, after as  *)
(* many levels as there are nodes, and each node of it is on a path.       *)
(***************************************************************************)
NextLevel(g, K) == K \cup Sources(g, InputSinks(g, K))
Levels(g, F, n) ==
  /\ F \in [Nat -> SUBSET DOMAIN g.nodes]
  /\ F[0] = {n}
  /\ \A i \in Nat : i # 0 => F[i] = NextLevel(g, F[i - 1])

LEMMA UpstreamLevels ==
  ASSUME NEW g, Fine(g), NEW n \in DOMAIN g.nodes
  PROVE  \E F : Levels(g, F, n) /\ Upstream(g, n) = F[Len(g.nodes)]
<1> DEFINE V == SUBSET DOMAIN g.nodes
           step == [K \in V |-> NextLevel(g, K)]
           Equation(F) == F = [i \in Nat |-> IF i = 0 THEN {n} ELSE NextLevel(g, F[i - 1])]
           reached == CHOOSE F : Equation(F)
<1>1. \A K \in V : NextLevel(g, K) \in V
  BY InputSourcesAre, SourcesOfThere DEF NextLevel
<1>2. step \in [V -> V] /\ \A K \in V : step[K] = NextLevel(g, K)
  BY <1>1
<1>3. {n} \in V
  OBVIOUS
<1>4. PICK F : /\ F \in [Nat -> V] /\ F[0] = {n}
               /\ \A i \in Nat : i # 0 => F[i] = step[F[i - 1]]
  <2>. HIDE DEF step, V
  <2>. QED  BY <1>2, <1>3, LevelsExist
<1>5. Equation(F)
  <2>1. \A i \in Nat : i # 0 => i - 1 \in Nat
    OBVIOUS
  <2>. HIDE DEF step, V
  <2>. QED  BY <1>2, <1>4, <2>1
<1>6. Equation(reached)
  <2>. HIDE DEF Equation
  <2>. QED  BY <1>5
<1>7. Upstream(g, n) = reached[Len(g.nodes)]
  BY DEF Upstream, NextLevel
<1>. HIDE DEF reached, step
<1>8. /\ DOMAIN reached = Nat /\ reached[0] = {n}
      /\ \A i \in Nat : i # 0 => reached[i] = NextLevel(g, reached[i - 1])
  BY <1>6
<1> DEFINE S == {i \in Nat : reached[i] \in V}
<1>9. 0 \in S
  BY <1>3, <1>8
<1>10. ASSUME NEW i \in Nat, i \in S PROVE i + 1 \in S
  <2>1. i + 1 \in Nat /\ i + 1 # 0 /\ i + 1 - 1 = i
    OBVIOUS
  <2>2. reached[i + 1] = NextLevel(g, reached[i])
    BY <1>8, <2>1
  <2>. HIDE DEF V
  <2>. QED  BY <1>1, <1>10, <2>1, <2>2
<1>11. Nat \subseteq S
  <2>. HIDE DEF S
  <2>. QED  BY <1>9, <1>10, SetInduction
<1>12. reached = [i \in Nat |-> reached[i]]
  BY <1>6
<1>13. reached \in [Nat -> V]
  <2>. HIDE DEF V
  <2>. QED  BY <1>11, <1>12
<1>. QED  BY <1>7, <1>8, <1>13 DEF Levels

ClosedIn(g, K) == Sources(g, InputSinks(g, K)) \subseteq K

(* A level is closed under sources, or it has more nodes than its number.  *)
LEMMA LevelsGrow ==
  ASSUME NEW g, Fine(g), NEW n \in DOMAIN g.nodes, NEW F, Levels(g, F, n), NEW N \in Nat
  PROVE  ClosedIn(g, F[N]) \/ Cardinality(F[N]) > N
<1> DEFINE S == {i \in Nat : ClosedIn(g, F[i]) \/ Cardinality(F[i]) > i}
<1>0. IsFiniteSet(DOMAIN g.nodes)
  <2>1. DOMAIN g.nodes = 1..Len(g.nodes) /\ Len(g.nodes) \in Nat
    BY GraphParts DEF Fine
  <2>. QED  BY <2>1, FS_Interval
<1>1. \A i \in Nat : /\ F[i] \subseteq DOMAIN g.nodes /\ IsFiniteSet(F[i]) /\ Cardinality(F[i]) \in Nat
  BY <1>0, FS_Subset, FS_CardinalityType DEF Levels
<1>2. 0 \in S
  <2>1. Cardinality({n}) = 1
    BY FS_Singleton
  <2>2. F[0] = {n}
    BY DEF Levels
  <2>. QED  BY <2>1, <2>2
<1>3. ASSUME NEW i \in Nat, i \in S PROVE i + 1 \in S
  <2>1. i + 1 \in Nat /\ F[i + 1] = NextLevel(g, F[i])
    <3>1. i + 1 \in Nat /\ i + 1 # 0 /\ i + 1 - 1 = i
      OBVIOUS
    <3>. QED  BY <3>1 DEF Levels
  <2>2. CASE ClosedIn(g, F[i])
    <3>1. F[i + 1] = F[i]
      BY <2>1, <2>2 DEF NextLevel, ClosedIn
    <3>. QED  BY <2>1, <2>2, <3>1
  <2>3. CASE ~ ClosedIn(g, F[i])
    <3>1. Cardinality(F[i]) > i
      BY <1>3, <2>3
    <3>2. PICK x \in Sources(g, InputSinks(g, F[i])) : x \notin F[i]
      BY <2>3 DEF ClosedIn
    <3>3. Cardinality(F[i] \cup {x}) = Cardinality(F[i]) + 1
      BY <1>1, <3>2, FS_AddElement
    <3>4. F[i] \cup {x} \subseteq F[i + 1]
      BY <2>1, <3>2 DEF NextLevel
    <3>5. Cardinality(F[i] \cup {x}) <= Cardinality(F[i + 1])
      BY <1>1, <2>1, <3>4, FS_Subset
    <3>6. Cardinality(F[i + 1]) \in Nat /\ Cardinality(F[i]) \in Nat
      BY <1>1, <2>1
    <3>7. Cardinality(F[i + 1]) > i + 1
      BY <3>1, <3>3, <3>5, <3>6
    <3>. QED  BY <2>1, <3>7
  <2>. QED  BY <2>2, <2>3
<1>. HIDE DEF S
<1>4. N \in S
  BY <1>2, <1>3, SetInduction
<1>. QED  BY <1>4 DEF S

LEMMA LevelHasNode ==
  ASSUME NEW g, Fine(g), NEW n \in DOMAIN g.nodes, NEW F, Levels(g, F, n), NEW N \in Nat
  PROVE  n \in F[N]
<1> DEFINE S == {i \in Nat : n \in F[i]}
<1>1. 0 \in S
  BY DEF Levels
<1>2. ASSUME NEW i \in Nat, i \in S PROVE i + 1 \in S
  <2>1. i + 1 \in Nat /\ i + 1 # 0 /\ i + 1 - 1 = i
    OBVIOUS
  <2>2. F[i + 1] = NextLevel(g, F[i])
    BY <2>1 DEF Levels
  <2>. QED  BY <1>2, <2>1, <2>2 DEF NextLevel
<1>. HIDE DEF S
<1>3. N \in S
  BY <1>1, <1>2, SetInduction
<1>. QED  BY <1>3 DEF S

LEMMA UpstreamClosed ==
  ASSUME NEW g, Fine(g), NEW n \in DOMAIN g.nodes
  PROVE  /\ n \in Upstream(g, n) /\ Upstream(g, n) \subseteq DOMAIN g.nodes
         /\ \A k \in Upstream(g, n) : SourcesOf(g, k) \subseteq Upstream(g, n)
<1>1. PICK F : Levels(g, F, n) /\ Upstream(g, n) = F[Len(g.nodes)]
  BY UpstreamLevels
<1>2. DOMAIN g.nodes = 1..Len(g.nodes) /\ Len(g.nodes) \in Nat
  BY GraphParts DEF Fine
<1>3. IsFiniteSet(DOMAIN g.nodes) /\ Cardinality(DOMAIN g.nodes) = Len(g.nodes)
  <2>1. 1 \in Int /\ Len(g.nodes) \in Int
    BY <1>2
  <2>2. IsFiniteSet(1..Len(g.nodes))
        /\ Cardinality(1..Len(g.nodes)) = IF 1 > Len(g.nodes) THEN 0 ELSE Len(g.nodes) - 1 + 1
    BY <2>1, FS_Interval
  <2>. QED  BY <1>2, <2>2
<1>4. F[Len(g.nodes)] \subseteq DOMAIN g.nodes
  BY <1>1, <1>2 DEF Levels
<1>5. Cardinality(F[Len(g.nodes)]) <= Len(g.nodes) /\ Cardinality(F[Len(g.nodes)]) \in Nat
  BY <1>3, <1>4, FS_Subset, FS_CardinalityType
<1>6. ClosedIn(g, F[Len(g.nodes)])
  <2>1. ClosedIn(g, F[Len(g.nodes)]) \/ Cardinality(F[Len(g.nodes)]) > Len(g.nodes)
    BY <1>1, <1>2, LevelsGrow
  <2>. QED  BY <1>2, <1>5, <2>1
<1>7. n \in F[Len(g.nodes)]
  BY <1>1, <1>2, LevelHasNode
<1>8. \A k \in Upstream(g, n) : SourcesOf(g, k) \subseteq Upstream(g, n)
  BY <1>1, <1>6, InputSourcesAre DEF ClosedIn
<1>. QED  BY <1>1, <1>4, <1>7, <1>8

(* The nodes of a path from x to n: each but x has a source among them.    *)
Path(g, S, x, n) ==
  /\ S \in SUBSET DOMAIN g.nodes
  /\ x \in S /\ n \in S
  /\ \A k \in S : k # x => SourcesOf(g, k) \cap S # {}

LEMMA UpstreamOnPath ==
  ASSUME NEW g, Fine(g), NEW n \in DOMAIN g.nodes, NEW x \in Upstream(g, n)
  PROVE  \E S : Path(g, S, x, n)
<1>1. PICK F : Levels(g, F, n) /\ Upstream(g, n) = F[Len(g.nodes)]
  BY UpstreamLevels
<1>2. Len(g.nodes) \in Nat
  BY GraphParts DEF Fine
<1> DEFINE T == {i \in Nat : \A y \in F[i] : \E S : Path(g, S, y, n)}
<1>3. 0 \in T
  <2>1. Path(g, {n}, n, n)
    BY DEF Path
  <2>2. F[0] = {n}
    BY <1>1 DEF Levels
  <2>. QED  BY <2>1, <2>2
<1>4. ASSUME NEW i \in Nat, i \in T PROVE i + 1 \in T
  <2>1. i + 1 \in Nat /\ F[i + 1] = NextLevel(g, F[i]) /\ F[i + 1] \subseteq DOMAIN g.nodes
    <3>1. i + 1 \in Nat /\ i + 1 # 0 /\ i + 1 - 1 = i
      OBVIOUS
    <3>. QED  BY <1>1, <3>1 DEF Levels
  <2>2. ASSUME NEW y \in F[i + 1] PROVE \E S : Path(g, S, y, n)
    <3>1. CASE y \in F[i]
      BY <1>4, <3>1
    <3>2. CASE y \notin F[i]
      <4>1. PICK z \in F[i] : y \in SourcesOf(g, z)
        BY <2>1, <2>2, <3>2, InputSourcesAre DEF NextLevel
      <4>2. PICK S : Path(g, S, z, n)
        BY <1>4
      <4>3. y \in DOMAIN g.nodes
        BY <2>1, <2>2
      <4>4. Path(g, S \cup {y}, y, n)
        BY <4>1, <4>2, <4>3 DEF Path
      <4>. QED  BY <4>4
    <3>. QED  BY <3>1, <3>2
  <2>. QED  BY <2>1, <2>2
<1>. HIDE DEF T
<1>5. Len(g.nodes) \in T
  BY <1>2, <1>3, <1>4, SetInduction
<1>. QED  BY <1>1, <1>5 DEF T

(* What has a path would have closed it. *)
LEMMA PathCloses ==
  ASSUME NEW g, NEW h, NEW S, NEW x, NEW n, Path(g, S, x, n),
         DOMAIN g.nodes \subseteq DOMAIN h.nodes,
         \A k \in S : SourcesOf(g, k) \subseteq SourcesOf(h, k),
         n \in SourcesOf(h, x)
  PROVE  ~ Acyclic(h)
<1>1. S \in SUBSET DOMAIN h.nodes /\ S # {} /\ \A k \in S : SourcesOf(h, k) \cap S # {}
  BY DEF Path
<1>. QED  BY <1>1, AcyclicIs

(* An edge out of a set that is closed under sources makes no circle. *)
LEMMA NoPathNoCircle ==
  ASSUME NEW g, NEW h, Acyclic(g), DOMAIN h.nodes = DOMAIN g.nodes,
         NEW U, \A k \in U : SourcesOf(g, k) \subseteq U, NEW n \in U, NEW x, x \notin U,
         \A k : k # x => SourcesOf(h, k) \subseteq SourcesOf(g, k),
         SourcesOf(h, x) \subseteq SourcesOf(g, x) \cup {n}
  PROVE  Acyclic(h)
<1>1. ASSUME NEW S \in SUBSET DOMAIN h.nodes, S # {} PROVE \E k \in S : SourcesOf(h, k) \cap S = {}
  <2>1. CASE S \cap U = {}
    <3>1. PICK k \in S : SourcesOf(g, k) \cap S = {}
      BY <1>1, AcyclicIs
    <3>. QED  BY <2>1, <3>1
  <2>2. CASE S \cap U # {}
    <3>1. S \cap U \in SUBSET DOMAIN g.nodes
      OBVIOUS
    <3>2. PICK k \in S \cap U : SourcesOf(g, k) \cap (S \cap U) = {}
      BY <2>2, <3>1, AcyclicIs
    <3>3. k # x /\ SourcesOf(h, k) \subseteq U
      BY <3>2
    <3>. QED  BY <3>2, <3>3
  <2>. QED  BY <2>1, <2>2
<1>. QED  BY <1>1, AcyclicIs

LEMMA FewerSourcesNoCircle ==
  ASSUME NEW g, NEW h, Acyclic(g), DOMAIN h.nodes = DOMAIN g.nodes,
         \A k \in DOMAIN g.nodes : SourcesOf(h, k) \subseteq SourcesOf(g, k)
  PROVE  Acyclic(h)
<1>1. ASSUME NEW S \in SUBSET DOMAIN h.nodes, S # {} PROVE \E k \in S : SourcesOf(h, k) \cap S = {}
  <2>1. PICK k \in S : SourcesOf(g, k) \cap S = {}
    BY <1>1, AcyclicIs
  <2>. QED  BY <2>1
<1>. QED  BY <1>1, AcyclicIs
-----------------------------------------------------------------------------
(***************************************************************************)
(* One channel is connected to another.                                    *)
(***************************************************************************)
LEMMA EdgeIs ==
  ASSUME NEW port, NEW delayed
  PROVE  /\ Edge(port, delayed).port = port /\ Edge(port, delayed).delayed = delayed
         /\ port \in Nat \X Nat /\ delayed \in BOOLEAN => Edge(port, delayed) \in EdgeType
  BY DEF Edge, EdgeType

LEMMA JoinedIs ==
  ASSUME NEW g, g \in GraphType, NEW s \in DOMAIN g.heard, NEW edge \in EdgeType, NEW additive \in BOOLEAN
  PROVE  /\ Joined(g, s, edge, additive) \in GraphType
         /\ Joined(g, s, edge, additive).nodes = g.nodes
         /\ DOMAIN Joined(g, s, edge, additive).heard = DOMAIN g.heard
         /\ \A t \in DOMAIN g.heard : t # s => Joined(g, s, edge, additive).heard[t] = g.heard[t]
         /\ Joined(g, s, edge, additive).heard[s] = IF additive THEN Append(g.heard[s], edge) ELSE <<edge>>
<1> DEFINE list == IF additive THEN Append(g.heard[s], edge) ELSE <<edge>>
           heard == [g.heard EXCEPT ![s] = list]
<1>1. /\ g = [nodes |-> g.nodes, required |-> g.required, heard |-> g.heard]
      /\ g.nodes \in Seq(NodeType) /\ DOMAIN g.heard \subseteq SinkType
      /\ g.heard \in [DOMAIN g.heard -> Seq(EdgeType)]
  BY GraphParts
<1>2. list \in Seq(EdgeType)
  <2>1. g.heard[s] \in Seq(EdgeType)
    BY <1>1
  <2>. QED  BY <2>1
<1>3. Joined(g, s, edge, additive) = [nodes |-> g.nodes, required |-> TRUE, heard |-> heard]
  <2>1. Joined(g, s, edge, additive) = [g EXCEPT !.required = TRUE, !.heard = heard]
    BY DEF Joined
  <2>. HIDE DEF heard
  <2>. QED  BY <1>1, <2>1
<1>. HIDE DEF list
<1>4. heard \in [DOMAIN g.heard -> Seq(EdgeType)]
  BY <1>1, <1>2
<1>5. heard[s] = list /\ \A t \in DOMAIN g.heard : t # s => heard[t] = g.heard[t]
  OBVIOUS
<1>. HIDE DEF heard
<1>6. Joined(g, s, edge, additive) \in GraphType
  BY <1>1, <1>3, <1>4, GraphMade
<1>. QED  BY <1>3, <1>4, <1>5, <1>6 DEF list

LEMMA JoinedSinks ==
  ASSUME NEW g, g \in GraphType, NEW s, NEW edge, NEW additive
  PROVE  /\ Joined(g, s, edge, additive).nodes = g.nodes
         /\ DOMAIN Joined(g, s, edge, additive).heard = DOMAIN g.heard
<1> DEFINE heard == [g.heard EXCEPT ![s] = IF additive THEN Append(@, edge) ELSE <<edge>>]
<1>1. g = [nodes |-> g.nodes, required |-> g.required, heard |-> g.heard]
  BY GraphParts
<1>2. Joined(g, s, edge, additive) = [g EXCEPT !.required = TRUE, !.heard = heard]
  BY DEF Joined
<1>3. DOMAIN heard = DOMAIN g.heard
  OBVIOUS
<1>. HIDE DEF heard
<1>. QED  BY <1>1, <1>2, <1>3

(* What a list of one more edge, or of one, feeds. *)
LEMMA JoinedFeeds ==
  ASSUME NEW g, g \in GraphType, NEW s \in DOMAIN g.heard, NEW edge \in EdgeType, NEW additive \in BOOLEAN,
         NEW h, h.heard[s] = IF additive THEN Append(g.heard[s], edge) ELSE <<edge>>
  PROVE  /\ \A i \in DOMAIN h.heard[s] : h.heard[s][i] = edge \/ \E j \in DOMAIN g.heard[s] : h.heard[s][i] = g.heard[s][j]
         /\ \A m : Feeds(h, s, m) => Feeds(g, s, m) \/ (m = edge.port[1] /\ m # 0 /\ ~ edge.delayed)
         /\ edge.port[1] # 0 /\ ~ edge.delayed => Feeds(h, s, edge.port[1])
         /\ additive => \A m : Feeds(g, s, m) => Feeds(h, s, m)
<1>1. g.heard[s] \in Seq(EdgeType) /\ DOMAIN g.heard[s] = 1..Len(g.heard[s]) /\ Len(g.heard[s]) \in Nat
  <2>1. g.heard[s] \in Seq(EdgeType)
    BY EdgeParts
  <2>. QED  BY <2>1
<1>2. CASE additive
  <2>1. /\ DOMAIN h.heard[s] = 1..(Len(g.heard[s]) + 1)
        /\ h.heard[s][Len(g.heard[s]) + 1] = edge
        /\ \A i \in DOMAIN g.heard[s] : h.heard[s][i] = g.heard[s][i]
    BY <1>1, <1>2
  <2>2. /\ Len(g.heard[s]) + 1 \in DOMAIN h.heard[s] /\ DOMAIN g.heard[s] \subseteq DOMAIN h.heard[s]
        /\ \A i \in DOMAIN h.heard[s] : i = Len(g.heard[s]) + 1 \/ i \in DOMAIN g.heard[s]
    BY <1>1, <2>1
  <2>3. \A i \in DOMAIN h.heard[s] : h.heard[s][i] = edge \/ \E j \in DOMAIN g.heard[s] : h.heard[s][i] = g.heard[s][j]
    BY <2>1, <2>2
  <2>. QED  BY <2>1, <2>2, <2>3 DEF Feeds
<1>3. CASE ~ additive
  <2>1. DOMAIN h.heard[s] = {1} /\ h.heard[s][1] = edge
    BY <1>3
  <2>. QED  BY <1>3, <2>1 DEF Feeds
<1>. QED  BY <1>2, <1>3

(* A sink hears one more output that there is. *)
LEMMA JoinedKeeps ==
  ASSUME NEW g, Fine(g), NEW sink \in Nat \X Nat, Input(sink) \in DOMAIN g.heard,
         NEW edge \in EdgeType, edge.port \in OutputsOf(g), NEW additive \in BOOLEAN,
         sink[1] \notin Operators(g) \/ edge.port[1] < sink[1],
         edge.delayed \/ edge.port[1] = 0 \/ sink[1] = 0 \/ ~ HasPath(g, sink[1], edge.port[1])
  PROVE  /\ Keeps(g, Joined(g, Input(sink), edge, additive))
         /\ sink[1] \notin Operators(g) => SameOperands(g, Joined(g, Input(sink), edge, additive))
<1> DEFINE s == Input(sink)
           h == Joined(g, s, edge, additive)
           n == edge.port[1]
           x == sink[1]
<1>0. g \in GraphType /\ SinksOfNodes(g) /\ NamesOutputs(g) /\ OperatorsHearEarlier(g)
  BY DEF Fine
<1>1. /\ h \in GraphType /\ h.nodes = g.nodes /\ DOMAIN h.heard = DOMAIN g.heard
      /\ \A t \in DOMAIN g.heard : t # s => h.heard[t] = g.heard[t]
      /\ h.heard[s] = IF additive THEN Append(g.heard[s], edge) ELSE <<edge>>
  BY <1>0, JoinedIs
<1>2. /\ \A i \in DOMAIN h.heard[s] : h.heard[s][i] = edge \/ \E j \in DOMAIN g.heard[s] : h.heard[s][i] = g.heard[s][j]
      /\ \A m : Feeds(h, s, m) => Feeds(g, s, m) \/ (m = n /\ m # 0 /\ ~ edge.delayed)
  <2>. HIDE DEF s, h
  <2>. QED  BY <1>0, <1>1, JoinedFeeds DEF s
<1>3. s[1] = "input" /\ s[2] = x /\ s[3] = sink[2] /\ s = <<"input", x, sink[2]>>
  BY SinkIs
<1>. HIDE DEF s, h
<1>4. Grown(g, h) /\ Operators(h) = Operators(g) /\ OutputsOf(h) = OutputsOf(g)
  BY <1>1 DEF Grown, Operators, OutputsOf
<1>5. SinksOfNodes(h)
  BY <1>0, <1>1 DEF SinksOfNodes
<1>6. NamesOutputs(h)
  <2>1. ASSUME NEW t \in DOMAIN h.heard, NEW i \in DOMAIN h.heard[t]
        PROVE  h.heard[t][i].port \in OutputsOf(h)
    <3>1. CASE t = s
      <4>1. \A j \in DOMAIN g.heard[s] : g.heard[s][j].port \in OutputsOf(g)
        BY <1>0, <1>1, <3>1 DEF NamesOutputs
      <4>. QED  BY <1>2, <1>4, <3>1, <4>1
    <3>2. CASE t # s
      BY <1>0, <1>1, <1>4, <3>2 DEF NamesOutputs
    <3>. QED  BY <3>1, <3>2
  <2>. QED  BY <2>1 DEF NamesOutputs
<1>7. x \notin Operators(g) => SameOperands(g, h)
  <2>1. \A k, c : Operand(k, c) = s => k = x
    BY <1>3, OperandIs
  <2>. QED  BY <1>0, <1>1, <2>1 DEF SameOperands, OperatorsHearEarlier
<1>8. OperatorsHearEarlier(h)
  <2>1. ASSUME NEW k \in Operators(h), NEW c \in 1..2
        PROVE  /\ Operand(k, c) \in DOMAIN h.heard
               /\ \A i \in DOMAIN h.heard[Operand(k, c)] : h.heard[Operand(k, c)][i].port[1] < k
    <3>1. /\ Operand(k, c) \in DOMAIN g.heard
          /\ \A i \in DOMAIN g.heard[Operand(k, c)] : g.heard[Operand(k, c)][i].port[1] < k
      BY <1>0, <1>4 DEF OperatorsHearEarlier
    <3>2. CASE Operand(k, c) = s
      <4>1. k = x
        BY <1>3, <3>2, OperandIs
      <4>. QED  BY <1>1, <1>2, <1>4, <3>1, <3>2, <4>1
    <3>3. CASE Operand(k, c) # s
      BY <1>1, <3>1, <3>3
    <3>. QED  BY <3>2, <3>3
  <2>. QED  BY <2>1 DEF OperatorsHearEarlier
<1>9. /\ \A k : k # x => SourcesOf(h, k) \subseteq SourcesOf(g, k)
      /\ SourcesOf(h, x) \subseteq SourcesOf(g, x) \cup (IF edge.delayed \/ n = 0 THEN {} ELSE {n})
  <2>1. \A t \in DOMAIN g.heard : t # s => \A m : Feeds(h, t, m) <=> Feeds(g, t, m)
    BY <1>1 DEF Feeds
  <2>. HIDE DEF n, x
  <2>2. ASSUME NEW k, NEW m \in SourcesOf(h, k)
        PROVE  m \in SourcesOf(g, k) \/ (k = x /\ m = n /\ m # 0 /\ ~ edge.delayed)
    <3>1. PICK t \in DOMAIN h.heard : t[1] = "input" /\ t[2] = k /\ Feeds(h, t, m)
      BY <2>2, SourcesOfAre
    <3>2. Feeds(g, t, m) \/ (t = s /\ m = n /\ m # 0 /\ ~ edge.delayed)
      BY <1>1, <1>2, <2>1, <3>1
    <3>3. Feeds(g, t, m) => m \in SourcesOf(g, k)
      BY <1>1, <3>1, SourcesOfAre
    <3>. QED  BY <1>3, <3>1, <3>2, <3>3
  <2>. QED  BY <2>2
<1>10. ASSUME Acyclic(g) PROVE Acyclic(h)
  <2>1. CASE edge.delayed \/ n = 0 \/ x = 0
    <3>1. 0 \notin DOMAIN g.nodes
      BY <1>0, GraphParts
    <3>2. \A k \in DOMAIN g.nodes : SourcesOf(h, k) \subseteq SourcesOf(g, k)
      <4>. HIDE DEF n, x
      <4>. QED  BY <1>9, <2>1, <3>1
    <3>. QED  BY <1>1, <1>10, <3>2, FewerSourcesNoCircle
  <2>2. CASE ~ edge.delayed /\ n # 0 /\ x # 0
    <3>1. n \in DOMAIN g.nodes
      BY <2>2 DEF OutputsOf
    <3>2. x \notin Upstream(g, n)
      BY <2>2 DEF HasPath
    <3>3. n \in Upstream(g, n) /\ \A k \in Upstream(g, n) : SourcesOf(g, k) \subseteq Upstream(g, n)
      BY <3>1, UpstreamClosed
    <3>4. SourcesOf(h, x) \subseteq SourcesOf(g, x) \cup {n}
      <4>. HIDE DEF n, x
      <4>. QED  BY <1>9
    <3>5. DOMAIN h.nodes = DOMAIN g.nodes /\ \A k : k # x => SourcesOf(h, k) \subseteq SourcesOf(g, k)
      BY <1>1, <1>9
    <3>. HIDE DEF n, x
    <3>. QED  BY <1>10, <3>2, <3>3, <3>4, <3>5, NoPathNoCircle
  <2>. QED  BY <2>1, <2>2
<1>11. Fine(h)
  BY <1>1, <1>5, <1>6, <1>8 DEF Fine
<1>12. Keeps(g, h)
  BY <1>4, <1>10, <1>11 DEF Keeps
<1>. QED  BY <1>7, <1>12 DEF h, s
-----------------------------------------------------------------------------
(* The channels of a pair: an output that there is, and a sink that is no  *)
(* operator's, or that of a later one.                                     *)
MayConnect(g, pair) ==
  /\ pair[1] \in OutputsOf(g) /\ pair[2] \in Nat \X Nat
  /\ pair[2][1] \notin Operators(g) \/ pair[1][1] < pair[2][1]

Connected(g, h) == Keeps(g, h) /\ h.nodes = g.nodes /\ DOMAIN h.heard = DOMAIN g.heard

HowType == [additive : BOOLEAN, feedback : BOOLEAN, on_error : {"log", "return", "panic"}]

LEMMA OutputTyped == ASSUME NEW g, NEW port \in OutputsOf(g) PROVE port \in Nat \X Nat
  BY DEF OutputsOf

LEMMA ConnectedTrans ==
  ASSUME NEW f, NEW g, NEW h, Connected(f, g), Connected(g, h)
  PROVE  Connected(f, h)
  BY KeepsTrans DEF Connected

LEMMA SameNodes ==
  ASSUME NEW g, NEW h, h.nodes = g.nodes
  PROVE  /\ \A pair : MayConnect(g, pair) <=> MayConnect(h, pair)
         /\ OutputsOf(h) = OutputsOf(g) /\ Operators(h) = Operators(g)
  BY DEF MayConnect, OutputsOf, Operators

Delayed(pair, how) == how.feedback /\ pair[1][1] # 0 /\ pair[2][1] # 0
JoinedPair(g, pair, how) == Joined(g, Input(pair[2]), Edge(pair[1], Delayed(pair, how)), how.additive)

(* What may come of one pair. *)
OutcomeOf(g, pair, how, r) ==
  /\ r.outcome \in {"ok", "error", "panic"}
  /\ r.outcome # "ok" => r.graph = g
  /\ r.outcome = "ok"
     => /\ Input(pair[2]) \in DOMAIN g.heard
        /\ r.graph = JoinedPair(g, pair, how)
        /\ \/ Delayed(pair, how) \/ pair[1][1] = 0 \/ pair[2][1] = 0
           \/ ~ HasPath(g, pair[2][1], pair[1][1])
  /\ r.outcome = "error"
     => \/ pair[1][1] = 0 /\ pair[1][2] > GraphInputs
        \/ pair[2][1] = 0 /\ pair[2][2] > GraphOutputs
        \/ pair[1][1] # 0 /\ pair[2][1] # 0 /\ HasPath(g, pair[2][1], pair[1][1])

LEMMA Connect2Is ==
  ASSUME NEW g, NEW pair, NEW how
  PROVE  OutcomeOf(g, pair, how, Connect2(g, pair[1], pair[2], how))
<1> DEFINE delayed == Delayed(pair, how)
           r == Connect2(g, pair[1], pair[2], how)
<1>1. r = IF pair[1][1] = 0 /\ pair[1][2] > GraphInputs THEN Result(g, "error")
          ELSE IF pair[2][1] = 0 /\ pair[2][2] > GraphOutputs THEN Result(g, "error")
          ELSE IF pair[1][1] # 0 /\ pair[2][1] # 0 /\ ~how.feedback /\ HasPath(g, pair[2][1], pair[1][1])
          THEN Result(g, "error")
          ELSE IF Input(pair[2]) \notin DOMAIN g.heard THEN Result(g, "panic")
          ELSE Result(JoinedPair(g, pair, how), "ok")
  BY DEF Connect2, Delayed, JoinedPair
<1>2. \A h, outcome : Result(h, outcome).graph = h /\ Result(h, outcome).outcome = outcome
  BY DEF Result
<1>. HIDE DEF r
<1>3. delayed <=> how.feedback /\ pair[1][1] # 0 /\ pair[2][1] # 0
  BY DEF Delayed
<1>. HIDE DEF delayed
<1>4. "ok" # "error" /\ "ok" # "panic" /\ "error" # "panic"
  OBVIOUS
<1>5. /\ r.outcome \in {"ok", "error", "panic"}
      /\ r.outcome # "ok" => r.graph = g
  BY <1>1, <1>2
<1>6. r.outcome = "ok"
      => /\ Input(pair[2]) \in DOMAIN g.heard
         /\ r.graph = JoinedPair(g, pair, how)
         /\ \/ delayed \/ pair[1][1] = 0 \/ pair[2][1] = 0
            \/ ~ HasPath(g, pair[2][1], pair[1][1])
  BY <1>1, <1>2, <1>3, <1>4
<1>7. r.outcome = "error"
      => \/ pair[1][1] = 0 /\ pair[1][2] > GraphInputs
         \/ pair[2][1] = 0 /\ pair[2][2] > GraphOutputs
         \/ pair[1][1] # 0 /\ pair[2][1] # 0 /\ HasPath(g, pair[2][1], pair[1][1])
  BY <1>1, <1>2, <1>4
<1>8. OutcomeOf(g, pair, how, r)
  BY <1>5, <1>6, <1>7 DEF OutcomeOf, delayed
<1>. QED  BY <1>8 DEF r

LEMMA JoinedPairKeeps ==
  ASSUME NEW g, Fine(g), NEW pair, MayConnect(g, pair), NEW how \in HowType,
         Input(pair[2]) \in DOMAIN g.heard,
         Delayed(pair, how) \/ pair[1][1] = 0 \/ pair[2][1] = 0 \/ ~ HasPath(g, pair[2][1], pair[1][1])
  PROVE  /\ Connected(g, JoinedPair(g, pair, how))
         /\ pair[2][1] \notin Operators(g) => SameOperands(g, JoinedPair(g, pair, how))
<1> DEFINE edge == Edge(pair[1], Delayed(pair, how))
<1>1. /\ pair[1] \in OutputsOf(g) /\ pair[2] \in Nat \X Nat
      /\ pair[2][1] \notin Operators(g) \/ pair[1][1] < pair[2][1]
  BY DEF MayConnect
<1>2. how.additive \in BOOLEAN /\ Delayed(pair, how) \in BOOLEAN
  BY DEF HowType, Delayed
<1>3. edge \in EdgeType /\ edge.port = pair[1] /\ edge.delayed = Delayed(pair, how)
  BY <1>1, <1>2, EdgeIs, OutputTyped
<1>. HIDE DEF edge
<1>4. /\ Keeps(g, Joined(g, Input(pair[2]), edge, how.additive))
      /\ pair[2][1] \notin Operators(g) => SameOperands(g, Joined(g, Input(pair[2]), edge, how.additive))
  BY <1>1, <1>2, <1>3, JoinedKeeps
<1>5. /\ Joined(g, Input(pair[2]), edge, how.additive).nodes = g.nodes
      /\ DOMAIN Joined(g, Input(pair[2]), edge, how.additive).heard = DOMAIN g.heard
  <2>1. g \in GraphType
    BY DEF Fine
  <2>. QED  BY <2>1, JoinedSinks
<1>. QED  BY <1>4, <1>5 DEF Connected, JoinedPair, edge

(* One pair of a call. *)
LEMMA ConnectNextIs ==
  ASSUME NEW r, Fine(r.graph), NEW pair, MayConnect(r.graph, pair), NEW how \in HowType
  PROVE  LET next == ConnectNext(r, pair, how)
         IN  /\ Connected(r.graph, next.graph)
             /\ pair[2][1] \notin Operators(r.graph) => SameOperands(r.graph, next.graph)
             /\ r.outcome # "ok" => next = r
             /\ r.outcome = "ok" => next.outcome \in {"ok", "panic", how.on_error}
             /\ next.outcome = "ok" => r.outcome = "ok"
<1> DEFINE c == Connect2(r.graph, pair[1], pair[2], how)
           next == ConnectNext(r, pair, how)
<1>1. /\ c.outcome \in {"ok", "error", "panic"}
      /\ c.outcome # "ok" => c.graph = r.graph
      /\ c.outcome = "ok" => /\ Connected(r.graph, c.graph)
                             /\ pair[2][1] \notin Operators(r.graph) => SameOperands(r.graph, c.graph)
  <2>1. OutcomeOf(r.graph, pair, how, c)
    BY Connect2Is
  <2>. HIDE DEF c
  <2>. QED  BY <2>1, JoinedPairKeeps DEF OutcomeOf
<1>2. Connected(r.graph, r.graph) /\ SameOperands(r.graph, r.graph)
  BY KeepsSame DEF Connected
<1>3. next = IF r.outcome # "ok" THEN r
             ELSE IF c.outcome = "error" /\ how.on_error = "log" THEN r
             ELSE IF c.outcome = "error" THEN Result(r.graph, how.on_error) ELSE c
  BY DEF ConnectNext
<1>4. Result(r.graph, how.on_error).graph = r.graph /\ Result(r.graph, how.on_error).outcome = how.on_error
  BY DEF Result
<1>. HIDE DEF c, next
<1>. QED  BY <1>1, <1>2, <1>3, <1>4 DEF next

(* The results of the pairs, one after the other. *)
Steps(g, pairs, how, after) ==
  /\ after[0] = Result(g, "ok")
  /\ \A i \in 1..Len(pairs) : after[i] = ConnectNext(after[i - 1], pairs[i], how)
  /\ ConnectPairs(g, pairs, how) = after[Len(pairs)]

StepsKeep(g, pairs, how, after) ==
  \A i \in 0..Len(pairs) : /\ Connected(g, after[i].graph)
                           /\ after[i].outcome \in {"ok", "panic", how.on_error}

LEMMA PairsSteps ==
  ASSUME NEW g, Fine(g), NEW pairs, DOMAIN pairs = 1..Len(pairs), Len(pairs) \in Nat,
         \A i \in DOMAIN pairs : MayConnect(g, pairs[i]), NEW how \in HowType
  PROVE  \E after : Steps(g, pairs, how, after) /\ StepsKeep(g, pairs, how, after)
<1> DEFINE V == {r \in [graph : GraphType, outcome : {"ok", "panic", how.on_error}] : Connected(g, r.graph)}
           N == Len(pairs)
           step == [x \in V \X Nat |-> IF x[2] \in 1..N THEN ConnectNext(x[1], pairs[x[2]], how) ELSE x[1]]
           Equation(f) == f = [s \in SUBSET (1..N) |->
                                 IF s = {} THEN Result(g, "ok")
                                 ELSE ConnectNext(f[s \ {Max(s)}], pairs[Max(s)], how)]
           iter == CHOOSE f : Equation(f)
<1>0. \A h, outcome : Result(h, outcome) = [graph |-> h, outcome |-> outcome]
  BY DEF Result
<1>1. ASSUME NEW r \in V, NEW i \in 1..N PROVE ConnectNext(r, pairs[i], how) \in V
  <2>1. Fine(r.graph) /\ r.graph \in GraphType /\ r.graph.nodes = g.nodes /\ Connected(g, r.graph)
        /\ r.outcome \in {"ok", "panic", how.on_error} /\ r = Result(r.graph, r.outcome)
    BY <1>0 DEF Connected, Keeps, Fine
  <2>2. MayConnect(r.graph, pairs[i])
    BY <2>1, SameNodes
  <2> DEFINE next == ConnectNext(r, pairs[i], how)
  <2>3. /\ Connected(r.graph, next.graph)
        /\ r.outcome # "ok" => next = r
        /\ r.outcome = "ok" => next.outcome \in {"ok", "panic", how.on_error}
    BY <2>1, <2>2, ConnectNextIs
  <2>4. Connected(g, next.graph)
    <3>. HIDE DEF next
    <3>. QED  BY <2>1, <2>3, ConnectedTrans
  <2>5. next.graph \in GraphType
    BY <2>4 DEF Connected, Keeps, Fine
  <2>6. next = Result(next.graph, next.outcome)
    <3>1. next = r \/ (\E h, outcome : next = Result(h, outcome))
      BY DEF ConnectNext, Connect2
    <3>. HIDE DEF next
    <3>. QED  BY <1>0, <2>1, <3>1
  <2>. HIDE DEF next
  <2>7. next.outcome \in {"ok", "panic", how.on_error}
    BY <2>1, <2>3
  <2>8. next \in V
    BY <1>0, <2>4, <2>5, <2>6, <2>7
  <2>. QED  BY <2>8 DEF next
<1>2. Result(g, "ok") \in V
  <2>1. Connected(g, g) /\ g \in GraphType
    BY KeepsSame DEF Connected, Fine
  <2>. QED  BY <1>0, <2>1
<1>. HIDE DEF V
<1>3. /\ \A r \in V : \A i \in Nat : step[<<r, i>>] \in V
      /\ \A r \in V : \A i \in 1..N : step[<<r, i>>] = ConnectNext(r, pairs[i], how)
  <2>1. \A i \in 1..N : i \in Nat
    OBVIOUS
  <2>2. \A r \in V : \A i \in Nat : step[<<r, i>>] = IF i \in 1..N THEN ConnectNext(r, pairs[i], how) ELSE r
    OBVIOUS
  <2>. HIDE DEF step
  <2>. QED  BY <1>1, <2>1, <2>2
<1>4. PICK f : Folds(f, V, Result(g, "ok"), step, N)
  <2>. HIDE DEF step
  <2>. QED  BY <1>2, <1>3, FoldExists
<1>5. ASSUME NEW s \in SUBSET (1..N), s # {} PROVE Max(s) \in 1..N /\ s \ {Max(s)} \in SUBSET (1..N)
  BY <1>5, MaxOfSome
<1>6. Equation(f)
  <2>1. f = [s \in SUBSET (1..N) |-> f[s]] /\ \A s \in SUBSET (1..N) : f[s] \in V
    BY <1>4 DEF Folds
  <2>2. ASSUME NEW s \in SUBSET (1..N)
        PROVE  f[s] = IF s = {} THEN Result(g, "ok") ELSE ConnectNext(f[s \ {Max(s)}], pairs[Max(s)], how)
    <3>1. f[s] = IF s = {} THEN Result(g, "ok") ELSE step[<<f[s \ {Max(s)}], Max(s)>>]
      <4>. HIDE DEF step
      <4>. QED  BY <1>4 DEF Folds
    <3>. HIDE DEF step
    <3>. QED  BY <1>3, <1>5, <2>1, <3>1
  <2>. HIDE DEF step
  <2>. QED  BY <2>1, <2>2
<1>7. Equation(iter)
  <2>. HIDE DEF Equation
  <2>. QED  BY <1>6
<1>8. ConnectPairs(g, pairs, how) = iter[1..N]
  BY DEF ConnectPairs, FoldLeft, MapThenFoldSet
<1>. HIDE DEF iter
<1> DEFINE after == [i \in 0..N |-> iter[1..i]]
<1>9. \A i \in 0..N : i \in Nat /\ 1..i \in SUBSET (1..N) /\ after[i] = iter[1..i]
  OBVIOUS
<1>10. after[0] = Result(g, "ok")
  <2>1. 1..0 = {} /\ 0 \in 0..N
    OBVIOUS
  <2>. HIDE DEF after
  <2>. QED  BY <1>7, <1>9, <2>1
<1>11. ASSUME NEW i \in 1..N PROVE after[i] = ConnectNext(after[i - 1], pairs[i], how)
  <2>1. i \in Nat /\ i # 0 /\ i \in 0..N /\ i - 1 \in 0..N
    OBVIOUS
  <2>2. Max(1..i) = i /\ (1..i) \ {i} = 1..(i - 1) /\ 1..i # {}
    BY <2>1, MaxOfPlaces
  <2>. HIDE DEF after
  <2>3. iter[1..i] = ConnectNext(iter[(1..i) \ {Max(1..i)}], pairs[Max(1..i)], how)
    BY <1>7, <1>9, <2>1, <2>2
  <2>. QED  BY <1>9, <2>1, <2>2, <2>3
<1>12. Steps(g, pairs, how, after)
  <2>1. N \in 0..N
    OBVIOUS
  <2>2. after[N] = iter[1..N]
    BY <1>9, <2>1
  <2>. HIDE DEF after
  <2>. QED  BY <1>8, <1>10, <1>11, <2>2 DEF Steps
<1>. HIDE DEF after
<1> DEFINE S == {i \in Nat : i <= N => after[i] \in V}
<1>13. 0 \in S
  BY <1>2, <1>10
<1>14. ASSUME NEW i \in Nat, i \in S PROVE i + 1 \in S
  <2> SUFFICES ASSUME i + 1 <= N PROVE after[i + 1] \in V
    OBVIOUS
  <2>1. i + 1 \in 1..N /\ i + 1 - 1 = i /\ after[i] \in V
    BY <1>14
  <2>2. after[i + 1] = ConnectNext(after[i], pairs[i + 1], how)
    BY <1>11, <2>1
  <2>. QED  BY <1>1, <2>1, <2>2
<1>15. Nat \subseteq S
  <2>. HIDE DEF S
  <2>. QED  BY <1>13, <1>14, SetInduction
<1>16. StepsKeep(g, pairs, how, after)
  <2>1. \A i \in 0..N : after[i] \in V
    BY <1>15
  <2>2. \A r \in V : Connected(g, r.graph) /\ r.outcome \in {"ok", "panic", how.on_error}
    BY DEF V
  <2>. QED  BY <2>1, <2>2 DEF StepsKeep
<1>. QED  BY <1>12, <1>16
-----------------------------------------------------------------------------
LEMMA PairsKeep ==
  ASSUME NEW g, Fine(g), NEW pairs, DOMAIN pairs = 1..Len(pairs), Len(pairs) \in Nat,
         \A i \in DOMAIN pairs : MayConnect(g, pairs[i]), NEW how \in HowType
  PROVE  /\ Connected(g, ConnectPairs(g, pairs, how).graph)
         /\ ConnectPairs(g, pairs, how).outcome \in {"ok", "panic", how.on_error}
         /\ (\A i \in DOMAIN pairs : pairs[i][2][1] \notin Operators(g))
            => SameOperands(g, ConnectPairs(g, pairs, how).graph)
<1>1. PICK after : Steps(g, pairs, how, after) /\ StepsKeep(g, pairs, how, after)
  BY PairsSteps
<1>2. Len(pairs) \in 0..Len(pairs)
  OBVIOUS
<1>3. ASSUME \A i \in DOMAIN pairs : pairs[i][2][1] \notin Operators(g)
      PROVE  SameOperands(g, after[Len(pairs)].graph)
  <2> DEFINE S == {i \in Nat : i <= Len(pairs) => SameOperands(g, after[i].graph)}
  <2>1. 0 \in S
    <3>1. after[0].graph = g
      BY <1>1 DEF Steps, Result
    <3>. QED  BY <3>1, KeepsSame
  <2>2. ASSUME NEW i \in Nat, i \in S PROVE i + 1 \in S
    <3> SUFFICES ASSUME i + 1 <= Len(pairs) PROVE SameOperands(g, after[i + 1].graph)
      OBVIOUS
    <3>1. i + 1 \in 1..Len(pairs) /\ i + 1 - 1 = i /\ i \in 0..Len(pairs)
      OBVIOUS
    <3>2. after[i + 1] = ConnectNext(after[i], pairs[i + 1], how)
      BY <1>1, <3>1 DEF Steps
    <3>3. Connected(g, after[i].graph) /\ SameOperands(g, after[i].graph)
      BY <1>1, <2>2, <3>1 DEF StepsKeep
    <3>4. /\ Fine(after[i].graph) /\ Grown(g, after[i].graph) /\ after[i].graph.nodes = g.nodes
      BY <3>3 DEF Connected, Keeps
    <3>5. MayConnect(after[i].graph, pairs[i + 1]) /\ pairs[i + 1][2][1] \notin Operators(after[i].graph)
      BY <1>3, <3>1, <3>4, SameNodes
    <3>6. SameOperands(after[i].graph, after[i + 1].graph)
      BY <3>2, <3>4, <3>5, ConnectNextIs
    <3>. QED  BY <3>3, <3>4, <3>6, SameOperandsTrans
  <2>. HIDE DEF S
  <2>3. Len(pairs) \in S
    BY <2>1, <2>2, SetInduction
  <2>. QED  BY <2>3 DEF S
<1>. QED  BY <1>1, <1>2, <1>3 DEF Steps, StepsKeep

-----------------------------------------------------------------------------
(***************************************************************************)
(* Operators.                                                              *)
(***************************************************************************)
LEMMA UpstreamLeast ==
  ASSUME NEW g, Fine(g), NEW n \in DOMAIN g.nodes, NEW K, n \in K,
         \A k \in K : SourcesOf(g, k) \subseteq K
  PROVE  Upstream(g, n) \subseteq K
<1>1. PICK F : Levels(g, F, n) /\ Upstream(g, n) = F[Len(g.nodes)]
  BY UpstreamLevels
<1>2. Len(g.nodes) \in Nat
  BY GraphParts DEF Fine
<1> DEFINE T == {i \in Nat : F[i] \subseteq K}
<1>3. 0 \in T
  BY <1>1 DEF Levels
<1>4. ASSUME NEW i \in Nat, i \in T PROVE i + 1 \in T
  <2>1. i + 1 \in Nat /\ F[i + 1] = NextLevel(g, F[i])
    <3>1. i + 1 \in Nat /\ i + 1 # 0 /\ i + 1 - 1 = i
      OBVIOUS
    <3>. QED  BY <1>1, <3>1 DEF Levels
  <2>2. F[i] \subseteq K
    BY <1>4
  <2>3. \A m \in Sources(g, InputSinks(g, F[i])) : m \in K
    BY <2>2, InputSourcesAre
  <2>4. F[i + 1] \subseteq K
    BY <2>1, <2>2, <2>3 DEF NextLevel
  <2>. QED  BY <2>1, <2>4
<1>. HIDE DEF T
<1>5. Len(g.nodes) \in T
  BY <1>2, <1>3, <1>4, SetInduction
<1>. QED  BY <1>1, <1>5 DEF T

(* No sink hears the node. *)
Unheard(g, n) == \A s \in DOMAIN g.heard : \A i \in DOMAIN g.heard[s] : g.heard[s][i].port[1] # n

LEMMA UnheardHasNoPath ==
  ASSUME NEW g, Fine(g), NEW n, Unheard(g, n), NEW m \in DOMAIN g.nodes, m # n
  PROVE  ~ HasPath(g, n, m)
<1> DEFINE K == DOMAIN g.nodes \ {n}
<1>1. \A k : SourcesOf(g, k) \subseteq K
  <2>1. \A s \in DOMAIN g.heard : \A x : Feeds(g, s, x) => x # n
    BY DEF Unheard, Feeds
  <2>2. \A k : \A x \in SourcesOf(g, k) : x # n
    BY <2>1, SourcesOfAre
  <2>. QED  BY <2>2, SourcesOfThere
<1>2. m \in K
  OBVIOUS
<1>. HIDE DEF K
<1>3. Upstream(g, m) \subseteq K
  BY <1>1, <1>2, UpstreamLeast
<1>. QED  BY <1>3 DEF HasPath, K

LEMMA LoggedIs == Logged \in HowType /\ Logged.additive = TRUE /\ Logged.feedback = FALSE /\ Logged.on_error = "log"
  BY DEF Logged, How, HowType

OperandDone(g, next, n, c, x) ==
  /\ next.outcome = "ok"
  /\ Connected(g, next.graph)
  /\ Unheard(next.graph, n)
  /\ \A s \in DOMAIN g.heard :
       next.graph.heard[s] = IF s = Operand(n, c) THEN <<Edge(x, FALSE)>> ELSE g.heard[s]

(* An input of a new operator is connected, whatever it is connected to.   *)
LEMMA OperandConnected ==
  ASSUME NEW g, Fine(g), NEW n \in DOMAIN g.nodes, n # 0, Unheard(g, n), NEW c \in 1..2,
         Operand(n, c) \in DOMAIN g.heard, g.heard[Operand(n, c)] = <<>>,
         NEW x \in OutputsOf(g), x[1] < n
  PROVE  OperandDone(g, ConnectNext(Result(g, "ok"), <<x, <<n, c>>>>, Logged), n, c, x)
<1> DEFINE pair == <<x, <<n, c>>>>
           next == ConnectNext(Result(g, "ok"), pair, Logged)
           r == Connect2(g, pair[1], pair[2], Logged)
<1>0. pair[1] = x /\ pair[2] = <<n, c>> /\ pair[2][1] = n /\ pair[1][1] = x[1]
  OBVIOUS
<1>1. g \in GraphType /\ n \in Nat /\ c \in Nat /\ x \in Nat \X Nat
  BY GraphParts, OutputTyped DEF Fine
<1>2. MayConnect(g, pair) /\ Input(pair[2]) = Operand(n, c)
  BY <1>1 DEF MayConnect, Operand
<1>3. ~ Delayed(pair, Logged)
  BY LoggedIs DEF Delayed
<1>4. x[1] # 0 => x[1] \in DOMAIN g.nodes /\ x[1] # n
  BY <1>1 DEF OutputsOf
<1>5. x[1] # 0 => ~ HasPath(g, n, x[1])
  BY <1>4, UnheardHasNoPath
<1>6. r = Result(JoinedPair(g, pair, Logged), "ok")
  <2>1. ~ (x[1] = 0 /\ x[2] > GraphInputs)
    <3>1. x[1] = 0 => x[2] \in 1..GraphInputs
      BY DEF OutputsOf
    <3>. QED  BY <3>1, GraphAssumption
  <2>. HIDE DEF pair
  <2>. QED  BY <1>0, <1>2, <1>5, <2>1 DEF Connect2, JoinedPair, Delayed
<1>7. next = Result(JoinedPair(g, pair, Logged), "ok")
  <2>1. /\ Result(g, "ok").outcome = "ok" /\ Result(g, "ok").graph = g
        /\ Result(JoinedPair(g, pair, Logged), "ok").outcome = "ok"
    BY DEF Result
  <2>. HIDE DEF pair
  <2>. QED  BY <1>6, <2>1 DEF ConnectNext
<1>8. next.outcome = "ok" /\ next.graph = JoinedPair(g, pair, Logged)
  BY <1>7 DEF Result
<1>9. JoinedPair(g, pair, Logged) = Joined(g, Operand(n, c), Edge(x, FALSE), TRUE)
  BY <1>0, <1>2, <1>3, LoggedIs DEF JoinedPair, Delayed
<1>. HIDE DEF next, pair
<1>10. Connected(g, JoinedPair(g, pair, Logged))
  BY <1>0, <1>2, <1>5, JoinedPairKeeps, LoggedIs
<1>11. Edge(x, FALSE) \in EdgeType /\ Edge(x, FALSE).port = x
  BY <1>1, EdgeIs
<1> DEFINE h == Joined(g, Operand(n, c), Edge(x, FALSE), TRUE)
<1>12. /\ DOMAIN h.heard = DOMAIN g.heard
       /\ \A t \in DOMAIN g.heard : t # Operand(n, c) => h.heard[t] = g.heard[t]
       /\ h.heard[Operand(n, c)] = Append(g.heard[Operand(n, c)], Edge(x, FALSE))
  BY <1>1, <1>11, JoinedIs
<1>13. h.heard[Operand(n, c)] = <<Edge(x, FALSE)>>
  <2>. HIDE DEF h
  <2>. QED  BY <1>12
<1>. HIDE DEF h
<1>14. Unheard(h, n)
  <2>1. ASSUME NEW s \in DOMAIN h.heard, NEW i \in DOMAIN h.heard[s] PROVE h.heard[s][i].port[1] # n
    <3>1. CASE s = Operand(n, c)
      <4>1. h.heard[s][i] = Edge(x, FALSE)
        <5>1. DOMAIN h.heard[s] = {1} /\ h.heard[s][1] = Edge(x, FALSE)
          <6>1. DOMAIN <<Edge(x, FALSE)>> = {1} /\ <<Edge(x, FALSE)>>[1] = Edge(x, FALSE)
            OBVIOUS
          <6>. QED  BY <1>13, <3>1, <6>1
        <5>. QED  BY <2>1, <5>1
      <4>2. x[1] # n
        BY <1>1
      <4>. QED  BY <1>11, <4>1, <4>2
    <3>2. CASE s # Operand(n, c)
      BY <1>12, <3>2 DEF Unheard
    <3>. QED  BY <3>1, <3>2
  <2>. QED  BY <2>1 DEF Unheard
<1>. QED  BY <1>8, <1>9, <1>10, <1>12, <1>13, <1>14 DEF h, next, pair, OperandDone

IsOperator(h, n, op, x, y) ==
  /\ h.nodes[n].kind = op /\ h.nodes[n].outputs = 1
  /\ h.heard[Operand(n, 1)] = <<Edge(x, FALSE)>>
  /\ h.heard[Operand(n, 2)] = <<Edge(y, FALSE)>>

LEMMA NodeChanged ==
  ASSUME NEW node \in NodeType, NEW kind \in Kinds, NEW parameters \in Nat,
         NEW state \in {"live", "freed", "sent", "removed"}
  PROVE  /\ [node EXCEPT !.kind = kind] \in NodeType
         /\ [node EXCEPT !.kind = kind].kind = kind
         /\ [node EXCEPT !.kind = kind].inputs = node.inputs
         /\ [node EXCEPT !.kind = kind].outputs = node.outputs
         /\ [node EXCEPT !.parameters = parameters] \in NodeType
         /\ [node EXCEPT !.parameters = parameters].kind = node.kind
         /\ [node EXCEPT !.parameters = parameters].inputs = node.inputs
         /\ [node EXCEPT !.parameters = parameters].outputs = node.outputs
         /\ [node EXCEPT !.state = state] \in NodeType
         /\ [node EXCEPT !.state = state].kind = node.kind
         /\ [node EXCEPT !.state = state].inputs = node.inputs
         /\ [node EXCEPT !.state = state].outputs = node.outputs
         /\ [node EXCEPT !.named = TRUE] \in NodeType
         /\ [node EXCEPT !.named = TRUE].kind = node.kind
         /\ [node EXCEPT !.named = TRUE].inputs = node.inputs
         /\ [node EXCEPT !.named = TRUE].outputs = node.outputs
  BY DEF NodeType

LEMMA UGenIs ==
  ASSUME NEW shape \in Nat \X Nat \X Nat
  PROVE  /\ UGen(shape) \in NodeType /\ UGen(shape).kind = "ugen"
         /\ UGen(shape).inputs = shape[1] /\ UGen(shape).outputs = shape[2]
         /\ UGen(shape).parameters \in Nat
  BY DEF UGen, NodeType, Kinds

LEMMA MathUGenIs ==
  ASSUME NEW op \in Operations
  PROVE  /\ MathUGen(op) \in NodeType /\ MathUGen(op).inputs = 2 /\ MathUGen(op).outputs = 1
         /\ MathUGen(op).kind = op
<1>1. <<2, 1, 0>> \in Nat \X Nat \X Nat /\ op \in Kinds
  BY DEF Kinds
<1>2. /\ UGen(<<2, 1, 0>>) \in NodeType
      /\ UGen(<<2, 1, 0>>).inputs = 2 /\ UGen(<<2, 1, 0>>).outputs = 1
  BY <1>1, UGenIs
<1>. QED  BY <1>1, <1>2, NodeChanged DEF MathUGen

LEMMA ConstantIs ==
  Constant \in NodeType /\ Constant.outputs = 1 /\ Constant.kind = "constant"
<1>1. <<0, 1, 1>> \in Nat \X Nat \X Nat /\ "constant" \in Kinds
  BY DEF Kinds
<1>2. UGen(<<0, 1, 1>>) \in NodeType /\ UGen(<<0, 1, 1>>).outputs = 1
  BY <1>1, UGenIs
<1>. QED  BY <1>1, <1>2, NodeChanged DEF Constant

LEMMA WithOperatorIs ==
  ASSUME NEW g, Fine(g), NEW op \in Operations, NEW x \in OutputsOf(g), NEW y \in OutputsOf(g)
  PROVE  LET h == WithOperator(g, op, x, y)
             n == Len(g.nodes) + 1
         IN  /\ Keeps(g, h) /\ SameOperands(g, h)
             /\ Len(h.nodes) = n /\ DOMAIN h.nodes = DOMAIN g.nodes \cup {n}
             /\ IsOperator(h, n, op, x, y)
<1> DEFINE n == Len(g.nodes) + 1
           p == Pushed(g, MathUGen(op))
           pairs == Zip(Operands(x, y), Channels(n, 2))
           h == ConnectPairs(p, pairs, Logged).graph
<1>0. g \in GraphType /\ Len(g.nodes) \in Nat /\ DOMAIN g.nodes = 1..Len(g.nodes)
  BY GraphParts DEF Fine
<1>1. n \in Nat /\ n # 0 /\ n \notin DOMAIN g.nodes
  BY <1>0
<1>2. /\ pairs[1] = <<x, <<n, 1>>>> /\ pairs[2] = <<y, <<n, 2>>>>
      /\ Len(pairs) = 2 /\ DOMAIN pairs = 1..2
  <2>1. Len(<<x, y>>) = 2 /\ Len(Channels(n, 2)) = 2 /\ Channels(n, 2)[1] = <<n, 1>> /\ Channels(n, 2)[2] = <<n, 2>>
    <3>1. Channels(n, 2) = [c \in 1..2 |-> <<n, c>>]
      BY DEF Channels
    <3>. HIDE DEF n
    <3>2. Len(Channels(n, 2)) = 2
      BY <3>1
    <3>. QED  BY <3>1, <3>2
  <2>2. pairs = [i \in 1..2 |-> <<<<x, y>>[i], Channels(n, 2)[i]>>]
    BY <2>1 DEF Zip, Operands
  <2>. HIDE DEF n, pairs
  <2>3. Len(pairs) = 2 /\ DOMAIN pairs = 1..2
    BY <2>2
  <2>. QED  BY <2>1, <2>2, <2>3
<1>3. /\ Len(p.nodes) = n /\ DOMAIN p.nodes = DOMAIN g.nodes \cup {n}
      /\ p.nodes[n] = MathUGen(op)
      /\ DOMAIN p.heard = SinksOf(n, MathUGen(op)) \cup DOMAIN g.heard
      /\ \A s \in SinksOf(n, MathUGen(op)) : p.heard[s] = <<>>
      /\ \A s \in DOMAIN g.heard : p.heard[s] = g.heard[s]
      /\ Keeps(g, p) /\ SameOperands(g, p)
  BY PushedIs, PushedKeeps, MathUGenIs
<1>4. Operand(n, 1) \in SinksOf(n, MathUGen(op)) /\ Operand(n, 2) \in SinksOf(n, MathUGen(op))
  <2>1. 1 \in 1..MathUGen(op).inputs /\ 2 \in 1..MathUGen(op).inputs
    BY MathUGenIs
  <2>. HIDE DEF n
  <2>. QED  BY <2>1 DEF SinksOf, Operand
<1>5. Fine(p) /\ Grown(g, p)
  BY <1>3 DEF Keeps
<1>6. x \in OutputsOf(p) /\ y \in OutputsOf(p) /\ x[1] < n /\ y[1] < n
  <2>1. \A z \in OutputsOf(g) : z[1] = 0 \/ z[1] \in 1..Len(g.nodes)
    BY <1>0 DEF OutputsOf
  <2>2. \A z \in OutputsOf(g) : z[1] < n
    BY <1>0, <2>1
  <2>. QED  BY <1>5, <2>2, OutputsGrow
<1>7. Unheard(p, n)
  <2>1. ASSUME NEW s \in DOMAIN p.heard, NEW i \in DOMAIN p.heard[s] PROVE p.heard[s][i].port[1] # n
    <3>1. DOMAIN <<>> = {}
      OBVIOUS
    <3>2. s \in DOMAIN g.heard /\ p.heard[s] = g.heard[s]
      <4>. HIDE DEF p, n
      <4>. QED  BY <1>3, <2>1, <3>1
    <3>3. g.heard[s][i].port \in OutputsOf(g)
      BY <2>1, <3>2 DEF Fine, NamesOutputs
    <3>4. g.heard[s][i].port[1] = 0 \/ g.heard[s][i].port[1] \in DOMAIN g.nodes
      BY <3>3 DEF OutputsOf
    <3>. HIDE DEF p, n
    <3>. QED  BY <1>1, <3>2, <3>4
  <2>. QED  BY <2>1 DEF Unheard
<1>. HIDE DEF p, n, pairs
<1>8. \A i \in DOMAIN pairs : MayConnect(p, pairs[i])
  <2>1. MayConnect(p, <<x, <<n, 1>>>>) /\ MayConnect(p, <<y, <<n, 2>>>>)
    BY <1>1, <1>6 DEF MayConnect
  <2>2. \A i \in DOMAIN pairs : i = 1 \/ i = 2
    BY <1>2
  <2>. QED  BY <1>2, <2>1, <2>2
<1>9. PICK after : Steps(p, pairs, Logged, after)
  BY <1>2, <1>5, <1>8, LoggedIs, PairsSteps
<1>10. /\ after[1] = ConnectNext(Result(p, "ok"), <<x, <<n, 1>>>>, Logged)
       /\ after[2] = ConnectNext(after[1], <<y, <<n, 2>>>>, Logged)
       /\ h = after[2].graph
  <2>1. 1 \in 1..2 /\ 2 \in 1..2 /\ 1 - 1 = 0 /\ 2 - 1 = 1
    OBVIOUS
  <2>. QED  BY <1>2, <1>9, <2>1 DEF Steps
<1> DEFINE q == after[1].graph
<1>11. Operand(n, 1) # Operand(n, 2)
  BY OperandIs
<1>12. /\ after[1].outcome = "ok" /\ Connected(p, q) /\ Unheard(q, n)
       /\ \A s \in DOMAIN p.heard : q.heard[s] = IF s = Operand(n, 1) THEN <<Edge(x, FALSE)>> ELSE p.heard[s]
  <2>1. 1 \in 1..2
    OBVIOUS
  <2>2. n \in DOMAIN p.nodes /\ Operand(n, 1) \in DOMAIN p.heard /\ p.heard[Operand(n, 1)] = <<>>
    BY <1>3, <1>4
  <2>3. OperandDone(p, ConnectNext(Result(p, "ok"), <<x, <<n, 1>>>>, Logged), n, 1, x)
    BY <1>1, <1>5, <1>6, <1>7, <2>1, <2>2, OperandConnected
  <2>. QED  BY <1>10, <2>3 DEF OperandDone
<1>13. after[1] = Result(q, "ok")
  <2>1. Result(p, "ok").graph = p /\ \A g1, o : Result(g1, o) = [graph |-> g1, outcome |-> o]
    BY DEF Result
  <2>2. \E g1, o : after[1] = Result(g1, o)
    BY <1>10 DEF ConnectNext, Connect2
  <2>. QED  BY <1>12, <2>1, <2>2
<1>. HIDE DEF q, h
<1>14. Fine(q) /\ q.nodes = p.nodes /\ DOMAIN q.heard = DOMAIN p.heard /\ OutputsOf(q) = OutputsOf(p)
  BY <1>12, SameNodes DEF Connected, Keeps
<1>15. /\ Connected(q, h)
       /\ \A s \in DOMAIN q.heard : h.heard[s] = IF s = Operand(n, 2) THEN <<Edge(y, FALSE)>> ELSE q.heard[s]
  <2>1. 2 \in 1..2
    OBVIOUS
  <2>2. n \in DOMAIN q.nodes /\ Operand(n, 2) \in DOMAIN q.heard /\ q.heard[Operand(n, 2)] = <<>>
    BY <1>3, <1>4, <1>11, <1>12, <1>14
  <2>3. OperandDone(q, ConnectNext(Result(q, "ok"), <<y, <<n, 2>>>>, Logged), n, 2, y)
    BY <1>1, <1>6, <1>12, <1>14, <2>1, <2>2, OperandConnected
  <2>. QED  BY <1>10, <1>13, <2>3 DEF OperandDone
<1>16. Connected(p, h) /\ h.nodes = p.nodes
  BY <1>12, <1>14, <1>15, ConnectedTrans DEF Connected
<1>17. Keeps(g, h)
  BY <1>3, <1>16, KeepsTrans DEF Connected
<1>18. IsOperator(h, n, op, x, y)
  <2>1. h.heard[Operand(n, 1)] = <<Edge(x, FALSE)>> /\ h.heard[Operand(n, 2)] = <<Edge(y, FALSE)>>
    BY <1>3, <1>4, <1>11, <1>12, <1>14, <1>15
  <2>. QED  BY <1>3, <1>16, <2>1, MathUGenIs DEF IsOperator
<1>19. SameOperands(g, h)
  <2>1. ASSUME NEW k \in Operators(g), NEW c \in 1..2 PROVE h.heard[Operand(k, c)] = g.heard[Operand(k, c)]
    <3>1. k # n /\ Operand(k, c) \in DOMAIN g.heard
      BY <1>1, <2>1 DEF Operators, Fine, OperatorsHearEarlier
    <3>2. Operand(k, c) # Operand(n, 1) /\ Operand(k, c) # Operand(n, 2)
      BY <3>1, OperandIs
    <3>. QED  BY <1>3, <1>12, <1>14, <1>15, <3>1, <3>2
  <2>. QED  BY <2>1 DEF SameOperands
<1>20. WithOperator(g, op, x, y) = h
  BY DEF WithOperator, h, p, pairs, n
<1>21. Len(h.nodes) = n /\ DOMAIN h.nodes = DOMAIN g.nodes \cup {n}
  BY <1>3, <1>16
<1>. QED  BY <1>17, <1>18, <1>19, <1>20, <1>21 DEF n
-----------------------------------------------------------------------------
(* The first k pairs have their operators, in the order of the pairs.      *)
OperatorsFrom(g, op, pairs, k, h) ==
  /\ Keeps(g, h) /\ SameOperands(g, h)
  /\ Len(h.nodes) = Len(g.nodes) + k
  /\ \A i \in 1..k : IsOperator(h, Len(g.nodes) + i, op, pairs[i][1], pairs[i][2])

OperatorSteps(g, op, pairs, after) ==
  /\ after[0] = g
  /\ \A i \in 1..Len(pairs) : after[i] = WithOperator(after[i - 1], op, pairs[i][1], pairs[i][2])
  /\ WithOperators(g, op, pairs) = after[Len(pairs)]

LEMMA OperatorsSteps ==
  ASSUME NEW g, Fine(g), NEW op \in Operations,
         NEW pairs, DOMAIN pairs = 1..Len(pairs), Len(pairs) \in Nat,
         \A i \in DOMAIN pairs : pairs[i][1] \in OutputsOf(g) /\ pairs[i][2] \in OutputsOf(g)
  PROVE  \E after : OperatorSteps(g, op, pairs, after)
<1> DEFINE V == {h \in GraphType : Fine(h) /\ Grown(g, h)}
           N == Len(pairs)
           step == [x \in V \X Nat |-> IF x[2] \in 1..N
                                       THEN WithOperator(x[1], op, pairs[x[2]][1], pairs[x[2]][2]) ELSE x[1]]
           Equation(f) == f = [s \in SUBSET (1..N) |->
                                 IF s = {} THEN g
                                 ELSE WithOperator(f[s \ {Max(s)}], op, pairs[Max(s)][1], pairs[Max(s)][2])]
           iter == CHOOSE f : Equation(f)
<1>1. ASSUME NEW h \in V, NEW i \in 1..N PROVE WithOperator(h, op, pairs[i][1], pairs[i][2]) \in V
  <2>1. pairs[i][1] \in OutputsOf(h) /\ pairs[i][2] \in OutputsOf(h)
    BY OutputsGrow
  <2>2. Keeps(h, WithOperator(h, op, pairs[i][1], pairs[i][2]))
    BY <2>1, WithOperatorIs
  <2>. QED  BY <2>2, GrownTrans DEF Keeps, Fine
<1>2. g \in V
  BY KeepsSame DEF Keeps, Fine
<1>. HIDE DEF V
<1>3. /\ \A h \in V : \A i \in Nat : step[<<h, i>>] \in V
      /\ \A h \in V : \A i \in 1..N : step[<<h, i>>] = WithOperator(h, op, pairs[i][1], pairs[i][2])
  <2>1. \A i \in 1..N : i \in Nat
    OBVIOUS
  <2>2. \A h \in V : \A i \in Nat :
          step[<<h, i>>] = IF i \in 1..N THEN WithOperator(h, op, pairs[i][1], pairs[i][2]) ELSE h
    OBVIOUS
  <2>. HIDE DEF step
  <2>. QED  BY <1>1, <2>1, <2>2
<1>4. PICK f : Folds(f, V, g, step, N)
  <2>. HIDE DEF step
  <2>. QED  BY <1>2, <1>3, FoldExists
<1>5. \A s \in SUBSET (1..N) : s # {} => Max(s) \in 1..N /\ s \ {Max(s)} \in SUBSET (1..N)
  BY MaxOfSome
<1>6. Equation(f)
  <2>1. f = [s \in SUBSET (1..N) |-> f[s]] /\ \A s \in SUBSET (1..N) : f[s] \in V
    BY <1>4 DEF Folds
  <2>2. ASSUME NEW s \in SUBSET (1..N)
        PROVE  f[s] = IF s = {} THEN g
                      ELSE WithOperator(f[s \ {Max(s)}], op, pairs[Max(s)][1], pairs[Max(s)][2])
    <3>1. f[s] = IF s = {} THEN g ELSE step[<<f[s \ {Max(s)}], Max(s)>>]
      <4>. HIDE DEF step
      <4>. QED  BY <1>4 DEF Folds
    <3>. HIDE DEF step
    <3>. QED  BY <1>3, <1>5, <2>1, <3>1
  <2>. HIDE DEF step
  <2>. QED  BY <2>1, <2>2
<1>7. Equation(iter)
  <2>. HIDE DEF Equation
  <2>. QED  BY <1>6
<1>8. WithOperators(g, op, pairs) = iter[1..N]
  BY DEF WithOperators, FoldLeft, MapThenFoldSet
<1>. HIDE DEF iter
<1> DEFINE after == [i \in 0..N |-> iter[1..i]]
<1>9. \A i \in 0..N : i \in Nat /\ 1..i \in SUBSET (1..N) /\ after[i] = iter[1..i]
  OBVIOUS
<1>10. after[0] = g
  <2>1. 1..0 = {} /\ 0 \in 0..N
    OBVIOUS
  <2>. HIDE DEF after
  <2>. QED  BY <1>7, <1>9, <2>1
<1>11. ASSUME NEW i \in 1..N PROVE after[i] = WithOperator(after[i - 1], op, pairs[i][1], pairs[i][2])
  <2>1. i \in Nat /\ i # 0 /\ i \in 0..N /\ i - 1 \in 0..N
    OBVIOUS
  <2>2. Max(1..i) = i /\ (1..i) \ {i} = 1..(i - 1) /\ 1..i # {}
    BY <2>1, MaxOfPlaces
  <2>. HIDE DEF after
  <2>3. iter[1..i] = WithOperator(iter[(1..i) \ {Max(1..i)}], op, pairs[Max(1..i)][1], pairs[Max(1..i)][2])
    BY <1>7, <1>9, <2>1, <2>2
  <2>. QED  BY <1>9, <2>1, <2>2, <2>3
<1>12. OperatorSteps(g, op, pairs, after)
  <2>1. N \in 0..N
    OBVIOUS
  <2>2. after[N] = iter[1..N]
    BY <1>9, <2>1
  <2>. HIDE DEF after
  <2>. QED  BY <1>8, <1>10, <1>11, <2>2 DEF OperatorSteps
<1>. QED  BY <1>12

LEMMA OperatorStays ==
  ASSUME NEW g, NEW h, Fine(g), Grown(g, h), SameOperands(g, h), NEW op \in Operations,
         NEW n \in DOMAIN g.nodes, NEW x, NEW y, IsOperator(g, n, op, x, y)
  PROVE  IsOperator(h, n, op, x, y)
<1>1. n \in Operators(g)
  BY DEF Operators, IsOperator
<1>2. h.heard[Operand(n, 1)] = g.heard[Operand(n, 1)] /\ h.heard[Operand(n, 2)] = g.heard[Operand(n, 2)]
  BY <1>1 DEF SameOperands
<1>. QED  BY <1>2 DEF Grown, IsOperator

LEMMA OperatorsAdded ==
  ASSUME NEW g, Fine(g), NEW op \in Operations,
         NEW pairs, DOMAIN pairs = 1..Len(pairs), Len(pairs) \in Nat,
         \A i \in DOMAIN pairs : pairs[i][1] \in OutputsOf(g) /\ pairs[i][2] \in OutputsOf(g)
  PROVE  OperatorsFrom(g, op, pairs, Len(pairs), WithOperators(g, op, pairs))
<1>1. PICK after : OperatorSteps(g, op, pairs, after)
  BY OperatorsSteps
<1> DEFINE S == {i \in Nat : i <= Len(pairs) => OperatorsFrom(g, op, pairs, i, after[i])}
<1>0. Len(g.nodes) \in Nat /\ DOMAIN g.nodes = 1..Len(g.nodes)
  BY GraphParts DEF Fine
<1>2. 0 \in S
  <2>1. after[0] = g /\ Len(g.nodes) = Len(g.nodes) + 0 /\ 1..0 = {}
    BY <1>0, <1>1 DEF OperatorSteps
  <2>2. OperatorsFrom(g, op, pairs, 0, after[0])
    BY <2>1, KeepsSame DEF OperatorsFrom
  <2>. QED  BY <2>2
<1>3. ASSUME NEW k \in Nat, k \in S PROVE k + 1 \in S
  <2> SUFFICES ASSUME k + 1 <= Len(pairs) PROVE OperatorsFrom(g, op, pairs, k + 1, after[k + 1])
    OBVIOUS
  <2>1. k + 1 \in 1..Len(pairs) /\ k + 1 - 1 = k /\ k <= Len(pairs)
    OBVIOUS
  <2> DEFINE f == after[k]
             h == after[k + 1]
             x == pairs[k + 1][1]
             y == pairs[k + 1][2]
             n == Len(f.nodes) + 1
  <2>2. h = WithOperator(f, op, x, y)
    BY <1>1, <2>1 DEF OperatorSteps
  <2>3. OperatorsFrom(g, op, pairs, k, f)
    BY <1>3, <2>1
  <2>4. Fine(f) /\ Grown(g, f) /\ SameOperands(g, f) /\ Keeps(g, f) /\ Len(f.nodes) = Len(g.nodes) + k
    BY <2>3 DEF OperatorsFrom, Keeps
  <2>5. x \in OutputsOf(f) /\ y \in OutputsOf(f)
    BY <2>1, <2>4, OutputsGrow
  <2>6. /\ Keeps(f, h) /\ SameOperands(f, h)
        /\ Len(h.nodes) = n /\ IsOperator(h, n, op, x, y)
    <3>. HIDE DEF f, x, y
    <3>. QED  BY <2>2, <2>4, <2>5, WithOperatorIs
  <2>7. Keeps(g, h) /\ SameOperands(g, h) /\ Grown(f, h)
    <3>. HIDE DEF f, h
    <3>. QED  BY <2>4, <2>6, KeepsTrans, SameOperandsTrans DEF Keeps
  <2>8. Len(h.nodes) = Len(g.nodes) + (k + 1) /\ n = Len(g.nodes) + (k + 1)
    <3>1. Len(f.nodes) = Len(g.nodes) + k /\ Len(h.nodes) = n
      BY <2>4, <2>6
    <3>2. n = Len(g.nodes) + k + 1
      BY <3>1
    <3>3. Len(g.nodes) + k + 1 = Len(g.nodes) + (k + 1)
      <4>1. \A a, b \in Nat : a + b + 1 = a + (b + 1)
        OBVIOUS
      <4>2. Len(g.nodes) \in Nat /\ k \in Nat
        BY <1>0
      <4>. HIDE DEF S
      <4>. QED  BY <4>1, <4>2
    <3>. HIDE DEF f, h, n
    <3>. QED  BY <3>1, <3>2, <3>3
  <2>9. ASSUME NEW i \in 1..(k + 1) PROVE IsOperator(h, Len(g.nodes) + i, op, pairs[i][1], pairs[i][2])
    <3>1. CASE i = k + 1
      <4>. HIDE DEF h, n
      <4>. QED  BY <2>6, <2>8, <3>1
    <3>2. CASE i # k + 1
      <4>1. i \in 1..k
        BY <3>2
      <4>2. IsOperator(f, Len(g.nodes) + i, op, pairs[i][1], pairs[i][2])
        BY <2>3, <4>1 DEF OperatorsFrom
      <4>3. Len(g.nodes) + i \in DOMAIN f.nodes
        <5>1. DOMAIN f.nodes = 1..Len(f.nodes)
          BY <2>4, GraphParts DEF Fine
        <5>. HIDE DEF f
        <5>. QED  BY <1>0, <2>4, <4>1, <5>1
      <4>. HIDE DEF f, h
      <4>. QED  BY <2>4, <2>6, <2>7, <4>2, <4>3, OperatorStays
    <3>. QED  BY <3>1, <3>2
  <2>. HIDE DEF h
  <2>10. OperatorsFrom(g, op, pairs, k + 1, h)
    BY <2>7, <2>8, <2>9 DEF OperatorsFrom
  <2>. QED  BY <2>10 DEF h
<1>. HIDE DEF S
<1>4. Len(pairs) \in S
  BY <1>2, <1>3, SetInduction
<1>5. Len(pairs) <= Len(pairs)
  OBVIOUS
<1>. QED  BY <1>1, <1>4, <1>5 DEF S, OperatorSteps

-----------------------------------------------------------------------------
(***************************************************************************)
(* Lists of channels.                                                      *)
(***************************************************************************)
LEMMA ZipIs ==
  ASSUME NEW S, NEW T, NEW s \in Seq(S), NEW t \in Seq(T)
  PROVE  /\ DOMAIN Zip(s, t) = 1..Len(Zip(s, t)) /\ Len(Zip(s, t)) \in Nat
         /\ Len(Zip(s, t)) = IF Len(s) <= Len(t) THEN Len(s) ELSE Len(t)
         /\ \A i \in DOMAIN Zip(s, t) : /\ Zip(s, t)[i] = <<s[i], t[i]>>
                                        /\ i \in DOMAIN s /\ i \in DOMAIN t
<1> DEFINE l == IF Len(s) <= Len(t) THEN Len(s) ELSE Len(t)
           z == [i \in 1..l |-> <<s[i], t[i]>>]
<1>1. l \in Nat /\ l <= Len(s) /\ l <= Len(t) /\ DOMAIN s = 1..Len(s) /\ DOMAIN t = 1..Len(t)
      /\ Len(s) \in Nat /\ Len(t) \in Nat
  OBVIOUS
<1>2. Zip(s, t) = z
  BY DEF Zip
<1>3. DOMAIN z = 1..l /\ \A i \in 1..l : z[i] = <<s[i], t[i]>>
  OBVIOUS
<1>4. Len(z) = l
  <2>. HIDE DEF l
  <2>. QED  BY <1>1
<1>5. \A i \in 1..l : i \in DOMAIN s /\ i \in DOMAIN t
  <2>. HIDE DEF l
  <2>. QED  BY <1>1
<1>6. l = IF Len(s) <= Len(t) THEN Len(s) ELSE Len(t)
  OBVIOUS
<1>. HIDE DEF z, l
<1>. QED  BY <1>1, <1>2, <1>3, <1>4, <1>5, <1>6

LEMMA HandleParts ==
  ASSUME NEW g, NEW h, Fits(g, h)
  PROVE  /\ h.outs \in Seq(Nat \X Nat) /\ h.ins \in Seq(Nat \X Nat)
         /\ h.typed \in BOOLEAN /\ h.node \in Nat
         /\ DOMAIN h.outs = 1..Len(h.outs) /\ Len(h.outs) \in Nat
         /\ DOMAIN h.ins = 1..Len(h.ins) /\ Len(h.ins) \in Nat
         /\ \A i \in DOMAIN h.outs : h.outs[i] \in OutputsOf(g)
         /\ \A i \in DOMAIN h.ins : h.ins[i] \in UserInputs(g)
<1>1. h.outs \in Seq(Nat \X Nat) /\ h.ins \in Seq(Nat \X Nat) /\ h.typed \in BOOLEAN /\ h.node \in Nat
  BY DEF Fits, HandleType
<1>. QED  BY <1>1 DEF Fits

LEMMA UserInputMayHear ==
  ASSUME NEW g, NEW port \in UserInputs(g)
  PROVE  port \in Nat \X Nat /\ port[1] \notin Operators(g) /\ port[1] \in DOMAIN g.nodes
  BY OperationsAssumption DEF UserInputs, Operators
-----------------------------------------------------------------------------
(***************************************************************************)
(* Calls that add no node and no edge of an input.                         *)
(***************************************************************************)
OldEdge(g, s, edge) == \E j \in DOMAIN g.heard[s] : edge = g.heard[s][j]
FewerEdges(g, h) ==
  /\ DOMAIN h.heard \subseteq DOMAIN g.heard
  /\ \A s \in DOMAIN h.heard : \A i \in DOMAIN h.heard[s] :
       OldEdge(g, s, h.heard[s][i]) \/ (s[1] # "input" /\ h.heard[s][i].port \in OutputsOf(g))
  /\ \A n \in Operators(g) : \A c \in 1..2 : Operand(n, c) \in DOMAIN h.heard

(* What only leaves edges out makes no circle. *)
LEMMA FewerKeeps ==
  ASSUME NEW g, Fine(g), NEW h, h \in GraphType, DOMAIN h.nodes = DOMAIN g.nodes, Grown(g, h), FewerEdges(g, h)
  PROVE  Keeps(g, h)
<1>0. SinksOfNodes(g) /\ NamesOutputs(g) /\ OperatorsHearEarlier(g)
  BY DEF Fine
<1>1. Operators(h) = Operators(g)
  BY OperatorsGrow DEF Operators
<1>2. SinksOfNodes(h)
  BY <1>0 DEF SinksOfNodes, FewerEdges
<1>3. NamesOutputs(h)
  <2>1. ASSUME NEW s \in DOMAIN h.heard, NEW i \in DOMAIN h.heard[s] PROVE h.heard[s][i].port \in OutputsOf(h)
    <3>1. OldEdge(g, s, h.heard[s][i]) => h.heard[s][i].port \in OutputsOf(g)
      BY <1>0, <2>1 DEF OldEdge, NamesOutputs, FewerEdges
    <3>2. h.heard[s][i].port \in OutputsOf(g)
      BY <2>1, <3>1 DEF FewerEdges
    <3>. QED  BY <3>2, OutputsGrow
  <2>. QED  BY <2>1 DEF NamesOutputs
<1>4. OperatorsHearEarlier(h)
  <2>1. ASSUME NEW n \in Operators(h), NEW c \in 1..2
        PROVE  /\ Operand(n, c) \in DOMAIN h.heard
               /\ \A i \in DOMAIN h.heard[Operand(n, c)] : h.heard[Operand(n, c)][i].port[1] < n
    <3>1. Operand(n, c) \in DOMAIN h.heard /\ Operand(n, c)[1] = "input"
      BY <1>1, OperandIs DEF FewerEdges
    <3>2. \A i \in DOMAIN h.heard[Operand(n, c)] : OldEdge(g, Operand(n, c), h.heard[Operand(n, c)][i])
      BY <3>1 DEF FewerEdges
    <3>. QED  BY <1>0, <1>1, <3>1, <3>2 DEF OldEdge, OperatorsHearEarlier
  <2>. QED  BY <2>1 DEF OperatorsHearEarlier
<1>5. \A s \in DOMAIN h.heard : s[1] = "input" => s \in DOMAIN g.heard /\ \A m : Feeds(h, s, m) => Feeds(g, s, m)
  BY DEF FewerEdges, OldEdge, Feeds
<1>6. \A k : SourcesOf(h, k) \subseteq SourcesOf(g, k)
  BY <1>5, SourcesOfAre
<1>7. Acyclic(g) => Acyclic(h)
  BY <1>6, FewerSourcesNoCircle
<1>. QED  BY <1>2, <1>3, <1>4, <1>7 DEF Keeps, Fine

LEMMA OthersAre ==
  ASSUME NEW edges \in Seq(EdgeType), NEW ports
  PROVE  /\ Others(edges, ports) \in Seq(EdgeType)
         /\ \A i \in DOMAIN Others(edges, ports) : \E j \in DOMAIN edges : Others(edges, ports)[i] = edges[j]
<1> DEFINE N == Len(edges)
           V == {l \in Seq(EdgeType) : \A i \in DOMAIN l : \E j \in DOMAIN edges : l[i] = edges[j]}
           Next1(l, i) == IF edges[i].port \in ports THEN l ELSE Append(l, edges[i])
           step == [x \in V \X Nat |-> IF x[2] \in 1..N THEN Next1(x[1], x[2]) ELSE x[1]]
           Equation(f) == f = [s \in SUBSET (1..N) |-> IF s = {} THEN <<>> ELSE Next1(f[s \ {Max(s)}], Max(s))]
           iter == CHOOSE f : Equation(f)
<1>0. DOMAIN edges = 1..N /\ N \in Nat /\ \A i \in 1..N : edges[i] \in EdgeType
  OBVIOUS
<1>1. ASSUME NEW l \in V, NEW i \in 1..N PROVE Next1(l, i) \in V
  <2>1. l \in Seq(EdgeType) /\ edges[i] \in EdgeType
    BY <1>0
  <2>2. /\ Append(l, edges[i]) \in Seq(EdgeType)
        /\ \A k \in DOMAIN Append(l, edges[i]) : Append(l, edges[i])[k] = edges[i]
                                                 \/ (k \in DOMAIN l /\ Append(l, edges[i])[k] = l[k])
    BY <2>1
  <2>3. Append(l, edges[i]) \in V
    BY <1>0, <2>2
  <2>. HIDE DEF V
  <2>. QED  BY <2>3
<1>2. <<>> \in V
  OBVIOUS
<1>. HIDE DEF V, Next1
<1>3. /\ \A l \in V : \A i \in Nat : step[<<l, i>>] \in V
      /\ \A l \in V : \A i \in 1..N : step[<<l, i>>] = Next1(l, i)
  <2>1. \A i \in 1..N : i \in Nat
    OBVIOUS
  <2>2. \A l \in V : \A i \in Nat : step[<<l, i>>] = IF i \in 1..N THEN Next1(l, i) ELSE l
    OBVIOUS
  <2>. HIDE DEF step
  <2>. QED  BY <1>1, <2>1, <2>2
<1>4. PICK f : Folds(f, V, <<>>, step, N)
  <2>. HIDE DEF step
  <2>. QED  BY <1>0, <1>2, <1>3, FoldExists
<1>5. \A s \in SUBSET (1..N) : s # {} => Max(s) \in 1..N /\ s \ {Max(s)} \in SUBSET (1..N)
  BY <1>0, MaxOfSome
<1>6. Equation(f) /\ f \in [SUBSET (1..N) -> V]
  <2>1. f = [s \in SUBSET (1..N) |-> f[s]] /\ \A s \in SUBSET (1..N) : f[s] \in V
    BY <1>4 DEF Folds
  <2>2. ASSUME NEW s \in SUBSET (1..N)
        PROVE  f[s] = IF s = {} THEN <<>> ELSE Next1(f[s \ {Max(s)}], Max(s))
    <3>1. f[s] = IF s = {} THEN <<>> ELSE step[<<f[s \ {Max(s)}], Max(s)>>]
      <4>. HIDE DEF step
      <4>. QED  BY <1>4 DEF Folds
    <3>. HIDE DEF step
    <3>. QED  BY <1>3, <1>5, <2>1, <3>1
  <2>. HIDE DEF step
  <2>. QED  BY <1>4, <2>1, <2>2 DEF Folds
<1>7. Equation(iter)
  <2>. HIDE DEF Equation
  <2>. QED  BY <1>6
<1>8. Others(edges, ports) = iter[1..N]
  BY <1>0 DEF Others, FoldLeft, MapThenFoldSet, Next1
<1>. HIDE DEF iter
<1> DEFINE S == {n \in Nat : n <= N => iter[1..n] \in V}
<1>9. 0 \in S
  <2>1. 1..0 = {} /\ {} \in SUBSET (1..N)
    OBVIOUS
  <2>. QED  BY <1>2, <1>7, <2>1
<1>10. ASSUME NEW n \in Nat, n \in S PROVE n + 1 \in S
  <2> SUFFICES ASSUME n + 1 <= N PROVE iter[1..(n + 1)] \in V
    OBVIOUS
  <2>1. n + 1 \in Nat /\ n + 1 # 0 /\ n + 1 - 1 = n /\ n + 1 \in 1..N /\ iter[1..n] \in V
        /\ 1..(n + 1) \in SUBSET (1..N)
    BY <1>0, <1>10
  <2>2. Max(1..(n + 1)) = n + 1 /\ (1..(n + 1)) \ {n + 1} = 1..n /\ 1..(n + 1) # {}
    BY <2>1, MaxOfPlaces
  <2>3. iter[1..(n + 1)] = Next1(iter[1..n], n + 1)
    BY <1>7, <2>1, <2>2
  <2>. QED  BY <1>1, <2>1, <2>3
<1>11. N \in S
  <2>. HIDE DEF S
  <2>. QED  BY <1>0, <1>9, <1>10, SetInduction
<1>12. iter[1..N] \in V
  BY <1>0, <1>11
<1>. QED  BY <1>8, <1>12 DEF V

LEMMA WithoutIs ==
  ASSUME NEW g, g \in GraphType, NEW sinks, NEW ports
  PROVE  /\ Without(g, sinks, ports) \in GraphType
         /\ Without(g, sinks, ports).nodes = g.nodes
         /\ DOMAIN Without(g, sinks, ports).heard = DOMAIN g.heard
         /\ \A s \in DOMAIN g.heard : \A i \in DOMAIN Without(g, sinks, ports).heard[s] :
              OldEdge(g, s, Without(g, sinks, ports).heard[s][i])
<1> DEFINE heard == [s \in DOMAIN g.heard |-> IF s \in sinks THEN Others(g.heard[s], ports) ELSE g.heard[s]]
<1>1. /\ g = [nodes |-> g.nodes, required |-> g.required, heard |-> g.heard]
      /\ g.nodes \in Seq(NodeType) /\ DOMAIN g.heard \in SUBSET SinkType
      /\ g.heard \in [DOMAIN g.heard -> Seq(EdgeType)]
  BY GraphParts
<1>2. Without(g, sinks, ports) = [nodes |-> g.nodes, required |-> TRUE, heard |-> heard]
  <2>1. Without(g, sinks, ports) = [g EXCEPT !.required = TRUE, !.heard = heard]
    BY DEF Without
  <2>. HIDE DEF heard
  <2>. QED  BY <1>1, <2>1
<1>3. DOMAIN heard = DOMAIN g.heard
      /\ \A s \in DOMAIN g.heard : heard[s] = IF s \in sinks THEN Others(g.heard[s], ports) ELSE g.heard[s]
  OBVIOUS
<1>4. heard = [s \in DOMAIN g.heard |-> heard[s]]
  OBVIOUS
<1>. HIDE DEF heard
<1>5. ASSUME NEW s \in DOMAIN g.heard
      PROVE  heard[s] \in Seq(EdgeType) /\ \A i \in DOMAIN heard[s] : OldEdge(g, s, heard[s][i])
  <2>1. g.heard[s] \in Seq(EdgeType)
    BY <1>1
  <2>2. CASE s \in sinks
    <3>1. heard[s] = Others(g.heard[s], ports)
      BY <1>3, <2>2
    <3>. QED  BY <2>1, <3>1, OthersAre DEF OldEdge
  <2>3. CASE s \notin sinks
    <3>1. heard[s] = g.heard[s]
      BY <1>3, <2>3
    <3>. QED  BY <2>1, <3>1 DEF OldEdge
  <2>. QED  BY <2>2, <2>3
<1>6. heard \in [DOMAIN g.heard -> Seq(EdgeType)]
  BY <1>4, <1>5
<1>7. Without(g, sinks, ports) \in GraphType
  BY <1>1, <1>2, <1>6, GraphMade
<1>. QED  BY <1>2, <1>3, <1>5, <1>7

(* One list is set: to nothing, or that of a parameter. *)
LEMMA HeardSet ==
  ASSUME NEW g, Fine(g), NEW s, NEW list \in Seq(EdgeType), NEW required \in BOOLEAN,
         \/ list = <<>>
         \/ s[1] # "input" /\ \A i \in DOMAIN list : list[i].port \in OutputsOf(g)
  PROVE  LET h == [nodes |-> g.nodes, required |-> required, heard |-> [g.heard EXCEPT ![s] = list]]
         IN  /\ Keeps(g, h)
             /\ (\A n \in Operators(g) : \A c \in 1..2 : Operand(n, c) # s) => SameOperands(g, h)
<1> DEFINE heard == [g.heard EXCEPT ![s] = list]
           h == [nodes |-> g.nodes, required |-> required, heard |-> heard]
<1>0. g \in GraphType /\ OperatorsHearEarlier(g)
  BY DEF Fine
<1>1. /\ g.nodes \in Seq(NodeType) /\ DOMAIN g.heard \in SUBSET SinkType
      /\ g.heard \in [DOMAIN g.heard -> Seq(EdgeType)]
  BY <1>0, GraphParts
<1>2. /\ heard \in [DOMAIN g.heard -> Seq(EdgeType)]
      /\ \A t \in DOMAIN g.heard : heard[t] = IF t = s THEN list ELSE g.heard[t]
  BY <1>1
<1>. HIDE DEF heard
<1>3. h \in GraphType /\ h.nodes = g.nodes /\ h.heard = heard /\ DOMAIN h.heard = DOMAIN g.heard
  BY <1>1, <1>2, GraphMade
<1>. HIDE DEF h
<1>4. Grown(g, h)
  BY <1>3 DEF Grown
<1>5. FewerEdges(g, h)
  <2>1. DOMAIN <<>> = {}
    OBVIOUS
  <2>. QED  BY <1>0, <1>2, <1>3, <2>1 DEF FewerEdges, OldEdge, OperatorsHearEarlier
<1>6. Keeps(g, h)
  BY <1>3, <1>4, <1>5, FewerKeeps
<1>7. (\A n \in Operators(g) : \A c \in 1..2 : Operand(n, c) # s) => SameOperands(g, h)
  BY <1>0, <1>2, <1>3 DEF SameOperands, OperatorsHearEarlier
<1>. QED  BY <1>6, <1>7 DEF h, heard

LEMMA WithoutKeeps ==
  ASSUME NEW g, Fine(g), NEW sinks, NEW ports
  PROVE  Keeps(g, Without(g, sinks, ports))
<1> DEFINE h == Without(g, sinks, ports)
<1>0. g \in GraphType /\ OperatorsHearEarlier(g)
  BY DEF Fine
<1>1. /\ h \in GraphType /\ h.nodes = g.nodes /\ DOMAIN h.heard = DOMAIN g.heard
      /\ \A s \in DOMAIN g.heard : \A i \in DOMAIN h.heard[s] : OldEdge(g, s, h.heard[s][i])
  BY <1>0, WithoutIs
<1>. HIDE DEF h
<1>2. Grown(g, h) /\ FewerEdges(g, h)
  BY <1>0, <1>1 DEF Grown, FewerEdges, OperatorsHearEarlier
<1>3. Keeps(g, h)
  BY <1>1, <1>2, FewerKeeps
<1>. QED  BY <1>3 DEF h

(* Nodes change their state, and inputs that are no operator's go.         *)
LEMMA NodesChanged ==
  ASSUME NEW g, Fine(g), NEW nodes, nodes = [m \in DOMAIN g.nodes |-> nodes[m]],
         \A m \in DOMAIN g.nodes : /\ nodes[m] \in NodeType
                                   /\ nodes[m].kind = g.nodes[m].kind
                                   /\ nodes[m].inputs = g.nodes[m].inputs
                                   /\ nodes[m].outputs = g.nodes[m].outputs,
         NEW required \in BOOLEAN, NEW sinks \in SUBSET DOMAIN g.heard,
         \A n \in Operators(g) : \A c \in 1..2 : Operand(n, c) \in sinks
  PROVE  LET h == [nodes |-> nodes, required |-> required, heard |-> [s \in sinks |-> g.heard[s]]]
         IN  Keeps(g, h) /\ SameOperands(g, h)
<1> DEFINE heard == [s \in sinks |-> g.heard[s]]
           h == [nodes |-> nodes, required |-> required, heard |-> heard]
<1>0. g \in GraphType /\ OperatorsHearEarlier(g)
  BY DEF Fine
<1>1. /\ DOMAIN g.heard \in SUBSET SinkType /\ \A s \in DOMAIN g.heard : g.heard[s] \in Seq(EdgeType)
      /\ DOMAIN g.nodes = 1..Len(g.nodes) /\ Len(g.nodes) \in Nat
  BY <1>0, GraphParts, EdgeParts
<1>2. heard \in [sinks -> Seq(EdgeType)] /\ \A s \in sinks : heard[s] = g.heard[s]
  BY <1>1
<1>3. nodes \in Seq(NodeType) /\ DOMAIN nodes = DOMAIN g.nodes
  <2>1. nodes \in [1..Len(g.nodes) -> NodeType]
    BY <1>1
  <2>. QED  BY <1>1, <2>1
<1>. HIDE DEF heard
<1>4. sinks \in SUBSET SinkType
  BY <1>1
<1>5. h \in GraphType /\ h.nodes = nodes /\ h.heard = heard /\ DOMAIN h.heard = sinks
  BY <1>2, <1>3, <1>4, GraphMade
<1>. HIDE DEF h
<1>6. Grown(g, h) /\ DOMAIN h.nodes = DOMAIN g.nodes
  BY <1>3, <1>5 DEF Grown
<1>7. FewerEdges(g, h)
  BY <1>2, <1>5 DEF FewerEdges, OldEdge
<1>8. Keeps(g, h)
  BY <1>5, <1>6, <1>7, FewerKeeps
<1>9. SameOperands(g, h)
  BY <1>2, <1>5 DEF SameOperands
<1>. QED  BY <1>8, <1>9 DEF h, heard
-----------------------------------------------------------------------------
(***************************************************************************)
(* Every call keeps the invariant.                                         *)
(***************************************************************************)
Phases == {"edit", "unwinding", "aborted", "panicked", "ended"}
AddsHandle == \E h : Fits(graph', h) /\ handles' = Append(handles, h)
Kept ==
  /\ Keeps(graph, graph')
  /\ handles' = handles \/ handles' = <<>> \/ AddsHandle
  /\ phase' \in Phases /\ half' \in BOOLEAN /\ left' \in Nat
Alike == SameOperands(graph, graph')

LEMMA KeptKeepsInv ==
  ASSUME HandlesInv, Kept
  PROVE  HandlesInv'
<1>1. Fine(graph') /\ Grown(graph, graph')
  BY DEF Kept, Keeps
<1>2. handles \in Seq(HandleType) /\ DOMAIN handles = 1..Len(handles) /\ Len(handles) \in Nat
      /\ \A a \in DOMAIN handles : Fits(graph, handles[a])
  BY DEF HandlesInv
<1>3. \A a \in DOMAIN handles : Fits(graph', handles[a])
  BY <1>1, <1>2, FitsGrow
<1>4. handles' \in Seq(HandleType) /\ \A a \in DOMAIN handles' : Fits(graph', handles'[a])
  <2>1. CASE handles' = handles
    BY <1>2, <1>3, <2>1
  <2>2. CASE handles' = <<>>
    BY <2>2
  <2>3. CASE AddsHandle
    <3>1. PICK h : Fits(graph', h) /\ handles' = Append(handles, h)
      BY <2>3 DEF AddsHandle
    <3>2. h \in HandleType
      BY <3>1 DEF Fits
    <3>3. /\ Append(handles, h) \in Seq(HandleType)
          /\ \A a \in DOMAIN Append(handles, h) :
               Append(handles, h)[a] = h \/ (a \in DOMAIN handles /\ Append(handles, h)[a] = handles[a])
      BY <1>2, <3>2
    <3>. QED  BY <1>3, <3>1, <3>3
  <2>. QED  BY <2>1, <2>2, <2>3 DEF Kept
<1>. QED  BY <1>1, <1>4 DEF HandlesInv, Kept, Phases

LEMMA CallIs ==
  ASSUME HandlesInv, NEW name, Call(name)
  PROVE  phase = "edit" /\ left' \in Nat
<1>1. left \in Nat /\ left > 0 /\ left' = left - 1 /\ phase = "edit"
  BY DEF HandlesInv, Call
<1>. QED  BY <1>1

LEMMA PanicKept ==
  ASSUME HandlesInv, NEW name, Call(name), NEW locked \in BOOLEAN, NEW g, Keeps(graph, g), Panic(locked, g)
  PROVE  Kept
<1>1. left' \in Nat
  BY CallIs
<1>. QED  BY <1>1 DEF Panic, AfterPanic, Kept, Phases

(* What a call that returns a handle leaves. *)
LEMMA HandleKept ==
  ASSUME HandlesInv, NEW name, Call(name), Keeps(graph, graph'), NEW h, Fits(graph', h), NewHandle(h)
  PROVE  Kept
<1>1. left' \in Nat
  BY CallIs
<1>. QED  BY <1>1 DEF NewHandle, Kept, AddsHandle, HandlesInv, Phases

LEMMA PlainKept ==
  ASSUME HandlesInv, NEW name, Call(name), Keeps(graph, graph'), UNCHANGED <<handles, phase, half>>
  PROVE  Kept
<1>1. left' \in Nat
  BY CallIs
<1>. QED  BY <1>1 DEF Kept, HandlesInv, Phases

LEMMA SameGraph ==
  ASSUME HandlesInv
  PROVE  Keeps(graph, graph) /\ SameOperands(graph, graph) /\ Fine(graph) /\ graph \in GraphType
  BY KeepsSame DEF HandlesInv, Fine

LEMMA ChannelsIs ==
  ASSUME NEW n \in Nat, NEW count \in Nat
  PROVE  /\ Channels(n, count) \in Seq(Nat \X Nat)
         /\ Len(Channels(n, count)) = count /\ DOMAIN Channels(n, count) = 1..count
         /\ \A i \in 1..count : Channels(n, count)[i] = <<n, i>>
  BY DEF Channels

LEMMA NodeHandleFits ==
  ASSUME NEW g, g \in GraphType, NEW n \in DOMAIN g.nodes, g.nodes[n].kind = "ugen", NEW typed \in BOOLEAN,
         NEW node, node.inputs = g.nodes[n].inputs, node.outputs = g.nodes[n].outputs
  PROVE  Fits(g, NodeHandle(typed, n, node))
<1>1. n \in Nat /\ n # 0 /\ g.nodes[n].inputs \in Nat /\ g.nodes[n].outputs \in Nat
  BY GraphParts DEF NodeType
<1> DEFINE ins == Channels(n, node.inputs)
           outs == Channels(n, node.outputs)
           h == [typed |-> typed, node |-> n, ins |-> ins, outs |-> outs]
<1>2. /\ ins \in Seq(Nat \X Nat) /\ \A i \in DOMAIN ins : i \in 1..g.nodes[n].inputs /\ i \in Nat /\ ins[i] = <<n, i>>
      /\ outs \in Seq(Nat \X Nat) /\ \A i \in DOMAIN outs : i \in 1..g.nodes[n].outputs /\ i \in Nat /\ outs[i] = <<n, i>>
  <2>1. \A count \in Nat : \A i \in 1..count : i \in Nat
    OBVIOUS
  <2>2. \A count \in Nat : /\ Channels(n, count) \in Seq(Nat \X Nat)
                           /\ \A i \in DOMAIN Channels(n, count) : i \in 1..count /\ i \in Nat /\ Channels(n, count)[i] = <<n, i>>
    <3> SUFFICES ASSUME NEW count \in Nat
                 PROVE  /\ Channels(n, count) \in Seq(Nat \X Nat)
                        /\ \A i \in DOMAIN Channels(n, count) :
                             i \in 1..count /\ i \in Nat /\ Channels(n, count)[i] = <<n, i>>
      OBVIOUS
    <3>1. /\ Channels(n, count) \in Seq(Nat \X Nat) /\ DOMAIN Channels(n, count) = 1..count
          /\ \A i \in 1..count : Channels(n, count)[i] = <<n, i>>
      BY <1>1, ChannelsIs
    <3>. QED  BY <2>1, <3>1
  <2>. QED  BY <1>1, <2>2
<1>. HIDE DEF ins, outs
<1>3. h \in HandleType /\ h.ins = ins /\ h.outs = outs /\ h.node = n
  BY <1>1, <1>2 DEF HandleType
<1>. HIDE DEF h
<1>4. /\ \A i \in DOMAIN outs : outs[i] \in OutputsOf(g)
      /\ \A i \in DOMAIN ins : ins[i] \in UserInputs(g)
  BY <1>1, <1>2 DEF OutputsOf, UserInputs
<1>5. Fits(g, h)
  BY <1>3, <1>4 DEF Fits
<1>. QED  BY <1>5 DEF NodeHandle, h, ins, outs

LEMMA ChannelsHandleFits ==
  ASSUME NEW g, NEW typed \in BOOLEAN, NEW ins \in Seq(Nat \X Nat), NEW outs \in Seq(Nat \X Nat),
         \A i \in DOMAIN outs : outs[i] \in OutputsOf(g),
         \A i \in DOMAIN ins : ins[i] \in UserInputs(g)
  PROVE  Fits(g, ChannelsHandle(typed, ins, outs))
<1> DEFINE h == [typed |-> typed, node |-> 0, ins |-> ins, outs |-> outs]
<1>1. h \in HandleType /\ h.ins = ins /\ h.outs = outs /\ h.node = 0
  BY DEF HandleType
<1>. HIDE DEF h
<1>2. Fits(g, h)
  BY <1>1 DEF Fits
<1>. QED  BY <1>2 DEF ChannelsHandle, h

LEMMA HandleFits ==
  ASSUME HandlesInv, NEW a \in DOMAIN handles
  PROVE  Fits(graph, handles[a])
  BY DEF HandlesInv

-----------------------------------------------------------------------------
(* Pushing, and finding a node again. *)
LEMMA PushKeeps ==
  ASSUME HandlesInv, NEW node \in NodeType, node.kind = "ugen", Push(node)
  PROVE  Kept /\ Alike
<1>1. Fine(graph) /\ graph' = Pushed(graph, node)
  BY SameGraph DEF Push
<1>2. Keeps(graph, graph') /\ SameOperands(graph, graph')
  <2>1. node.kind \notin Operations
    BY OperationsAssumption
  <2>. QED  BY <1>1, <2>1, PushedKeeps
<1>3. /\ graph' \in GraphType /\ Len(graph'.nodes) = Len(graph.nodes) + 1
      /\ Len(graph.nodes) + 1 \in DOMAIN graph'.nodes
      /\ graph'.nodes[Len(graph.nodes) + 1] = node
  BY <1>1, PushedIs
<1>4. Fits(graph', NodeHandle(TRUE, Len(graph'.nodes), node))
  BY <1>3, NodeHandleFits
<1>. QED  BY <1>2, <1>4, HandleKept DEF Push, Alike

LEMMA PushedUGen ==
  ASSUME HandlesInv, NEW shape \in Nat \X Nat \X Nat, Push(UGen(shape)) \/ PushWithDoneAction(UGen(shape))
  PROVE  Kept /\ Alike
<1> DEFINE node == UGen(shape)
<1>1. node \in NodeType /\ node.kind = "ugen" /\ node.parameters \in Nat
  BY UGenIs
<1>. HIDE DEF node
<1>2. node.parameters + 1 \in Nat
  BY <1>1
<1>3. [node EXCEPT !.parameters = node.parameters + 1] \in NodeType
      /\ [node EXCEPT !.parameters = node.parameters + 1].kind = "ugen"
  <2>1. "live" \in {"live", "freed", "sent", "removed"} /\ "ugen" \in Kinds
    BY DEF Kinds
  <2>. QED  BY <1>1, <1>2, <2>1, NodeChanged
<1>4. CASE Push(node)
  BY <1>1, <1>4, PushKeeps
<1>5. CASE PushWithDoneAction(node)
  <2>1. Push([node EXCEPT !.parameters = node.parameters + 1])
    BY <1>5 DEF PushWithDoneAction
  <2>. QED  BY <1>3, <2>1, PushKeeps
<1>. QED  BY <1>4, <1>5 DEF node

LEMMA FoundKeeps ==
  ASSUME HandlesInv, NEW n \in DOMAIN graph.nodes, HandleOf(n) \/ HandleFromName(n)
  PROVE  Kept /\ Alike
<1>1. Found(n) /\ graph' = graph /\ NewHandle(NodeHandle(FALSE, n, graph.nodes[n])) /\ \E name : Call(name)
  BY DEF HandleOf, HandleFromName
<1>2. Fits(graph, NodeHandle(FALSE, n, graph.nodes[n]))
  <2>1. graph.nodes[n].kind = "ugen" /\ graph \in GraphType
    BY <1>1, SameGraph DEF Found
  <2>. QED  BY <2>1, NodeHandleFits
<1>. QED  BY <1>1, <1>2, SameGraph, HandleKept DEF Alike

LEMMA NodeNamed ==
  ASSUME NEW node \in NodeType
  PROVE  /\ [node EXCEPT !.named = TRUE] \in NodeType
         /\ [node EXCEPT !.named = TRUE].kind = node.kind
         /\ [node EXCEPT !.named = TRUE].inputs = node.inputs
         /\ [node EXCEPT !.named = TRUE].outputs = node.outputs
  BY DEF NodeType

LEMMA NameKeeps ==
  ASSUME HandlesInv, NEW a \in DOMAIN handles, Name(a)
  PROVE  Kept /\ Alike
<1> DEFINE k == handles[a].node
           nodes == [graph.nodes EXCEPT ![k] = [@ EXCEPT !.named = TRUE]]
<1>0. Fine(graph) /\ graph \in GraphType /\ OperatorsHearEarlier(graph)
  BY SameGraph DEF Fine
<1>1. /\ graph = [nodes |-> graph.nodes, required |-> graph.required, heard |-> graph.heard]
      /\ \A m \in DOMAIN graph.nodes : graph.nodes[m] \in NodeType
      /\ graph.required \in BOOLEAN /\ graph.heard = [s \in DOMAIN graph.heard |-> graph.heard[s]]
  BY <1>0, GraphParts
<1>2. \A m \in DOMAIN graph.nodes :
        /\ nodes[m] \in NodeType /\ nodes[m].kind = graph.nodes[m].kind
        /\ nodes[m].inputs = graph.nodes[m].inputs /\ nodes[m].outputs = graph.nodes[m].outputs
  <2>1. ASSUME NEW m \in DOMAIN graph.nodes
        PROVE  nodes[m] = graph.nodes[m] \/ nodes[m] = [graph.nodes[m] EXCEPT !.named = TRUE]
    OBVIOUS
  <2>. HIDE DEF nodes
  <2>. QED  BY <1>1, <2>1, NodeNamed
<1>3. nodes = [m \in DOMAIN graph.nodes |-> nodes[m]]
  OBVIOUS
<1>4. graph' = [nodes |-> nodes, required |-> graph.required, heard |-> graph.heard]
  <2>1. graph' = [graph EXCEPT !.nodes = nodes]
    BY DEF Name
  <2>. HIDE DEF nodes
  <2>. QED  BY <1>1, <2>1
<1>. HIDE DEF nodes
<1>5. Keeps(graph, graph') /\ SameOperands(graph, graph')
  <2>1. DOMAIN graph.heard \in SUBSET DOMAIN graph.heard
        /\ \A n \in Operators(graph) : \A c \in 1..2 : Operand(n, c) \in DOMAIN graph.heard
    BY <1>0 DEF OperatorsHearEarlier
  <2> DEFINE h == [nodes |-> nodes, required |-> graph.required,
                   heard |-> [s \in DOMAIN graph.heard |-> graph.heard[s]]]
  <2>2. Keeps(graph, h) /\ SameOperands(graph, h)
    BY <1>0, <1>1, <1>2, <1>3, <2>1, NodesChanged
  <2>3. graph' = h
    BY <1>1, <1>4
  <2>. HIDE DEF h
  <2>. QED  BY <2>2, <2>3
<1>. QED  BY <1>5, PlainKept DEF Name, Alike
-----------------------------------------------------------------------------
(* Handles of channels. *)
LEMMA FromInputsKeeps ==
  ASSUME HandlesInv, NEW channels \in Seq(Nat \ {0}), FromInputs(channels)
  PROVE  Kept /\ Alike
<1> DEFINE outs == [i \in DOMAIN channels |-> <<0, channels[i]>>]
<1>1. /\ DOMAIN channels = 1..Len(channels) /\ Len(channels) \in Nat
      /\ \A i \in DOMAIN channels : channels[i] \in 1..GraphInputs /\ channels[i] \in Nat
  BY DEF FromInputs, ToSet
<1>2. outs \in Seq(Nat \X Nat) /\ \A i \in DOMAIN outs : outs[i] \in OutputsOf(graph)
  <2>1. \A i \in DOMAIN channels : <<0, channels[i]>> \in Nat \X Nat /\ <<0, channels[i]>> \in OutputsOf(graph)
    BY <1>1 DEF OutputsOf
  <2>. QED  BY <1>1, <2>1
<1>3. FromInputs(channels) => Call("inputs") /\ NewHandle(ChannelsHandle(TRUE, <<>>, outs)) /\ graph' = graph
  BY DEF FromInputs
<1>. HIDE DEF outs
<1>4. <<>> \in Seq(Nat \X Nat) /\ DOMAIN <<>> = {}
  OBVIOUS
<1>5. Fits(graph, ChannelsHandle(TRUE, <<>>, outs))
  BY <1>2, <1>4, ChannelsHandleFits
<1>. QED  BY <1>3, <1>5, SameGraph, HandleKept DEF Alike

LEMMA OutKeeps ==
  ASSUME HandlesInv, NEW a \in DOMAIN handles, NEW channels \in Seq(Nat \ {0}), Out(a, channels)
  PROVE  Kept /\ Alike
<1> DEFINE h == handles[a]
           outs == Selected(h.outs, channels)
<1>1. h.outs \in Seq(Nat \X Nat) /\ h.typed \in BOOLEAN /\ \A i \in DOMAIN h.outs : h.outs[i] \in OutputsOf(graph)
  BY HandleFits, HandleParts
<1>2. CASE ToSet(channels) \subseteq DOMAIN h.outs
  <2>1. DOMAIN channels = 1..Len(channels) /\ \A i \in DOMAIN channels : channels[i] \in DOMAIN h.outs
    BY <1>2 DEF ToSet
  <2>2. Call("out") /\ NewHandle(ChannelsHandle(h.typed, <<>>, outs)) /\ graph' = graph
    BY <1>2 DEF Out
  <2>3. outs = [i \in DOMAIN channels |-> h.outs[channels[i]]]
    BY DEF Selected
  <2>. HIDE DEF outs, h
  <2>4. outs \in Seq(Nat \X Nat) /\ \A i \in DOMAIN outs : outs[i] \in OutputsOf(graph)
    <3>1. \A i \in DOMAIN channels : h.outs[channels[i]] \in Nat \X Nat
      BY <1>1, <2>1, OutputTyped
    <3>. QED  BY <1>1, <2>1, <2>3, <3>1
  <2>5. <<>> \in Seq(Nat \X Nat) /\ DOMAIN <<>> = {}
    OBVIOUS
  <2>6. Fits(graph, ChannelsHandle(h.typed, <<>>, outs))
    BY <1>1, <2>4, <2>5, ChannelsHandleFits
  <2>. QED  BY <2>2, <2>6, SameGraph, HandleKept DEF Alike
<1>3. CASE ~ (ToSet(channels) \subseteq DOMAIN h.outs)
  <2>1. Call("out") /\ Panic(FALSE, graph)
    BY <1>3 DEF Out
  <2>2. graph' = graph
    BY <2>1 DEF Panic
  <2>. QED  BY <2>1, <2>2, SameGraph, PanicKept DEF Alike
<1>. QED  BY <1>2, <1>3

LEMMA JoinedLists ==
  ASSUME NEW S, NEW P, P \subseteq S, NEW s \in Seq(S), NEW t \in Seq(S),
         \A i \in DOMAIN s : s[i] \in P, \A i \in DOMAIN t : t[i] \in P
  PROVE  s \o t \in Seq(S) /\ \A i \in DOMAIN (s \o t) : (s \o t)[i] \in P
<1>1. s \o t \in Seq(S) /\ DOMAIN (s \o t) = 1..(Len(s) + Len(t))
  OBVIOUS
<1>2. ASSUME NEW i \in DOMAIN (s \o t) PROVE (s \o t)[i] \in P
  <2>1. CASE i <= Len(s)
    <3>1. (s \o t)[i] = s[i] /\ i \in DOMAIN s
      BY <1>1, <2>1
    <3>. QED  BY <3>1
  <2>2. CASE i > Len(s)
    <3>1. (s \o t)[i] = t[i - Len(s)] /\ i - Len(s) \in DOMAIN t
      BY <1>1, <2>2
    <3>. QED  BY <3>1
  <2>. QED  BY <1>1, <2>1, <2>2
<1>. QED  BY <1>1, <1>2

LEMMA StackKeeps ==
  ASSUME HandlesInv, NEW a \in DOMAIN handles, NEW b \in DOMAIN handles, StaticStack(a, b) \/ DynamicStack(a, b)
  PROVE  Kept /\ Alike
<1> DEFINE ins == handles[a].ins \o handles[b].ins
           outs == handles[a].outs \o handles[b].outs
<1>1. ins \in Seq(Nat \X Nat) /\ outs \in Seq(Nat \X Nat)
      /\ (\A i \in DOMAIN ins : ins[i] \in UserInputs(graph)) /\ (\A i \in DOMAIN outs : outs[i] \in OutputsOf(graph))
  <2>1. UserInputs(graph) \subseteq Nat \X Nat /\ OutputsOf(graph) \subseteq Nat \X Nat
    BY DEF UserInputs, OutputsOf
  <2>2. \A c \in DOMAIN handles : /\ handles[c].outs \in Seq(Nat \X Nat) /\ handles[c].ins \in Seq(Nat \X Nat)
                                  /\ \A i \in DOMAIN handles[c].outs : handles[c].outs[i] \in OutputsOf(graph)
                                  /\ \A i \in DOMAIN handles[c].ins : handles[c].ins[i] \in UserInputs(graph)
    BY HandleFits, HandleParts
  <2>3. ins \in Seq(Nat \X Nat) /\ (\A i \in DOMAIN ins : ins[i] \in UserInputs(graph))
    BY <2>1, <2>2, JoinedLists
  <2>4. outs \in Seq(Nat \X Nat) /\ (\A i \in DOMAIN outs : outs[i] \in OutputsOf(graph))
    BY <2>1, <2>2, JoinedLists
  <2>. QED  BY <2>3, <2>4
<1>2. \E typed \in BOOLEAN : Call("stack") /\ NewHandle(ChannelsHandle(typed, ins, outs)) /\ graph' = graph
  BY DEF StaticStack, DynamicStack, StackedIns
<1>. HIDE DEF ins, outs
<1>3. \A typed \in BOOLEAN : Fits(graph, ChannelsHandle(typed, ins, outs))
  BY <1>1, ChannelsHandleFits
<1>. QED  BY <1>2, <1>3, SameGraph, HandleKept DEF Alike

LEMMA DynamicKeeps ==
  ASSUME HandlesInv, NEW a \in DOMAIN handles, Dynamic(a) \/ ToChannelsHandle(a)
  PROVE  Kept /\ Alike
<1>1. Fits(graph, handles[a])
  BY HandleFits
<1>2. Fits(graph, [handles[a] EXCEPT !.typed = FALSE]) /\ Fits(graph, [handles[a] EXCEPT !.node = 0])
  <2> SUFFICES ASSUME NEW h, Fits(graph, h)
               PROVE  Fits(graph, [h EXCEPT !.typed = FALSE]) /\ Fits(graph, [h EXCEPT !.node = 0])
    BY <1>1
  <2>1. h \in HandleType
    BY DEF Fits
  <2>2. /\ [h EXCEPT !.typed = FALSE] \in HandleType /\ [h EXCEPT !.typed = FALSE].ins = h.ins
        /\ [h EXCEPT !.typed = FALSE].outs = h.outs /\ [h EXCEPT !.typed = FALSE].node = h.node
        /\ [h EXCEPT !.node = 0] \in HandleType /\ [h EXCEPT !.node = 0].ins = h.ins
        /\ [h EXCEPT !.node = 0].outs = h.outs /\ [h EXCEPT !.node = 0].node = 0
    BY <2>1 DEF HandleType
  <2>. QED  BY <2>2 DEF Fits
<1>3. /\ Call("dynamic") /\ graph' = graph
      /\ NewHandle([handles[a] EXCEPT !.typed = FALSE]) \/ NewHandle([handles[a] EXCEPT !.node = 0])
  BY DEF Dynamic, ToChannelsHandle
<1>. QED  BY <1>2, <1>3, SameGraph, HandleKept DEF Alike

-----------------------------------------------------------------------------
(* Connecting. *)
LEMMA ConnectAllKeeps ==
  ASSUME HandlesInv, NEW name, Call(name),
         NEW pairs, DOMAIN pairs = 1..Len(pairs), Len(pairs) \in Nat,
         \A i \in DOMAIN pairs : MayConnect(graph, pairs[i]) /\ pairs[i][2][1] \notin Operators(graph),
         NEW how \in HowType, ConnectAll(pairs, how)
  PROVE  Kept /\ Alike
<1> DEFINE result == ConnectPairs(graph, pairs, how)
<1>1. Connected(graph, result.graph) /\ SameOperands(graph, result.graph)
  BY SameGraph, PairsKeep
<1>2. result.outcome = "panic" => Panic(TRUE, result.graph)
  BY DEF ConnectAll
<1>3. result.outcome # "panic" => graph' = result.graph /\ UNCHANGED <<handles, phase, half>>
  BY DEF ConnectAll
<1>. HIDE DEF result
<1>4. graph' = result.graph
  BY <1>2, <1>3 DEF Panic
<1>5. Keeps(graph, graph') /\ Alike
  BY <1>1, <1>4 DEF Connected, Alike
<1>6. CASE result.outcome = "panic"
  BY <1>2, <1>4, <1>5, <1>6, PanicKept
<1>7. CASE result.outcome # "panic"
  BY <1>3, <1>5, <1>7, PlainKept
<1>. QED  BY <1>5, <1>6, <1>7

LEMMA ToKeeps ==
  ASSUME HandlesInv, NEW a \in DOMAIN handles, NEW b \in DOMAIN handles
  PROVE  LET pairs == Zip(handles[a].outs, handles[b].ins)
         IN  /\ DOMAIN pairs = 1..Len(pairs) /\ Len(pairs) \in Nat
             /\ \A i \in DOMAIN pairs : /\ MayConnect(graph, pairs[i]) /\ pairs[i][2][1] \notin Operators(graph)
                                        /\ pairs[i][2] \in UserInputs(graph)
<1> DEFINE outs == handles[a].outs
           ins == handles[b].ins
           pairs == Zip(outs, ins)
<1>1. /\ outs \in Seq(Nat \X Nat) /\ ins \in Seq(Nat \X Nat)
      /\ \A i \in DOMAIN outs : outs[i] \in OutputsOf(graph)
      /\ \A i \in DOMAIN ins : ins[i] \in UserInputs(graph)
  BY HandleFits, HandleParts
<1>. HIDE DEF outs, ins
<1>2. /\ DOMAIN pairs = 1..Len(pairs) /\ Len(pairs) \in Nat
      /\ \A i \in DOMAIN pairs : pairs[i] = <<outs[i], ins[i]>> /\ i \in DOMAIN outs /\ i \in DOMAIN ins
  BY <1>1, ZipIs
<1>. HIDE DEF pairs
<1>3. \A i \in DOMAIN pairs : /\ pairs[i][1] \in OutputsOf(graph) /\ pairs[i][2] \in UserInputs(graph)
  BY <1>1, <1>2
<1>4. \A i \in DOMAIN pairs : MayConnect(graph, pairs[i]) /\ pairs[i][2][1] \notin Operators(graph)
  BY <1>3, UserInputMayHear DEF MayConnect
<1>. QED  BY <1>2, <1>3, <1>4 DEF pairs, outs, ins

LEMMA HowIs ==
  ASSUME NEW additive \in BOOLEAN, NEW feedback \in BOOLEAN, NEW on_error \in {"log", "return", "panic"}
  PROVE  /\ How(additive, feedback, on_error) \in HowType
         /\ How(additive, feedback, on_error).additive = additive
         /\ How(additive, feedback, on_error).feedback = feedback
         /\ How(additive, feedback, on_error).on_error = on_error
  BY DEF How, HowType

LEMMA ConnectKeeps ==
  ASSUME HandlesInv, NEW a \in DOMAIN handles, NEW b \in DOMAIN handles,
         TryTo(a, b) \/ \E additive, feedback \in BOOLEAN :
                          StaticTo(a, b, additive, feedback) \/ DynamicTo(a, b, additive, feedback)
  PROVE  Kept /\ Alike
<1> DEFINE pairs == Zip(handles[a].outs, handles[b].ins)
<1>1. \E additive, feedback \in BOOLEAN, on_error \in {"log", "return", "panic"} :
        ConnectAll(pairs, How(additive, feedback, on_error))
  BY DEF TryTo, StaticTo, DynamicTo, OnError
<1>2. \E name : Call(name)
  BY DEF TryTo, StaticTo, DynamicTo, CallTo
<1>3. \E how \in HowType : ConnectAll(pairs, how)
  BY <1>1, HowIs
<1>4. /\ DOMAIN pairs = 1..Len(pairs) /\ Len(pairs) \in Nat
      /\ \A i \in DOMAIN pairs : MayConnect(graph, pairs[i]) /\ pairs[i][2][1] \notin Operators(graph)
  BY ToKeeps
<1>. HIDE DEF pairs
<1>. QED  BY <1>2, <1>3, <1>4, ConnectAllKeeps

LEMMA GraphOutputMayHear ==
  ASSUME NEW g, g \in GraphType, NEW port \in OutputsOf(g), NEW c \in Nat
  PROVE  MayConnect(g, <<port, <<0, c>>>>) /\ 0 \notin Operators(g)
<1>1. 0 \notin Operators(g)
  BY GraphParts DEF Operators
<1>. QED  BY <1>1 DEF MayConnect

LEMMA GraphOutKeeps ==
  ASSUME HandlesInv, NEW a \in DOMAIN handles, NEW additive \in BOOLEAN, ToGraphOut(a, additive)
  PROVE  Kept /\ Alike
<1> DEFINE outs == handles[a].outs
           pairs == [i \in DOMAIN outs |-> <<outs[i], <<0, i>>>>]
<1>1. /\ outs \in Seq(Nat \X Nat) /\ DOMAIN outs = 1..Len(outs) /\ Len(outs) \in Nat
      /\ \A i \in DOMAIN outs : outs[i] \in OutputsOf(graph) /\ i \in Nat
  <2>1. /\ outs \in Seq(Nat \X Nat) /\ DOMAIN outs = 1..Len(outs) /\ Len(outs) \in Nat
        /\ \A i \in DOMAIN outs : outs[i] \in OutputsOf(graph)
    BY HandleFits, HandleParts
  <2>. HIDE DEF outs
  <2>. QED  BY <2>1
<1>2. DOMAIN pairs = 1..Len(pairs) /\ Len(pairs) = Len(outs)
  <2>. HIDE DEF outs
  <2>. QED  BY <1>1
<1>3. \A i \in DOMAIN pairs : pairs[i] = <<outs[i], <<0, i>>>> /\ i \in DOMAIN outs
  OBVIOUS
<1>4. \E how \in HowType : \E name : ConnectAll(pairs, how) /\ Call(name)
  BY HowIs DEF ToGraphOut
<1>. HIDE DEF outs, pairs
<1>5. \A i \in DOMAIN pairs : MayConnect(graph, pairs[i]) /\ pairs[i][2][1] \notin Operators(graph)
  BY <1>1, <1>3, GraphOutputMayHear, SameGraph
<1>. QED  BY <1>1, <1>2, <1>4, <1>5, ConnectAllKeeps

LEMMA GraphOutChannelsKeeps ==
  ASSUME HandlesInv, NEW a \in DOMAIN handles, NEW channels \in Seq(Nat \ {0}), NEW additive \in BOOLEAN,
         ToGraphOutChannels(a, channels, additive)
  PROVE  Kept /\ Alike
<1> DEFINE outs == handles[a].outs
           sinks == [i \in DOMAIN channels |-> <<0, channels[i]>>]
           pairs == Zip(outs, sinks)
<1>1. /\ outs \in Seq(Nat \X Nat) /\ \A i \in DOMAIN outs : outs[i] \in OutputsOf(graph)
  BY HandleFits, HandleParts
<1>2. sinks \in Seq(Nat \X Nat) /\ DOMAIN sinks = DOMAIN channels
      /\ \A i \in DOMAIN sinks : sinks[i] = <<0, channels[i]>> /\ channels[i] \in Nat
  OBVIOUS
<1>3. \E how \in HowType : \E name : ConnectAll(pairs, how) /\ Call(name)
  BY HowIs DEF ToGraphOutChannels
<1>. HIDE DEF outs, sinks
<1>4. /\ DOMAIN pairs = 1..Len(pairs) /\ Len(pairs) \in Nat
      /\ \A i \in DOMAIN pairs : pairs[i] = <<outs[i], sinks[i]>> /\ i \in DOMAIN outs /\ i \in DOMAIN sinks
  BY <1>1, <1>2, ZipIs
<1>. HIDE DEF pairs
<1>5. \A i \in DOMAIN pairs : MayConnect(graph, pairs[i]) /\ pairs[i][2][1] \notin Operators(graph)
  <2> SUFFICES ASSUME NEW i \in DOMAIN pairs
               PROVE  MayConnect(graph, pairs[i]) /\ pairs[i][2][1] \notin Operators(graph)
    OBVIOUS
  <2>1. outs[i] \in OutputsOf(graph) /\ channels[i] \in Nat /\ pairs[i] = <<outs[i], <<0, channels[i]>>>>
    BY <1>1, <1>2, <1>4
  <2>2. MayConnect(graph, <<outs[i], <<0, channels[i]>>>>) /\ 0 \notin Operators(graph)
    BY <2>1, GraphOutputMayHear, SameGraph
  <2>. QED  BY <2>1, <2>2
<1>. QED  BY <1>3, <1>4, <1>5, ConnectAllKeeps

LEMMA LinkKeeps ==
  ASSUME HandlesInv, NEW a \in DOMAIN handles, NEW b \in DOMAIN handles, NEW p, Link(a, p, b)
  PROVE  Kept /\ Alike
<1> DEFINE port == handles[b].outs[1]
           s == Parameter(handles[a].node, p)
<1>0. Call("link")
  BY DEF Link
<1>1. port \in OutputsOf(graph) /\ port \in Nat \X Nat
  <2>1. Len(handles[b].outs) = 1
    BY DEF Link
  <2>2. DOMAIN handles[b].outs = 1..Len(handles[b].outs) /\ \A i \in DOMAIN handles[b].outs : handles[b].outs[i] \in OutputsOf(graph)
    BY HandleFits, HandleParts
  <2>3. 1 \in DOMAIN handles[b].outs
    BY <2>1, <2>2
  <2>. QED  BY <2>2, <2>3, OutputTyped
<1>2. CASE UNCHANGED <<graph, handles, phase, half>>
  <2>1. Keeps(graph, graph') /\ Alike
    BY <1>2, SameGraph DEF Alike
  <2>. QED  BY <1>0, <1>2, <2>1, PlainKept
<1>3. CASE Panic(TRUE, graph)
  <2>1. graph' = graph
    BY <1>3 DEF Panic
  <2>. QED  BY <1>0, <1>3, <2>1, SameGraph, PanicKept DEF Alike
<1>4. CASE graph' = [graph EXCEPT !.heard[s] = <<Edge(port, FALSE)>>] /\ UNCHANGED <<handles, phase, half>>
  <2> DEFINE list == <<Edge(port, FALSE)>>
             h == [nodes |-> graph.nodes, required |-> graph.required, heard |-> [graph.heard EXCEPT ![s] = list]]
  <2>1. Edge(port, FALSE) \in EdgeType /\ Edge(port, FALSE).port = port
    <3>. HIDE DEF port
    <3>. QED  BY <1>1, EdgeIs
  <2>2. list \in Seq(EdgeType) /\ \A i \in DOMAIN list : list[i].port \in OutputsOf(graph)
    <3>1. DOMAIN list = {1} /\ list[1] = Edge(port, FALSE)
      OBVIOUS
    <3>2. list \in Seq(EdgeType)
      <4> DEFINE edge == Edge(port, FALSE)
      <4>1. edge \in EdgeType
        BY <2>1
      <4>. HIDE DEF edge
      <4>2. <<edge>> \in Seq(EdgeType)
        BY <4>1
      <4>. QED  BY <4>2 DEF edge
    <3>. QED  BY <1>1, <2>1, <3>1, <3>2
  <2>3. graph = [nodes |-> graph.nodes, required |-> graph.required, heard |-> graph.heard] /\ graph.required \in BOOLEAN
    BY SameGraph, GraphParts
  <2>4. graph' = h
    <3> DEFINE heard == [graph.heard EXCEPT ![s] = list]
    <3>1. graph' = [graph EXCEPT !.heard = heard]
      BY <1>4
    <3>. HIDE DEF heard
    <3>2. graph' = [nodes |-> graph.nodes, required |-> graph.required, heard |-> heard]
      BY <2>3, <3>1
    <3>. QED  BY <3>2 DEF heard
  <2>5. s[1] # "input" /\ \A n, c : Operand(n, c) # s
    BY ParameterIs, OperandIs
  <2>. HIDE DEF list, s
  <2>6. Keeps(graph, h) /\ SameOperands(graph, h)
    BY <2>2, <2>3, <2>5, SameGraph, HeardSet
  <2>. HIDE DEF h
  <2>. QED  BY <1>0, <1>4, <2>4, <2>6, PlainKept DEF Alike
<1>. QED  BY <1>2, <1>3, <1>4 DEF Link
-----------------------------------------------------------------------------
(* Arithmetic. *)
LEMMA ResultsFit ==
  ASSUME NEW g, Fine(g), NEW op, NEW pairs, Len(pairs) \in Nat, NEW h, OperatorsFrom(g, op, pairs, Len(pairs), h),
         NEW typed \in BOOLEAN
  PROVE  Fits(h, ChannelsHandle(typed, <<>>, Results(g, Len(pairs))))
<1> DEFINE outs == Results(g, Len(pairs))
<1>1. Len(g.nodes) \in Nat
  BY GraphParts DEF Fine
<1>2. outs = [i \in 1..Len(pairs) |-> <<Len(g.nodes) + i, 1>>]
  BY DEF Results
<1>. HIDE DEF outs
<1>3. outs \in Seq(Nat \X Nat)
  BY <1>1, <1>2
<1>4. ASSUME NEW i \in DOMAIN outs PROVE outs[i] \in OutputsOf(h)
  <2>1. i \in 1..Len(pairs) /\ outs[i] = <<Len(g.nodes) + i, 1>>
    BY <1>2
  <2>2. h.nodes[Len(g.nodes) + i].outputs = 1 /\ Len(h.nodes) = Len(g.nodes) + Len(pairs) /\ h \in GraphType
    BY <2>1 DEF OperatorsFrom, IsOperator, Keeps, Fine
  <2>3. DOMAIN h.nodes = 1..Len(h.nodes)
    BY <2>2, GraphParts
  <2>4. Len(g.nodes) + i \in DOMAIN h.nodes /\ Len(g.nodes) + i # 0 /\ Len(g.nodes) + i \in Nat /\ 1 \in 1..1
    BY <1>1, <2>1, <2>2, <2>3
  <2>. QED  BY <2>1, <2>2, <2>4 DEF OutputsOf
<1>5. <<>> \in Seq(Nat \X Nat) /\ DOMAIN <<>> = {}
  OBVIOUS
<1>6. Fits(h, ChannelsHandle(typed, <<>>, outs))
  BY <1>3, <1>4, <1>5, ChannelsHandleFits
<1>. QED  BY <1>6 DEF outs

(* What arithmetic of two handles makes. *)
Calculated(op, a, b) ==
  LET pairs == Zip(handles[a].outs, handles[b].outs)
  IN  /\ DOMAIN pairs = 1..Len(pairs) /\ Len(pairs) = Len(handles[a].outs)
      /\ \A i \in DOMAIN pairs : pairs[i] = <<handles[a].outs[i], handles[b].outs[i]>>
      /\ OperatorsFrom(graph, op, pairs, Len(pairs), graph')
      /\ \E typed \in BOOLEAN : NewHandle(ChannelsHandle(typed, <<>>, Results(graph, Len(pairs))))

LEMMA ArithmeticIs ==
  ASSUME HandlesInv, NEW op \in Operations, NEW a \in DOMAIN handles, NEW b \in DOMAIN handles,
         StaticArithmetic(op, a, b) \/ DynamicArithmetic(op, a, b)
  PROVE  Panic(FALSE, graph) \/ Calculated(op, a, b)
<1> DEFINE xs == handles[a].outs
           ys == handles[b].outs
           pairs == Zip(xs, ys)
<1>1. \/ Panic(FALSE, graph)
      \/ /\ Len(xs) = Len(ys)
         /\ graph' = WithOperators(graph, op, pairs)
         /\ \E typed \in BOOLEAN : NewHandle(ChannelsHandle(typed, <<>>, Results(graph, Len(xs))))
  BY DEF StaticArithmetic, DynamicArithmetic
<1>2. /\ xs \in Seq(Nat \X Nat) /\ ys \in Seq(Nat \X Nat) /\ Len(xs) \in Nat
      /\ \A i \in DOMAIN xs : xs[i] \in OutputsOf(graph)
      /\ \A i \in DOMAIN ys : ys[i] \in OutputsOf(graph)
  BY HandleFits, HandleParts
<1>. HIDE DEF xs, ys
<1>3. /\ DOMAIN pairs = 1..Len(pairs) /\ Len(pairs) \in Nat
      /\ Len(pairs) = IF Len(xs) <= Len(ys) THEN Len(xs) ELSE Len(ys)
      /\ \A i \in DOMAIN pairs : pairs[i] = <<xs[i], ys[i]>> /\ i \in DOMAIN xs /\ i \in DOMAIN ys
  BY <1>2, ZipIs
<1>. HIDE DEF pairs
<1>4. \A i \in DOMAIN pairs : pairs[i][1] \in OutputsOf(graph) /\ pairs[i][2] \in OutputsOf(graph)
  <2>1. ASSUME NEW i \in DOMAIN pairs
        PROVE  pairs[i][1] \in OutputsOf(graph) /\ pairs[i][2] \in OutputsOf(graph)
    <3>1. xs[i] \in OutputsOf(graph) /\ ys[i] \in OutputsOf(graph)
      BY <2>1, <1>2, <1>3
    <3>2. pairs[i][1] = xs[i] /\ pairs[i][2] = ys[i]
      <4>1. pairs[i] = <<xs[i], ys[i]>>
        BY <2>1, <1>3
      <4>2. ASSUME NEW x, NEW y, NEW p, p = <<x, y>> PROVE p[1] = x /\ p[2] = y
        BY <4>2
      <4>. QED  BY ONLY <4>1, <4>2
    <3>. QED  BY ONLY <3>1, <3>2
  <2>. QED  BY ONLY <2>1
<1>5. CASE ~ Panic(FALSE, graph)
  <2>1. Len(pairs) = Len(xs)
    BY <1>1, <1>2, <1>3, <1>5
  <2>2. OperatorsFrom(graph, op, pairs, Len(pairs), WithOperators(graph, op, pairs))
    BY <1>3, <1>4, SameGraph, OperatorsAdded
  <2>. QED  BY <1>1, <1>3, <1>5, <2>1, <2>2 DEF Calculated, pairs, xs, ys
<1>. QED  BY <1>5

LEMMA ArithmeticKeeps ==
  ASSUME HandlesInv, NEW op \in Operations, NEW a \in DOMAIN handles, NEW b \in DOMAIN handles,
         StaticArithmetic(op, a, b) \/ DynamicArithmetic(op, a, b)
  PROVE  Kept /\ Alike
<1>0. Call("arithmetic")
  BY DEF StaticArithmetic, DynamicArithmetic
<1>1. CASE Panic(FALSE, graph)
  <2>1. graph' = graph
    BY <1>1 DEF Panic
  <2>. QED  BY <1>0, <1>1, <2>1, SameGraph, PanicKept DEF Alike
<1>2. CASE Calculated(op, a, b)
  <2> DEFINE pairs == Zip(handles[a].outs, handles[b].outs)
  <2>1. OperatorsFrom(graph, op, pairs, Len(pairs), graph')
    BY <1>2 DEF Calculated
  <2>2. PICK typed \in BOOLEAN : NewHandle(ChannelsHandle(typed, <<>>, Results(graph, Len(pairs))))
    BY <1>2 DEF Calculated
  <2>3. Len(pairs) \in Nat
    BY <1>2, HandleFits, HandleParts DEF Calculated
  <2>. HIDE DEF pairs
  <2>4. Fits(graph', ChannelsHandle(typed, <<>>, Results(graph, Len(pairs))))
    BY <2>1, <2>3, SameGraph, ResultsFit
  <2>5. Keeps(graph, graph') /\ Alike
    BY <2>1 DEF OperatorsFrom, Alike
  <2>. QED  BY <1>0, <2>2, <2>4, <2>5, HandleKept
<1>. QED  BY <1>1, <1>2, ArithmeticIs

(* What arithmetic with a constant makes. *)
ConstantPairs(a) == [i \in DOMAIN handles[a].outs |-> <<handles[a].outs[i], <<Len(graph.nodes) + 1, 1>>>>]
WithAConstant == Pushed(graph, Constant)
CalculatedWith(op, a) ==
  /\ DOMAIN ConstantPairs(a) = 1..Len(ConstantPairs(a)) /\ Len(ConstantPairs(a)) = Len(handles[a].outs)
  /\ Keeps(graph, WithAConstant) /\ SameOperands(graph, WithAConstant)
  /\ Len(WithAConstant.nodes) = Len(graph.nodes) + 1
  /\ WithAConstant.nodes[Len(graph.nodes) + 1] = Constant
  /\ Len(graph.nodes) + 1 \in DOMAIN WithAConstant.nodes
  /\ <<Len(graph.nodes) + 1, 1>> \in OutputsOf(WithAConstant)
  /\ OperatorsFrom(WithAConstant, op, ConstantPairs(a), Len(ConstantPairs(a)), graph')
  /\ NewHandle(ChannelsHandle(handles[a].typed, <<>>, Results(WithAConstant, Len(ConstantPairs(a)))))

LEMMA ConstantPushed ==
  ASSUME HandlesInv
  PROVE  /\ Keeps(graph, WithAConstant) /\ SameOperands(graph, WithAConstant)
         /\ Len(WithAConstant.nodes) = Len(graph.nodes) + 1
         /\ WithAConstant.nodes[Len(graph.nodes) + 1] = Constant
         /\ Len(graph.nodes) + 1 \in DOMAIN WithAConstant.nodes
         /\ <<Len(graph.nodes) + 1, 1>> \in OutputsOf(WithAConstant)
<1>1. Constant.kind \notin Operations
  BY ConstantIs, OperationsAssumption
<1>2. Keeps(graph, WithAConstant) /\ SameOperands(graph, WithAConstant)
  BY <1>1, SameGraph, ConstantIs, PushedKeeps DEF WithAConstant
<1>3. /\ Len(WithAConstant.nodes) = Len(graph.nodes) + 1
      /\ WithAConstant.nodes[Len(graph.nodes) + 1] = Constant
      /\ Len(graph.nodes) + 1 \in DOMAIN WithAConstant.nodes
  BY SameGraph, ConstantIs, PushedIs DEF WithAConstant
<1>4. <<Len(graph.nodes) + 1, 1>> \in OutputsOf(WithAConstant)
  <2>1. Len(graph.nodes) \in Nat
    BY SameGraph, GraphParts
  <2>2. Len(graph.nodes) + 1 # 0 /\ Len(graph.nodes) + 1 \in Nat /\ 1 \in 1..1
    BY <2>1
  <2>. QED  BY <1>3, <2>2, ConstantIs DEF OutputsOf
<1>. QED  BY <1>2, <1>3, <1>4

LEMMA WithConstantIs ==
  ASSUME HandlesInv, NEW op \in Operations, NEW a \in DOMAIN handles, WithConstant(op, a)
  PROVE  CalculatedWith(op, a)
<1> DEFINE xs == handles[a].outs
           pairs == ConstantPairs(a)
           g == WithAConstant
           constant == <<Len(graph.nodes) + 1, 1>>
<1>0. Keeps(graph, g) /\ Len(g.nodes) = Len(graph.nodes) + 1 /\ constant \in OutputsOf(g)
  BY ConstantPushed
<1>1. pairs = [i \in DOMAIN xs |-> <<xs[i], constant>>]
  BY DEF ConstantPairs
<1>2. /\ graph' = WithOperators(g, op, [i \in DOMAIN xs |-> <<xs[i], <<Len(g.nodes), 1>>>>])
      /\ NewHandle(ChannelsHandle(handles[a].typed, <<>>, Results(g, Len(xs))))
  BY DEF WithConstant, WithAConstant
<1>3. graph' = WithOperators(g, op, pairs)
  <2>. HIDE DEF g, pairs
  <2>. QED  BY <1>0, <1>1, <1>2
<1>4. /\ DOMAIN xs = 1..Len(xs) /\ Len(xs) \in Nat
      /\ \A i \in DOMAIN xs : xs[i] \in OutputsOf(graph)
  BY HandleFits, HandleParts
<1>. HIDE DEF xs, g, constant
<1>5. DOMAIN pairs = 1..Len(pairs) /\ Len(pairs) = Len(xs) /\ \A i \in DOMAIN pairs : pairs[i] = <<xs[i], constant>> /\ i \in DOMAIN xs
  <2>. HIDE DEF pairs
  <2>. QED  BY <1>1, <1>4
<1>. HIDE DEF pairs
<1>6. \A i \in DOMAIN pairs : pairs[i][1] \in OutputsOf(g) /\ pairs[i][2] \in OutputsOf(g)
  <2>1. OutputsOf(graph) \subseteq OutputsOf(g) 
    BY <1>0, OutputsGrow DEF Keeps
  <2>. QED  BY <1>0, <1>4, <1>5, <2>1
<1>7. OperatorsFrom(g, op, pairs, Len(pairs), graph')
  <2>1. Fine(g) /\ Len(pairs) \in Nat
    BY <1>0, <1>4, <1>5 DEF Keeps
  <2>2. OperatorsFrom(g, op, pairs, Len(pairs), WithOperators(g, op, pairs))
    BY <1>5, <1>6, <2>1, OperatorsAdded
  <2>. QED  BY <1>3, <2>2
<1>. QED  BY <1>2, <1>5, <1>7, ConstantPushed DEF CalculatedWith, pairs, g, xs

LEMMA ConstantKeeps ==
  ASSUME HandlesInv, NEW op \in Operations, NEW a \in DOMAIN handles,
         ArithmeticWithConstant(op, a) \/ ConstantOnTheLeft(op, a)
  PROVE  Kept /\ Alike
<1> DEFINE pairs == ConstantPairs(a)
           g == WithAConstant
           h == ChannelsHandle(handles[a].typed, <<>>, Results(g, Len(pairs)))
<1>0. (\E name : Call(name)) /\ CalculatedWith(op, a)
  BY WithConstantIs DEF ArithmeticWithConstant, ConstantOnTheLeft
<1>1. /\ Keeps(graph, g) /\ SameOperands(graph, g)
      /\ OperatorsFrom(g, op, pairs, Len(pairs), graph') /\ NewHandle(h)
      /\ Len(pairs) \in Nat /\ handles[a].typed \in BOOLEAN
  BY <1>0, HandleFits, HandleParts DEF CalculatedWith
<1>. HIDE DEF pairs, g
<1>2. Keeps(graph, graph') /\ Alike
  BY <1>1, KeepsTrans, SameOperandsTrans DEF OperatorsFrom, Keeps, Alike
<1>3. Fits(graph', h)
  <2>1. Fine(g)
    BY <1>1 DEF Keeps
  <2>. QED  BY <1>1, <2>1, ResultsFit
<1>. HIDE DEF h
<1>. QED  BY <1>0, <1>1, <1>2, <1>3, HandleKept
-----------------------------------------------------------------------------
(* Disconnecting and freeing. *)
LEMMA DisconnectOutputKeeps ==
  ASSUME HandlesInv, NEW a \in DOMAIN handles, NEW c, DisconnectOutput(a, c)
  PROVE  Kept
<1> DEFINE port == handles[a].outs[c]
           g == Without(graph, AllInputs(graph), {port})
           h == [g EXCEPT !.heard[Input(port)] = <<>>]
<1>0. Call("disconnect")
  BY DEF DisconnectOutput
<1>1. CASE Panic(TRUE, graph)
  BY <1>0, <1>1, SameGraph, PanicKept
<1>2. Keeps(graph, g)
  BY SameGraph, WithoutKeeps
<1>3. CASE graph' = g /\ UNCHANGED <<handles, phase, half>>
  <2>. HIDE DEF g
  <2>. QED  BY <1>0, <1>2, <1>3, PlainKept
<1>4. CASE graph' = h /\ UNCHANGED <<handles, phase, half>>
  <2>0. Fine(g) /\ g \in GraphType
    BY <1>2 DEF Keeps, Fine
  <2>. HIDE DEF g, port
  <2>1. /\ g = [nodes |-> g.nodes, required |-> g.required, heard |-> g.heard] /\ g.required \in BOOLEAN
    BY <2>0, GraphParts
  <2>2. h = [nodes |-> g.nodes, required |-> g.required, heard |-> [g.heard EXCEPT ![Input(port)] = <<>>]]
    <3> DEFINE heard == [g.heard EXCEPT ![Input(port)] = <<>>]
    <3>1. h = [g EXCEPT !.heard = heard]
      OBVIOUS
    <3>. HIDE DEF heard, h
    <3>2. h = [nodes |-> g.nodes, required |-> g.required, heard |-> heard]
      BY <2>1, <3>1
    <3>. QED  BY <3>2 DEF heard
  <2>3. <<>> \in Seq(EdgeType)
    OBVIOUS
  <2>. HIDE DEF h
  <2>4. Keeps(g, h)
    BY <2>0, <2>1, <2>2, <2>3, HeardSet
  <2>5. Keeps(graph, graph')
    BY <1>2, <1>4, <2>4, KeepsTrans
  <2>. QED  BY <1>0, <1>4, <2>5, PlainKept
<1>. QED  BY <1>1, <1>3, <1>4 DEF DisconnectOutput

LEMMA DisconnectInputKeeps ==
  ASSUME HandlesInv, NEW a \in DOMAIN handles, NEW c, DisconnectInput(a, c)
  PROVE  Kept /\ Alike
<1> DEFINE s == Input(handles[a].ins[c])
           h == [graph EXCEPT !.required = TRUE, !.heard[s] = <<>>]
<1>0. Call("disconnect")
  BY DEF DisconnectInput
<1>1. CASE Panic(TRUE, graph)
  <2>1. graph' = graph
    BY <1>1 DEF Panic
  <2>. QED  BY <1>0, <1>1, <2>1, SameGraph, PanicKept DEF Alike
<1>2. CASE c \in DOMAIN handles[a].ins /\ graph' = h /\ UNCHANGED <<handles, phase, half>>
  <2>1. graph = [nodes |-> graph.nodes, required |-> graph.required, heard |-> graph.heard]
    BY SameGraph, GraphParts
  <2>2. h = [nodes |-> graph.nodes, required |-> TRUE, heard |-> [graph.heard EXCEPT ![s] = <<>>]]
    <3> DEFINE heard == [graph.heard EXCEPT ![s] = <<>>]
    <3>1. h = [graph EXCEPT !.required = TRUE, !.heard = heard]
      OBVIOUS
    <3>. HIDE DEF heard, h
    <3>2. h = [nodes |-> graph.nodes, required |-> TRUE, heard |-> heard]
      BY <2>1, <3>1
    <3>. QED  BY <3>2 DEF heard
  <2>3. <<>> \in Seq(EdgeType)
    OBVIOUS
  <2>4. \A n \in Operators(graph) : \A k \in 1..2 : Operand(n, k) # s
    <3>1. handles[a].ins[c] \in UserInputs(graph)
      BY <1>2, HandleFits, HandleParts
    <3>2. handles[a].ins[c][1] \notin Operators(graph)
      BY <3>1, UserInputMayHear
    <3>. QED  BY <3>2, SinkIs, OperandIs
  <2>. HIDE DEF h, s
  <2>5. Keeps(graph, h) /\ SameOperands(graph, h)
    BY <2>2, <2>3, <2>4, SameGraph, HeardSet
  <2>. QED  BY <1>0, <1>2, <2>5, PlainKept DEF Alike
<1>. QED  BY <1>1, <1>2 DEF DisconnectInput

LEMMA FreeKeeps ==
  ASSUME HandlesInv, NEW n \in DOMAIN graph.nodes, FreeNode(n)
  PROVE  Kept
<1> DEFINE g == Without(graph, AllInputs(graph), ToSet(Channels(n, graph.nodes[n].outputs)))
           nodes == [g.nodes EXCEPT ![n] = [@ EXCEPT !.state = "freed"]]
           sinks == {s \in DOMAIN g.heard : s[2] # n}
           h == [nodes |-> nodes, required |-> g.required, heard |-> [s \in sinks |-> g.heard[s]]]
<1>0. Call("free") /\ UNCHANGED <<handles, phase, half>> /\ graph.nodes[n].kind = "ugen"
  BY DEF FreeNode
<1>1. Keeps(graph, g) /\ g.nodes = graph.nodes
  BY SameGraph, WithoutKeeps, WithoutIs
<1>2. graph' = [g EXCEPT !.nodes = nodes, !.heard = [s \in sinks |-> g.heard[s]]]
  BY DEF FreeNode
<1>3. Fine(g) /\ g \in GraphType /\ OperatorsHearEarlier(g)
  BY <1>1 DEF Keeps, Fine
<1>. HIDE DEF g
<1>4. /\ g = [nodes |-> g.nodes, required |-> g.required, heard |-> g.heard] /\ g.required \in BOOLEAN
      /\ \A m \in DOMAIN g.nodes : g.nodes[m] \in NodeType
  BY <1>3, GraphParts
<1>5. graph' = h
  <2> DEFINE heard == [s \in sinks |-> g.heard[s]]
  <2>1. graph' = [g EXCEPT !.nodes = nodes, !.heard = heard]
    BY <1>2
  <2>. HIDE DEF heard, nodes
  <2>2. graph' = [nodes |-> nodes, required |-> g.required, heard |-> heard]
    BY <1>4, <2>1
  <2>. QED  BY <2>2 DEF heard
<1>6. \A m \in DOMAIN g.nodes : /\ nodes[m] \in NodeType /\ nodes[m].kind = g.nodes[m].kind
                                 /\ nodes[m].inputs = g.nodes[m].inputs /\ nodes[m].outputs = g.nodes[m].outputs
  <2>1. ASSUME NEW m \in DOMAIN g.nodes
        PROVE  nodes[m] = g.nodes[m] \/ nodes[m] = [g.nodes[m] EXCEPT !.state = "freed"]
    OBVIOUS
  <2>2. \A node \in NodeType : LET f == [node EXCEPT !.state = "freed"]
                               IN  /\ f \in NodeType /\ f.kind = node.kind
                                   /\ f.inputs = node.inputs /\ f.outputs = node.outputs
    BY DEF NodeType
  <2>. HIDE DEF nodes
  <2>. QED  BY <1>4, <2>1, <2>2
<1>7. nodes = [m \in DOMAIN g.nodes |-> nodes[m]]
  OBVIOUS
<1>8. \A k \in Operators(g) : \A c \in 1..2 : Operand(k, c) \in sinks
  <2>1. n \notin Operators(g)
    BY <1>0, <1>1, OperationsAssumption DEF Operators
  <2>. QED  BY <1>3, <2>1, OperandIs DEF OperatorsHearEarlier
<1>9. sinks \in SUBSET DOMAIN g.heard
  OBVIOUS
<1>. HIDE DEF nodes, sinks
<1>10. Keeps(g, h)
  BY <1>3, <1>4, <1>6, <1>7, <1>8, <1>9, NodesChanged
<1>. HIDE DEF h
<1>11. Keeps(graph, graph')
  BY <1>1, <1>5, <1>10, KeepsTrans
<1>. QED  BY <1>0, <1>11, PlainKept

-----------------------------------------------------------------------------
(* The edit is dropped. *)
LEMMA StatesKeep ==
  ASSUME NEW g, Fine(g), NEW K, NEW state \in {"live", "freed", "sent", "removed"}, NEW required \in BOOLEAN
  PROVE  LET h == [g EXCEPT !.required = required,
                            !.nodes = [n \in DOMAIN g.nodes |->
                                         IF n \in K THEN [g.nodes[n] EXCEPT !.state = state] ELSE g.nodes[n]]]
         IN  Keeps(g, h) /\ SameOperands(g, h)
<1> DEFINE nodes == [n \in DOMAIN g.nodes |-> IF n \in K THEN [g.nodes[n] EXCEPT !.state = state] ELSE g.nodes[n]]
           heard == [s \in DOMAIN g.heard |-> g.heard[s]]
           h == [nodes |-> nodes, required |-> required, heard |-> heard]
<1>0. g \in GraphType /\ OperatorsHearEarlier(g)
  BY DEF Fine
<1>1. /\ g = [nodes |-> g.nodes, required |-> g.required, heard |-> g.heard] /\ g.heard = heard
      /\ \A m \in DOMAIN g.nodes : g.nodes[m] \in NodeType
  BY <1>0, GraphParts
<1>2. \A m \in DOMAIN g.nodes : /\ nodes[m] \in NodeType /\ nodes[m].kind = g.nodes[m].kind
                                 /\ nodes[m].inputs = g.nodes[m].inputs /\ nodes[m].outputs = g.nodes[m].outputs
  <2>1. \A m \in DOMAIN g.nodes : nodes[m] = g.nodes[m] \/ nodes[m] = [g.nodes[m] EXCEPT !.state = state]
    OBVIOUS
  <2>2. \A node \in NodeType : LET f == [node EXCEPT !.state = state]
                               IN  /\ f \in NodeType /\ f.kind = node.kind
                                   /\ f.inputs = node.inputs /\ f.outputs = node.outputs
    BY DEF NodeType
  <2>. HIDE DEF nodes
  <2>. QED  BY <1>1, <2>1, <2>2
<1>3. nodes = [m \in DOMAIN g.nodes |-> nodes[m]]
  OBVIOUS
<1>4. /\ DOMAIN g.heard \in SUBSET DOMAIN g.heard
      /\ \A n \in Operators(g) : \A c \in 1..2 : Operand(n, c) \in DOMAIN g.heard
  BY <1>0 DEF OperatorsHearEarlier
<1>5. [g EXCEPT !.required = required, !.nodes = nodes] = h
  <2>1. g = [nodes |-> g.nodes, required |-> g.required, heard |-> g.heard]
    BY <1>1
  <2>2. [g EXCEPT !.required = required, !.nodes = nodes] = [nodes |-> nodes, required |-> required, heard |-> g.heard]
    <3> DEFINE e == [g EXCEPT !.required = required, !.nodes = nodes]
    <3>1. e = [g EXCEPT !.required = required, !.nodes = nodes]
      OBVIOUS
    <3>. HIDE DEF nodes, e
    <3>2. e = [nodes |-> nodes, required |-> required, heard |-> g.heard]
      BY <2>1, <3>1
    <3>. QED  BY <3>2 DEF e
  <2>3. g.heard = heard
    BY <1>1
  <2>. HIDE DEF nodes, heard
  <2>. QED  BY <2>2, <2>3
<1>6. Keeps(g, h) /\ SameOperands(g, h)
  <2>. HIDE DEF nodes
  <2>. QED  BY <1>2, <1>3, <1>4, NodesChanged
<1>. HIDE DEF h
<1>. QED  BY <1>5, <1>6

LEMMA DropKeeps ==
  ASSUME HandlesInv, NEW K, Drop(K)
  PROVE  Kept /\ Alike
<1> DEFINE g == Removed(graph, K)
           h == Committed(g)
<1>0. /\ handles' = <<>> /\ UNCHANGED <<half, left>>
      /\ graph' = g \/ graph' = h
      /\ phase' \in Phases
  BY DEF Drop, Phases
<1>1. Keeps(graph, g) /\ SameOperands(graph, g)
  <2> DEFINE nodes == [n \in DOMAIN graph.nodes |->
                         IF n \in K THEN [graph.nodes[n] EXCEPT !.state = "removed"] ELSE graph.nodes[n]]
  <2>1. graph = [nodes |-> graph.nodes, required |-> graph.required, heard |-> graph.heard]
        /\ graph.required \in BOOLEAN
    BY SameGraph, GraphParts
  <2>2. g = [graph EXCEPT !.nodes = nodes]
    BY DEF Removed
  <2>3. [graph EXCEPT !.nodes = nodes] = [graph EXCEPT !.required = graph.required, !.nodes = nodes]
    <3>. HIDE DEF nodes
    <3>. QED  BY <2>1
  <2>4. LET f == [graph EXCEPT !.required = graph.required, !.nodes = nodes]
        IN  Keeps(graph, f) /\ SameOperands(graph, f)
    <3>1. "removed" \in {"live", "freed", "sent", "removed"}
      OBVIOUS
    <3>. QED  BY <2>1, <3>1, SameGraph, StatesKeep
  <2>. HIDE DEF nodes, g
  <2>. QED  BY <2>2, <2>3, <2>4
<1>2. Fine(g)
  BY <1>1 DEF Keeps
<1>. HIDE DEF g
<1>3. Keeps(g, h) /\ SameOperands(g, h)
  <2> DEFINE freed == {n \in DOMAIN g.nodes : g.nodes[n].state = "freed"}
             nodes == [n \in DOMAIN g.nodes |->
                         IF g.nodes[n].state = "freed" THEN [g.nodes[n] EXCEPT !.state = "sent"] ELSE g.nodes[n]]
             others == [n \in DOMAIN g.nodes |->
                         IF n \in freed THEN [g.nodes[n] EXCEPT !.state = "sent"] ELSE g.nodes[n]]
  <2>1. h = [g EXCEPT !.required = FALSE, !.nodes = nodes]
    BY DEF Committed
  <2>2. nodes = others
    OBVIOUS
  <2>3. LET f == [g EXCEPT !.required = FALSE, !.nodes = others] IN Keeps(g, f) /\ SameOperands(g, f)
    <3>1. "sent" \in {"live", "freed", "sent", "removed"}
      OBVIOUS
    <3>. HIDE DEF freed
    <3>. QED  BY <1>2, <3>1, StatesKeep
  <2>. HIDE DEF nodes, others, h
  <2>. QED  BY <2>1, <2>2, <2>3
<1>. HIDE DEF h
<1>4. Keeps(graph, h) /\ SameOperands(graph, h)
  BY <1>1, <1>3, KeepsTrans, SameOperandsTrans DEF Keeps
<1>5. Keeps(graph, graph') /\ SameOperands(graph, graph')
  BY <1>0, <1>1, <1>4
<1>. QED  BY <1>0, <1>5 DEF Kept, Alike, HandlesInv

-----------------------------------------------------------------------------
(***************************************************************************)
(* Every step.                                                             *)
(***************************************************************************)
LEMMA ShapesAre ==
  ASSUME NEW shape \in UNION {ToSet(start.shapes) : start \in Starts}
  PROVE  shape \in Nat \X Nat \X Nat
<1>1. PICK start \in Starts : shape \in ToSet(start.shapes)
  OBVIOUS
<1>2. start.shapes \in Seq(Nat \X Nat \X Nat)
  BY StartsAssumption
<1>. QED  BY <1>1, <1>2 DEF ToSet

LEMMA NextKeeps ==
  ASSUME HandlesInv, Next
  PROVE  Kept /\ (Frees \/ Alike)
<1>1. CASE \E shape \in UNION {ToSet(start.shapes) : start \in Starts} :
             Push(UGen(shape)) \/ PushWithDoneAction(UGen(shape))
  BY <1>1, ShapesAre, PushedUGen
<1>2. CASE \E n \in DOMAIN graph.nodes : HandleOf(n) \/ HandleFromName(n) \/ FreeNode(n)
  BY <1>2, FoundKeeps, FreeKeeps DEF Frees, Node
<1>3. CASE \E channels \in Selections :
             \/ FromInputs(channels)
             \/ \E a \in DOMAIN handles :
                  Out(a, channels) \/ \E additive \in BOOLEAN : ToGraphOutChannels(a, channels, additive)
  BY <1>3, SelectionsAssumption, FromInputsKeeps, OutKeeps, GraphOutChannelsKeeps
<1>4. CASE \E a, b \in DOMAIN handles :
             \/ StaticStack(a, b) \/ DynamicStack(a, b) \/ TryTo(a, b)
             \/ \E additive, feedback \in BOOLEAN :
                  StaticTo(a, b, additive, feedback) \/ DynamicTo(a, b, additive, feedback)
             \/ \E op \in Operations : StaticArithmetic(op, a, b) \/ DynamicArithmetic(op, a, b)
             \/ \E p \in 1..2 : Link(a, p, b)
  BY <1>4, StackKeeps, ConnectKeeps, ArithmeticKeeps, LinkKeeps
<1>5. CASE \E a \in DOMAIN handles :
             \/ Name(a) \/ Dynamic(a) \/ ToChannelsHandle(a)
             \/ \E additive \in BOOLEAN : ToGraphOut(a, additive)
             \/ \E op \in Operations : ArithmeticWithConstant(op, a) \/ ConstantOnTheLeft(op, a)
             \/ \E c \in 1..3 : DisconnectOutput(a, c) \/ DisconnectInput(a, c)
  BY <1>5, NameKeeps, DynamicKeeps, GraphOutKeeps, ConstantKeeps, DisconnectOutputKeeps, DisconnectInputKeeps DEF Frees
<1>6. CASE \E K \in SUBSET {n \in DOMAIN graph.nodes : graph.nodes[n].state = "sent"} : Drop(K)
  BY <1>6, DropKeeps
<1>. QED  BY <1>1, <1>2, <1>3, <1>4, <1>5, <1>6 DEF Next
-----------------------------------------------------------------------------
(***************************************************************************)
(* The graph that a behaviour starts with.                                 *)
(***************************************************************************)
NoNodes ==
  [nodes |-> <<>>, required |-> FALSE,
   heard |-> [s \in {Input(<<0, c>>) : c \in 1..GraphOutputs} |-> <<>>]]
StartGraph(shapes) == FoldLeft(LAMBDA g, shape : Pushed(g, UGen(shape)), NoNodes, shapes)
OfUGens(g) == Fine(g) /\ Acyclic(g) /\ \A n \in DOMAIN g.nodes : g.nodes[n].kind = "ugen"

LEMMA NoNodesIs == OfUGens(NoNodes)
<1> DEFINE sinks == {Input(<<0, c>>) : c \in 1..GraphOutputs}
           heard == [s \in sinks |-> <<>>]
<1>1. NoNodes = [nodes |-> <<>>, required |-> FALSE, heard |-> heard]
  BY DEF NoNodes
<1>2. \A s \in sinks : s \in SinkType /\ s[2] = 0
  <2>1. \A c \in 1..GraphOutputs : <<0, c>> \in Nat \X Nat /\ <<0, c>>[1] = 0
    BY GraphAssumption
  <2>2. \A c \in 1..GraphOutputs : Input(<<0, c>>) \in SinkType /\ Input(<<0, c>>)[2] = 0
    BY <2>1, SinkIs
  <2>. QED  BY <2>2
<1>3. <<>> \in Seq(NodeType) /\ DOMAIN <<>> = {} /\ <<>> \in Seq(EdgeType)
  OBVIOUS
<1>. HIDE DEF sinks
<1>4. heard \in [sinks -> Seq(EdgeType)] /\ \A s \in sinks : heard[s] = <<>>
  BY <1>3
<1>. HIDE DEF heard
<1>5. sinks \in SUBSET SinkType
  BY <1>2
<1>6. NoNodes \in GraphType /\ DOMAIN NoNodes.nodes = {} /\ NoNodes.heard = heard /\ DOMAIN NoNodes.heard = sinks
  BY <1>1, <1>3, <1>4, <1>5, GraphMade
<1>7. SinksOfNodes(NoNodes)
  BY <1>2, <1>6 DEF SinksOfNodes
<1>8. NamesOutputs(NoNodes)
  BY <1>3, <1>4, <1>6 DEF NamesOutputs
<1>9. OperatorsHearEarlier(NoNodes)
  BY <1>6 DEF OperatorsHearEarlier, Operators
<1>10. Acyclic(NoNodes)
  BY <1>6, AcyclicIs
<1>. QED  BY <1>6, <1>7, <1>8, <1>9, <1>10 DEF Fine, OfUGens

LEMMA UGensPushed ==
  ASSUME NEW g, OfUGens(g), NEW shape \in Nat \X Nat \X Nat
  PROVE  OfUGens(Pushed(g, UGen(shape)))
<1>1. UGen(shape) \in NodeType /\ UGen(shape).kind = "ugen" /\ UGen(shape).kind \notin Operations
  BY UGenIs, OperationsAssumption
<1>2. Fine(g) /\ Acyclic(g) /\ \A n \in DOMAIN g.nodes : g.nodes[n].kind = "ugen"
  BY DEF OfUGens
<1>3. Keeps(g, Pushed(g, UGen(shape)))
  BY <1>1, <1>2, PushedKeeps
<1>4. \A n \in DOMAIN Pushed(g, UGen(shape)).nodes : Pushed(g, UGen(shape)).nodes[n].kind = "ugen"
  BY <1>1, <1>2, PushedIs
<1>. QED  BY <1>2, <1>3, <1>4 DEF OfUGens, Keeps

LEMMA StartGraphIs ==
  ASSUME NEW shapes \in Seq(Nat \X Nat \X Nat)
  PROVE  OfUGens(StartGraph(shapes))
<1> DEFINE V == {g \in GraphType : OfUGens(g)}
           N == Len(shapes)
           step == [x \in V \X Nat |-> IF x[2] \in 1..N THEN Pushed(x[1], UGen(shapes[x[2]])) ELSE x[1]]
           Equation(f) == f = [s \in SUBSET (1..N) |->
                                 IF s = {} THEN NoNodes
                                 ELSE Pushed(f[s \ {Max(s)}], UGen(shapes[Max(s)]))]
           iter == CHOOSE f : Equation(f)
<1>0. DOMAIN shapes = 1..N /\ N \in Nat /\ \A i \in 1..N : shapes[i] \in Nat \X Nat \X Nat
  OBVIOUS
<1>1. ASSUME NEW g \in V, NEW i \in 1..N PROVE Pushed(g, UGen(shapes[i])) \in V
  <2>1. OfUGens(Pushed(g, UGen(shapes[i])))
    BY <1>0, UGensPushed
  <2>. QED  BY <2>1 DEF OfUGens, Fine
<1>2. NoNodes \in V
  BY NoNodesIs DEF OfUGens, Fine
<1>. HIDE DEF V
<1>3. /\ \A g \in V : \A i \in Nat : step[<<g, i>>] \in V
      /\ \A g \in V : \A i \in 1..N : step[<<g, i>>] = Pushed(g, UGen(shapes[i]))
  <2>1. \A i \in 1..N : i \in Nat
    OBVIOUS
  <2>2. \A g \in V : \A i \in Nat : step[<<g, i>>] = IF i \in 1..N THEN Pushed(g, UGen(shapes[i])) ELSE g
    OBVIOUS
  <2>. HIDE DEF step
  <2>. QED  BY <1>1, <2>1, <2>2
<1>4. PICK f : Folds(f, V, NoNodes, step, N)
  <2>. HIDE DEF step
  <2>. QED  BY <1>0, <1>2, <1>3, FoldExists
<1>5. \A s \in SUBSET (1..N) : s # {} => Max(s) \in 1..N /\ s \ {Max(s)} \in SUBSET (1..N)
  BY <1>0, MaxOfSome
<1>6. Equation(f)
  <2>1. f = [s \in SUBSET (1..N) |-> f[s]] /\ \A s \in SUBSET (1..N) : f[s] \in V
    BY <1>4 DEF Folds
  <2>2. ASSUME NEW s \in SUBSET (1..N)
        PROVE  f[s] = IF s = {} THEN NoNodes ELSE Pushed(f[s \ {Max(s)}], UGen(shapes[Max(s)]))
    <3>1. f[s] = IF s = {} THEN NoNodes ELSE step[<<f[s \ {Max(s)}], Max(s)>>]
      <4>. HIDE DEF step
      <4>. QED  BY <1>4 DEF Folds
    <3>. HIDE DEF step
    <3>. QED  BY <1>3, <1>5, <2>1, <3>1
  <2>. HIDE DEF step
  <2>. QED  BY <2>1, <2>2
<1>7. Equation(iter)
  <2>. HIDE DEF Equation
  <2>. QED  BY <1>6
<1>8. StartGraph(shapes) = iter[1..N]
  BY <1>0 DEF StartGraph, FoldLeft, MapThenFoldSet
<1>. HIDE DEF iter
<1> DEFINE S == {n \in Nat : n <= N => iter[1..n] \in V}
<1>9. 0 \in S
  <2>1. 1..0 = {} /\ {} \in SUBSET (1..N)
    OBVIOUS
  <2>. QED  BY <1>2, <1>7, <2>1
<1>10. ASSUME NEW n \in Nat, n \in S PROVE n + 1 \in S
  <2> SUFFICES ASSUME n + 1 <= N PROVE iter[1..(n + 1)] \in V
    OBVIOUS
  <2>1. n + 1 \in Nat /\ n + 1 # 0 /\ n + 1 - 1 = n /\ n + 1 \in 1..N /\ iter[1..n] \in V
        /\ 1..(n + 1) \in SUBSET (1..N)
    BY <1>0, <1>10
  <2>2. Max(1..(n + 1)) = n + 1 /\ (1..(n + 1)) \ {n + 1} = 1..n /\ 1..(n + 1) # {}
    <3>1. \A m \in Nat : m # 0 => Max(1..m) = m /\ (1..m) \ {m} = 1..(m - 1) /\ 1..m # {}
      BY MaxOfPlaces
    <3> DEFINE m == n + 1
    <3>2. m \in Nat /\ m # 0 /\ m - 1 = n
      BY <2>1
    <3>. HIDE DEF m
    <3>3. Max(1..m) = m /\ (1..m) \ {m} = 1..n /\ 1..m # {}
      BY <3>1, <3>2
    <3>. QED  BY <3>3 DEF m
  <2>3. \A s \in SUBSET (1..N) : s # {} => iter[s] = Pushed(iter[s \ {Max(s)}], UGen(shapes[Max(s)]))
    BY <1>7
  <2>4. iter[1..(n + 1)] = Pushed(iter[1..n], UGen(shapes[n + 1]))
    <3>. HIDE DEF Equation, S
    <3>. QED  BY <2>1, <2>2, <2>3
  <2>. QED  BY <1>1, <2>1, <2>4
<1>11. N \in S
  <2>. HIDE DEF S
  <2>. QED  BY <1>0, <1>9, <1>10, SetInduction
<1>12. iter[1..N] \in V
  BY <1>0, <1>11
<1>. QED  BY <1>8, <1>12 DEF V

LEMMA InitHolds ==
  ASSUME Init
  PROVE  HandlesInv /\ Acyclic(graph)
<1>1. PICK start \in Starts : /\ graph = StartGraph(start.shapes)
                              /\ handles = [n \in DOMAIN graph.nodes |-> NodeHandle(start.typed, n, graph.nodes[n])]
                              /\ phase = "edit" /\ half = FALSE /\ left = start.length
  BY DEF Init, StartGraph, NoNodes
<1>2. /\ start.shapes \in Seq(Nat \X Nat \X Nat) /\ start.typed \in BOOLEAN /\ start.length \in Nat
  BY StartsAssumption
<1>3. OfUGens(graph)
  BY <1>1, <1>2, StartGraphIs
<1>4. Fine(graph) /\ graph \in GraphType /\ Acyclic(graph) /\ \A n \in DOMAIN graph.nodes : graph.nodes[n].kind = "ugen"
  BY <1>3 DEF OfUGens, Fine
<1>5. DOMAIN graph.nodes = 1..Len(graph.nodes) /\ Len(graph.nodes) \in Nat
  BY <1>4, GraphParts
<1>6. \A n \in DOMAIN graph.nodes : handles[n] = NodeHandle(start.typed, n, graph.nodes[n])
  BY <1>1
<1>7. \A n \in DOMAIN graph.nodes : Fits(graph, handles[n])
  BY <1>2, <1>4, <1>6, NodeHandleFits
<1>8. \A n \in DOMAIN graph.nodes : handles[n] \in HandleType
  BY <1>7 DEF Fits
<1>9. DOMAIN handles = 1..Len(graph.nodes) /\ handles = [n \in 1..Len(graph.nodes) |-> handles[n]]
  BY <1>1, <1>5
<1>10. handles \in Seq(HandleType)
  BY <1>5, <1>8, <1>9
<1>. QED  BY <1>1, <1>2, <1>4, <1>5, <1>7, <1>9, <1>10 DEF HandlesInv

LEMMA InvHolds == Spec => []HandlesInv
<1>1. Init => HandlesInv
  BY InitHolds
<1>2. HandlesInv /\ [Next]_vars => HandlesInv'
  <2> SUFFICES ASSUME HandlesInv, [Next]_vars PROVE HandlesInv'
    OBVIOUS
  <2>1. CASE Next
    BY <2>1, NextKeeps, KeptKeepsInv
  <2>2. CASE UNCHANGED vars
    BY <2>2 DEF vars, HandlesInv
  <2>. QED  BY <2>1, <2>2
<1>. QED  BY <1>1, <1>2, PTL DEF Spec

LEMMA OutputsAre ==
  ASSUME HandlesInv
  PROVE  OutputsOf(graph) \subseteq Outputs /\ UserInputs(graph) \subseteq Inputs
<1> DEFINE ofNodes == UNION {{<<n, c>> : c \in 1..graph.nodes[n].outputs} : n \in Node}
           ofGraph == {<<0, c>> : c \in 1..GraphInputs}
<1>0. ofNodes \subseteq Outputs /\ ofGraph \subseteq Outputs
  <2>1. Outputs = ofNodes \cup ofGraph
    BY DEF Outputs
  <2>. HIDE DEF ofNodes, ofGraph
  <2>. QED  BY <2>1
<1>1. \A port \in Nat \X Nat : \E n, c \in Nat : port = <<n, c>>
  OBVIOUS
<1>2. ASSUME NEW n, NEW c, <<n, c>> \in OutputsOf(graph) PROVE <<n, c>> \in Outputs
  <2>2. CASE n = 0
    <3>1. c \in 1..GraphInputs
      BY <1>2, <2>2 DEF OutputsOf
    <3>2. <<n, c>> \in ofGraph
      BY <2>2, <3>1
    <3>. HIDE DEF ofGraph
    <3>. QED  BY <1>0, <3>2
  <2>3. CASE n # 0
    <3>1. n \in Node /\ c \in 1..graph.nodes[n].outputs
      BY <1>2, <2>3 DEF OutputsOf, Node
    <3>2. <<n, c>> \in {<<n, k>> : k \in 1..graph.nodes[n].outputs}
      BY <3>1
    <3>3. <<n, c>> \in ofNodes
      BY <3>1, <3>2, Zenon
    <3>. HIDE DEF ofNodes
    <3>. QED  BY <1>0, <3>3
  <2>. QED  BY <2>2, <2>3
<1>3. ASSUME NEW n, NEW c, <<n, c>> \in UserInputs(graph) PROVE <<n, c>> \in Inputs
  <2>1. n \in Node /\ c \in 1..graph.nodes[n].inputs
    BY <1>3 DEF UserInputs, Node
  <2>2. <<n, c>> \in {<<n, k>> : k \in 1..graph.nodes[n].inputs}
    BY <2>1
  <2>. QED  BY <2>1, <2>2, Zenon DEF Inputs
<1>4. OutputsOf(graph) \subseteq Nat \X Nat /\ UserInputs(graph) \subseteq Nat \X Nat
  BY DEF OutputsOf, UserInputs
<1>. QED  BY <1>1, <1>2, <1>3, <1>4

LEMMA InvImpliesTypeOK ==
  ASSUME HandlesInv
  PROVE  TypeOK
<1>1. Fine(graph) /\ graph \in GraphType /\ NamesOutputs(graph)
  BY SameGraph DEF Fine
<1>2. graph.required \in BOOLEAN /\ \A n \in Node : graph.nodes[n].state \in {"live", "freed", "sent", "removed"}
  BY <1>1, GraphParts DEF Node, NodeType
<1>3. \A s \in DOMAIN graph.heard : \A i \in DOMAIN graph.heard[s] :
        graph.heard[s][i].port \in Outputs /\ graph.heard[s][i].delayed \in BOOLEAN
  BY <1>1, EdgeParts, OutputsAre DEF NamesOutputs
<1>4. \A a \in DOMAIN handles : /\ ToSet(handles[a].outs) \subseteq Outputs
                                /\ ToSet(handles[a].ins) \subseteq Inputs
                                /\ handles[a].node \in Node \cup {0}
  <2> SUFFICES ASSUME NEW a \in DOMAIN handles
               PROVE  /\ ToSet(handles[a].outs) \subseteq Outputs
                      /\ ToSet(handles[a].ins) \subseteq Inputs
                      /\ handles[a].node \in Node \cup {0}
    OBVIOUS
  <2>1. Fits(graph, handles[a])
    BY HandleFits
  <2>2. /\ \A i \in DOMAIN handles[a].outs : handles[a].outs[i] \in Outputs
        /\ \A i \in DOMAIN handles[a].ins : handles[a].ins[i] \in Inputs
        /\ handles[a].node \in Node \cup {0}
    BY <2>1, OutputsAre DEF Fits, Node
  <2>. QED  BY <2>2 DEF ToSet
<1>. QED  BY <1>2, <1>3, <1>4 DEF TypeOK, HandlesInv

(* Types, and the channels that handles and edges name are those of nodes. *)
THEOREM HandlesTyped == Spec => []TypeOK
  BY InvHolds, InvImpliesTypeOK, PTL

(* No call makes a circle of edges that are heard in the same block:       *)
(* pairs that would are left out, one by one (has_path).                   *)
THEOREM NeverACircle == Spec => []Acyclic(graph)
<1>1. Init => Acyclic(graph)
  BY InitHolds
<1>2. HandlesInv /\ Acyclic(graph) /\ [Next]_vars => Acyclic(graph)'
  <2> SUFFICES ASSUME HandlesInv, Acyclic(graph), [Next]_vars PROVE Acyclic(graph)'
    OBVIOUS
  <2>1. CASE Next
    <3>1. Acyclic(graph')
      BY <2>1, NextKeeps DEF Kept, Keeps
    <3>. QED  BY <3>1 DEF Acyclic, Sources, InputSinks
  <2>2. CASE UNCHANGED vars
    <3>1. graph' = graph
      BY <2>2 DEF vars
    <3>2. Acyclic(graph')
      BY <3>1
    <3>. QED  BY <3>2 DEF Acyclic, Sources, InputSinks
  <2>. QED  BY <2>1, <2>2
<1>. QED  BY <1>1, <1>2, InvHolds, PTL DEF Spec
-----------------------------------------------------------------------------
(***************************************************************************)
(* What is connected of some pairs.                                        *)
(***************************************************************************)
Joins(r, next, pair, how) ==
  /\ r.outcome = "ok" /\ next.outcome = "ok"
  /\ Input(pair[2]) \in DOMAIN r.graph.heard
  /\ next.graph = JoinedPair(r.graph, pair, how)
Refuses(r, next, pair, how) ==
  /\ r.outcome = "ok" /\ next.outcome = IF how.on_error = "log" THEN "ok" ELSE how.on_error
  /\ next.graph = r.graph
  /\ pair[1][1] # 0 /\ HasPath(r.graph, pair[2][1], pair[1][1])
Ends(r, next) ==
  /\ next.outcome # "ok" /\ next.graph = r.graph
  /\ IF r.outcome = "ok" THEN next.outcome = "panic" ELSE next = r

Runs(g, pairs, how, after) ==
  /\ after[0] = Result(g, "ok")
  /\ ConnectPairs(g, pairs, how) = after[Len(pairs)]
  /\ \A i \in 0..Len(pairs) : /\ Connected(g, after[i].graph)
                              /\ after[i].outcome \in {"ok", "panic", how.on_error}
  /\ \A i \in 1..Len(pairs) : \/ Joins(after[i - 1], after[i], pairs[i], how)
                              \/ Refuses(after[i - 1], after[i], pairs[i], how)
                              \/ Ends(after[i - 1], after[i])

LEMMA NextRuns ==
  ASSUME NEW r, Fine(r.graph), NEW pair, pair[1] \in OutputsOf(r.graph), pair[2] \in UserInputs(r.graph),
         NEW how \in HowType
  PROVE  LET next == ConnectNext(r, pair, how)
         IN  Joins(r, next, pair, how) \/ Refuses(r, next, pair, how) \/ Ends(r, next)
<1> DEFINE c == Connect2(r.graph, pair[1], pair[2], how)
           next == ConnectNext(r, pair, how)
<1>1. /\ c.outcome \in {"ok", "error", "panic"}
      /\ c.outcome # "ok" => c.graph = r.graph
      /\ c.outcome = "ok" => Input(pair[2]) \in DOMAIN r.graph.heard /\ c.graph = JoinedPair(r.graph, pair, how)
      /\ c.outcome = "error" => \/ pair[1][1] = 0 /\ pair[1][2] > GraphInputs
                                \/ pair[2][1] = 0 /\ pair[2][2] > GraphOutputs
                                \/ pair[1][1] # 0 /\ pair[2][1] # 0 /\ HasPath(r.graph, pair[2][1], pair[1][1])
  <2>1. OutcomeOf(r.graph, pair, how, c)
    BY Connect2Is
  <2>. HIDE DEF c
  <2>. QED  BY <2>1 DEF OutcomeOf
<1>2. next = IF r.outcome # "ok" THEN r
             ELSE IF c.outcome = "error" /\ how.on_error = "log" THEN r
             ELSE IF c.outcome = "error" THEN Result(r.graph, how.on_error) ELSE c
  BY DEF ConnectNext
<1>3. Result(r.graph, how.on_error).graph = r.graph /\ Result(r.graph, how.on_error).outcome = how.on_error
  BY DEF Result
<1>4. ~ (pair[1][1] = 0 /\ pair[1][2] > GraphInputs) /\ pair[2][1] # 0
  <2>1. pair[1][1] = 0 => pair[1][2] \in 1..GraphInputs
    BY DEF OutputsOf
  <2>2. pair[2][1] \in DOMAIN r.graph.nodes /\ r.graph \in GraphType
    BY DEF UserInputs, Fine
  <2>3. pair[2][1] # 0
    BY <2>2, GraphParts
  <2>. QED  BY <2>1, <2>3, GraphAssumption
<1>. HIDE DEF c, next
<1>5. "ok" # "error" /\ "ok" # "panic" /\ "error" # "panic"
  OBVIOUS
<1>6. ASSUME r.outcome # "ok" PROVE Ends(r, next)
  BY <1>2, <1>6 DEF Ends
<1>7. ASSUME r.outcome = "ok", c.outcome = "ok" PROVE Joins(r, next, pair, how)
  BY <1>1, <1>2, <1>5, <1>7 DEF Joins
<1>8. ASSUME r.outcome = "ok", c.outcome = "error" PROVE Refuses(r, next, pair, how)
  BY <1>1, <1>2, <1>3, <1>4, <1>5, <1>8 DEF Refuses
<1>9. ASSUME r.outcome = "ok", c.outcome = "panic" PROVE Ends(r, next)
  BY <1>1, <1>2, <1>5, <1>9 DEF Ends
<1>10. Joins(r, next, pair, how) \/ Refuses(r, next, pair, how) \/ Ends(r, next)
  BY <1>1, <1>6, <1>7, <1>8, <1>9
<1>. QED  BY <1>10 DEF next

LEMMA PairsRun ==
  ASSUME NEW g, Fine(g), NEW pairs, DOMAIN pairs = 1..Len(pairs), Len(pairs) \in Nat,
         \A i \in DOMAIN pairs : MayConnect(g, pairs[i]) /\ pairs[i][2] \in UserInputs(g),
         NEW how \in HowType
  PROVE  \E after : Runs(g, pairs, how, after)
<1>1. PICK after : Steps(g, pairs, how, after) /\ StepsKeep(g, pairs, how, after)
  BY PairsSteps
<1>2. /\ after[0] = Result(g, "ok") /\ ConnectPairs(g, pairs, how) = after[Len(pairs)]
      /\ \A i \in 0..Len(pairs) : /\ Connected(g, after[i].graph)
                                  /\ after[i].outcome \in {"ok", "panic", how.on_error}
  BY <1>1 DEF Steps, StepsKeep
<1>3. ASSUME NEW i \in 1..Len(pairs)
      PROVE  \/ Joins(after[i - 1], after[i], pairs[i], how)
             \/ Refuses(after[i - 1], after[i], pairs[i], how)
             \/ Ends(after[i - 1], after[i])
  <2>1. i - 1 \in 0..Len(pairs) /\ i \in DOMAIN pairs
    OBVIOUS
  <2>2. after[i] = ConnectNext(after[i - 1], pairs[i], how)
    BY <1>1 DEF Steps
  <2>3. Fine(after[i - 1].graph) /\ after[i - 1].graph.nodes = g.nodes
    BY <1>2, <2>1 DEF Connected, Keeps
  <2>4. pairs[i][1] \in OutputsOf(after[i - 1].graph) /\ pairs[i][2] \in UserInputs(after[i - 1].graph)
    BY <2>1, <2>3, SameNodes DEF MayConnect, UserInputs
  <2>. QED  BY <2>2, <2>3, <2>4, NextRuns
<1>4. Runs(g, pairs, how, after)
  BY <1>2, <1>3 DEF Runs
<1>. QED  BY <1>4

(* What the sink is given by the first pairs. *)
ChosenTo(pairs, I, s, chosen) ==
  /\ chosen[0] = <<>>
  /\ \A i \in 0..Len(pairs) : chosen[i] \in Seq(EdgeType)
  /\ \A i \in 1..Len(pairs) :
       chosen[i] = IF i \in I /\ Input(pairs[i][2]) = s THEN Append(chosen[i - 1], Edge(pairs[i][1], FALSE))
                   ELSE chosen[i - 1]
  /\ Chosen(pairs, I, s) = chosen[Len(pairs)]

LEMMA ChosenSteps ==
  ASSUME NEW pairs, DOMAIN pairs = 1..Len(pairs), Len(pairs) \in Nat,
         \A i \in DOMAIN pairs : pairs[i][1] \in Nat \X Nat, NEW I, NEW s
  PROVE  \E chosen : ChosenTo(pairs, I, s, chosen)
<1> DEFINE V == Seq(EdgeType)
           N == Len(pairs)
           One(l, i) == IF i \in I /\ Input(pairs[i][2]) = s THEN Append(l, Edge(pairs[i][1], FALSE)) ELSE l
           step == [x \in V \X Nat |-> IF x[2] \in 1..N THEN One(x[1], x[2]) ELSE x[1]]
           places == [i \in DOMAIN pairs |-> i]
           Equation(f) == f = [q \in SUBSET DOMAIN places |->
                                 IF q = {} THEN <<>> ELSE One(f[q \ {Max(q)}], places[Max(q)])]
           iter == CHOOSE f : Equation(f)
<1>1. ASSUME NEW l \in V, NEW i \in 1..N PROVE One(l, i) \in V
  <2>1. pairs[i][1] \in Nat \X Nat /\ FALSE \in BOOLEAN
    OBVIOUS
  <2> DEFINE edge == Edge(pairs[i][1], FALSE)
  <2>2. edge \in EdgeType
    BY <2>1 DEF Edge, EdgeType
  <2>. HIDE DEF edge
  <2>3. Append(l, edge) \in V
    BY <2>2
  <2>. QED  BY <2>3 DEF edge
<1>2. <<>> \in V
  OBVIOUS
<1>. HIDE DEF V, One
<1>3. /\ \A l \in V : \A i \in Nat : step[<<l, i>>] \in V
      /\ \A l \in V : \A i \in 1..N : step[<<l, i>>] = One(l, i)
  <2>1. \A i \in 1..N : i \in Nat
    OBVIOUS
  <2>2. \A l \in V : \A i \in Nat : step[<<l, i>>] = IF i \in 1..N THEN One(l, i) ELSE l
    OBVIOUS
  <2>. HIDE DEF step
  <2>. QED  BY <1>1, <2>1, <2>2
<1>4. PICK f : Folds(f, V, <<>>, step, N)
  <2>. HIDE DEF step
  <2>. QED  BY <1>2, <1>3, FoldExists
<1>5. \A q \in SUBSET (1..N) : q # {} => Max(q) \in 1..N /\ q \ {Max(q)} \in SUBSET (1..N)
  BY MaxOfSome
<1>6. DOMAIN places = 1..N /\ \A i \in 1..N : places[i] = i
  OBVIOUS
<1>7. Equation(f)
  <2>1. f = [q \in SUBSET (1..N) |-> f[q]] /\ \A q \in SUBSET (1..N) : f[q] \in V
    BY <1>4 DEF Folds
  <2>2. ASSUME NEW q \in SUBSET (1..N)
        PROVE  f[q] = IF q = {} THEN <<>> ELSE One(f[q \ {Max(q)}], Max(q))
    <3>1. f[q] = IF q = {} THEN <<>> ELSE step[<<f[q \ {Max(q)}], Max(q)>>]
      <4>. HIDE DEF step
      <4>. QED  BY <1>4 DEF Folds
    <3>. HIDE DEF step
    <3>. QED  BY <1>3, <1>5, <2>1, <3>1
  <2>3. \A q \in SUBSET (1..N) : q # {} => places[Max(q)] = Max(q)
    <3>. HIDE DEF places
    <3>. QED  BY <1>6, <1>5
  <2>. HIDE DEF step, places
  <2>. QED  BY <1>6, <2>1, <2>2, <2>3
<1>8. Equation(iter)
  <2>. HIDE DEF Equation
  <2>. QED  BY <1>7
<1>9. Chosen(pairs, I, s) = iter[DOMAIN places]
  BY DEF Chosen, FoldLeftDomain, FoldLeft, MapThenFoldSet, One
<1>. HIDE DEF iter, places
<1>10. \A q \in SUBSET (1..N) : iter[q] = IF q = {} THEN <<>> ELSE One(iter[q \ {Max(q)}], places[Max(q)])
  BY <1>6, <1>8
<1>. HIDE DEF Equation
<1>11. \A q \in SUBSET (1..N) : q # {} => iter[q] = One(iter[q \ {Max(q)}], Max(q))
  <2> SUFFICES ASSUME NEW q \in SUBSET (1..N), q # {} PROVE iter[q] = One(iter[q \ {Max(q)}], Max(q))
    OBVIOUS
  <2>1. Max(q) \in 1..N
    BY <1>5
  <2>2. places[Max(q)] = Max(q)
    BY <1>6, <2>1
  <2>3. iter[q] = One(iter[q \ {Max(q)}], places[Max(q)])
    BY <1>10
  <2>. QED  BY <2>2, <2>3
<1>12. iter[{}] = <<>>
  BY <1>10
<1>. HIDE DEF Equation
<1> DEFINE chosen == [i \in 0..N |-> iter[1..i]]
<1>13. \A i \in 0..N : i \in Nat /\ 1..i \in SUBSET (1..N) /\ chosen[i] = iter[1..i]
  OBVIOUS
<1>14. chosen[0] = <<>> /\ chosen[N] = iter[1..N]
  <2>1. 1..0 = {} /\ 0 \in 0..N /\ N \in 0..N
    OBVIOUS
  <2>. HIDE DEF chosen
  <2>. QED  BY <1>12, <1>13, <2>1
<1>15. ASSUME NEW i \in 1..N PROVE chosen[i] = One(chosen[i - 1], i)
  <2>1. i \in Nat /\ i # 0 /\ i \in 0..N /\ i - 1 \in 0..N
    OBVIOUS
  <2>2. Max(1..i) = i /\ (1..i) \ {i} = 1..(i - 1) /\ 1..i # {}
    BY <2>1, MaxOfPlaces
  <2>. HIDE DEF chosen
  <2>3. iter[1..i] = One(iter[1..(i - 1)], i)
    BY <1>11, <1>13, <2>1, <2>2
  <2>. QED  BY <1>13, <2>1, <2>3
<1>. HIDE DEF chosen
<1> DEFINE S == {i \in Nat : i <= N => chosen[i] \in V}
<1>16. 0 \in S
  BY <1>2, <1>14
<1>17. ASSUME NEW i \in Nat, i \in S PROVE i + 1 \in S
  <2> SUFFICES ASSUME i + 1 <= N PROVE chosen[i + 1] \in V
    OBVIOUS
  <2>1. i + 1 \in 1..N /\ i + 1 - 1 = i /\ chosen[i] \in V
    BY <1>17
  <2>. QED  BY <1>1, <1>15, <2>1
<1>18. Nat \subseteq S
  <2>. HIDE DEF S
  <2>. QED  BY <1>16, <1>17, SetInduction
<1>19. \A i \in 0..N : chosen[i] \in V
  BY <1>18
<1>20. ChosenTo(pairs, I, s, chosen)
  BY <1>6, <1>9, <1>14, <1>15, <1>19 DEF ChosenTo, One, V
<1>. QED  BY <1>20
-----------------------------------------------------------------------------
(* A graph in which every sink hears at least what it does in another. *)
MoreHeard(g, h) ==
  /\ h.nodes = g.nodes /\ DOMAIN h.heard = DOMAIN g.heard
  /\ \A s \in DOMAIN g.heard : \A m : Feeds(g, s, m) => Feeds(h, s, m)

LEMMA MoreHeardTrans ==
  ASSUME NEW f, NEW g, NEW h, MoreHeard(f, g), MoreHeard(g, h)
  PROVE  MoreHeard(f, h)
  BY DEF MoreHeard

(* The graph h that joining a pair by an edge leaves. *)
JoinedBy(g, pair, how, h, edge) ==
  /\ how.additive => MoreHeard(g, h)
  /\ edge \in EdgeType /\ edge.port = pair[1]
  /\ \A s \in DOMAIN g.heard : s # Input(pair[2]) => h.heard[s] = g.heard[s]
  /\ h.heard[Input(pair[2])] = IF how.additive THEN Append(g.heard[Input(pair[2])], edge) ELSE <<edge>>

LEMMA JoinedPairHeard ==
  ASSUME NEW g, Fine(g), NEW pair, pair[1] \in Nat \X Nat, Input(pair[2]) \in DOMAIN g.heard,
         NEW how \in HowType
  PROVE  JoinedBy(g, pair, how, JoinedPair(g, pair, how), Edge(pair[1], Delayed(pair, how)))
<1> DEFINE h == JoinedPair(g, pair, how)
           edge == Edge(pair[1], Delayed(pair, how))
           sink == Input(pair[2])
           additive == how.additive
<1>1. g \in GraphType /\ additive \in BOOLEAN /\ how.feedback \in BOOLEAN
  BY DEF Fine, HowType
<1>2. Delayed(pair, how) \in BOOLEAN
  BY DEF Delayed
<1>3. edge \in EdgeType /\ edge.port = pair[1]
  BY <1>2, EdgeIs
<1>4. h = Joined(g, sink, edge, additive)
  BY DEF JoinedPair
<1>. HIDE DEF h, edge, sink, additive
<1>5. sink \in DOMAIN g.heard
  BY DEF sink
<1>6. /\ h.nodes = g.nodes /\ DOMAIN h.heard = DOMAIN g.heard
      /\ \A t \in DOMAIN g.heard : t # sink => h.heard[t] = g.heard[t]
      /\ h.heard[sink] = IF additive THEN Append(g.heard[sink], edge) ELSE <<edge>>
  BY <1>1, <1>3, <1>4, <1>5, JoinedIs
<1>7. additive => MoreHeard(g, h)
  <2> SUFFICES ASSUME additive PROVE MoreHeard(g, h)
    OBVIOUS
  <2>1. \A m : Feeds(g, sink, m) => Feeds(h, sink, m)
    BY <1>1, <1>3, <1>5, <1>6, JoinedFeeds
  <2>2. ASSUME NEW s \in DOMAIN g.heard, NEW m, Feeds(g, s, m) PROVE Feeds(h, s, m)
    BY <1>6, <2>1, <2>2 DEF Feeds
  <2>. QED  BY <1>6, <2>2 DEF MoreHeard
<1>8. JoinedBy(g, pair, how, h, edge)
  BY <1>3, <1>6, <1>7 DEF JoinedBy, sink, additive
<1>. QED  BY <1>8 DEF h, edge

(* Later graphs of an additive run hear what earlier ones do. *)
LEMMA RunHears ==
  ASSUME NEW g, Fine(g), NEW pairs, Len(pairs) \in Nat,
         \A i \in 1..Len(pairs) : pairs[i][1] \in Nat \X Nat,
         NEW how \in HowType, how.additive, NEW after, Runs(g, pairs, how, after)
  PROVE  \A i \in 0..Len(pairs) : MoreHeard(after[i].graph, after[Len(pairs)].graph)
<1> DEFINE N == Len(pairs)
           S == {d \in Nat : d <= N => MoreHeard(after[N - d].graph, after[N].graph)}
<1>1. 0 \in S
  <2>1. N - 0 = N
    OBVIOUS
  <2>2. MoreHeard(after[N].graph, after[N].graph)
    BY DEF MoreHeard
  <2>. QED  BY <2>1, <2>2
<1>2. ASSUME NEW d \in Nat, d \in S PROVE d + 1 \in S
  <2> SUFFICES ASSUME d + 1 <= N PROVE MoreHeard(after[N - (d + 1)].graph, after[N].graph)
    OBVIOUS
  <2> DEFINE i == N - d
  <2>1. i \in 1..N /\ N - (d + 1) = i - 1 /\ i - 1 \in 0..N /\ MoreHeard(after[i].graph, after[N].graph)
    BY <1>2
  <2>. HIDE DEF i, N
  <2>2. Fine(after[i - 1].graph)
    BY <2>1 DEF Runs, Connected, Keeps, N
  <2>3. MoreHeard(after[i - 1].graph, after[i].graph)
    <3>1. CASE Joins(after[i - 1], after[i], pairs[i], how)
      <4>1. Input(pairs[i][2]) \in DOMAIN after[i - 1].graph.heard
            /\ after[i].graph = JoinedPair(after[i - 1].graph, pairs[i], how)
        BY <3>1 DEF Joins
      <4>2. pairs[i][1] \in Nat \X Nat
        BY <2>1 DEF N
      <4>. QED  BY <2>2, <4>1, <4>2, JoinedPairHeard DEF JoinedBy
    <3>2. CASE after[i].graph = after[i - 1].graph
      BY <3>2 DEF MoreHeard
    <3>. QED  BY <2>1, <3>1, <3>2 DEF Runs, Refuses, Ends, N
  <2>. QED  BY <2>1, <2>3, MoreHeardTrans
<1>3. Nat \subseteq S
  <2>. HIDE DEF S
  <2>. QED  BY <1>1, <1>2, SetInduction
<1>4. ASSUME NEW i \in 0..N PROVE MoreHeard(after[i].graph, after[N].graph)
  <2>1. N - i \in S /\ N - i <= N /\ N - (N - i) = i
    BY <1>3
  <2>. QED  BY <2>1
<1>. QED  BY <1>4

(* One more edge. *)
LEMMA ExtendedIs ==
  ASSUME NEW g, g \in GraphType, NEW sink, NEW port
  PROVE  LET e == Extended(g, sink, Edge(port, FALSE))
         IN  /\ e.nodes = g.nodes
             /\ DOMAIN e.heard = DOMAIN g.heard \cup {sink}
             /\ \A s \in DOMAIN g.heard : \A m : Feeds(g, s, m) => Feeds(e, s, m)
             /\ port[1] # 0 => Feeds(e, sink, port[1])
<1> DEFINE edge == Edge(port, FALSE)
           heard == [s \in DOMAIN g.heard \cup {sink} |->
                       IF s # sink THEN g.heard[s]
                       ELSE IF s \in DOMAIN g.heard THEN Append(g.heard[s], edge) ELSE <<edge>>]
           e == Extended(g, sink, edge)
<1>1. g = [nodes |-> g.nodes, required |-> g.required, heard |-> g.heard]
  BY GraphParts
<1>2. e = [g EXCEPT !.heard = heard]
  BY DEF Extended
<1>3. edge.port = port /\ edge.delayed = FALSE
  BY EdgeIs
<1>4. /\ DOMAIN heard = DOMAIN g.heard \cup {sink}
      /\ \A s \in DOMAIN g.heard : s # sink => heard[s] = g.heard[s]
      /\ heard[sink] = IF sink \in DOMAIN g.heard THEN Append(g.heard[sink], edge) ELSE <<edge>>
  OBVIOUS
<1>. HIDE DEF heard, e, edge
<1>5. e.nodes = g.nodes /\ e.heard = heard
  BY <1>1, <1>2
<1>6. ASSUME sink \in DOMAIN g.heard
      PROVE  /\ DOMAIN g.heard[sink] \subseteq DOMAIN e.heard[sink]
             /\ \A i \in DOMAIN g.heard[sink] : e.heard[sink][i] = g.heard[sink][i]
             /\ \E i \in DOMAIN e.heard[sink] : e.heard[sink][i] = edge
  <2>1. g.heard[sink] \in Seq(EdgeType)
    BY <1>6, EdgeParts
  <2>2. e.heard[sink] = Append(g.heard[sink], edge)
    BY <1>4, <1>5, <1>6
  <2> DEFINE before == g.heard[sink]
             after == Append(before, edge)
  <2>. HIDE DEF before
  <2>3. before \in Seq(EdgeType)
    BY <2>1 DEF before
  <2>4. /\ DOMAIN before \subseteq DOMAIN after
        /\ \A i \in DOMAIN before : after[i] = before[i]
        /\ Len(before) + 1 \in DOMAIN after /\ after[Len(before) + 1] = edge
    BY <2>3
  <2>. QED  BY <2>2, <2>4 DEF before
<1>7. ASSUME sink \notin DOMAIN g.heard
      PROVE  \E i \in DOMAIN e.heard[sink] : e.heard[sink][i] = edge
  <2>1. e.heard[sink] = <<edge>>
    BY <1>4, <1>5, <1>7
  <2>2. DOMAIN <<edge>> = {1} /\ <<edge>>[1] = edge
    OBVIOUS
  <2>. QED  BY <2>1, <2>2
<1>8. \A s \in DOMAIN g.heard : \A m : Feeds(g, s, m) => Feeds(e, s, m)
  <2> SUFFICES ASSUME NEW s \in DOMAIN g.heard, NEW m, Feeds(g, s, m) PROVE Feeds(e, s, m)
    OBVIOUS
  <2>1. CASE s # sink
    BY <1>4, <1>5, <2>1 DEF Feeds
  <2>2. CASE s = sink
    BY <1>6, <2>2 DEF Feeds
  <2>. QED  BY <2>1, <2>2
<1>9. port[1] # 0 => Feeds(e, sink, port[1])
  BY <1>3, <1>6, <1>7 DEF Feeds
<1>. QED  BY <1>4, <1>5, <1>8, <1>9 DEF e, edge

(* A pair that was left out would have made a circle. *)
LEMMA RefusedCloses ==
  ASSUME NEW g, Fine(g), NEW h, Fine(h), MoreHeard(g, h),
         NEW pair, pair[1] \in OutputsOf(g), pair[2] \in UserInputs(g),
         pair[1][1] # 0, HasPath(g, pair[2][1], pair[1][1])
  PROVE  Closes(h, pair)
<1> DEFINE n == pair[1][1]
           x == pair[2][1]
           sink == Input(pair[2])
           e == Extended(h, sink, Edge(pair[1], FALSE))
<1>1. n \in DOMAIN g.nodes /\ x \in Upstream(g, n)
  BY DEF OutputsOf, HasPath
<1>2. PICK S : Path(g, S, x, n)
  BY <1>1, UpstreamOnPath
<1>3. sink[1] = "input" /\ sink[2] = x
  BY SinkIs
<1>. HIDE DEF sink
<1>4. /\ e.nodes = h.nodes
      /\ DOMAIN e.heard = DOMAIN h.heard \cup {sink}
      /\ \A s \in DOMAIN h.heard : \A m : Feeds(h, s, m) => Feeds(e, s, m)
      /\ Feeds(e, sink, n)
  BY ExtendedIs DEF Fine
<1>. HIDE DEF e, x, n
<1>5. ASSUME NEW k PROVE SourcesOf(g, k) \subseteq SourcesOf(e, k)
  <2> SUFFICES ASSUME NEW m \in SourcesOf(g, k) PROVE m \in SourcesOf(e, k)
    OBVIOUS
  <2>1. PICK s \in DOMAIN g.heard : s[1] = "input" /\ s[2] = k /\ Feeds(g, s, m)
    BY SourcesOfAre
  <2>2. s \in DOMAIN e.heard /\ Feeds(e, s, m)
    BY <1>4, <2>1 DEF MoreHeard
  <2>. QED  BY <2>1, <2>2, SourcesOfAre
<1>6. n \in SourcesOf(e, x)
  BY <1>3, <1>4, SourcesOfAre
<1>7. DOMAIN g.nodes \subseteq DOMAIN e.nodes
  BY <1>4 DEF MoreHeard
<1>8. ~ Acyclic(e)
  BY <1>2, <1>5, <1>6, <1>7, PathCloses
<1>. QED  BY <1>8 DEF Closes, e, sink
-----------------------------------------------------------------------------
(* The results are "ok" as far as the first that is not, which is the last. *)
OkTo(after, m) == \A i \in 0..m : after[i].outcome = "ok"
StopsAt(after, m, k) ==
  /\ m \in 1..k
  /\ OkTo(after, m - 1)
  /\ after[m].outcome # "ok"
  /\ after[k] = after[m]

LEMMA RunStops ==
  ASSUME NEW g, NEW pairs, Len(pairs) \in Nat, NEW how, NEW after, Runs(g, pairs, how, after)
  PROVE  \A k \in 0..Len(pairs) : OkTo(after, k) \/ \E m \in 1..k : StopsAt(after, m, k)
<1> DEFINE N == Len(pairs)
           S == {k \in Nat : k <= N => OkTo(after, k) \/ \E m \in 1..k : StopsAt(after, m, k)}
<1>1. 0 \in S
  <2>1. after[0].outcome = "ok"
    BY DEF Runs, Result
  <2>2. 0..0 = {0}
    OBVIOUS
  <2>. QED  BY <2>1, <2>2 DEF OkTo
<1>2. ASSUME NEW k \in Nat, k \in S PROVE k + 1 \in S
  <2> SUFFICES ASSUME k + 1 <= N
               PROVE  OkTo(after, k + 1) \/ \E m \in 1..(k + 1) : StopsAt(after, m, k + 1)
    OBVIOUS
  <2> DEFINE j == k + 1
  <2>1. j \in 1..N /\ j - 1 = k /\ j \in 1..j /\ 0..j = 0..k \cup {j} /\ 1..k \subseteq 1..j
    OBVIOUS
  <2>2. \/ Joins(after[k], after[j], pairs[j], how)
        \/ Refuses(after[k], after[j], pairs[j], how)
        \/ Ends(after[k], after[j])
    <3>. HIDE DEF j
    <3>. QED  BY <2>1 DEF Runs, N
  <2>. HIDE DEF j
  <2>3. CASE OkTo(after, k)
    <3>1. CASE after[j].outcome = "ok"
      BY <2>1, <2>3, <3>1 DEF OkTo, j
    <3>2. CASE after[j].outcome # "ok"
      <4>1. StopsAt(after, j, j)
        BY <2>1, <2>3, <3>2 DEF StopsAt
      <4>. QED  BY <2>1, <4>1 DEF j
    <3>. QED  BY <3>1, <3>2
  <2>4. CASE \E m \in 1..k : StopsAt(after, m, k)
    <3>1. PICK m \in 1..k : StopsAt(after, m, k)
      BY <2>4
    <3>2. after[k].outcome # "ok"
      BY <3>1 DEF StopsAt
    <3>3. after[j] = after[k]
      BY <2>2, <3>2 DEF Joins, Refuses, Ends
    <3>4. StopsAt(after, m, j)
      BY <2>1, <3>1, <3>3 DEF StopsAt
    <3>. QED  BY <2>1, <3>4 DEF j
  <2>5. OkTo(after, k) \/ \E m \in 1..k : StopsAt(after, m, k)
    BY <1>2
  <2>. QED  BY <2>3, <2>4, <2>5
<1>3. Nat \subseteq S
  <2>. HIDE DEF S
  <2>. QED  BY <1>1, <1>2, SetInduction
<1>. QED  BY <1>3

(* What every sink has heard of the pairs that were joined. *)
JoinedOf(pairs, how, after) == {i \in 1..Len(pairs) : Joins(after[i - 1], after[i], pairs[i], how)}

LEMMA AppendToSum ==
  \A x, y \in Seq(EdgeType) : \A e \in EdgeType : Append(x \o y, e) = x \o Append(y, e)
  OBVIOUS

AddingRun(g, pairs, how, after) ==
  /\ Fine(g) /\ DOMAIN pairs = 1..Len(pairs) /\ Len(pairs) \in Nat
  /\ \A i \in DOMAIN pairs : pairs[i][1] \in Nat \X Nat
  /\ how \in HowType /\ how.additive = TRUE /\ how.feedback = FALSE
  /\ Runs(g, pairs, how, after)

LEMMA HeardSoFar ==
  ASSUME NEW g, NEW pairs, NEW how, NEW after, AddingRun(g, pairs, how, after),
         NEW s \in DOMAIN g.heard, NEW chosen, ChosenTo(pairs, JoinedOf(pairs, how, after), s, chosen)
  PROVE  after[Len(pairs)].graph.heard[s] = g.heard[s] \o Chosen(pairs, JoinedOf(pairs, how, after), s)
<1> DEFINE N == Len(pairs)
           I == JoinedOf(pairs, how, after)
           At(k) == after[k].graph.heard[s] = g.heard[s] \o chosen[k]
           S == {k \in Nat : k <= N => At(k)}
<1>. /\ Fine(g) /\ DOMAIN pairs = 1..Len(pairs) /\ Len(pairs) \in Nat
     /\ \A i \in 1..Len(pairs) : pairs[i][1] \in Nat \X Nat
     /\ how \in HowType /\ how.additive = TRUE /\ how.feedback = FALSE
     /\ Runs(g, pairs, how, after)
  BY DEF AddingRun
<1>0. g.heard[s] \in Seq(EdgeType)
  BY EdgeParts DEF Fine
<1>1. 0 \in S
  <2>1. after[0].graph = g /\ chosen[0] = <<>>
    BY DEF Runs, Result, ChosenTo
  <2>2. g.heard[s] \o <<>> = g.heard[s]
    <3> DEFINE x == g.heard[s]
    <3>1. x \in Seq(EdgeType)
      BY <1>0
    <3>. HIDE DEF x
    <3>2. x \o <<>> = x
      BY <3>1
    <3>. QED  BY <3>2 DEF x
  <2>3. At(0)
    BY <2>1, <2>2
  <2>. HIDE DEF At
  <2>. QED  BY <2>3
<1>2. ASSUME NEW k \in Nat, k \in S PROVE k + 1 \in S
  <2> HIDE DEF At
  <2> SUFFICES ASSUME k + 1 <= N PROVE At(k + 1)
    OBVIOUS
  <2> DEFINE j == k + 1
             f == after[k].graph
             pair == pairs[j]
             edge == Edge(pair[1], FALSE)
             x == g.heard[s]
             y == chosen[k]
  <2>1. j \in 1..N /\ j - 1 = k /\ k \in 0..N
    OBVIOUS
  <2>0. At(k)
    BY <1>2, <2>1
  <2>2. f.heard[s] = x \o y
    BY <2>0 DEF At
  <2>. HIDE DEF j, f, x, y, edge
  <2>3. Fine(f) /\ DOMAIN f.heard = DOMAIN g.heard
    BY <2>1 DEF Runs, Connected, Keeps, f, N
  <2>4. /\ x \in Seq(EdgeType) /\ y \in Seq(EdgeType)
        /\ chosen[j] = IF j \in I /\ Input(pair[2]) = s THEN Append(y, edge) ELSE y
    BY <1>0, <2>1 DEF ChosenTo, x, y, N, edge
  <2>5. ASSUME j \in I PROVE At(j)
    <3>1. Joins(after[k], after[j], pair, how)
      BY <2>1, <2>5 DEF JoinedOf
    <3>2. Input(pair[2]) \in DOMAIN f.heard /\ after[j].graph = JoinedPair(f, pair, how)
      BY <3>1 DEF Joins, f
    <3>3. pair[1] \in Nat \X Nat
      BY <2>1 DEF N
    <3>4. Delayed(pair, how) = FALSE
      BY DEF Delayed
    <3>0. JoinedBy(f, pair, how, after[j].graph, edge)
      BY <2>3, <3>2, <3>3, <3>4, JoinedPairHeard DEF edge
    <3>5. /\ \A t \in DOMAIN f.heard : t # Input(pair[2]) => after[j].graph.heard[t] = f.heard[t]
          /\ after[j].graph.heard[Input(pair[2])] = Append(f.heard[Input(pair[2])], edge)
          /\ edge \in EdgeType
      BY <3>0 DEF JoinedBy
    <3>6. CASE Input(pair[2]) = s
      <4>1. after[j].graph.heard[s] = Append(x \o y, edge) /\ chosen[j] = Append(y, edge)
        BY <2>2, <2>4, <2>5, <3>5, <3>6
      <4>2. x \in Seq(EdgeType) /\ y \in Seq(EdgeType) /\ edge \in EdgeType
        BY <2>4, <3>5
      <4>3. Append(x \o y, edge) = x \o Append(y, edge)
        BY <4>2, AppendToSum, Zenon
      <4>. QED  BY <4>1, <4>3 DEF x, At
    <3>7. CASE Input(pair[2]) # s
      <4>1. after[j].graph.heard[s] = x \o y /\ chosen[j] = y
        BY <2>2, <2>3, <2>4, <3>5, <3>7
      <4>. QED  BY <4>1 DEF x, At
    <3>. QED  BY <3>6, <3>7
  <2>6. ASSUME j \notin I PROVE At(j)
    <3>1. after[j].graph = f
      BY <2>1, <2>6 DEF JoinedOf, Runs, Refuses, Ends, f, N
    <3>2. chosen[j] = y
      BY <2>4, <2>6
    <3>. QED  BY <2>2, <3>1, <3>2 DEF x, At
  <2>7. At(j)
    BY <2>5, <2>6
  <2>. QED  BY <2>7 DEF j
<1>3. Nat \subseteq S
  <2>. HIDE DEF S
  <2>. QED  BY <1>1, <1>2, SetInduction
<1>4. At(N)
  <2>. HIDE DEF At
  <2>. QED  BY <1>3
<1>. QED  BY <1>4 DEF ChosenTo

(* What a run adds to a graph. *)
AddsFrom(g, h, pairs, I) ==
  /\ \A i \in I : Input(pairs[i][2]) \in DOMAIN g.heard
  /\ \A s \in DOMAIN g.heard : h.heard[s] = g.heard[s] \o Chosen(pairs, I, s)

LEMMA RunAdds ==
  ASSUME NEW g, NEW pairs, NEW how, NEW after, AddingRun(g, pairs, how, after)
  PROVE  AddsFrom(g, after[Len(pairs)].graph, pairs, JoinedOf(pairs, how, after))
<1>1. ASSUME NEW i \in JoinedOf(pairs, how, after) PROVE Input(pairs[i][2]) \in DOMAIN g.heard
  <2>1. i \in 1..Len(pairs) /\ i - 1 \in 0..Len(pairs) /\ Joins(after[i - 1], after[i], pairs[i], how)
    BY DEF JoinedOf, AddingRun
  <2>. QED  BY <2>1 DEF Joins, Runs, Connected, AddingRun
<1>2. \A I, s : \E chosen : ChosenTo(pairs, I, s, chosen)
  BY ChosenSteps DEF AddingRun
<1>3. ASSUME NEW s \in DOMAIN g.heard
      PROVE  after[Len(pairs)].graph.heard[s] = g.heard[s] \o Chosen(pairs, JoinedOf(pairs, how, after), s)
  <2>1. PICK chosen : ChosenTo(pairs, JoinedOf(pairs, how, after), s, chosen)
    BY <1>2
  <2>. QED  BY <2>1, HeardSoFar
<1>. QED  BY <1>1, <1>3 DEF AddsFrom

(* What a run that replaces leaves in a sink. *)
Replaced(g, h, pairs, k, s) ==
  \/ h.heard[s] = g.heard[s]
  \/ \E i \in 1..k : /\ Input(pairs[i][2]) = s
                     /\ Len(h.heard[s]) = 1
                     /\ h.heard[s][1].port = pairs[i][1]

LEMMA RunReplaces ==
  ASSUME NEW g, Fine(g), NEW pairs, Len(pairs) \in Nat,
         \A i \in 1..Len(pairs) : pairs[i][1] \in Nat \X Nat,
         NEW how \in HowType, how.additive = FALSE, NEW after, Runs(g, pairs, how, after),
         NEW s \in DOMAIN g.heard
  PROVE  Replaced(g, after[Len(pairs)].graph, pairs, Len(pairs), s)
<1> DEFINE N == Len(pairs)
           S == {k \in Nat : k <= N => Replaced(g, after[k].graph, pairs, k, s)}
<1>1. 0 \in S
  <2>1. after[0].graph = g
    BY DEF Runs, Result
  <2>. QED  BY <2>1 DEF Replaced
<1>2. ASSUME NEW k \in Nat, k \in S PROVE k + 1 \in S
  <2> SUFFICES ASSUME k + 1 <= N PROVE Replaced(g, after[k + 1].graph, pairs, k + 1, s)
    OBVIOUS
  <2> DEFINE j == k + 1
             f == after[k].graph
             pair == pairs[j]
  <2>1. j \in 1..N /\ j - 1 = k /\ k \in 0..N /\ 1..k \subseteq 1..j /\ j \in 1..j
    OBVIOUS
  <2>2. Replaced(g, f, pairs, k, s)
    BY <1>2, <2>1
  <2>. HIDE DEF j, f
  <2>3. Fine(f) /\ DOMAIN f.heard = DOMAIN g.heard
    BY <2>1 DEF Runs, Connected, Keeps, f, N
  <2>4. ASSUME after[j].graph.heard[s] = f.heard[s]
        PROVE  Replaced(g, after[j].graph, pairs, j, s)
    BY <2>1, <2>2, <2>4 DEF Replaced
  <2>5. ASSUME Joins(after[k], after[j], pair, how) PROVE Replaced(g, after[j].graph, pairs, j, s)
    <3>1. Input(pair[2]) \in DOMAIN f.heard /\ after[j].graph = JoinedPair(f, pair, how)
      BY <2>5 DEF Joins, f
    <3>2. pair[1] \in Nat \X Nat
      BY <2>1 DEF N
    <3> DEFINE edge == Edge(pair[1], Delayed(pair, how))
    <3>0. JoinedBy(f, pair, how, after[j].graph, edge)
      BY <2>3, <3>1, <3>2, JoinedPairHeard
    <3>3. /\ \A t \in DOMAIN f.heard : t # Input(pair[2]) => after[j].graph.heard[t] = f.heard[t]
          /\ after[j].graph.heard[Input(pair[2])] = <<edge>>
          /\ edge.port = pair[1]
      BY <3>0 DEF JoinedBy
    <3>. HIDE DEF edge
    <3>4. Len(<<edge>>) = 1 /\ <<edge>>[1] = edge
      OBVIOUS
    <3>5. CASE Input(pair[2]) = s
      BY <2>1, <3>3, <3>4, <3>5 DEF Replaced
    <3>6. CASE Input(pair[2]) # s
      BY <2>3, <2>4, <3>3, <3>6
    <3>. QED  BY <3>5, <3>6
  <2>6. ASSUME after[j].graph = f PROVE Replaced(g, after[j].graph, pairs, j, s)
    BY <2>4, <2>6
  <2>7. Joins(after[k], after[j], pair, how) \/ after[j].graph = f
    BY <2>1 DEF Runs, Refuses, Ends, f, N
  <2>8. Replaced(g, after[j].graph, pairs, j, s)
    BY <2>5, <2>6, <2>7
  <2>. QED  BY <2>8 DEF j
<1>3. Nat \subseteq S
  <2>. HIDE DEF S
  <2>. QED  BY <1>1, <1>2, SetInduction
<1>. QED  BY <1>3
-----------------------------------------------------------------------------
LEMMA RefusedOfRun ==
  ASSUME NEW g, NEW pairs, NEW how, NEW after, AddingRun(g, pairs, how, after),
         \A i \in DOMAIN pairs : pairs[i][1] \in OutputsOf(g) /\ pairs[i][2] \in UserInputs(g),
         NEW i \in 1..Len(pairs), Refuses(after[i - 1], after[i], pairs[i], how)
  PROVE  Closes(after[Len(pairs)].graph, pairs[i])
<1> DEFINE f == after[i - 1].graph
           h == after[Len(pairs)].graph
           pair == pairs[i]
<1>0. /\ Fine(g) /\ DOMAIN pairs = 1..Len(pairs) /\ Len(pairs) \in Nat
      /\ \A j \in 1..Len(pairs) : pairs[j][1] \in Nat \X Nat
      /\ how \in HowType /\ how.additive
      /\ Runs(g, pairs, how, after)
  BY DEF AddingRun
<1>1. i - 1 \in 0..Len(pairs) /\ Len(pairs) \in 0..Len(pairs)
  BY <1>0
<1>2. MoreHeard(f, h)
  BY <1>0, <1>1, RunHears
<1>3. Fine(f) /\ Fine(h) /\ f.nodes = g.nodes
  BY <1>0, <1>1 DEF Runs, Connected, Keeps
<1>4. pair[1] \in OutputsOf(g) /\ pair[2] \in UserInputs(g)
  BY <1>0
<1>5. pair[1][1] # 0 /\ HasPath(f, pair[2][1], pair[1][1])
  BY DEF Refuses
<1>. HIDE DEF f, h, pair
<1>6. pair[1] \in OutputsOf(f) /\ pair[2] \in UserInputs(f)
  BY <1>3, <1>4, SameNodes DEF UserInputs
<1>7. Closes(h, pair)
  BY <1>2, <1>3, <1>5, <1>6, RefusedCloses
<1>. QED  BY <1>7 DEF h, pair

(* What a call that connects leaves, when it returns. *)
Ran(pairs, how, after) ==
  /\ Runs(graph, pairs, how, after)
  /\ graph' = after[Len(pairs)].graph
  /\ after[Len(pairs)].outcome # "panic"

LEMMA ConnectAllRan ==
  ASSUME HandlesInv, phase' = "edit", NEW a \in DOMAIN handles, NEW b \in DOMAIN handles,
         NEW how \in HowType, ConnectAll(Zip(handles[a].outs, handles[b].ins), how)
  PROVE  \E after : Ran(Zip(handles[a].outs, handles[b].ins), how, after)
<1> DEFINE pairs == Zip(handles[a].outs, handles[b].ins)
           result == ConnectPairs(graph, pairs, how)
<1>1. /\ DOMAIN pairs = 1..Len(pairs) /\ Len(pairs) \in Nat
      /\ \A i \in DOMAIN pairs : MayConnect(graph, pairs[i]) /\ pairs[i][2] \in UserInputs(graph)
  BY ToKeeps
<1>2. /\ result.outcome = "panic" => Panic(TRUE, result.graph)
      /\ result.outcome # "panic" => graph' = result.graph
  BY DEF ConnectAll
<1>. HIDE DEF pairs
<1>3. PICK after : Runs(graph, pairs, how, after)
  BY <1>1, SameGraph, PairsRun
<1>4. result = after[Len(pairs)]
  BY <1>3 DEF Runs
<1>. HIDE DEF result
<1>5. ~ Panic(TRUE, result.graph)
  BY DEF Panic, AfterPanic
<1>6. Ran(pairs, how, after)
  BY <1>2, <1>3, <1>4, <1>5 DEF Ran
<1>. QED  BY <1>6 DEF pairs

LEMMA RanAdding ==
  ASSUME HandlesInv, NEW a \in DOMAIN handles, NEW b \in DOMAIN handles,
         NEW on_error \in {"log", "return", "panic"}, NEW after,
         Ran(Zip(handles[a].outs, handles[b].ins), How(TRUE, FALSE, on_error), after)
  PROVE  LET pairs == Zip(handles[a].outs, handles[b].ins)
         IN  /\ AddingRun(graph, pairs, How(TRUE, FALSE, on_error), after)
             /\ DOMAIN pairs = 1..Len(pairs) /\ Len(pairs) \in Nat
             /\ \A i \in DOMAIN pairs : pairs[i][1] \in OutputsOf(graph) /\ pairs[i][2] \in UserInputs(graph)
             /\ Adds(pairs, JoinedOf(pairs, How(TRUE, FALSE, on_error), after))
<1> DEFINE pairs == Zip(handles[a].outs, handles[b].ins)
           how == How(TRUE, FALSE, on_error)
<1>1. /\ DOMAIN pairs = 1..Len(pairs) /\ Len(pairs) \in Nat
      /\ \A i \in DOMAIN pairs : MayConnect(graph, pairs[i]) /\ pairs[i][2] \in UserInputs(graph)
  BY ToKeeps
<1>2. how \in HowType /\ how.additive = TRUE /\ how.feedback = FALSE
  BY HowIs
<1>3. Runs(graph, pairs, how, after) /\ graph' = after[Len(pairs)].graph
  BY DEF Ran
<1>. HIDE DEF pairs, how
<1>4. \A i \in DOMAIN pairs : pairs[i][1] \in OutputsOf(graph) /\ pairs[i][1] \in Nat \X Nat
  BY <1>1, OutputTyped DEF MayConnect
<1>5. AddingRun(graph, pairs, how, after)
  BY <1>1, <1>2, <1>3, <1>4, SameGraph DEF AddingRun
<1>6. AddsFrom(graph, graph', pairs, JoinedOf(pairs, how, after))
  BY <1>3, <1>5, RunAdds
<1>7. Adds(pairs, JoinedOf(pairs, how, after))
  BY <1>6 DEF AddsFrom, Adds
<1>. QED  BY <1>1, <1>4, <1>5, <1>7 DEF pairs, how

(* to: what makes no circle is added. *)
LEMMA ToAdds ==
  ASSUME HandlesInv, phase' = "edit", NEW a \in DOMAIN handles, NEW b \in DOMAIN handles,
         StaticTo(a, b, TRUE, FALSE) \/ DynamicTo(a, b, TRUE, FALSE)
  PROVE  AllThatFit(Zip(handles[a].outs, handles[b].ins))
<1> DEFINE pairs == Zip(handles[a].outs, handles[b].ins)
           how == How(TRUE, FALSE, "log")
           N == Len(pairs)
<1>1. ConnectAll(pairs, how)
  BY DEF StaticTo, DynamicTo
<1>2. how \in HowType /\ how.on_error = "log"
  BY HowIs
<1>3. PICK after : Ran(pairs, how, after)
  BY <1>1, <1>2, ConnectAllRan
<1> DEFINE I == JoinedOf(pairs, how, after)
<1>4. /\ AddingRun(graph, pairs, how, after)
      /\ DOMAIN pairs = 1..N /\ N \in Nat
      /\ \A i \in DOMAIN pairs : pairs[i][1] \in OutputsOf(graph) /\ pairs[i][2] \in UserInputs(graph)
      /\ Adds(pairs, I)
  <2>1. "log" \in {"log", "return", "panic"}
    OBVIOUS
  <2>. QED  BY <1>3, <2>1, RanAdding
<1>. HIDE DEF pairs, how
<1>5. Runs(graph, pairs, how, after) /\ graph' = after[N].graph /\ after[N].outcome # "panic"
  BY <1>3 DEF Ran
<1>6. OkTo(after, N)
  <2>1. ASSUME NEW m \in 1..N, StopsAt(after, m, N) PROVE FALSE
    <3>1. m - 1 \in 0..(m - 1) /\ after[m].outcome # "ok" /\ after[N] = after[m] /\ OkTo(after, m - 1)
      BY <1>4, <2>1 DEF StopsAt
    <3>2. after[m - 1].outcome = "ok"
      BY <3>1 DEF OkTo
    <3>3. \/ Joins(after[m - 1], after[m], pairs[m], how)
          \/ Refuses(after[m - 1], after[m], pairs[m], how)
          \/ Ends(after[m - 1], after[m])
      BY <1>5 DEF Runs
    <3>. QED  BY <1>2, <1>5, <3>1, <3>2, <3>3 DEF Joins, Refuses, Ends
  <2>2. N \in 0..N
    BY <1>4
  <2>. HIDE DEF N
  <2>3. \A k \in 0..N : OkTo(after, k) \/ \E m \in 1..k : StopsAt(after, m, k)
    BY <1>4, <1>5, RunStops DEF N
  <2>. QED  BY <2>1, <2>2, <2>3
<1>7. ASSUME NEW i \in DOMAIN pairs \ I PROVE Closes(graph', pairs[i])
  <2>1. i \in 1..N /\ i \in 0..N
    BY <1>4
  <2>2. after[i].outcome = "ok" /\ ~ Joins(after[i - 1], after[i], pairs[i], how)
    BY <1>6, <2>1 DEF OkTo, JoinedOf
  <2>3. Refuses(after[i - 1], after[i], pairs[i], how)
    BY <1>5, <2>1, <2>2 DEF Runs, Ends
  <2>. QED  BY <1>4, <1>5, <2>1, <2>3, RefusedOfRun
<1>8. I \in SUBSET DOMAIN pairs
  BY <1>4 DEF JoinedOf
<1>9. AllThatFit(pairs)
  <2>. HIDE DEF I
  <2>. QED  BY <1>4, <1>7, <1>8 DEF AllThatFit
<1>. QED  BY <1>9 DEF pairs

(* try_to: what comes before the first pair that makes one.                *)
LEMMA TryAdds ==
  ASSUME HandlesInv, phase' = "edit", NEW a \in DOMAIN handles, NEW b \in DOMAIN handles,
         TryTo(a, b)
  PROVE  ThoseBeforeACircle(Zip(handles[a].outs, handles[b].ins))
<1> DEFINE pairs == Zip(handles[a].outs, handles[b].ins)
           how == How(TRUE, FALSE, "return")
           N == Len(pairs)
<1>1. ConnectAll(pairs, how)
  BY DEF TryTo, OnError
<1>2. how \in HowType /\ how.on_error = "return"
  BY HowIs
<1>3. PICK after : Ran(pairs, how, after)
  BY <1>1, <1>2, ConnectAllRan
<1> DEFINE I == JoinedOf(pairs, how, after)
<1>4. /\ AddingRun(graph, pairs, how, after)
      /\ DOMAIN pairs = 1..N /\ N \in Nat
      /\ \A i \in DOMAIN pairs : pairs[i][1] \in OutputsOf(graph) /\ pairs[i][2] \in UserInputs(graph)
      /\ Adds(pairs, I)
  <2>1. "return" \in {"log", "return", "panic"}
    OBVIOUS
  <2>. QED  BY <1>3, <2>1, RanAdding
<1>. HIDE DEF pairs, how
<1>5. Runs(graph, pairs, how, after) /\ graph' = after[N].graph /\ after[N].outcome # "panic"
  BY <1>3 DEF Ran
<1>6. \A k \in 0..N : OkTo(after, k) \/ \E m \in 1..k : StopsAt(after, m, k)
  BY <1>4, <1>5, RunStops
<1>7. \A i \in 1..N : \/ Joins(after[i - 1], after[i], pairs[i], how)
                      \/ Refuses(after[i - 1], after[i], pairs[i], how)
                      \/ Ends(after[i - 1], after[i])
  BY <1>5 DEF Runs
<1>8. \A i : i \in I <=> i \in 1..N /\ Joins(after[i - 1], after[i], pairs[i], how)
  BY DEF JoinedOf
<1>. HIDE DEF N, I
<1>9. ASSUME NEW i \in 1..N, after[i].outcome = "ok" PROVE i \in I
  BY <1>2, <1>7, <1>8, <1>9 DEF Refuses, Ends
<1>10. ASSUME OkTo(after, N) PROVE ThoseBeforeACircle(pairs)
  <2>1. I = 1..N
    <3>1. \A i \in 1..N : i \in 0..N
      BY <1>4
    <3>2. \A i \in 1..N : i \in I
      BY <1>9, <1>10, <3>1 DEF OkTo
    <3>3. \A i \in I : i \in 1..N
      BY <1>8
    <3>. QED  BY <3>2, <3>3
  <2>2. N \in 0..N /\ ~ (N < N) /\ Adds(pairs, 1..N)
    BY <1>4, <2>1
  <2>. QED  BY <2>2 DEF ThoseBeforeACircle, N
<1>11. ASSUME \E m \in 1..N : StopsAt(after, m, N) PROVE ThoseBeforeACircle(pairs)
  <2>1. PICK m \in 1..N : StopsAt(after, m, N)
    BY <1>11
  <2> DEFINE k == m - 1
  <2>2. k \in 0..N /\ k + 1 = m /\ k \in 0..k /\ k \in Nat
    BY <1>4
  <2>3. /\ OkTo(after, k) /\ after[m].outcome # "ok" /\ after[N] = after[m]
    BY <2>1 DEF StopsAt
  <2>4. Refuses(after[k], after[m], pairs[m], how)
    <3>. HIDE DEF k
    <3>1. after[k].outcome = "ok"
      BY <2>2, <2>3 DEF OkTo
    <3>. QED  BY <1>5, <1>7, <2>3, <3>1 DEF Joins, Ends, k
  <2>5. ASSUME NEW i \in I PROVE i \in 1..k
    <3>1. i \in 1..N /\ Joins(after[i - 1], after[i], pairs[i], how)
      BY <1>8
    <3>2. after[i].outcome = "ok" /\ after[i - 1].outcome = "ok"
      BY <3>1 DEF Joins
    <3>3. OkTo(after, i)
      <4>1. i \in 0..N
        BY <1>4, <3>1
      <4>2. ASSUME NEW j \in 1..i, StopsAt(after, j, i) PROVE FALSE
        BY <3>2, <4>2 DEF StopsAt
      <4>. QED  BY <1>6, <4>1, <4>2
    <3>4. i < m
      <4>1. ~ (m \in 0..i)
        BY <2>3, <3>3 DEF OkTo
      <4>. QED  BY <1>4, <3>1, <4>1
    <3>. QED  BY <1>4, <3>1, <3>4
  <2>6. ASSUME NEW i \in 1..k PROVE i \in I
    <3>1. i \in 1..N /\ i \in 0..k
      BY <1>4
    <3>. QED  BY <1>9, <2>3, <3>1 DEF OkTo
  <2>7. I = 1..k
    BY <2>5, <2>6
  <2>8. Closes(graph', pairs[m])
    BY <1>4, <1>5, <2>4, RefusedOfRun DEF N
  <2>. HIDE DEF k
  <2>9. k \in 0..N /\ Adds(pairs, 1..k) /\ (k < N => Closes(graph', pairs[k + 1]))
    BY <1>4, <2>2, <2>7, <2>8
  <2>. QED  BY <2>9 DEF ThoseBeforeACircle, N
<1>12. N \in 0..N
  BY <1>4
<1>13. ThoseBeforeACircle(pairs)
  BY <1>6, <1>10, <1>11, <1>12
<1>. QED  BY <1>13 DEF pairs

(* replace and to_feedback_replace: one source for a sink. *)
LEMMA ReplaceLeaves ==
  ASSUME HandlesInv, phase' = "edit", NEW a \in DOMAIN handles, NEW b \in DOMAIN handles,
         NEW feedback \in BOOLEAN,
         StaticTo(a, b, FALSE, feedback) \/ DynamicTo(a, b, FALSE, feedback)
  PROVE  OneForASink(Zip(handles[a].outs, handles[b].ins))
<1> DEFINE pairs == Zip(handles[a].outs, handles[b].ins)
<1>1. \E on_error \in {"log", "return", "panic"} : ConnectAll(pairs, How(FALSE, feedback, on_error))
  BY DEF StaticTo, DynamicTo
<1>2. PICK how \in HowType : how.additive = FALSE /\ ConnectAll(pairs, how)
  BY <1>1, HowIs
<1>3. PICK after : Ran(pairs, how, after)
  BY <1>2, ConnectAllRan
<1>4. /\ DOMAIN pairs = 1..Len(pairs) /\ Len(pairs) \in Nat
      /\ \A i \in DOMAIN pairs : MayConnect(graph, pairs[i])
  BY ToKeeps
<1>. HIDE DEF pairs
<1>5. \A i \in 1..Len(pairs) : pairs[i][1] \in Nat \X Nat
  BY <1>4, OutputTyped DEF MayConnect
<1>6. \A s \in DOMAIN graph.heard : Replaced(graph, graph', pairs, Len(pairs), s)
  BY <1>2, <1>3, <1>4, <1>5, SameGraph, RunReplaces DEF Ran
<1>7. OneForASink(pairs)
  BY <1>4, <1>6 DEF Replaced, OneForASink
<1>. QED  BY <1>7 DEF pairs

(* to, try_to and replace do what they are asked, for any handles: what    *)
(* makes no circle is added, and what is left out would have made one.     *)
THEOREM ConnectedAsAsked == Spec => ConnectsAllThatFits
<1>1. HandlesInv /\ [Next]_vars
      => [phase' = "edit" => /\ Acyclic(graph) => Acyclic(graph')
                             /\ \A a, b \in DOMAIN handles : AsAsked(a, b)]_vars
  <2> SUFFICES ASSUME HandlesInv, Next, phase' = "edit"
               PROVE  /\ Acyclic(graph) => Acyclic(graph')
                      /\ \A a, b \in DOMAIN handles : AsAsked(a, b)
    BY Zenon
  <2>1. Acyclic(graph) => Acyclic(graph')
    BY NextKeeps DEF Kept, Keeps
  <2>2. ASSUME NEW a \in DOMAIN handles, NEW b \in DOMAIN handles PROVE AsAsked(a, b)
    BY ToAdds, TryAdds, ReplaceLeaves, Zenon DEF AsAsked
  <2>. QED  BY <2>1, <2>2
<1>. QED  BY <1>1, InvHolds, PTL DEF Spec, ConnectsAllThatFits
-----------------------------------------------------------------------------
(***************************************************************************)
(* What outputs stand for.                                                 *)
(***************************************************************************)
Stands(g, p, val) ==
  IF p[1] \in Operators(g) THEN val[p[1]]
  ELSE IF p[1] # 0 /\ g.nodes[p[1]].kind = "constant" THEN <<"constant">>
  ELSE <<"output", p>>
Term(g, n, val) ==
  <<g.nodes[n].kind>> \o [c \in 1..2 |->
    <<"sum", [i \in DOMAIN g.heard[Operand(n, c)] |-> Stands(g, g.heard[Operand(n, c)][i].port, val)]>>]
Valued(g, val) == val = [n \in Operators(g) |-> Term(g, n, val)]
TheValues(g) == CHOOSE val : Valued(g, val)

LEMMA ValueIs == ASSUME NEW g, NEW port PROVE Value(g, port) = Stands(g, port, TheValues(g))
  BY DEF Value, Stands, Term, Valued, TheValues, Operand

LEMMA OperatorIs ==
  ASSUME NEW g, Fine(g), NEW n \in Operators(g)
  PROVE  /\ n \in DOMAIN g.nodes /\ n \in 1..Len(g.nodes) /\ Len(g.nodes) \in Nat
         /\ g.nodes[n].kind \in Operations
         /\ \A c \in 1..2 : \A i \in DOMAIN g.heard[Operand(n, c)] :
              /\ g.heard[Operand(n, c)][i].port \in OutputsOf(g)
              /\ g.heard[Operand(n, c)][i].port[1] \in Nat
              /\ g.heard[Operand(n, c)][i].port[1] < n
<1>1. n \in DOMAIN g.nodes /\ g.nodes[n].kind \in Operations
  BY DEF Operators
<1>2. DOMAIN g.nodes = 1..Len(g.nodes) /\ Len(g.nodes) \in Nat
  BY GraphParts DEF Fine
<1>3. ASSUME NEW c \in 1..2, NEW i \in DOMAIN g.heard[Operand(n, c)]
      PROVE  /\ g.heard[Operand(n, c)][i].port \in OutputsOf(g)
             /\ g.heard[Operand(n, c)][i].port[1] \in Nat
             /\ g.heard[Operand(n, c)][i].port[1] < n
  <2>1. Operand(n, c) \in DOMAIN g.heard /\ g.heard[Operand(n, c)][i].port[1] < n
    BY DEF Fine, OperatorsHearEarlier
  <2>2. g.heard[Operand(n, c)][i].port \in OutputsOf(g)
    BY <2>1 DEF Fine, NamesOutputs
  <2>3. g.heard[Operand(n, c)][i].port[1] \in Nat
    BY <2>2 DEF OutputsOf
  <2>. QED  BY <2>1, <2>2, <2>3
<1>. QED  BY <1>1, <1>2, <1>3

(* A term needs the values of earlier operators. *)
LEMMA TermAlike ==
  ASSUME NEW g, Fine(g), NEW n \in Operators(g), NEW f, NEW h,
         \A m \in Operators(g) : m < n => f[m] = h[m]
  PROVE  Term(g, n, f) = Term(g, n, h)
<1>1. ASSUME NEW c \in 1..2, NEW i \in DOMAIN g.heard[Operand(n, c)]
      PROVE  Stands(g, g.heard[Operand(n, c)][i].port, f) = Stands(g, g.heard[Operand(n, c)][i].port, h)
  <2> DEFINE p == g.heard[Operand(n, c)][i].port
  <2>1. p[1] < n
    BY OperatorIs
  <2>. HIDE DEF p
  <2>2. Stands(g, p, f) = Stands(g, p, h)
    BY <2>1 DEF Stands
  <2>. QED  BY <2>2 DEF p
<1> DEFINE Sums(val) == [c \in 1..2 |->
              <<"sum", [i \in DOMAIN g.heard[Operand(n, c)] |-> Stands(g, g.heard[Operand(n, c)][i].port, val)]>>]
<1>2. Sums(f) = Sums(h)
  BY <1>1
<1>3. \A val : Term(g, n, val) = <<g.nodes[n].kind>> \o Sums(val)
  BY DEF Term
<1>. HIDE DEF Sums
<1>. QED  BY <1>2, <1>3

ValuedTo(g, val, n) == \A m \in Operators(g) : m <= n => val[m] = Term(g, m, val)

LEMMA ValuesExist ==
  ASSUME NEW g, Fine(g)
  PROVE  Valued(g, TheValues(g))
<1> DEFINE S == {n \in Nat : \E val : ValuedTo(g, val, n)}
<1>1. 0 \in S
  <2>1. \A m \in Operators(g) : ~ (m <= 0)
    BY OperatorIs
  <2>2. ValuedTo(g, g, 0)
    BY <2>1 DEF ValuedTo
  <2>. QED  BY <2>2
<1>2. ASSUME NEW n \in Nat, n \in S PROVE n + 1 \in S
  <2>1. PICK val : ValuedTo(g, val, n)
    BY <1>2
  <2> DEFINE k == n + 1
             new == [m \in Operators(g) |-> IF m = k THEN Term(g, k, val) ELSE val[m]]
  <2>2. ASSUME NEW m \in Operators(g), m <= k PROVE new[m] = Term(g, m, new)
    <3>1. m \in Nat
      BY OperatorIs
    <3>2. \A j \in Operators(g) : j < m => j # k /\ j \in Nat
      BY <2>2, <3>1, OperatorIs
    <3>3. \A j \in Operators(g) : new[j] = IF j = k THEN Term(g, k, val) ELSE val[j]
      OBVIOUS
    <3>4. m # k => m <= n
      BY <2>2, <3>1
    <3>. HIDE DEF new, k
    <3>5. Term(g, m, new) = Term(g, m, val)
      BY <3>2, <3>3, TermAlike
    <3>. QED  BY <2>1, <3>3, <3>4, <3>5 DEF ValuedTo
  <2>3. ValuedTo(g, new, k)
    <3>. HIDE DEF new
    <3>. QED  BY <2>2 DEF ValuedTo
  <2>4. \E f : ValuedTo(g, f, k)
    <3>. HIDE DEF new
    <3>. QED  BY <2>3
  <2>. QED  BY <2>4
<1>3. Nat \subseteq S
  <2>. HIDE DEF S
  <2>. QED  BY <1>1, <1>2, SetInduction
<1>4. Len(g.nodes) \in Nat
  BY GraphParts DEF Fine
<1>5. PICK val : ValuedTo(g, val, Len(g.nodes))
  BY <1>3, <1>4
<1> DEFINE f == [n \in Operators(g) |-> val[n]]
<1>6. ASSUME NEW n \in Operators(g) PROVE f[n] = Term(g, n, f)
  <2>1. n <= Len(g.nodes)
    BY OperatorIs
  <2>2. \A m \in Operators(g) : f[m] = val[m]
    OBVIOUS
  <2>. HIDE DEF f
  <2>3. Term(g, n, f) = Term(g, n, val)
    BY <2>2, TermAlike
  <2>. QED  BY <1>5, <2>1, <2>2, <2>3 DEF ValuedTo
<1>7. Valued(g, f)
  <2>1. f = [n \in Operators(g) |-> f[n]]
    OBVIOUS
  <2>. HIDE DEF f
  <2>. QED  BY <1>6, <2>1 DEF Valued
<1>. HIDE DEF f
<1>. QED  BY <1>7 DEF TheValues

(* The values of operators are made of those that they hear. *)
Heard(g, n, c) == [i \in DOMAIN g.heard[Operand(n, c)] |-> Value(g, g.heard[Operand(n, c)][i].port)]
LEMMA ValueOfOperator ==
  ASSUME NEW g, Fine(g), NEW port, port[1] \in Operators(g)
  PROVE  Value(g, port) = <<g.nodes[port[1]].kind>> \o [c \in 1..2 |-> <<"sum", Heard(g, port[1], c)>>]
<1> DEFINE n == port[1]
           val == TheValues(g)
<1>1. Value(g, port) = val[n]
  BY ValueIs DEF Stands
<1>2. val[n] = Term(g, n, val)
  BY ValuesExist DEF Valued
<1>3. \A p : Stands(g, p, val) = Value(g, p)
  BY ValueIs
<1>. HIDE DEF val, n
<1>4. Term(g, n, val) = <<g.nodes[n].kind>> \o [c \in 1..2 |-> <<"sum", Heard(g, n, c)>>]
  BY <1>3 DEF Term, Heard
<1>. QED  BY <1>1, <1>2, <1>4 DEF n

LEMMA ValueOfOther ==
  ASSUME NEW g, NEW port, port[1] \notin Operators(g)
  PROVE  Value(g, port) = IF port[1] # 0 /\ g.nodes[port[1]].kind = "constant" THEN <<"constant">> ELSE <<"output", port>>
  BY ValueIs DEF Stands

(* Only what operators hear changes what outputs stand for. *)
LEMMA ValueKept ==
  ASSUME NEW g, NEW h, Fine(g), Fine(h), Grown(g, h), SameOperands(g, h), NEW port \in OutputsOf(g)
  PROVE  Value(h, port) = Value(g, port)
<1> DEFINE S == {n \in Nat : \A p \in OutputsOf(g) : p[1] <= n => Value(h, p) = Value(g, p)}
<1>0. \A p \in OutputsOf(g) : p[1] \in Nat /\ (p[1] # 0 => p[1] \in DOMAIN g.nodes)
  BY DEF OutputsOf
<1>1. ASSUME NEW p \in OutputsOf(g), p[1] \notin Operators(g)
      PROVE  Value(h, p) = Value(g, p)
  <2>1. p[1] \notin Operators(h)
    <3>1. 0 \notin Operators(h)
      BY OperatorIs
    <3>. QED  BY <1>0, <1>1, <3>1, OperatorsGrow
  <2>2. p[1] # 0 => h.nodes[p[1]].kind = g.nodes[p[1]].kind
    BY <1>0 DEF Grown
  <2>. QED  BY <1>1, <2>1, <2>2, ValueOfOther
<1>2. 0 \in S
  <2>1. ASSUME NEW p \in OutputsOf(g), p[1] <= 0 PROVE p[1] \notin Operators(g)
    BY <2>1, OperatorIs
  <2>. QED  BY <1>1, <2>1
<1>3. ASSUME NEW n \in Nat, n \in S PROVE n + 1 \in S
  <2>1. ASSUME NEW p \in OutputsOf(g), p[1] <= n + 1, p[1] \in Operators(g) PROVE Value(h, p) = Value(g, p)
    <3> DEFINE k == p[1]
    <3>1. k \in Operators(h) /\ h.nodes[k].kind = g.nodes[k].kind
      BY <2>1, OperatorsGrow DEF Grown, Operators
    <3>2. ASSUME NEW c \in 1..2 PROVE Heard(h, k, c) = Heard(g, k, c)
      <4>1. h.heard[Operand(k, c)] = g.heard[Operand(k, c)]
        BY <2>1 DEF SameOperands
      <4>2. ASSUME NEW i \in DOMAIN g.heard[Operand(k, c)]
            PROVE  Value(h, g.heard[Operand(k, c)][i].port) = Value(g, g.heard[Operand(k, c)][i].port)
        <5> DEFINE q == g.heard[Operand(k, c)][i].port
        <5>1. q \in OutputsOf(g) /\ q[1] \in Nat /\ q[1] < k /\ k \in Nat
          BY <2>1, OperatorIs
        <5>. HIDE DEF q
        <5>2. q[1] <= n
          BY <2>1, <5>1
        <5>3. Value(h, q) = Value(g, q)
          BY <1>3, <5>1, <5>2
        <5>. QED  BY <5>3 DEF q
      <4>. HIDE DEF k
      <4>. QED  BY <4>1, <4>2 DEF Heard
    <3>. HIDE DEF k
    <3>3. [c \in 1..2 |-> <<"sum", Heard(h, k, c)>>] = [c \in 1..2 |-> <<"sum", Heard(g, k, c)>>]
      BY <3>2
    <3>4. /\ Value(g, p) = <<g.nodes[k].kind>> \o [c \in 1..2 |-> <<"sum", Heard(g, k, c)>>]
          /\ Value(h, p) = <<h.nodes[k].kind>> \o [c \in 1..2 |-> <<"sum", Heard(h, k, c)>>]
      BY <2>1, <3>1, ValueOfOperator DEF k
    <3>. QED  BY <3>1, <3>3, <3>4
  <2>. QED  BY <1>1, <2>1
<1>4. Nat \subseteq S
  <2>. HIDE DEF S
  <2>. QED  BY <1>2, <1>3, SetInduction
<1>5. port[1] \in Nat
  BY <1>0
<1>6. port[1] \in S /\ port[1] <= port[1]
  BY <1>4, <1>5
<1>. QED  BY <1>6

(* The value of an operator of two outputs. *)
LEMMA ThreePlaces ==
  ASSUME NEW T, NEW u \in Seq(T), Len(u) = 1, NEW v \in Seq(T), Len(v) = 2
  PROVE  u \o v = <<u[1], v[1], v[2]>>
<1> DEFINE s == u \o v
           t == <<u[1], v[1], v[2]>>
<1>1. s \in Seq(T) /\ Len(s) = 3 /\ s[1] = u[1] /\ s[2] = v[1] /\ s[3] = v[2]
  <2>0. /\ s \in Seq(T) /\ Len(s) = Len(u) + Len(v)
        /\ \A i \in 1..Len(u) + Len(v) : s[i] = IF i <= Len(u) THEN u[i] ELSE v[i - Len(u)]
    BY ConcatProperties, Zenon
  <2>1. /\ s \in Seq(T) /\ Len(s) = 1 + 2
        /\ \A i \in 1..(1 + 2) : s[i] = IF i <= 1 THEN u[i] ELSE v[i - 1]
    <3>. HIDE DEF s
    <3>. QED  BY <2>0
  <2>. HIDE DEF s
  <2>2. s[1] = u[1] /\ s[2] = v[2 - 1] /\ s[3] = v[3 - 1]
    BY <2>1
  <2>. QED  BY <2>1, <2>2
<1>2. u[1] \in T /\ v[1] \in T /\ v[2] \in T
  BY ElementOfSeq
<1>3. t \in Seq(T) /\ Len(t) = 3 /\ t[1] = u[1] /\ t[2] = v[1] /\ t[3] = v[2]
  BY <1>2
<1>. HIDE DEF s, t
<1>4. s = t
  <2>1. \A i \in 1..3 : s[i] = t[i]
    BY <1>1, <1>3
  <2>. QED  BY <1>1, <1>3, <2>1
<1>. QED  BY <1>4 DEF s, t

LEMMA ValueOfOne ==
  ASSUME NEW g, Fine(g), NEW op \in Operations, NEW n \in DOMAIN g.nodes, NEW x, NEW y,
         IsOperator(g, n, op, x, y)
  PROVE  Value(g, <<n, 1>>) = <<op, Sum(Value(g, x)), Sum(Value(g, y))>>
<1>1. n \in Operators(g)
  BY DEF IsOperator, Operators
<1> DEFINE f == [c \in 1..2 |-> <<"sum", Heard(g, n, c)>>]
<1>2. Value(g, <<n, 1>>) = <<op>> \o f
  BY <1>1, ValueOfOperator DEF IsOperator
<1>3. f = [c \in 1..2 |-> f[c]] /\ f[1] = <<"sum", Heard(g, n, 1)>> /\ f[2] = <<"sum", Heard(g, n, 2)>>
  OBVIOUS
<1>4. ASSUME NEW c, NEW z, g.heard[Operand(n, c)] = <<Edge(z, FALSE)>>
      PROVE  Heard(g, n, c) = <<Value(g, z)>>
  <2> DEFINE edge == Edge(z, FALSE)
             heard == g.heard[Operand(n, c)]
  <2>1. edge.port = z
    BY EdgeIs
  <2>. HIDE DEF edge
  <2>2. heard = <<edge>>
    BY <1>4 DEF edge
  <2>3. DOMAIN <<edge>> = {1} /\ <<edge>>[1] = edge
    OBVIOUS
  <2>4. Heard(g, n, c) = [i \in DOMAIN heard |-> Value(g, heard[i].port)]
    BY DEF Heard
  <2>. HIDE DEF heard
  <2>5. Heard(g, n, c) = [i \in {1} |-> Value(g, z)]
    BY <2>1, <2>2, <2>3, <2>4
  <2>6. <<Value(g, z)>> = [i \in {1} |-> Value(g, z)]
    OBVIOUS
  <2>. QED  BY <2>5, <2>6
<1>5. f[1] = Sum(Value(g, x)) /\ f[2] = Sum(Value(g, y))
  BY <1>3, <1>4 DEF IsOperator, Sum
<1>. HIDE DEF f
<1>6. <<op>> \o f = <<op, f[1], f[2]>>
  <2> DEFINE T == {op, f[1], f[2]}
             one == <<op>>
  <2>1. one \in Seq(T) /\ Len(one) = 1 /\ one[1] = op
    OBVIOUS
  <2>2. f \in [1..2 -> T]
    BY <1>3
  <2>3. f \in Seq(T) /\ Len(f) = 2
    <3>1. f \in Seq(T)
      <4>. HIDE DEF T, f
      <4>1. [1..2 -> T] \in {[1..k -> T] : k \in Nat}
        OBVIOUS
      <4>. QED  BY <2>2, <4>1, SeqDef, Zenon
    <3>2. DOMAIN f = 1..2 /\ DOMAIN f = 1..Len(f) /\ Len(f) \in Nat
      <4>. HIDE DEF T, f
      <4>. QED  BY <2>2, <3>1, LenProperties
    <3>. HIDE DEF T, f
    <3>3. \A k \in Nat : 1..2 = 1..k => k = 2
      <4> SUFFICES ASSUME NEW k \in Nat, 1..2 = 1..k PROVE k = 2
        OBVIOUS
      <4>1. 2 \in 1..k /\ k + 1 \notin 1..2
        OBVIOUS
      <4>. QED  BY <4>1
    <3>. QED  BY <3>1, <3>2, <3>3
  <2>. HIDE DEF T, one
  <2>4. one \o f = <<one[1], f[1], f[2]>>
    BY <2>1, <2>3, ThreePlaces
  <2>. QED  BY <2>1, <2>4 DEF one
<1>. QED  BY <1>2, <1>5, <1>6
-----------------------------------------------------------------------------
(* A handle to operators, and what its outputs stand for. *)
LEMMA NewestIs ==
  ASSUME HandlesInv, NEW h, NewHandle(h)
  PROVE  Newest = h
<1>1. handles \in Seq(HandleType) /\ Len(handles) \in Nat
  BY DEF HandlesInv
<1>2. handles' = Append(handles, h)
  BY DEF NewHandle
<1>3. Len(handles') = Len(handles) + 1 /\ handles'[Len(handles) + 1] = h
  BY <1>1, <1>2
<1>. QED  BY <1>3 DEF Newest

LEMMA ResultsStand ==
  ASSUME NEW g, Fine(g), NEW op \in Operations, NEW pairs, DOMAIN pairs = 1..Len(pairs), Len(pairs) \in Nat,
         NEW h, OperatorsFrom(g, op, pairs, Len(pairs), h), NEW typed
  PROVE  Values(h, ChannelsHandle(typed, <<>>, Results(g, Len(pairs))))
           = [i \in DOMAIN pairs |-> <<op, Sum(Value(h, pairs[i][1])), Sum(Value(h, pairs[i][2]))>>]
<1> DEFINE outs == Results(g, Len(pairs))
           handle == ChannelsHandle(typed, <<>>, outs)
<1>0. Len(g.nodes) \in Nat
  BY GraphParts DEF Fine
<1>1. outs = [i \in DOMAIN pairs |-> <<Len(g.nodes) + i, 1>>]
  BY DEF Results
<1>2. handle.outs = outs
  BY DEF ChannelsHandle
<1>3. ASSUME NEW i \in DOMAIN pairs
      PROVE  Value(h, <<Len(g.nodes) + i, 1>>) = <<op, Sum(Value(h, pairs[i][1])), Sum(Value(h, pairs[i][2]))>>
  <2> DEFINE n == Len(g.nodes) + i
  <2>1. Fine(h) /\ Len(h.nodes) = Len(g.nodes) + Len(pairs) /\ IsOperator(h, n, op, pairs[i][1], pairs[i][2])
    BY DEF OperatorsFrom, Keeps
  <2>2. DOMAIN h.nodes = 1..Len(h.nodes)
    BY <2>1, GraphParts DEF Fine
  <2>3. n \in DOMAIN h.nodes
    BY <1>0, <2>1, <2>2
  <2>. HIDE DEF n
  <2>4. Value(h, <<n, 1>>) = <<op, Sum(Value(h, pairs[i][1])), Sum(Value(h, pairs[i][2]))>>
    BY <2>1, <2>3, ValueOfOne
  <2>. QED  BY <2>4 DEF n
<1>. HIDE DEF outs, handle
<1>4. Values(h, handle) = [i \in DOMAIN pairs |-> Value(h, outs[i])]
  BY <1>1, <1>2 DEF Values
<1>5. \A i \in DOMAIN pairs : outs[i] = <<Len(g.nodes) + i, 1>>
  BY <1>1
<1>6. Values(h, handle) = [i \in DOMAIN pairs |-> <<op, Sum(Value(h, pairs[i][1])), Sum(Value(h, pairs[i][2]))>>]
  BY <1>3, <1>4, <1>5
<1>. QED  BY <1>6 DEF handle, outs

LEMMA ValuesKept ==
  ASSUME NEW g, NEW h, Fine(g), Fine(h), Grown(g, h), SameOperands(g, h), NEW a, Fits(g, a)
  PROVE  Values(h, a) = Values(g, a)
<1>1. \A i \in DOMAIN a.outs : Value(h, a.outs[i]) = Value(g, a.outs[i])
  BY ValueKept DEF Fits
<1>. QED  BY <1>1 DEF Values

(* Arithmetic of two handles, and of a handle and a constant. *)
LEMMA ArithmeticCalculates ==
  ASSUME HandlesInv, NEW a \in DOMAIN handles, NEW b \in DOMAIN handles
  PROVE  Calculates(a, b)
<1> SUFFICES ASSUME NEW op \in Operations, StaticArithmetic(op, a, b) \/ DynamicArithmetic(op, a, b), phase' = "edit"
             PROVE  Values(graph', Newest)
                      = ChannelByChannel(op, Values(graph, handles[a]), Values(graph, handles[b]))
  BY DEF Calculates
<1> DEFINE xs == handles[a].outs
           ys == handles[b].outs
           pairs == Zip(xs, ys)
<1>1. ~ Panic(FALSE, graph)
  BY DEF Panic, AfterPanic
<1>2. Calculated(op, a, b)
  BY <1>1, ArithmeticIs
<1>3. /\ DOMAIN pairs = 1..Len(pairs) /\ Len(pairs) = Len(xs)
      /\ \A i \in DOMAIN pairs : pairs[i] = <<xs[i], ys[i]>>
      /\ OperatorsFrom(graph, op, pairs, Len(pairs), graph')
  BY <1>2 DEF Calculated
<1>4. PICK typed \in BOOLEAN : NewHandle(ChannelsHandle(typed, <<>>, Results(graph, Len(pairs))))
  BY <1>2 DEF Calculated
<1>5. /\ Fits(graph, handles[a]) /\ Fits(graph, handles[b])
      /\ DOMAIN xs = 1..Len(xs) /\ Len(xs) \in Nat
      /\ xs \in Seq(Nat \X Nat) /\ ys \in Seq(Nat \X Nat)
      /\ \A i \in DOMAIN pairs : i \in DOMAIN xs /\ i \in DOMAIN ys
  BY HandleFits, HandleParts, ZipIs
<1>6. Values(graph', handles[a]) = Values(graph, handles[a]) /\ Values(graph', handles[b]) = Values(graph, handles[b])
  BY <1>3, <1>5, SameGraph, ValuesKept DEF OperatorsFrom, Keeps
<1>7. /\ Values(graph', handles[a]) = [i \in DOMAIN xs |-> Value(graph', xs[i])]
      /\ Values(graph', handles[b]) = [i \in DOMAIN ys |-> Value(graph', ys[i])]
  BY DEF Values
<1>. HIDE DEF pairs, xs, ys
<1>8. Values(graph', Newest) = [i \in DOMAIN pairs |-> <<op, Sum(Value(graph', pairs[i][1])), Sum(Value(graph', pairs[i][2]))>>]
  <2>1. Newest = ChannelsHandle(typed, <<>>, Results(graph, Len(pairs)))
    BY <1>4, NewestIs
  <2>2. Len(pairs) \in Nat
    BY <1>3, <1>5
  <2>. QED  BY <1>3, <2>1, <2>2, SameGraph, ResultsStand
<1>9. DOMAIN pairs = DOMAIN xs
  BY <1>3, <1>5
<1> DEFINE vs == [i \in DOMAIN xs |-> Value(graph', xs[i])]
           ws == [i \in DOMAIN ys |-> Value(graph', ys[i])]
<1>10. ChannelByChannel(op, vs, ws) = [i \in DOMAIN pairs |-> <<op, Sum(vs[i]), Sum(ws[i])>>]
  BY <1>9 DEF ChannelByChannel
<1>11. \A i \in DOMAIN pairs : /\ vs[i] = Value(graph', pairs[i][1])
                               /\ ws[i] = Value(graph', pairs[i][2])
  BY <1>3, <1>5
<1>12. Values(graph', Newest) = ChannelByChannel(op, vs, ws)
  <2>. HIDE DEF vs, ws
  <2>. QED  BY <1>8, <1>10, <1>11
<1>. QED  BY <1>6, <1>7, <1>12

LEMMA ConstantCalculates ==
  ASSUME HandlesInv, NEW a \in DOMAIN handles
  PROVE  CalculatesWithConstant(a)
<1> DEFINE xs == handles[a].outs
           values == Values(graph, handles[a])
<1> SUFFICES ASSUME NEW op \in Operations, ArithmeticWithConstant(op, a)
             PROVE  Values(graph', Newest) = ChannelByChannel(op, values, Repeated(<<"constant">>, values))
  BY DEF CalculatesWithConstant
<1> DEFINE pairs == ConstantPairs(a)
           g == WithAConstant
           constant == <<Len(graph.nodes) + 1, 1>>
<1>1. CalculatedWith(op, a)
  BY WithConstantIs DEF ArithmeticWithConstant
<1>2. /\ DOMAIN pairs = 1..Len(pairs) /\ Len(pairs) = Len(xs)
      /\ Keeps(graph, g) /\ SameOperands(graph, g)
      /\ g.nodes[Len(graph.nodes) + 1] = Constant
      /\ Len(graph.nodes) + 1 \in DOMAIN g.nodes
      /\ constant \in OutputsOf(g)
      /\ OperatorsFrom(g, op, pairs, Len(pairs), graph')
      /\ NewHandle(ChannelsHandle(handles[a].typed, <<>>, Results(g, Len(pairs))))
  BY <1>1 DEF CalculatedWith
<1>3. pairs = [i \in DOMAIN xs |-> <<xs[i], constant>>]
  BY DEF ConstantPairs
<1>4. Fits(graph, handles[a]) /\ DOMAIN xs = 1..Len(xs) /\ Len(xs) \in Nat
  BY HandleFits, HandleParts
<1>5. Fine(g) /\ Fine(graph') /\ Grown(graph, graph') /\ SameOperands(graph, graph')
      /\ Grown(g, graph') /\ SameOperands(g, graph')
  BY <1>2, KeepsTrans, SameOperandsTrans DEF OperatorsFrom, Keeps
<1>6. values = Values(graph', handles[a])
  BY <1>4, <1>5, SameGraph, ValuesKept
<1>7. values = [i \in DOMAIN xs |-> Value(graph', xs[i])]
  BY <1>6 DEF Values
<1>8. Value(graph', constant) = <<"constant">>
  <2> DEFINE n == Len(graph.nodes) + 1
  <2>1. n \in DOMAIN g.nodes /\ g.nodes[n].kind = "constant" /\ n # 0
    BY <1>2, <1>5, ConstantIs, GraphParts DEF Fine
  <2>2. n \notin Operators(g)
    BY <2>1, OperationsAssumption DEF Operators
  <2>. HIDE DEF n
  <2>3. Value(g, <<n, 1>>) = <<"constant">>
    BY <2>1, <2>2, ValueOfOther
  <2>4. Value(graph', <<n, 1>>) = Value(g, <<n, 1>>)
    BY <1>2, <1>5, ValueKept DEF n
  <2>. QED  BY <2>3, <2>4 DEF n
<1>. HIDE DEF pairs, g, xs, constant, values
<1>9. Values(graph', Newest) = [i \in DOMAIN pairs |-> <<op, Sum(Value(graph', pairs[i][1])), Sum(Value(graph', pairs[i][2]))>>]
  <2>1. Newest = ChannelsHandle(handles[a].typed, <<>>, Results(g, Len(pairs)))
    BY <1>2, NewestIs
  <2>2. Len(pairs) \in Nat
    BY <1>2, <1>4
  <2>3. ASSUME NEW typed
        PROVE  Values(graph', ChannelsHandle(typed, <<>>, Results(g, Len(pairs))))
                 = [i \in DOMAIN pairs |-> <<op, Sum(Value(graph', pairs[i][1])), Sum(Value(graph', pairs[i][2]))>>]
    <3>1. DOMAIN pairs = 1..Len(pairs) /\ OperatorsFrom(g, op, pairs, Len(pairs), graph')
      BY <1>2
    <3>. QED  BY <1>5, <2>2, <3>1, ResultsStand
  <2>. QED  BY <2>1, <2>3
<1>10. DOMAIN pairs = DOMAIN xs /\ \A i \in DOMAIN xs : pairs[i][1] = xs[i] /\ pairs[i][2] = constant
  BY <1>3
<1> DEFINE ws == Repeated(<<"constant">>, values)
<1>11. DOMAIN values = DOMAIN xs /\ \A i \in DOMAIN xs : values[i] = Value(graph', xs[i])
  BY <1>7
<1>12. \A i \in DOMAIN xs : ws[i] = <<"constant">>
  BY <1>11 DEF Repeated
<1>. HIDE DEF ws
<1>13. ChannelByChannel(op, values, ws) = [i \in DOMAIN xs |-> <<op, Sum(values[i]), Sum(ws[i])>>]
  BY <1>11 DEF ChannelByChannel
<1>14. Values(graph', Newest) = ChannelByChannel(op, values, ws)
  BY <1>8, <1>9, <1>10, <1>11, <1>12, <1>13
<1>. QED  BY <1>14 DEF ws

LEMMA StackedInOrder ==
  ASSUME HandlesInv, NEW a \in DOMAIN handles, NEW b \in DOMAIN handles
  PROVE  Stacks(a, b)
<1> DEFINE ins == handles[a].ins \o handles[b].ins
           outs == handles[a].outs \o handles[b].outs
<1>1. ASSUME StaticStack(a, b) \/ DynamicStack(a, b)
      PROVE  Newest.outs = outs /\ Newest.ins = ins
  <2>1. \E typed \in BOOLEAN : NewHandle(ChannelsHandle(typed, ins, outs))
    BY <1>1 DEF StaticStack, DynamicStack, StackedIns
  <2>. HIDE DEF ins, outs
  <2>2. PICK typed \in BOOLEAN : Newest = ChannelsHandle(typed, ins, outs)
    BY <2>1, NewestIs
  <2>. QED  BY <2>2 DEF ChannelsHandle
<1>. QED  BY <1>1 DEF Stacks

(* What a handle stands for is what was asked for, for any handles and     *)
(* operators, and stays that until a node is freed or an output            *)
(* disconnected.                                                           *)
THEOREM StandsForWhatWasAsked == Spec => ResultsAsAsked
<1>1. HandlesInv /\ [Next]_vars
      => [/\ \A a, b \in DOMAIN handles : Calculates(a, b) /\ CalculatesWithConstant(a) /\ Stacks(a, b)
          /\ ~Frees => \A a \in DOMAIN handles : Values(graph', handles[a]) = Values(graph, handles[a])]_vars
  <2> SUFFICES ASSUME HandlesInv, Next
               PROVE  /\ \A a, b \in DOMAIN handles : Calculates(a, b) /\ CalculatesWithConstant(a) /\ Stacks(a, b)
                      /\ ~Frees => \A a \in DOMAIN handles : Values(graph', handles[a]) = Values(graph, handles[a])
    BY Zenon
  <2>1. \A a, b \in DOMAIN handles : Calculates(a, b) /\ CalculatesWithConstant(a) /\ Stacks(a, b)
    BY ArithmeticCalculates, ConstantCalculates, StackedInOrder
  <2>2. ASSUME ~Frees, NEW a \in DOMAIN handles PROVE Values(graph', handles[a]) = Values(graph, handles[a])
    BY <2>2, NextKeeps, SameGraph, HandleFits, ValuesKept DEF Kept, Keeps, Alike
  <2>. QED  BY <2>1, <2>2
<1>. QED  BY <1>1, InvHolds, PTL DEF Spec, ResultsAsAsked
=============================================================================
