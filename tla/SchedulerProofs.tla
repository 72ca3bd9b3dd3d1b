--------------------------- MODULE SchedulerProofs ---------------------------
(***************************************************************************)
(* Proofs about Scheduler for every execution graph, any nesting of runs   *)
(* and any limits: what a cancelled, failed or completed run has and has   *)
(* not started.                                                            *)
(***************************************************************************)
EXTENDS Scheduler, FiniteSetTheorems, TLAPS

USE GraphsAssumption

-----------------------------------------------------------------------------
(* The inductive invariant.  Every conjunct speaks of a node, its items    *)
(* and its edges; what holds at any depth is derived from it in a state.   *)

Untouched(x) == (x \in Leaves => leaf[x] = "idle") /\ (x \in Graphs => phase[x] = "waiting")

Over(x) ==
  /\ x \in Leaves => leaf[x] \in {"ok", "failed", "cancelled"}
  /\ x \in Graphs => phase[x] = "returned"

(* The items before the one at hand are over, those after it untouched.    *)
Progress(n) ==
  \A i \in DOMAIN Items[n] :
    /\ i < next[n] => Over(Items[n][i])
    /\ i > next[n] => Untouched(Items[n][i])
    /\ i = next[n] => /\ future[n] = "running" \/ Untouched(Items[n][i])
                      /\ Items[n][i] \in Leaves => leaf[Items[n][i]] \in AtWork \cup {"idle"}

ProgressInv == \A n \in Nodes : Progress(n)

Placed(n) ==
  /\ future[n] \in {"none", "queued"} => next[n] = 1
  /\ phase[GraphOf(n)] = "waiting" => future[n] = "none"
  /\ phase[GraphOf(n)] = "returned" => future[n] \in {"none", "reaped"}
  /\ future[n] \in {"ready", "reaped"} /\ ~Cancelled => next[n] > Len(Items[n])

PlacedInv == \A n \in Nodes : Placed(n)

FailureInv ==
  /\ \A l \in Leaves : leaf[l] \in {"failed", "cancelled"} => Cancelled
  /\ \A g \in Graphs : phase[g] = "draining" => Cancelled

(* A graph that was not cancelled returns with every node reaped.          *)
ReturnInv ==
  \A g \in Graphs : phase[g] = "returned" /\ ~Cancelled =>
    \A n \in NodesOf[g] : future[n] = "reaped"

(* The edges of n whose dependency is still to be counted down.            *)
Pending(n) == {e \in Edges : e[1] = n /\ future[e[2]] # "reaped"}

CountInv ==
  \A n \in Nodes : phase[GraphOf(n)] = "running" =>
    /\ depCount[n] = Cardinality(Pending(n))
    /\ future[n] = "none" <=> Pending(n) # {}

DepsInv == \A e \in Edges : future[e[1]] # "none" => Succeeded(Inside[e[2]])

OrderInv ==
  \A n \in Nodes : \A j \in DOMAIN Items[n] :
    ~Untouched(Items[n][j]) => \A i \in 1 .. j - 1 : Succeeded(Under(Items[n][i]))

Running(g) == {n \in NodesOf[g] : future[n] = "running"}

PermitInv == \A g \in Graphs : permits[g] + Cardinality(Running(g)) = Limit[g]

Local == TypeOK /\ ProgressInv /\ PlacedInv /\ FailureInv /\ ReturnInv

IInv == Local /\ CountInv /\ DepsInv /\ OrderInv /\ PermitInv

-----------------------------------------------------------------------------
(* Facts about the graphs.                                                 *)

LEMMA NodeFacts ==
  ASSUME NEW g \in Graphs, NEW n \in NodesOf[g]
  PROVE  n \in Nodes /\ GraphOf(n) = g
BY DEF Nodes, GraphOf

LEMMA GraphFacts ==
  ASSUME NEW n \in Nodes
  PROVE  GraphOf(n) \in Graphs /\ n \in NodesOf[GraphOf(n)]
BY DEF Nodes, GraphOf

LEMMA EdgeFacts ==
  ASSUME NEW e \in Edges
  PROVE  e[1] \in Nodes /\ e[2] \in Nodes /\ GraphOf(e[1]) = GraphOf(e[2])
<1>1. PICK g \in Graphs : e[1] \in NodesOf[g] /\ e[2] \in NodesOf[g]
  BY EdgesAssumption
<1> QED
  BY <1>1, NodeFacts

LEMMA ItemFacts ==
  ASSUME NEW n \in Nodes
  PROVE  /\ Len(Items[n]) \in Nat
         /\ DOMAIN Items[n] = 1 .. Len(Items[n])
         /\ \A i \in DOMAIN Items[n] :
              /\ Items[n][i] \in Leaves \cup (Graphs \ {Root})
              /\ Items[n][i] \in ItemsOf(n)
              /\ Items[n][i] \in Leaves => Items[n][i] \notin Graphs
<1>1. Items[n] \in Seq(Leaves \cup (Graphs \ {Root}))
  BY ItemsAssumption
<1> QED
  BY <1>1 DEF ItemsOf

LEMMA UniqueItem ==
  ASSUME NEW n \in Nodes, NEW m \in Nodes, NEW i \in DOMAIN Items[n], NEW j \in DOMAIN Items[m],
         Items[n][i] = Items[m][j]
  PROVE  n = m /\ i = j
BY ItemsAssumption

LEMMA InsideFacts ==
  ASSUME NEW n \in Nodes
  PROVE  /\ Inside[n] \subseteq Leaves
         /\ \A l \in Inside[n] : \E i \in DOMAIN Items[n] : l \in Under(Items[n][i])
         /\ \A i \in DOMAIN Items[n] : Under(Items[n][i]) \subseteq Inside[n]
<1>1. Inside[n] = UNION {Under(x) : x \in ItemsOf(n)}
  BY InsideAssumption
<1>2. Inside[n] \subseteq Leaves
  BY InsideAssumption
<1> QED
  BY <1>1, <1>2 DEF ItemsOf

LEMMA UnderLeaf ==
  ASSUME NEW x \in Leaves
  PROVE  Under(x) = {x}
BY DEF Under

LEMMA UnderGraph ==
  ASSUME NEW g \in Graphs, NEW l
  PROVE  l \in Under(g) <=> \E n \in NodesOf[g] : l \in Inside[n]
<1>1. g \notin Leaves
  OBVIOUS
<1> QED
  BY <1>1 DEF Under

-----------------------------------------------------------------------------
(* What holds at any depth.                                                *)

(* Nothing has begun under an item that is untouched.                      *)
LEMMA UntouchedDeep ==
  ASSUME Local, NEW n \in Nodes, NEW i \in DOMAIN Items[n], Untouched(Items[n][i])
  PROVE  \A l \in Under(Items[n][i]) : ~Begun(l)
<1> DEFINE Bad == {g \in Graphs : phase[g] = "waiting" /\ \E l \in Under(g) : Begun(l)}
<1>1. Bad = {}
  <2>1. SUFFICES ASSUME Bad # {} PROVE FALSE
    OBVIOUS
  <2>2. PICK g \in Bad : \A m \in NodesOf[g] : ItemsOf(m) \cap Bad = {}
    <3>1. Bad \in SUBSET Graphs
      OBVIOUS
    <3> HIDE DEF Bad
    <3> QED
      BY <2>1, <3>1, NestingAssumption
  <2>3. PICK l : Begun(l) /\ l \in Under(g)
    OBVIOUS
  <2>31. PICK m \in NodesOf[g] : l \in Inside[m]
    BY <2>3, UnderGraph
  <2>4. m \in Nodes /\ GraphOf(m) = g
    BY NodeFacts
  <2>5. future[m] = "none" /\ next[m] = 1
    BY <2>4 DEF Local, PlacedInv, Placed
  <2>6. PICK j \in DOMAIN Items[m] : l \in Under(Items[m][j])
    BY <2>31, <2>4, InsideFacts
  <2>7. Untouched(Items[m][j])
    <3>1. j \in Nat \ {0}
      BY <2>4, ItemFacts
    <3>2. Progress(m)
      BY <2>4 DEF Local, ProgressInv
    <3> QED
      BY <2>5, <3>1, <3>2 DEF Progress
  <2>8. Items[m][j] \in ItemsOf(m) /\ Items[m][j] \in Leaves \cup Graphs
    BY <2>4, ItemFacts
  <2>9. CASE Items[m][j] \in Leaves
    BY <2>3, <2>6, <2>7, <2>9, UnderLeaf DEF Untouched, Begun
  <2>10. CASE Items[m][j] \in Graphs
    BY <2>2, <2>3, <2>6, <2>7, <2>8, <2>10 DEF Untouched
  <2> QED
    BY <2>8, <2>9, <2>10
<1>2. CASE Items[n][i] \in Leaves
  BY <1>2, UnderLeaf DEF Untouched, Begun
<1>3. CASE Items[n][i] \in Graphs
  BY <1>1, <1>3 DEF Untouched
<1> QED
  BY <1>2, <1>3, ItemFacts

(* Nothing has begun under a node that has not.                            *)
LEMMA NodeUntouched ==
  ASSUME Local, NEW n \in Nodes, future[n] \in {"none", "queued"}, NEW l \in Inside[n]
  PROVE  ~Begun(l)
<1>1. PICK i \in DOMAIN Items[n] : l \in Under(Items[n][i])
  BY InsideFacts
<1>2. Untouched(Items[n][i])
  <2>1. i \in Nat \ {0}
    BY ItemFacts
  <2>2. Progress(n) /\ next[n] = 1
    BY DEF Local, ProgressInv, PlacedInv, Placed
  <2> QED
    BY <2>1, <2>2 DEF Progress
<1> QED
  BY <1>1, <1>2, UntouchedDeep

(* A leaf at work is under a node that is.                                 *)
LEMMA LiveDeep ==
  ASSUME Local, NEW n \in Nodes, Live(n)
  PROVE  future[n] = "running"
<1> DEFINE LiveLeaf(l) == leaf[l] \in AtWork
<1> DEFINE Bad == {g \in Graphs : phase[g] \notin {"running", "draining"} /\ \E l \in Under(g) : LiveLeaf(l)}
<1>1. ASSUME NEW m \in Nodes, NEW l \in Inside[m], LiveLeaf(l), future[m] # "running"
      PROVE  \E j \in DOMAIN Items[m] : Items[m][j] \in Bad
  <2>1. PICK j \in DOMAIN Items[m] : l \in Under(Items[m][j])
    BY <1>1, InsideFacts
  <2>2. j \in Nat /\ next[m] \in Nat /\ Items[m][j] \in Leaves \cup Graphs
    BY ItemFacts DEF Local, TypeOK
  <2>3. Untouched(Items[m][j]) \/ Over(Items[m][j])
    <3>1. Progress(m)
      BY DEF Local, ProgressInv
    <3> QED
      BY <1>1, <2>2, <3>1 DEF Progress
  <2>4. Items[m][j] \in Graphs
    <3>1. SUFFICES ASSUME Items[m][j] \in Leaves PROVE FALSE
      BY <2>2
    <3>2. l = Items[m][j]
      BY <2>1, <3>1, UnderLeaf
    <3> QED
      BY <1>1, <2>3, <3>1, <3>2 DEF Untouched, Over, AtWork
  <2>5. phase[Items[m][j]] \notin {"running", "draining"}
    BY <2>3, <2>4 DEF Untouched, Over
  <2> QED
    BY <1>1, <2>1, <2>4, <2>5
<1>2. Bad = {}
  <2>1. SUFFICES ASSUME Bad # {} PROVE FALSE
    OBVIOUS
  <2>2. PICK g \in Bad : \A m \in NodesOf[g] : ItemsOf(m) \cap Bad = {}
    <3>1. Bad \in SUBSET Graphs
      OBVIOUS
    <3> HIDE DEF Bad
    <3> QED
      BY <2>1, <3>1, NestingAssumption
  <2>3. PICK l : LiveLeaf(l) /\ l \in Under(g)
    OBVIOUS
  <2>31. PICK m \in NodesOf[g] : l \in Inside[m]
    BY <2>3, UnderGraph
  <2>4. m \in Nodes /\ GraphOf(m) = g
    BY NodeFacts
  <2>5. future[m] # "running"
    <3>1. phase[g] \in {"waiting", "returned"}
      BY DEF Local, TypeOK
    <3> QED
      BY <2>4, <3>1 DEF Local, PlacedInv, Placed
  <2>6. PICK j \in DOMAIN Items[m] : Items[m][j] \in Bad
    BY <1>1, <2>3, <2>31, <2>4, <2>5
  <2>7. Items[m][j] \in ItemsOf(m)
    BY <2>4, ItemFacts
  <2> QED
    BY <2>2, <2>6, <2>7
<1>3. PICK l \in Inside[n] : LiveLeaf(l)
  BY DEF Live
<1> HIDE DEF Bad
<1> QED
  BY <1>1, <1>2, <1>3

(* Without a cancellation what is over has succeeded, at every depth.      *)
LEMMA OverDeep ==
  ASSUME Local, ~Cancelled, NEW n \in Nodes, NEW i \in DOMAIN Items[n], Over(Items[n][i])
  PROVE  Succeeded(Under(Items[n][i]))
<1> DEFINE Bad == {g \in Graphs : phase[g] = "returned" /\ \E l \in Under(g) : leaf[l] # "ok"}
<1>1. \A l \in Leaves : Over(l) => leaf[l] = "ok"
  BY DEF Local, FailureInv, Over
<1>2. Bad = {}
  <2>1. SUFFICES ASSUME Bad # {} PROVE FALSE
    OBVIOUS
  <2>2. PICK g \in Bad : \A m \in NodesOf[g] : ItemsOf(m) \cap Bad = {}
    <3>1. Bad \in SUBSET Graphs
      OBVIOUS
    <3> HIDE DEF Bad
    <3> QED
      BY <2>1, <3>1, NestingAssumption
  <2>3. PICK l : leaf[l] # "ok" /\ l \in Under(g)
    OBVIOUS
  <2>4. PICK m \in NodesOf[g] : l \in Inside[m]
    BY <2>3, UnderGraph
  <2>5. m \in Nodes /\ GraphOf(m) = g
    BY NodeFacts
  <2>6. next[m] > Len(Items[m])
    BY <2>5 DEF Local, ReturnInv, PlacedInv, Placed
  <2>7. PICK j \in DOMAIN Items[m] : l \in Under(Items[m][j])
    BY <2>4, <2>5, InsideFacts
  <2>8. Over(Items[m][j])
    <3>1. j \in 1 .. Len(Items[m]) /\ Len(Items[m]) \in Nat /\ next[m] \in Nat
      BY <2>5, ItemFacts DEF Local, TypeOK
    <3>2. j < next[m]
      BY <2>6, <3>1
    <3>3. Progress(m)
      BY <2>5 DEF Local, ProgressInv
    <3> QED
      BY <3>2, <3>3 DEF Progress
  <2>9. Items[m][j] \in ItemsOf(m) /\ Items[m][j] \in Leaves \cup Graphs
    BY <2>5, ItemFacts
  <2>10. CASE Items[m][j] \in Leaves
    BY <1>1, <2>3, <2>7, <2>8, <2>10, UnderLeaf
  <2>11. CASE Items[m][j] \in Graphs
    BY <2>2, <2>3, <2>7, <2>8, <2>9, <2>11 DEF Over
  <2> QED
    BY <2>9, <2>10, <2>11
<1>3. CASE Items[n][i] \in Leaves
  BY <1>1, <1>3, UnderLeaf DEF Succeeded
<1>4. CASE Items[n][i] \in Graphs
  BY <1>2, <1>4 DEF Over, Succeeded
<1> QED
  BY <1>3, <1>4, ItemFacts

(* The items before the one at hand have.                                  *)
LEMMA PassedDeep ==
  ASSUME Local, ~Cancelled, NEW n \in Nodes, NEW i \in DOMAIN Items[n], i < next[n]
  PROVE  Succeeded(Under(Items[n][i]))
<1>1. Over(Items[n][i])
  BY DEF Local, ProgressInv, Progress
<1> QED
  BY <1>1, OverDeep

LEMMA NodeDone ==
  ASSUME Local, ~Cancelled, NEW n \in Nodes, future[n] \in {"ready", "reaped"}
  PROVE  Succeeded(Inside[n])
<1>1. next[n] > Len(Items[n])
  BY DEF Local, PlacedInv, Placed
<1>2. ASSUME NEW l \in Inside[n] PROVE leaf[l] = "ok"
  <2>1. PICK i \in DOMAIN Items[n] : l \in Under(Items[n][i])
    BY <1>2, InsideFacts
  <2>2. i \in 1 .. Len(Items[n]) /\ Len(Items[n]) \in Nat /\ next[n] \in Nat
    BY ItemFacts DEF Local, TypeOK
  <2>3. i < next[n]
    BY <1>1, <2>2
  <2> QED
    BY <2>1, <2>3, PassedDeep DEF Succeeded
<1> QED
  BY <1>2 DEF Succeeded

-----------------------------------------------------------------------------
(* What a step has to leave alone for a conjunct to survive it.            *)

OkStays == \A l \in Leaves : leaf[l] = "ok" => leaf'[l] = "ok"

LEMMA SucceededStays ==
  ASSUME OkStays, NEW S \in SUBSET Leaves, Succeeded(S)
  PROVE  Succeeded(S)'
BY DEF OkStays, Succeeded

LEMMA CountFrame ==
  ASSUME CountInv, depCount' = depCount,
         \A g \in Graphs : phase'[g] = "running" => phase[g] = "running",
         \A n \in Nodes : phase'[GraphOf(n)] = "running" =>
           /\ future'[n] = "reaped" <=> future[n] = "reaped"
           /\ future'[n] = "none" <=> future[n] = "none"
  PROVE  CountInv'
<1>1. ASSUME NEW n \in Nodes, phase'[GraphOf(n)] = "running"
      PROVE  /\ depCount'[n] = Cardinality(Pending(n)')
             /\ future'[n] = "none" <=> Pending(n)' # {}
  <2>1. Pending(n)' = Pending(n)
    BY <1>1, EdgeFacts DEF Pending
  <2>2. phase[GraphOf(n)] = "running"
    BY <1>1, GraphFacts
  <2>3. /\ depCount[n] = Cardinality(Pending(n))
        /\ future[n] = "none" <=> Pending(n) # {}
    BY <2>2 DEF CountInv
  <2> QED
    BY <1>1, <2>1, <2>3
<1> QED
  BY <1>1 DEF CountInv

LEMMA DepsFrame ==
  ASSUME DepsInv, OkStays, \A n \in Nodes : future'[n] # "none" => future[n] # "none"
  PROVE  DepsInv'
<1>1. ASSUME NEW e \in Edges, future'[e[1]] # "none" PROVE Succeeded(Inside[e[2]])'
  <2>1. Succeeded(Inside[e[2]])
    BY <1>1, EdgeFacts DEF DepsInv
  <2>2. Inside[e[2]] \in SUBSET Leaves
    BY EdgeFacts, InsideFacts
  <2> QED
    BY <2>1, <2>2, SucceededStays
<1> QED
  BY <1>1 DEF DepsInv

(* Where an item is begun, the items before it have succeeded.             *)
LEMMA OrderFrame ==
  ASSUME OrderInv, OkStays,
         \A n \in Nodes : \A j \in DOMAIN Items[n] :
           Untouched(Items[n][j]) /\ ~Untouched(Items[n][j])' =>
             \A i \in 1 .. j - 1 : Succeeded(Under(Items[n][i]))
  PROVE  OrderInv'
<1>1. ASSUME NEW n \in Nodes, NEW j \in DOMAIN Items[n], ~Untouched(Items[n][j])',
             NEW i \in 1 .. j - 1
      PROVE  Succeeded(Under(Items[n][i]))'
  <2>1. Succeeded(Under(Items[n][i]))
    BY <1>1 DEF OrderInv
  <2>2. i \in DOMAIN Items[n]
    BY ItemFacts
  <2>3. Under(Items[n][i]) \in SUBSET Leaves
    BY <2>2, InsideFacts
  <2> QED
    BY <2>1, <2>3, SucceededStays
<1> QED
  BY <1>1 DEF OrderInv

LEMMA PermitFrame ==
  ASSUME PermitInv, permits' = permits,
         \A n \in Nodes : future'[n] = "running" <=> future[n] = "running"
  PROVE  PermitInv'
<1>1. ASSUME NEW g \in Graphs PROVE Running(g)' = Running(g)
  BY NodeFacts DEF Running
<1> QED
  BY <1>1 DEF PermitInv

LEMMA ProgressFrame ==
  ASSUME ProgressInv, leaf' = leaf, next' = next,
         \A g \in Graphs : /\ phase[g] = "waiting" => phase'[g] = "waiting"
                           /\ phase[g] = "returned" => phase'[g] = "returned",
         \A n \in Nodes : future[n] = "running" => future'[n] = "running"
  PROVE  ProgressInv'
BY DEF ProgressInv, Progress, Untouched, Over

LEMMA RunningFinite ==
  ASSUME NEW g \in Graphs
  PROVE  IsFiniteSet(Running(g)) /\ Cardinality(Running(g)) \in Nat
<1>1. Running(g) \in SUBSET NodesOf[g]
  BY DEF Running
<1>2. IsFiniteSet(Running(g))
  BY <1>1, FiniteAssumption, FS_Subset
<1> QED
  BY <1>2, FS_CardinalityType

-----------------------------------------------------------------------------
(* Every action keeps the invariant.                                       *)

LEMMA Initially == Init => IInv
<1> SUFFICES ASSUME Init PROVE IInv
  OBVIOUS
<1> USE DEF Init
<1>1. TypeOK
  <2>1. Limit \in [Graphs -> Nat]
    BY LimitAssumption
  <2>2. permits \in [Graphs -> Nat] /\ depCount \in [Nodes -> Nat] /\ next \in [Nodes -> Nat \ {0}]
    BY <2>1
  <2> QED
    BY <2>2 DEF TypeOK
<1>2. ProgressInv
  BY ItemFacts DEF ProgressInv, Progress, Untouched
<1>3. PlacedInv
  BY GraphFacts DEF PlacedInv, Placed
<1>4. FailureInv /\ ReturnInv
  BY DEF FailureInv, ReturnInv
<1>5. CountInv
  BY GraphFacts DEF CountInv
<1>6. DepsInv
  BY EdgeFacts DEF DepsInv
<1>7. OrderInv
  BY ItemFacts DEF OrderInv, Untouched
<1>8. PermitInv
  <2>1. ASSUME NEW g \in Graphs PROVE permits[g] + Cardinality(Running(g)) = Limit[g]
    <3>1. Running(g) = {}
      BY NodeFacts DEF Running
    <3>2. Limit[g] \in Nat
      BY LimitAssumption
    <3> QED
      BY <3>1, <3>2, FS_EmptySet
  <2> QED
    BY <2>1 DEF PermitInv
<1> QED
  BY <1>1, <1>2, <1>3, <1>4, <1>5, <1>6, <1>7, <1>8 DEF IInv, Local

LEMMA AcquireStep ==
  ASSUME IInv, NEW n \in Nodes, Acquire(n)
  PROVE  IInv'
<1> DEFINE h == GraphOf(n)
<1>1. h \in Graphs /\ n \in NodesOf[h] /\ Semaphore(h) = h
  BY GraphFacts DEF Semaphore
<1>2. TypeOK /\ TypeOK'
  BY <1>1 DEF IInv, Local, TypeOK, Acquire
<1>3. /\ UNCHANGED <<phase, depCount, next, leaf>> /\ (Cancelled' <=> Cancelled) /\ OkStays
      /\ phase[h] \notin {"draining", "waiting", "returned"} /\ future[n] = "queued"
  BY GraphFacts DEF Cancelled, OkStays, Acquire, IInv, Local, PlacedInv, Placed
<1>4. /\ \A m \in Nodes \ {n} : future'[m] = future[m]
      /\ future'[n] \in {"ready", "running"}
      /\ Cancelled <=> future'[n] = "ready"
  BY <1>2 DEF Acquire, TypeOK
<1>5. \A m \in Nodes :
        /\ future'[m] = "reaped" <=> future[m] = "reaped"
        /\ future'[m] = "none" <=> future[m] = "none"
        /\ future[m] = "running" => future'[m] = "running"
  BY <1>3, <1>4
<1>6. ProgressInv'
  BY <1>3, <1>5, ProgressFrame DEF IInv, Local
<1>7. PlacedInv'
  BY <1>3, <1>4 DEF IInv, Local, PlacedInv, Placed
<1>8. FailureInv' /\ ReturnInv'
  BY <1>3, <1>5, NodeFacts DEF IInv, Local, FailureInv, ReturnInv
<1>9. CountInv'
  BY <1>3, <1>5, CountFrame DEF IInv
<1>10. DepsInv'
  BY <1>3, <1>5, DepsFrame DEF IInv
<1>11. OrderInv'
  BY <1>3, OrderFrame DEF IInv, Untouched
<1>12. PermitInv'
  <2>1. CASE Cancelled
    <3>1. permits' = permits
      BY <2>1 DEF Acquire
    <3>2. \A m \in Nodes : future'[m] = "running" <=> future[m] = "running"
      BY <1>3, <1>4, <2>1
    <3> QED
      BY <3>1, <3>2, PermitFrame DEF IInv
  <2>2. CASE ~Cancelled
    <3>1. ASSUME NEW g \in Graphs, g # h
          PROVE  permits'[g] = permits[g] /\ Running(g)' = Running(g)
      <4>1. n \notin NodesOf[g]
        BY <1>1, <3>1, NodeFacts
      <4>2. permits'[g] = permits[g]
        BY <1>1, <1>2, <2>2, <3>1 DEF Acquire, TypeOK
      <4> QED
        BY <1>4, <4>1, <4>2, NodeFacts DEF Running
    <3>2. permits'[h] = permits[h] - 1
      BY <1>1, <1>2, <2>2 DEF Acquire, TypeOK
    <3>3. Running(h)' = Running(h) \cup {n} /\ n \notin Running(h)
      BY <1>1, <1>3, <1>4, <2>2, NodeFacts DEF Running
    <3>4. Cardinality(Running(h)') = Cardinality(Running(h)) + 1 /\ Cardinality(Running(h)) \in Nat
      BY <1>1, <3>3, RunningFinite, FS_AddElement
    <3>5. permits[h] \in Nat /\ permits[h] + Cardinality(Running(h)) = Limit[h]
      BY <1>1, <1>2 DEF IInv, TypeOK, PermitInv
    <3>6. permits'[h] + Cardinality(Running(h)') = Limit[h]
      BY <3>2, <3>4, <3>5
    <3> HIDE DEF h
    <3> QED
      BY <3>1, <3>6 DEF PermitInv, IInv
  <2> QED
    BY <2>1, <2>2
<1> QED
  BY <1>2, <1>6, <1>7, <1>8, <1>9, <1>10, <1>11, <1>12 DEF IInv, Local

LEMMA AcquireFailsStep ==
  ASSUME IInv, NEW n \in Nodes, AcquireFails(n)
  PROVE  IInv'
<1>1. TypeOK /\ TypeOK'
  BY DEF IInv, Local, TypeOK, AcquireFails
<1>2. /\ UNCHANGED <<phase, depCount, next, permits, leaf>>
      /\ Cancelled /\ Cancelled' /\ OkStays
      /\ phase[GraphOf(n)] = "draining" /\ future[n] = "queued"
  BY GraphFacts DEF Cancelled, OkStays, AcquireFails, IInv, Local, FailureInv
<1>3. future'[n] = "ready" /\ \A m \in Nodes \ {n} : future'[m] = future[m]
  BY <1>1 DEF AcquireFails, TypeOK
<1>4. \A m \in Nodes :
        /\ future'[m] = "reaped" <=> future[m] = "reaped"
        /\ future'[m] = "none" <=> future[m] = "none"
        /\ future'[m] = "running" <=> future[m] = "running"
  BY <1>2, <1>3
<1>5. ProgressInv'
  BY <1>2, <1>4, ProgressFrame DEF IInv, Local
<1>6. PlacedInv'
  BY <1>2, <1>3 DEF IInv, Local, PlacedInv, Placed
<1>7. FailureInv' /\ ReturnInv'
  BY <1>2 DEF FailureInv, ReturnInv
<1>8. CountInv'
  BY <1>2, <1>4, CountFrame DEF IInv
<1>9. DepsInv'
  BY <1>2, <1>4, DepsFrame DEF IInv
<1>10. OrderInv'
  BY <1>2, OrderFrame DEF IInv, Untouched
<1>11. PermitInv'
  BY <1>2, <1>4, PermitFrame DEF IInv
<1> QED
  BY <1>1, <1>5, <1>6, <1>7, <1>8, <1>9, <1>10, <1>11 DEF IInv, Local

(* The node releases its permit: its items are over, or it was cancelled.  *)
LEMMA LeaveNodeStep ==
  ASSUME IInv, NEW n \in Nodes, LeaveNode(n)
  PROVE  IInv'
<1> DEFINE h == GraphOf(n)
<1>1. h \in Graphs /\ n \in NodesOf[h] /\ Semaphore(h) = h
  BY GraphFacts DEF Semaphore
<1>2. TypeOK /\ TypeOK'
  BY <1>1 DEF IInv, Local, TypeOK, LeaveNode
<1>3. /\ UNCHANGED <<phase, depCount, next, leaf>>
      /\ Cancelled' <=> Cancelled
      /\ OkStays
      /\ future[n] = "running"
      /\ phase[h] \notin {"waiting", "returned"}
  BY GraphFacts DEF Cancelled, OkStays, LeaveNode, IInv, Local, PlacedInv, Placed
<1>4. future'[n] = "ready" /\ \A m \in Nodes \ {n} : future'[m] = future[m]
  BY <1>2 DEF LeaveNode, TypeOK
<1>5. \A m \in Nodes :
        /\ future'[m] = "reaped" <=> future[m] = "reaped"
        /\ future'[m] = "none" <=> future[m] = "none"
  BY <1>3, <1>4
<1>6. ProgressInv'
  <2>1. ASSUME NEW m \in Nodes, m # n PROVE Progress(m)'
    BY <1>3, <1>4, <2>1 DEF IInv, Local, ProgressInv, Progress, Untouched, Over
  <2>2. Progress(n)'
    <3>1. ASSUME NEW i \in DOMAIN Items[n], i = next[n] PROVE Untouched(Items[n][i])
      <4>1. i \in 1 .. Len(Items[n]) /\ Items[n][i] \in Leaves \cup Graphs
        BY ItemFacts
      <4>2. HasItem(n) /\ Item(n) = Items[n][i]
        BY <1>3, <3>1, <4>1, ItemFacts DEF HasItem, Item
      <4> QED
        BY <4>1, <4>2 DEF LeaveNode, InItem, AtLeaf, AtGraph, Untouched
    <3> QED
      BY <1>3, <3>1 DEF IInv, Local, ProgressInv, Progress, Untouched, Over
  <2> QED
    BY <2>1, <2>2 DEF ProgressInv
<1>7. PlacedInv'
  <2>1. Cancelled \/ next[n] > Len(Items[n])
    BY <1>2, <1>3, ItemFacts DEF LeaveNode, HasItem, TypeOK
  <2> QED
    BY <1>3, <1>4, <2>1 DEF IInv, Local, PlacedInv, Placed
<1>8. FailureInv' /\ ReturnInv'
  BY <1>3, <1>5, NodeFacts DEF IInv, Local, FailureInv, ReturnInv
<1>9. CountInv'
  BY <1>3, <1>5, CountFrame DEF IInv
<1>10. DepsInv'
  BY <1>3, <1>5, DepsFrame DEF IInv
<1>11. OrderInv'
  BY <1>3, OrderFrame DEF IInv, Untouched
<1>12. PermitInv'
  <2>1. ASSUME NEW g \in Graphs, g # h
        PROVE  permits'[g] = permits[g] /\ Running(g)' = Running(g)
    <3>1. n \notin NodesOf[g]
      BY <1>1, <2>1, NodeFacts
    <3>2. permits'[g] = permits[g]
      BY <1>1, <1>2, <2>1 DEF LeaveNode, TypeOK
    <3> QED
      BY <1>4, <3>1, <3>2, NodeFacts DEF Running
  <2>2. permits'[h] = permits[h] + 1
    BY <1>1, <1>2 DEF LeaveNode, TypeOK
  <2>3. Running(h)' = Running(h) \ {n} /\ n \in Running(h)
    BY <1>1, <1>3, <1>4, NodeFacts DEF Running
  <2>4. Cardinality(Running(h)') = Cardinality(Running(h)) - 1 /\ Cardinality(Running(h)) \in Nat
    BY <1>1, <2>3, RunningFinite, FS_RemoveElement
  <2>5. permits[h] \in Nat /\ permits[h] + Cardinality(Running(h)) = Limit[h]
    BY <1>1, <1>2 DEF IInv, TypeOK, PermitInv
  <2>6. permits'[h] + Cardinality(Running(h)') = Limit[h]
    BY <2>2, <2>4, <2>5
  <2> HIDE DEF h
  <2> QED
    BY <2>1, <2>6 DEF PermitInv, IInv
<1> QED
  BY <1>2, <1>6, <1>7, <1>8, <1>9, <1>10, <1>11, <1>12 DEF IInv, Local

LEMMA DrainStep ==
  ASSUME IInv, NEW n \in Nodes, Drain(n)
  PROVE  IInv'
<1>1. TypeOK /\ TypeOK'
  BY DEF IInv, Local, TypeOK, Drain
<1>2. /\ UNCHANGED <<phase, depCount, next, permits, leaf>>
      /\ Cancelled /\ Cancelled' /\ OkStays
      /\ phase[GraphOf(n)] = "draining" /\ future[n] = "ready"
  BY GraphFacts DEF Cancelled, OkStays, Drain, IInv, Local, FailureInv
<1>3. future'[n] = "reaped" /\ \A m \in Nodes \ {n} : future'[m] = future[m]
  BY <1>1 DEF Drain, TypeOK
<1>4. \A m \in Nodes :
        /\ phase[GraphOf(m)] = "running" => (future'[m] = "reaped" <=> future[m] = "reaped")
        /\ future'[m] = "none" <=> future[m] = "none"
        /\ future'[m] = "running" <=> future[m] = "running"
  BY <1>2, <1>3
<1>5. ProgressInv'
  BY <1>2, <1>4, ProgressFrame DEF IInv, Local
<1>6. PlacedInv'
  BY <1>2, <1>3 DEF IInv, Local, PlacedInv, Placed
<1>7. FailureInv' /\ ReturnInv'
  BY <1>2 DEF FailureInv, ReturnInv
<1>8. CountInv'
  BY <1>2, <1>4, CountFrame DEF IInv
<1>9. DepsInv'
  BY <1>2, <1>4, DepsFrame DEF IInv
<1>10. OrderInv'
  BY <1>2, OrderFrame DEF IInv, Untouched
<1>11. PermitInv'
  BY <1>2, <1>4, PermitFrame DEF IInv
<1> QED
  BY <1>1, <1>5, <1>6, <1>7, <1>8, <1>9, <1>10, <1>11 DEF IInv, Local

(* What the steps of a leaf have in common: the leaf at hand moves on, and *)
(* the node moves past it once it is over.                                 *)
LEMMA LeafStep ==
  ASSUME IInv, NEW n \in Nodes, AtLeaf(n),
         NEW to \in AtWork \cup {"ok", "failed", "cancelled"},
         leaf[Item(n)] \in AtWork \cup {"idle"},
         leaf[Item(n)] = "idle" => ~Cancelled,
         leaf' = [leaf EXCEPT ![Item(n)] = to],
         next' = IF to \in AtWork THEN next ELSE [next EXCEPT ![n] = @ + 1],
         UNCHANGED <<phase, depCount, future, permits, ctrlC>>, fastFail' \in BOOLEAN,
         Cancelled => Cancelled', to \in {"failed", "cancelled"} => Cancelled'
  PROVE  IInv'
<1> USE DEF AtWork
<1> PICK i : i = next[n]
  OBVIOUS
<1>1. TypeOK /\ TypeOK'
  BY DEF IInv, Local, TypeOK, AtLeaf, HasItem
<1>2. future[n] = "running" /\ i \in DOMAIN Items[n] /\ Item(n) = Items[n][i] /\ Item(n) \in Leaves
  BY <1>1, ItemFacts DEF AtLeaf, HasItem, Item, TypeOK
<1>3. leaf'[Item(n)] = to /\ \A l \in Leaves : l # Item(n) => leaf'[l] = leaf[l]
  BY <1>1, <1>2 DEF TypeOK
<1>4. /\ \A m \in Nodes : m # n => next'[m] = next[m]
      /\ next'[n] = IF to \in AtWork THEN i ELSE i + 1
  BY <1>1 DEF TypeOK
<1>5. OkStays
  BY <1>3 DEF OkStays
<1>6. ProgressInv'
  <2>1. ASSUME NEW m \in Nodes, m # n PROVE Progress(m)'
    <3>1. \A j \in DOMAIN Items[m] : Items[m][j] # Item(n)
      BY <1>2, <2>1, UniqueItem
    <3>2. \A j \in DOMAIN Items[m] : Items[m][j] \in Leaves => leaf'[Items[m][j]] = leaf[Items[m][j]]
      BY <1>3, <3>1
    <3> QED
      BY <1>4, <2>1, <3>2 DEF IInv, Local, ProgressInv, Progress, Untouched, Over
  <2>2. Progress(n)'
    <3>1. ASSUME NEW j \in DOMAIN Items[n], j # i
          PROVE  Items[n][j] \in Leaves => leaf'[Items[n][j]] = leaf[Items[n][j]]
      BY <1>2, <1>3, <3>1, UniqueItem
    <3>2. ASSUME NEW j \in DOMAIN Items[n], j < i PROVE Over(Items[n][j])'
      <4>1. Over(Items[n][j])
        BY <3>2 DEF IInv, Local, ProgressInv, Progress
      <4>2. j # i
        BY <3>2, <1>1, ItemFacts DEF TypeOK
      <4> QED
        BY <3>1, <4>1, <4>2 DEF Over
    <3>3. ASSUME NEW j \in DOMAIN Items[n], j > i PROVE Untouched(Items[n][j])'
      <4>1. Untouched(Items[n][j])
        BY <3>3 DEF IInv, Local, ProgressInv, Progress
      <4>2. j # i
        BY <3>3, <1>1, ItemFacts DEF TypeOK
      <4> QED
        BY <3>1, <4>1, <4>2 DEF Untouched
    <3>4. i \in Nat /\ \A j \in DOMAIN Items[n] : j \in Nat
      BY <1>1, ItemFacts DEF TypeOK
    <3>5. CASE to \in AtWork
      <4>1. next'[n] = i /\ future'[n] = "running"
        BY <1>2, <1>4, <3>5
      <4> QED
        BY <1>2, <1>3, <3>2, <3>3, <3>5, <4>1 DEF Progress
    <3>6. CASE to \in {"ok", "failed", "cancelled"}
      <4>1. next'[n] = i + 1
        BY <1>4, <3>6
      <4>2. Over(Items[n][i])'
        BY <1>2, <1>3, <3>6 DEF Over
      <4>3. ASSUME NEW j \in DOMAIN Items[n]
            PROVE  /\ j < next'[n] => Over(Items[n][j])'
                   /\ j > next'[n] => Untouched(Items[n][j])'
                   /\ j = next'[n] => Untouched(Items[n][j])'
        <5>1. CASE j < i
          BY <3>2, <3>4, <4>1, <5>1
        <5>2. CASE j = i
          BY <3>4, <4>1, <4>2, <5>2
        <5>3. CASE j > i
          BY <3>3, <3>4, <4>1, <5>3
        <5> QED
          BY <3>4, <5>1, <5>2, <5>3
      <4> QED
        BY <4>3 DEF Progress, Untouched
    <3> QED
      BY <3>5, <3>6
  <2> QED
    BY <2>1, <2>2 DEF ProgressInv
<1>7. PlacedInv'
  <2>1. ASSUME NEW m \in Nodes PROVE Placed(m)'
    <3>1. Placed(m)
      BY DEF IInv, Local, PlacedInv
    <3>2. CASE m = n
      BY <1>2, <3>1, <3>2 DEF Placed
    <3>3. CASE m # n
      BY <1>4, <3>1, <3>3 DEF Placed
    <3> QED
      BY <3>2, <3>3
  <2> QED
    BY <2>1 DEF PlacedInv
<1>8. FailureInv' /\ ReturnInv'
  BY <1>3 DEF IInv, Local, FailureInv, ReturnInv
<1>9. CountInv'
  BY CountFrame DEF IInv
<1>10. DepsInv'
  BY <1>5, DepsFrame DEF IInv
<1>11. OrderInv'
  <2>1. ASSUME NEW m \in Nodes, NEW j \in DOMAIN Items[m], Untouched(Items[m][j]), ~Untouched(Items[m][j])'
        PROVE  m = n /\ j = i /\ ~Cancelled
    <3>1. Items[m][j] = Item(n) /\ leaf[Item(n)] = "idle"
      BY <1>2, <1>3, <2>1, ItemFacts DEF Untouched
    <3> QED
      BY <1>2, <3>1, UniqueItem
  <2>2. ASSUME ~Cancelled, NEW k \in 1 .. i - 1 PROVE Succeeded(Under(Items[n][k]))
    <3>1. k \in DOMAIN Items[n] /\ k < next[n]
      BY <1>1, <1>2, ItemFacts DEF TypeOK
    <3> QED
      BY <2>2, <3>1, PassedDeep DEF IInv
  <2> QED
    BY <1>5, <2>1, <2>2, OrderFrame DEF IInv
<1>12. PermitInv'
  BY PermitFrame DEF IInv
<1> QED
  BY <1>1, <1>6, <1>7, <1>8, <1>9, <1>10, <1>11, <1>12 DEF IInv, Local

LEMMA BeginLeafStep ==
  ASSUME IInv, NEW n \in Nodes, BeginLeaf(n)
  PROVE  IInv'
<1> DEFINE to == IF Item(n) \in InProcess THEN "ok" ELSE "lookup"
<1>1. to \in AtWork \cup {"ok"} /\ (to \in AtWork <=> Item(n) \notin InProcess)
  BY DEF AtWork
<1>2. leaf' = [leaf EXCEPT ![Item(n)] = to]
  BY DEF BeginLeaf
<1>3. next' = IF to \in AtWork THEN next ELSE [next EXCEPT ![n] = @ + 1]
  BY <1>1 DEF BeginLeaf
<1>4. to \notin {"failed", "cancelled"}
  OBVIOUS
<1>5. fastFail' \in BOOLEAN /\ (Cancelled => Cancelled')
  BY DEF BeginLeaf, Cancelled, IInv, Local, TypeOK
<1> HIDE DEF to
<1> QED
  BY <1>1, <1>2, <1>3, <1>4, <1>5, LeafStep DEF BeginLeaf

(* start(), and the process it leads to: neither ends the leaf.            *)
LEMMA LeafGoesOn ==
  ASSUME IInv, NEW n \in Nodes, AtLeaf(n), leaf[Item(n)] \in AtWork, NEW to \in AtWork,
         leaf' = [leaf EXCEPT ![Item(n)] = to],
         UNCHANGED <<phase, depCount, future, next, permits, fastFail, ctrlC>>
  PROVE  IInv'
<1>1. fastFail' \in BOOLEAN /\ (Cancelled => Cancelled')
  BY DEF Cancelled, IInv, Local, TypeOK
<1>2. leaf[Item(n)] # "idle" /\ to \notin {"failed", "cancelled"}
  BY DEF AtWork
<1> QED
  BY <1>1, <1>2, LeafStep

LEMMA PassLookupStep ==
  ASSUME IInv, NEW n \in Nodes, PassLookup(n)
  PROVE  IInv'
BY LeafGoesOn DEF PassLookup, StartWith, AtWork

LEMMA SpawnLeafStep ==
  ASSUME IInv, NEW n \in Nodes, SpawnLeaf(n)
  PROVE  IInv'
BY LeafGoesOn DEF SpawnLeaf, AtWork

LEMMA LeafDoneStep ==
  ASSUME IInv, NEW n \in Nodes, AtLeaf(n), leaf[Item(n)] \in AtWork,
         NEW outcome \in {"ok", "failed", "cancelled"}, LeafDone(n, outcome),
         outcome = "cancelled" => Cancelled
  PROVE  IInv'
<1>1. /\ fastFail' \in BOOLEAN
      /\ Cancelled => Cancelled'
      /\ outcome \in {"failed", "cancelled"} => Cancelled'
  BY DEF LeafDone, Cancelled, IInv, Local, TypeOK
<1>2. leaf[Item(n)] # "idle" /\ outcome \notin AtWork
  BY DEF AtWork
<1> QED
  BY <1>1, <1>2, LeafStep DEF LeafDone

LEMMA LookupEndsStep ==
  ASSUME IInv, NEW n \in Nodes, LookupEnds(n)
  PROVE  IInv'
BY LeafDoneStep DEF LookupEnds, AtWork

LEMMA LeafEndsStep ==
  ASSUME IInv, NEW n \in Nodes, RestoreHit(n) \/ SpawnLeafFails(n) \/ Exit(n)
  PROVE  IInv'
BY LeafDoneStep DEF RestoreHit, SpawnLeafFails, Exit, AtWork

-----------------------------------------------------------------------------
(* The edges counted.                                                      *)

LEMMA EdgesFinite ==
  ASSUME NEW S \in SUBSET Edges
  PROVE  /\ IsFiniteSet(S)
         /\ Cardinality(S) \in Nat
         /\ Cardinality(S) = 0 <=> S = {}
<1>1. IsFiniteSet(S)
  BY EdgesAssumption, FS_Subset
<1> QED
  BY <1>1, FS_CardinalityType, FS_EmptySet

(* A graph is entered by nobody but the node that holds it.                *)
LEMMA EnterStep ==
  ASSUME IInv, NEW g \in Graphs, Enter(g),
         \A n \in Nodes : \A i \in DOMAIN Items[n] :
           Items[n][i] = g => future[n] = "running" /\ i = next[n] /\ ~Cancelled
  PROVE  IInv'
<1>1. \A n \in Nodes : Dependencies(n) \in Nat /\ (Dependencies(n) = 0 <=> {e \in Edges : e[1] = n} = {})
  BY EdgesFinite DEF Dependencies
<1>2. TypeOK /\ TypeOK'
  BY <1>1 DEF IInv, Local, TypeOK, Enter
<1>3. /\ UNCHANGED <<next, permits, leaf>>
      /\ Cancelled' <=> Cancelled
      /\ OkStays
      /\ phase[g] = "waiting" /\ phase'[g] = "running"
      /\ \A h \in Graphs \ {g} : phase'[h] = phase[h]
  BY <1>2 DEF Cancelled, OkStays, Enter, TypeOK
<1>4. \A n \in NodesOf[g] : n \in Nodes /\ GraphOf(n) = g /\ future[n] = "none" /\ next[n] = 1
  BY <1>3, NodeFacts DEF IInv, Local, PlacedInv, Placed
<1>5. ASSUME NEW n \in Nodes
      PROVE  IF n \in NodesOf[g]
               THEN /\ depCount'[n] = Dependencies(n)
                    /\ future'[n] = IF Dependencies(n) = 0 THEN "queued" ELSE "none"
               ELSE depCount'[n] = depCount[n] /\ future'[n] = future[n]
  BY <1>4 DEF Enter, IsReady
<1>6. ProgressInv'
  <2>1. ASSUME NEW n \in Nodes, NEW i \in DOMAIN Items[n], Items[n][i] # g
        PROVE  (Over(Items[n][i]) => Over(Items[n][i])') /\ (Untouched(Items[n][i]) => Untouched(Items[n][i])')
    BY <1>3, <2>1 DEF Over, Untouched
  <2>2. ASSUME NEW n \in Nodes PROVE Progress(n)'
    <3>1. Progress(n)
      BY DEF IInv, Local, ProgressInv
    <3>2. future[n] = "running" => future'[n] = "running"
      BY <1>4, <1>5
    <3>3. ASSUME NEW i \in DOMAIN Items[n], Items[n][i] = g
          PROVE  i = next[n] /\ future'[n] = "running" /\ g \notin Leaves
      BY <3>2, <3>3
    <3>5. ASSUME NEW i \in DOMAIN Items[n]
          PROVE  /\ i < next[n] => Over(Items[n][i])'
                 /\ i > next[n] => Untouched(Items[n][i])'
                 /\ i = next[n] =>
                      /\ future'[n] = "running" \/ Untouched(Items[n][i])'
                      /\ Items[n][i] \in Leaves => leaf'[Items[n][i]] \in AtWork \cup {"idle"}
      <4>1. i \in Nat /\ next[n] \in Nat
        BY <1>2, ItemFacts DEF TypeOK
      <4>2. CASE Items[n][i] = g
        BY <3>3, <4>1, <4>2
      <4>3. CASE Items[n][i] # g
        BY <1>3, <2>1, <3>1, <3>2, <4>3 DEF Progress
      <4> QED
        BY <4>2, <4>3
    <3> QED
      BY <1>3, <3>5 DEF Progress
  <2> QED
    BY <2>2 DEF ProgressInv
<1>7. PlacedInv'
  <2>1. ASSUME NEW n \in Nodes PROVE Placed(n)'
    <3>1. CASE n \in NodesOf[g]
      BY <1>3, <1>4, <1>5, <3>1 DEF Placed
    <3>2. CASE n \notin NodesOf[g]
      <4>1. GraphOf(n) \in Graphs \ {g}
        BY <3>2, GraphFacts
      <4>2. Placed(n)
        BY DEF IInv, Local, PlacedInv
      <4> QED
        BY <1>3, <1>5, <3>2, <4>1, <4>2 DEF Placed
    <3> QED
      BY <3>1, <3>2
  <2> QED
    BY <2>1 DEF PlacedInv
<1>8. FailureInv' /\ ReturnInv'
  <2>1. ASSUME NEW h \in Graphs, phase'[h] = "returned", ~Cancelled', NEW n \in NodesOf[h]
        PROVE  future'[n] = "reaped"
    <3>1. h # g
      BY <1>3, <2>1
    <3>2. n \in Nodes /\ n \notin NodesOf[g]
      BY <1>4, <3>1, NodeFacts
    <3>3. future[n] = "reaped"
      BY <1>3, <2>1, <3>1 DEF IInv, Local, ReturnInv
    <3> QED
      BY <1>5, <3>2, <3>3
  <2>2. ReturnInv'
    BY <2>1 DEF ReturnInv
  <2> QED
    BY <1>3, <2>2 DEF IInv, Local, FailureInv
<1>9. CountInv'
  <2>1. ASSUME NEW n \in Nodes, phase'[GraphOf(n)] = "running"
        PROVE  /\ depCount'[n] = Cardinality(Pending(n)')
               /\ future'[n] = "none" <=> Pending(n)' # {}
    <3>1. CASE n \in NodesOf[g]
      <4>1. ASSUME NEW e \in Edges, e[1] = n PROVE future'[e[2]] # "reaped"
        <5>1. e[2] \in NodesOf[g] /\ e[2] \in Nodes
          BY <1>4, <3>1, <4>1, EdgeFacts, GraphFacts
        <5> QED
          BY <1>5, <5>1
      <4>2. Pending(n)' = {e \in Edges : e[1] = n}
        BY <4>1 DEF Pending
      <4> QED
        BY <1>1, <1>5, <3>1, <4>2 DEF Dependencies
    <3>2. CASE n \notin NodesOf[g]
      <4>1. GraphOf(n) \in Graphs \ {g}
        BY <3>2, GraphFacts
      <4>2. ASSUME NEW e \in Edges, e[1] = n PROVE future'[e[2]] = future[e[2]]
        <5>1. e[2] \notin NodesOf[g] /\ e[2] \in Nodes
          BY <1>4, <4>1, <4>2, EdgeFacts
        <5> QED
          BY <1>5, <5>1
      <4>3. Pending(n)' = Pending(n)
        BY <4>2 DEF Pending
      <4> QED
        BY <1>3, <1>5, <2>1, <3>2, <4>1, <4>3 DEF IInv, CountInv
    <3> QED
      BY <3>1, <3>2
  <2> QED
    BY <2>1 DEF CountInv
<1>10. DepsInv'
  <2>1. ASSUME NEW e \in Edges, future'[e[1]] # "none" PROVE Succeeded(Inside[e[2]])'
    <3>1. e[1] \in Nodes /\ e[2] \in Nodes
      BY EdgeFacts
    <3>2. Dependencies(e[1]) # 0
      BY <1>1, <3>1
    <3>3. future[e[1]] # "none"
      BY <1>5, <2>1, <3>1, <3>2
    <3>4. Succeeded(Inside[e[2]])
      BY <3>3 DEF IInv, DepsInv
    <3> QED
      BY <1>3, <3>1, <3>4, InsideFacts, SucceededStays
  <2> QED
    BY <2>1 DEF DepsInv
<1>11. OrderInv'
  <2>1. ASSUME NEW n \in Nodes, NEW j \in DOMAIN Items[n], Untouched(Items[n][j]), ~Untouched(Items[n][j])',
               NEW k \in 1 .. j - 1
        PROVE  Succeeded(Under(Items[n][k]))
    <3>1. Items[n][j] = g
      BY <1>3, <2>1 DEF Untouched
    <3>2. j = next[n] /\ ~Cancelled
      BY <3>1
    <3>3. k \in DOMAIN Items[n] /\ k < next[n]
      BY <3>2, ItemFacts
    <3> QED
      BY <3>2, <3>3, PassedDeep DEF IInv
  <2> QED
    BY <1>3, <2>1, OrderFrame DEF IInv
<1>12. PermitInv'
  <2>1. \A n \in Nodes : future'[n] = "running" <=> future[n] = "running"
    BY <1>4, <1>5
  <2> QED
    BY <1>3, <2>1, PermitFrame DEF IInv
<1> QED
  BY <1>2, <1>6, <1>7, <1>8, <1>9, <1>10, <1>11, <1>12 DEF IInv, Local

LEMMA EnterRootStep ==
  ASSUME IInv, EnterRoot
  PROVE  IInv'
<1>1. \A n \in Nodes : \A i \in DOMAIN Items[n] : Items[n][i] # Root
  BY ItemFacts
<1> QED
  BY <1>1, EnterStep DEF EnterRoot

LEMMA BeginGraphStep ==
  ASSUME IInv, NEW n \in Nodes, BeginGraph(n)
  PROVE  IInv'
<1>1. next[n] \in DOMAIN Items[n] /\ Item(n) = Items[n][next[n]] /\ future[n] = "running"
  BY ItemFacts DEF BeginGraph, AtGraph, HasItem, Item, IInv, Local, TypeOK
<1>2. ASSUME NEW m \in Nodes, NEW i \in DOMAIN Items[m], Items[m][i] = Item(n)
      PROVE  m = n /\ i = next[n]
  BY <1>1, <1>2, UniqueItem
<1>3. Item(n) \in Graphs /\ Enter(Item(n)) /\ ~Cancelled
  BY DEF BeginGraph, AtGraph
<1> QED
  BY <1>1, <1>2, <1>3, EnterStep

LEMMA GraphDoneStep ==
  ASSUME IInv, NEW n \in Nodes, GraphDone(n)
  PROVE  IInv'
<1> PICK i : i = next[n]
  OBVIOUS
<1>1. TypeOK /\ TypeOK'
  BY DEF IInv, Local, TypeOK, GraphDone
<1>2. /\ UNCHANGED <<phase, depCount, future, permits, leaf>>
      /\ Cancelled' <=> Cancelled
      /\ OkStays
      /\ future[n] = "running" /\ phase[Item(n)] = "returned"
  BY DEF Cancelled, OkStays, GraphDone, AtGraph, HasItem
<1>3. next'[n] = i + 1 /\ \A m \in Nodes : m # n => next'[m] = next[m]
  BY <1>1 DEF GraphDone, TypeOK
<1>4. i \in DOMAIN Items[n] /\ Item(n) = Items[n][i] /\ Item(n) \in Graphs
  BY <1>1, ItemFacts DEF GraphDone, AtGraph, HasItem, Item, TypeOK
<1>5. ProgressInv'
  <2>1. ASSUME NEW m \in Nodes, m # n PROVE Progress(m)'
    BY <1>2, <1>3, <2>1 DEF IInv, Local, ProgressInv, Progress, Untouched, Over
  <2>2. Progress(n)'
    <3>1. Progress(n)
      BY DEF IInv, Local, ProgressInv
    <3>2. Over(Items[n][i])
      BY <1>2, <1>4, ItemFacts DEF Over
    <3>3. ASSUME NEW j \in DOMAIN Items[n]
          PROVE  /\ j < i + 1 => Over(Items[n][j])
                 /\ j >= i + 1 => Untouched(Items[n][j])
      <4>1. i \in Nat /\ j \in Nat
        BY <1>1, ItemFacts DEF TypeOK
      <4> QED
        BY <3>1, <3>2, <4>1 DEF Progress
    <3>4. \A j \in DOMAIN Items[n] : i \in Nat /\ j \in Nat
      BY <1>1, ItemFacts DEF TypeOK
    <3> QED
      BY <1>2, <1>3, <3>3, <3>4 DEF Progress, Untouched, Over
  <2> QED
    BY <2>1, <2>2 DEF ProgressInv
<1>6. PlacedInv'
  BY <1>2, <1>3 DEF IInv, Local, PlacedInv, Placed
<1>7. FailureInv' /\ ReturnInv'
  BY <1>2 DEF IInv, Local, FailureInv, ReturnInv
<1>8. CountInv' /\ DepsInv' /\ OrderInv' /\ PermitInv'
  BY <1>2, CountFrame, DepsFrame, OrderFrame, PermitFrame DEF IInv, Untouched
<1> QED
  BY <1>1, <1>5, <1>6, <1>7, <1>8 DEF IInv, Local

(* No cycle: in a graph whose futures are all over, none was left out.     *)
LEMMA NoneLeft ==
  ASSUME Local, CountInv, NEW g \in Graphs, phase[g] = "running",
         \A n \in NodesOf[g] : future[n] \in {"none", "reaped"}
  PROVE  \A n \in NodesOf[g] : future[n] = "reaped"
<1> DEFINE Left == {n \in NodesOf[g] : future[n] = "none"}
<1>1. SUFFICES ASSUME Left # {} PROVE FALSE
  OBVIOUS
<1>2. PICK n \in Left : \A e \in Edges : e[1] = n => e[2] \notin Left
  <2>1. Left \in SUBSET Nodes
    BY NodeFacts
  <2> HIDE DEF Left
  <2> QED
    BY <1>1, <2>1, AcyclicAssumption
<1>3. n \in Nodes /\ GraphOf(n) = g /\ Pending(n) # {}
  BY NodeFacts DEF CountInv
<1>4. PICK e \in Edges : e[1] = n /\ future[e[2]] # "reaped"
  BY <1>3 DEF Pending
<1>5. e[2] \in NodesOf[g]
  BY <1>3, <1>4, EdgeFacts, GraphFacts
<1> QED
  BY <1>2, <1>4, <1>5

LEMMA ReturnStep ==
  ASSUME IInv, NEW g \in Graphs, Return(g)
  PROVE  IInv'
<1>1. TypeOK /\ TypeOK'
  BY DEF IInv, Local, TypeOK, Return
<1>2. /\ UNCHANGED <<depCount, future, next, permits, leaf>>
      /\ Cancelled' <=> Cancelled
      /\ OkStays
      /\ phase[g] \in {"running", "draining"} /\ phase'[g] = "returned"
      /\ \A h \in Graphs \ {g} : phase'[h] = phase[h]
      /\ \A n \in NodesOf[g] : future[n] \in {"none", "reaped"}
  BY <1>1 DEF Cancelled, OkStays, Return, TypeOK
<1>3. ProgressInv'
  BY <1>2, ProgressFrame DEF IInv, Local
<1>4. PlacedInv'
  BY <1>2, GraphFacts DEF IInv, Local, PlacedInv, Placed
<1>5. FailureInv'
  BY <1>2 DEF IInv, Local, FailureInv
<1>6. ReturnInv'
  <2>1. ASSUME ~Cancelled PROVE \A n \in NodesOf[g] : future[n] = "reaped"
    <3>1. phase[g] = "running"
      BY <1>2, <2>1 DEF IInv, Local, FailureInv
    <3> QED
      BY <1>2, <3>1, NoneLeft DEF IInv
  <2> QED
    BY <1>2, <2>1 DEF IInv, Local, ReturnInv
<1>7. CountInv'
  BY <1>2, CountFrame DEF IInv
<1>8. DepsInv' /\ PermitInv'
  BY <1>2, DepsFrame, PermitFrame DEF IInv
<1>9. OrderInv'
  BY <1>2, OrderFrame DEF IInv, Untouched
<1> QED
  BY <1>1, <1>3, <1>4, <1>5, <1>6, <1>7, <1>8, <1>9 DEF IInv, Local

(* A run that was cancelled: the graph closes its semaphore and drains.    *)
LEMMA ReapCancelled ==
  ASSUME IInv, NEW n \in Nodes, Reap(n), Cancelled
  PROVE  IInv'
<1> DEFINE h == GraphOf(n)
<1>0. h \in Graphs
  BY GraphFacts
<1>1. TypeOK /\ TypeOK'
  BY <1>0 DEF IInv, Local, TypeOK, Reap
<1>2. /\ UNCHANGED <<depCount, next, permits, leaf>>
      /\ Cancelled /\ Cancelled' /\ OkStays
      /\ phase[h] = "running" /\ phase'[h] = "draining"
      /\ \A g \in Graphs \ {h} : phase'[g] = phase[g]
      /\ future[n] = "ready"
  BY <1>0, <1>1 DEF Cancelled, OkStays, Reap, TypeOK
<1>3. future'[n] = "reaped" /\ \A m \in Nodes \ {n} : future'[m] = future[m]
  BY <1>1 DEF Reap, TypeOK
<1>4. \A m \in Nodes :
        /\ phase'[GraphOf(m)] = "running" => (future'[m] = "reaped" <=> future[m] = "reaped")
        /\ future'[m] = "none" <=> future[m] = "none"
        /\ future'[m] = "running" <=> future[m] = "running"
  BY <1>2, <1>3
<1>5. ProgressInv'
  BY <1>0, <1>2, <1>4, ProgressFrame DEF IInv, Local
<1>6. PlacedInv'
  BY <1>0, <1>2, <1>3, GraphFacts DEF IInv, Local, PlacedInv, Placed
<1>7. FailureInv' /\ ReturnInv'
  BY <1>2 DEF FailureInv, ReturnInv
<1>8. CountInv'
  BY <1>0, <1>2, <1>4, CountFrame DEF IInv
<1>9. DepsInv' /\ PermitInv'
  BY <1>2, <1>4, DepsFrame, PermitFrame DEF IInv
<1>10. OrderInv'
  BY <1>0, <1>2, OrderFrame DEF IInv, Untouched
<1> QED
  BY <1>1, <1>5, <1>6, <1>7, <1>8, <1>9, <1>10 DEF IInv, Local

(* The counts of its dependents go down by the edges into n, and those     *)
(* that reach zero are spawned.                                            *)
LEMMA ReapNode ==
  ASSUME IInv, NEW n \in Nodes, Reap(n), ~Cancelled
  PROVE  IInv'
<1> DEFINE h == GraphOf(n)
<1> DEFINE Into(m) == {e \in Edges : e[1] = m /\ e[2] = n}
<1>0. h \in Graphs
  BY GraphFacts
<1>1. TypeOK
  BY DEF IInv, Local
<1>2. /\ UNCHANGED <<phase, next, permits, leaf>>
      /\ ~Cancelled' /\ OkStays
      /\ phase[h] = "running"
      /\ future[n] = "ready"
  BY DEF Cancelled, OkStays, Reap
<1>3. ASSUME NEW m \in Nodes
      PROVE  /\ depCount'[m] = Count(m, n)
             /\ future'[m] = IF m = n THEN "reaped"
                             ELSE IF EdgesInto(m, n) > 0 /\ Count(m, n) = 0 THEN "queued"
                             ELSE future[m]
  BY DEF Reap, IsReady
<1>4. ASSUME NEW m \in Nodes
      PROVE  /\ EdgesInto(m, n) \in Nat
             /\ EdgesInto(m, n) = Cardinality(Into(m))
             /\ EdgesInto(m, n) = 0 <=> Into(m) = {}
  BY EdgesFinite DEF EdgesInto
<1>5. ASSUME NEW m \in Nodes, Into(m) # {}
      PROVE  GraphOf(m) = h /\ future[m] = "none" /\ m # n
  <2>1. PICK e \in Edges : e[1] = m /\ e[2] = n
    BY <1>5
  <2>2. GraphOf(m) = h
    BY <2>1, EdgeFacts
  <2>3. e \in Pending(m)
    BY <1>2, <2>1 DEF Pending
  <2>4. future[m] = "none"
    BY <1>2, <2>2, <2>3 DEF IInv, CountInv
  <2> QED
    BY <1>2, <2>2, <2>4
<1> HIDE DEF Into
(* The three things that can have become of a node.                        *)
<1>6. ASSUME NEW m \in Nodes
      PROVE  \/ m = n /\ future'[m] = "reaped"
             \/ m # n /\ Into(m) = {} /\ EdgesInto(m, n) = 0 /\ future'[m] = future[m]
             \/ /\ m # n /\ Into(m) # {} /\ EdgesInto(m, n) > 0 /\ GraphOf(m) = h
                /\ future[m] = "none"
                /\ future'[m] = IF Count(m, n) = 0 THEN "queued" ELSE "none"
  <2>1. CASE m = n
    BY <1>3, <2>1
  <2>2. CASE m # n /\ Into(m) = {}
    <3>1. EdgesInto(m, n) = 0
      BY <1>4, <2>2
    <3> QED
      BY <1>3, <2>2, <3>1
  <2>3. CASE m # n /\ Into(m) # {}
    <3>1. EdgesInto(m, n) > 0
      BY <1>4, <2>3
    <3>2. GraphOf(m) = h /\ future[m] = "none"
      BY <1>5, <2>3
    <3> QED
      BY <1>3, <2>3, <3>1, <3>2
  <2> QED
    BY <2>1, <2>2, <2>3
<1>7. ASSUME NEW m \in Nodes
      PROVE  future'[m] = "reaped" <=> (m = n \/ future[m] = "reaped")
  BY <1>2, <1>6
<1>8. ASSUME NEW m \in Nodes, GraphOf(m) = h
      PROVE  /\ Pending(m)' = Pending(m) \ Into(m)
             /\ Into(m) \subseteq Pending(m)
             /\ Count(m, n) = Cardinality(Pending(m)')
             /\ Cardinality(Pending(m)') \in Nat
  <2>1. \A e \in Edges : future'[e[2]] = "reaped" <=> (e[2] = n \/ future[e[2]] = "reaped")
    BY <1>7, EdgeFacts
  <2>2. Pending(m)' = Pending(m) \ Into(m)
    BY <2>1 DEF Pending, Into
  <2>3. Into(m) \subseteq Pending(m)
    BY <1>2 DEF Pending, Into
  <2>4. Pending(m) \in SUBSET Edges /\ Pending(m)' \in SUBSET Edges
    BY DEF Pending
  <2>5. Pending(m) \cap Into(m) = Into(m)
    BY <2>3
  <2>6. Cardinality(Pending(m) \ Into(m)) = Cardinality(Pending(m)) - Cardinality(Into(m))
    <3>1. IsFiniteSet(Pending(m))
      BY <2>4, EdgesFinite
    <3>2. Cardinality(Pending(m) \ Into(m)) = Cardinality(Pending(m)) - Cardinality(Pending(m) \cap Into(m))
      BY <3>1, FS_Difference
    <3> QED
      BY <2>5, <3>2
  <2>7. depCount[m] = Cardinality(Pending(m))
    BY <1>2, <1>8 DEF IInv, CountInv
  <2>8. Cardinality(Pending(m)') \in Nat
    BY <2>4, EdgesFinite
  <2> QED
    BY <1>4, <2>2, <2>3, <2>6, <2>7, <2>8 DEF Count
<1>9. TypeOK'
  <2>1. ASSUME NEW m \in Nodes PROVE Count(m, n) \in Nat
    <3>1. CASE GraphOf(m) = h
      BY <1>8, <3>1
    <3>2. CASE GraphOf(m) # h
      <4>1. EdgesInto(m, n) = 0
        BY <1>4, <1>5, <3>2
      <4>2. depCount[m] \in Nat
        BY <1>1 DEF TypeOK
      <4> QED
        BY <4>1, <4>2 DEF Count
    <3> QED
      BY <3>1, <3>2
  <2>2. depCount' \in [Nodes -> Nat]
    BY <2>1 DEF Reap
  <2>3. ASSUME NEW m \in Nodes PROVE future'[m] \in {"none", "queued", "running", "ready", "reaped"}
    BY <1>1, <1>3 DEF TypeOK
  <2>4. future' = [m \in Nodes |-> future'[m]]
    BY DEF Reap
  <2>5. future' \in [Nodes -> {"none", "queued", "running", "ready", "reaped"}]
    BY <2>3, <2>4
  <2>6. fastFail' = fastFail /\ ctrlC' = ctrlC
    BY DEF Reap
  <2> QED
    BY <1>1, <1>2, <2>2, <2>5, <2>6 DEF TypeOK
<1>10. ProgressInv'
  <2>1. \A m \in Nodes : future[m] = "running" => future'[m] = "running"
    BY <1>2, <1>6
  <2> QED
    BY <1>2, <2>1, ProgressFrame DEF IInv, Local
<1>11. PlacedInv'
  <2>1. ASSUME NEW m \in Nodes PROVE Placed(m)'
    <3>1. Placed(m)
      BY DEF IInv, Local, PlacedInv
    <3>2. Placed(n)
      BY DEF IInv, Local, PlacedInv
    <3>3. CASE m = n
      BY <1>2, <1>3, <3>2, <3>3 DEF Placed
    <3>4. CASE m # n /\ Into(m) # {}
      <4>1. GraphOf(m) = h /\ future[m] = "none"
        BY <1>5, <3>4
      <4>2. future'[m] \in {"none", "queued"}
        BY <1>3, <3>4, <4>1
      <4> QED
        BY <1>2, <3>1, <4>1, <4>2 DEF Placed
    <3>5. CASE m # n /\ Into(m) = {}
      <4>1. future'[m] = future[m]
        BY <1>6, <3>5
      <4> QED
        BY <1>2, <3>1, <4>1 DEF Placed
    <3> QED
      BY <3>3, <3>4, <3>5
  <2> QED
    BY <2>1 DEF PlacedInv
<1>12. FailureInv' /\ ReturnInv'
  <2>1. \A g \in Graphs : \A m \in NodesOf[g] : future[m] = "reaped" => future'[m] = "reaped"
    BY <1>7, NodeFacts
  <2> QED
    BY <1>2, <2>1 DEF IInv, Local, FailureInv, ReturnInv
<1>13. CountInv'
  <2>1. ASSUME NEW m \in Nodes, phase[GraphOf(m)] = "running"
        PROVE  /\ depCount'[m] = Cardinality(Pending(m)')
               /\ future'[m] = "none" <=> Pending(m)' # {}
    <3>1. /\ depCount[m] = Cardinality(Pending(m))
          /\ future[m] = "none" <=> Pending(m) # {}
      BY <2>1 DEF IInv, CountInv
    <3>2. CASE GraphOf(m) # h
      <4>1. Into(m) = {} /\ m # n
        BY <1>5, <3>2
      <4>2. future'[m] = future[m] /\ depCount'[m] = depCount[m]
        <5>1. depCount[m] \in Nat
          BY <1>1 DEF TypeOK
        <5>2. EdgesInto(m, n) = 0 /\ future'[m] = future[m]
          BY <1>6, <4>1
        <5> QED
          BY <1>3, <5>1, <5>2 DEF Count
      <4>3. \A e \in Edges : e[1] = m => (future'[e[2]] = "reaped" <=> future[e[2]] = "reaped")
        BY <1>7, <3>2, EdgeFacts
      <4>4. Pending(m)' = Pending(m)
        BY <4>3 DEF Pending
      <4> QED
        BY <3>1, <4>2, <4>4
    <3>3. CASE GraphOf(m) = h
      <4>1. depCount'[m] = Cardinality(Pending(m)')
        BY <1>3, <1>8, <3>3
      <4>2. Pending(m)' = Pending(m) \ Into(m)
        BY <1>8, <3>3
      <4>3. CASE m = n
        BY <1>2, <1>3, <3>1, <4>1, <4>2, <4>3
      <4>4. CASE m # n /\ Into(m) = {}
        BY <1>6, <3>1, <4>1, <4>2, <4>4
      <4>5. CASE m # n /\ Into(m) # {}
        <5>1. future[m] = "none" /\ future'[m] = IF Count(m, n) = 0 THEN "queued" ELSE "none"
          BY <1>6, <4>5
        <5>2. Pending(m)' \in SUBSET Edges
          BY DEF Pending
        <5>3. Count(m, n) = 0 <=> Pending(m)' = {}
          BY <1>8, <3>3, <5>2, EdgesFinite
        <5> QED
          BY <4>1, <5>1, <5>3
      <4> QED
        BY <4>3, <4>4, <4>5
    <3> QED
      BY <3>2, <3>3
  <2> QED
    BY <1>2, <2>1 DEF CountInv
<1>14. DepsInv'
  <2>1. ASSUME NEW e \in Edges, future'[e[1]] # "none" PROVE Succeeded(Inside[e[2]])'
    <3>1. e[1] \in Nodes /\ e[2] \in Nodes
      BY EdgeFacts
    <3>2. Succeeded(Inside[e[2]])
      <4>1. CASE future[e[1]] # "none"
        BY <4>1 DEF IInv, DepsInv
      <4>2. CASE future[e[1]] = "none"
        <5>1. EdgesInto(e[1], n) > 0 /\ Count(e[1], n) = 0
          BY <1>2, <1>3, <2>1, <3>1, <4>2
        <5>2. GraphOf(e[1]) = h
          BY <1>6, <3>1, <4>2, <5>1
        <5>3. Pending(e[1])' = {}
          <6>1. Pending(e[1])' \in SUBSET Edges
            BY DEF Pending
          <6> QED
            BY <1>8, <3>1, <5>1, <5>2, <6>1, EdgesFinite
        <5>4. future'[e[2]] = "reaped"
          BY <5>3 DEF Pending
        <5>5. future[e[2]] \in {"ready", "reaped"}
          BY <1>2, <1>7, <3>1, <5>4
        <5> QED
          BY <3>1, <5>5, NodeDone DEF IInv
      <4> QED
        BY <4>1, <4>2
    <3> QED
      BY <1>2, <3>1, <3>2, InsideFacts, SucceededStays
  <2> QED
    BY <2>1 DEF DepsInv
<1>15. OrderInv'
  BY <1>2, OrderFrame DEF IInv, Untouched
<1>16. PermitInv'
  <2>1. ASSUME NEW m \in Nodes PROVE future'[m] = "running" <=> future[m] = "running"
    BY <1>2, <1>6
  <2> QED
    BY <1>2, <2>1, PermitFrame DEF IInv
<1> QED
  BY <1>9, <1>10, <1>11, <1>12, <1>13, <1>14, <1>15, <1>16 DEF IInv, Local

LEMMA CtrlCStep ==
  ASSUME IInv, CtrlC
  PROVE  IInv'
<1>1. TypeOK'
  BY DEF IInv, Local, TypeOK, CtrlC
<1>2. UNCHANGED <<phase, depCount, future, next, permits, leaf>> /\ Cancelled' /\ OkStays
  BY DEF CtrlC, Cancelled, OkStays
<1>3. ProgressInv' /\ PlacedInv' /\ FailureInv' /\ ReturnInv'
  BY <1>2 DEF IInv, Local, ProgressInv, Progress, Untouched, Over, PlacedInv, Placed, FailureInv, ReturnInv
<1>4. CountInv' /\ DepsInv' /\ OrderInv' /\ PermitInv'
  BY <1>2, CountFrame, DepsFrame, OrderFrame, PermitFrame DEF IInv, Untouched
<1> QED
  BY <1>1, <1>3, <1>4 DEF IInv, Local

LEMMA Stutter ==
  ASSUME IInv, UNCHANGED vars
  PROVE  IInv'
<1>1. UNCHANGED <<phase, depCount, future, next, permits, leaf>> /\ (Cancelled' <=> Cancelled) /\ OkStays
  BY DEF vars, Cancelled, OkStays
<1>2. TypeOK'
  BY DEF IInv, Local, TypeOK, vars
<1>3. ProgressInv' /\ PlacedInv' /\ FailureInv' /\ ReturnInv'
  BY <1>1 DEF IInv, Local, ProgressInv, Progress, Untouched, Over, PlacedInv, Placed, FailureInv, ReturnInv
<1>4. CountInv' /\ DepsInv' /\ OrderInv' /\ PermitInv'
  BY <1>1, CountFrame, DepsFrame, OrderFrame, PermitFrame DEF IInv, Untouched
<1> QED
  BY <1>2, <1>3, <1>4 DEF IInv, Local

-----------------------------------------------------------------------------
(* The theorems.                                                           *)

LEMMA Preserved == IInv /\ [Next]_vars => IInv'
<1> SUFFICES ASSUME IInv, [Next]_vars PROVE IInv'
  OBVIOUS
<1>1. CASE EnterRoot
  BY <1>1, EnterRootStep
<1>2. ASSUME NEW n \in Nodes, Acquire(n) PROVE IInv'
  BY <1>2, AcquireStep
<1>3. ASSUME NEW n \in Nodes, AcquireFails(n) PROVE IInv'
  BY <1>3, AcquireFailsStep
<1>4. ASSUME NEW n \in Nodes, BeginLeaf(n) PROVE IInv'
  BY <1>4, BeginLeafStep
<1>5. ASSUME NEW n \in Nodes, BeginGraph(n) PROVE IInv'
  BY <1>5, BeginGraphStep
<1>6. ASSUME NEW n \in Nodes, LookupEnds(n) PROVE IInv'
  BY <1>6, LookupEndsStep
<1>7. ASSUME NEW n \in Nodes, PassLookup(n) \/ SpawnLeaf(n) PROVE IInv'
  BY <1>7, PassLookupStep, SpawnLeafStep
<1>8. ASSUME NEW n \in Nodes, RestoreHit(n) \/ SpawnLeafFails(n) \/ Exit(n) PROVE IInv'
  BY <1>8, LeafEndsStep
<1>9. ASSUME NEW n \in Nodes, GraphDone(n) PROVE IInv'
  BY <1>9, GraphDoneStep
<1>10. ASSUME NEW n \in Nodes, LeaveNode(n) PROVE IInv'
  BY <1>10, LeaveNodeStep
<1>11. ASSUME NEW n \in Nodes, Reap(n) PROVE IInv'
  BY <1>11, ReapCancelled, ReapNode
<1>12. ASSUME NEW n \in Nodes, Drain(n) PROVE IInv'
  BY <1>12, DrainStep
<1>13. ASSUME NEW g \in Graphs, Return(g) PROVE IInv'
  BY <1>13, ReturnStep
<1>14. CASE CtrlC
  BY <1>14, CtrlCStep
<1>15. CASE Terminated
  BY <1>15, Stutter DEF Terminated
<1>16. CASE UNCHANGED vars
  BY <1>16, Stutter
<1> QED
  BY <1>1, <1>2, <1>3, <1>4, <1>5, <1>6, <1>7, <1>8, <1>9, <1>10, <1>11, <1>12, <1>13, <1>14,
     <1>15, <1>16 DEF Next, Executor

(* The inductive invariant of the scheduler: how far each node is, what    *)
(* is counted and which permits are out.                                   *)
THEOREM SchedulerInvariant == Spec => []IInv
BY Initially, Preserved, PTL DEF Spec

(* Types; in particular the dependency counts never go below zero, where   *)
(* the usize of scheduler.rs would wrap.                                   *)
THEOREM SchedulerTypes == Spec => []TypeOK
<1>1. IInv => TypeOK
  BY DEF IInv, Local
<1> QED
  BY <1>1, SchedulerInvariant, PTL

(* Whatever the graph, its parallel edges and its nested runs, no leaf     *)
(* begins before all that its node depends on has succeeded.               *)
THEOREM DependenciesComeFirst == Spec => []DependenciesFirst
<1>1. IInv => DependenciesFirst
  <2>1. SUFFICES ASSUME IInv, NEW e \in Edges, NEW l \in Inside[e[1]], Begun(l)
                 PROVE  Succeeded(Inside[e[2]])
    BY DEF DependenciesFirst
  <2>2. e[1] \in Nodes
    BY EdgeFacts
  <2>3. future[e[1]] # "none"
    BY <2>1, <2>2, NodeUntouched DEF IInv
  <2> QED
    BY <2>1, <2>3 DEF IInv, DepsInv
<1> QED
  BY <1>1, SchedulerInvariant, PTL

(* `a && b` at any depth: b begins after all of a has succeeded.           *)
THEOREM ItemsComeInOrder == Spec => []ItemsInOrder
<1>1. IInv => ItemsInOrder
  <2>1. SUFFICES ASSUME IInv, NEW n \in Nodes, NEW j \in DOMAIN Items[n],
                        NEW l \in Under(Items[n][j]), Begun(l), NEW i \in 1 .. j - 1
                 PROVE  Succeeded(Under(Items[n][i]))
    BY DEF ItemsInOrder
  <2>2. ~Untouched(Items[n][j])
    BY <2>1, UntouchedDeep DEF IInv
  <2> QED
    BY <2>1, <2>2 DEF IInv, OrderInv
<1> QED
  BY <1>1, SchedulerInvariant, PTL

(* A graph's semaphore bounds what is at work under it, nested runs and    *)
(* all, however its permits come and go.                                   *)
THEOREM LimitKept == Spec => []ConcurrencyLimit
<1>1. IInv => ConcurrencyLimit
  <2>1. SUFFICES ASSUME IInv, NEW g \in Graphs
                 PROVE  Cardinality({n \in NodesOf[g] : Live(n)}) <= Limit[g]
    BY DEF ConcurrencyLimit
  <2> DEFINE Busy == {n \in NodesOf[g] : Live(n)}
  <2>2. Busy \in SUBSET Running(g)
    BY <2>1, NodeFacts, LiveDeep DEF IInv, Running
  <2>3. IsFiniteSet(Running(g)) /\ Cardinality(Running(g)) \in Nat
    BY RunningFinite
  <2> HIDE DEF Busy
  <2>4. Cardinality(Busy) <= Cardinality(Running(g)) /\ Cardinality(Busy) \in Nat
    BY <2>2, <2>3, FS_Subset, FS_CardinalityType
  <2>5. permits[g] \in Nat /\ permits[g] + Cardinality(Running(g)) = Limit[g]
    BY <2>1 DEF IInv, Local, TypeOK, PermitInv
  <2>6. Cardinality(Busy) <= Limit[g]
    BY <2>3, <2>4, <2>5
  <2> QED
    BY <2>6 DEF Busy
<1> QED
  BY <1>1, SchedulerInvariant, PTL

(* A run that ends without failure or interruption left nothing out: for   *)
(* this the graphs have to be free of cycles.                              *)
THEOREM NothingLeftOut == Spec => []NothingSkipped
<1>1. IInv => NothingSkipped
  <2>1. SUFFICES ASSUME IInv, phase[Root] = "returned", ~Cancelled, NEW n \in NodesOf[Root]
                 PROVE  Succeeded(Inside[n])
    BY DEF NothingSkipped
  <2>2. n \in Nodes /\ future[n] = "reaped"
    BY <2>1, NodeFacts DEF IInv, Local, ReturnInv
  <2> QED
    BY <2>1, <2>2, NodeDone DEF IInv
<1> QED
  BY <1>1, SchedulerInvariant, PTL

(* The future that acquired a permit was queued, and a cancelled run's     *)
(* goes past its node, not into it.                                        *)
LEMMA NothingScheduled ==
  ASSUME TypeOK, Next, Cancelled, phase[Root] # "waiting"
  PROVE  Scheduled' \subseteq Scheduled /\ Working' \subseteq Working
<1>1. CASE future' = future
  BY <1>1 DEF Scheduled, Working
<1>2. ASSUME NEW n \in Nodes, NEW to \in {"ready", "reaped"}, future' = [future EXCEPT ![n] = to]
      PROVE  Scheduled' \subseteq Scheduled /\ Working' \subseteq Working
  <2>1. \A m \in Nodes : future'[m] = IF m = n THEN to ELSE future[m]
    BY <1>2 DEF TypeOK
  <2> QED
    BY <2>1 DEF Scheduled, Working
<1>3. ASSUME NEW n \in Nodes, Acquire(n) \/ AcquireFails(n) \/ LeaveNode(n)
      PROVE  Scheduled' \subseteq Scheduled /\ Working' \subseteq Working
  BY <1>2, <1>3 DEF Acquire, AcquireFails, LeaveNode
<1>4. ASSUME NEW n \in Nodes, Reap(n) \/ Drain(n)
      PROVE  Scheduled' \subseteq Scheduled /\ Working' \subseteq Working
  BY <1>2, <1>4 DEF Reap, Drain
<1>5. ~EnterRoot
  BY DEF EnterRoot, Enter
<1>6. ASSUME NEW n \in Nodes PROVE ~BeginGraph(n)
  BY DEF BeginGraph
<1> QED
  BY <1>1, <1>3, <1>4, <1>5, <1>6 DEF Next, Executor, CtrlC, Terminated, vars, BeginLeaf, LookupEnds,
     LeafDone, PassLookup, StartWith, RestoreHit, SpawnLeaf, SpawnLeafFails, Exit, GraphDone, Return

(* A leaf is begun, or goes past its lookup, after a look at the token.    *)
LEMMA NothingBegun ==
  ASSUME TypeOK, Next, Cancelled, phase[Root] # "waiting"
  PROVE  LookingUp' \subseteq LookingUp /\ Committed' \subseteq Committed
<1>1. CASE leaf' = leaf
  BY <1>1 DEF LookingUp, Committed
<1>2. ASSUME NEW n \in Nodes, NEW to, to \in {"ok", "failed", "cancelled"} \/ leaf[Item(n)] = "miss",
             leaf' = [leaf EXCEPT ![Item(n)] = to]
      PROVE  LookingUp' \subseteq LookingUp /\ Committed' \subseteq Committed
  <2>1. \A l \in Leaves : leaf'[l] = IF l = Item(n) THEN to ELSE leaf[l]
    BY <1>2 DEF TypeOK
  <2> QED
    BY <1>2, <2>1 DEF LookingUp, Committed, AtWork
<1>3. ASSUME NEW n \in Nodes, LookupEnds(n) \/ RestoreHit(n) \/ SpawnLeafFails(n) \/ Exit(n)
      PROVE  LookingUp' \subseteq LookingUp /\ Committed' \subseteq Committed
  <2>1. PICK outcome \in {"ok", "failed", "cancelled"} : LeafDone(n, outcome)
    BY <1>3 DEF LookupEnds, RestoreHit, SpawnLeafFails, Exit
  <2> QED
    BY <1>2, <2>1 DEF LeafDone
<1>4. ASSUME NEW n \in Nodes, SpawnLeaf(n)
      PROVE  LookingUp' \subseteq LookingUp /\ Committed' \subseteq Committed
  BY <1>2, <1>4 DEF SpawnLeaf
<1>5. ASSUME NEW n \in Nodes PROVE ~BeginLeaf(n) /\ ~PassLookup(n)
  BY DEF BeginLeaf, PassLookup
<1> QED
  BY <1>1, <1>3, <1>4, <1>5 DEF Next, Executor, CtrlC, Terminated, vars, EnterRoot, Enter, Acquire,
     AcquireFails, BeginGraph, GraphDone, LeaveNode, Reap, Drain, Return

(* After a failure or Ctrl-C what is under way drains, at every depth: no  *)
(* node is scheduled, none takes up its items, no leaf begins, and none    *)
(* goes past its lookup.  One that has gone past may still spawn.          *)
THEOREM WhatIsUnderWayDrains == Spec => NothingNewAfterCancel
<1> DEFINE A == Cancelled /\ phase[Root] # "waiting" =>
                  /\ Scheduled' \subseteq Scheduled
                  /\ Working' \subseteq Working
                  /\ LookingUp' \subseteq LookingUp
                  /\ Committed' \subseteq Committed
<1>1. TypeOK /\ [Next]_vars => [A]_vars
  BY NothingScheduled, NothingBegun
<1>2. [][A]_vars => NothingNewAfterCancel
  BY DEF NothingNewAfterCancel
<1> QED
  BY <1>1, <1>2, SchedulerTypes, PTL DEF Spec
=============================================================================
