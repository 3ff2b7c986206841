-------------------------- MODULE BulkDecode_proofs --------------------------
(***************************************************************************)
(* The scatter pass of the bulk decoders writes every row to a slot of its *)
(* own, for every graph, every traffic, every number of tasks and every    *)
(* interleaving, as long as the row counts stay below the counter's modulus*)
(* (NoWrap).  The last part shows that the decoders implement              *)
(* SerialDecode: between calls the tables are those of the serial decoder. *)
(***************************************************************************)
EXTENDS BulkDecode, FiniteSetTheorems, SequenceTheorems, WellFoundedInduction, TLAPS

-----------------------------------------------------------------------------
(* Division, and the ranges bulk_for_each hands to its tasks. *)

LEMMA DivProps ==
  ASSUME NEW a \in Nat, NEW b \in Nat \ {0}
  PROVE  /\ a \div b \in Nat
         /\ b * (a \div b) <= a
         /\ a < b * (a \div b) + b
  OBVIOUS

(* Cancelling a positive factor. *)
LEMMA MulCancel ==
  ASSUME NEW b \in Nat \ {0}, NEW x \in Nat, NEW y \in Nat, b * x < b * (y + 1)
  PROVE  x <= y
  BY SMTT(20)

LEMMA DivMono ==
  ASSUME NEW a \in Nat, NEW c \in Nat, NEW b \in Nat \ {0}, a <= c
  PROVE  a \div b <= c \div b
<1> DEFINE x == a \div b
           y == c \div b
<1>1. x \in Nat /\ b * x <= a
  BY DivProps
<1>2. y \in Nat /\ c < b * y + b
  BY DivProps
<1>3. b * x < b * y + b
  BY <1>1, <1>2
<1>4. b * y + b = b * (y + 1)
  BY <1>2
<1> QED
  BY <1>1, <1>2, <1>3, <1>4, MulCancel

(* A task's range is an interval of the n indices. *)
LEMMA TaskRangeType ==
  ASSUME NEW n \in Nat, NEW T \in Nat \ {0}, NEW t \in 0..(T - 1)
  PROVE  /\ TaskStart(t, n, T) \in Nat
         /\ TaskEnd(t, n, T) \in Nat
         /\ TaskStart(t, n, T) <= TaskEnd(t, n, T)
         /\ TaskEnd(t, n, T) <= n
<1>1. t * n \in Nat /\ (t + 1) * n \in Nat /\ T * n \in Nat
  OBVIOUS
<1>2. t * n <= (t + 1) * n /\ (t + 1) * n <= T * n
  OBVIOUS
<1>3. (T * n) \div T = n
  OBVIOUS
<1> QED
  BY <1>1, <1>2, <1>3, DivProps, DivMono DEF TaskStart, TaskEnd

(* Different tasks get different indices: a later task's range starts at or *)
(* after the end of an earlier one's.                                       *)
LEMMA TaskRangesOrdered ==
  ASSUME NEW n \in Nat, NEW T \in Nat \ {0},
         NEW t \in 0..(T - 1), NEW u \in 0..(T - 1), t < u
  PROVE  TaskEnd(t, n, T) <= TaskStart(u, n, T)
<1>1. (t + 1) * n \in Nat /\ u * n \in Nat /\ (t + 1) * n <= u * n
  OBVIOUS
<1> QED
  BY <1>1, DivMono DEF TaskStart, TaskEnd

(* Every index is in some task's range: bulk_for_each skips none. *)
LEMMA TaskRangesCover ==
  ASSUME NEW n \in Nat, NEW T \in Nat \ {0}, NEW i \in 0..(n - 1)
  PROVE  \E t \in 0..(T - 1) : TaskStart(t, n, T) <= i /\ i < TaskEnd(t, n, T)
<1> DEFINE a == (i + 1) * T - 1
           t == a \div n
<1>1. n \in Nat \ {0} /\ a \in Nat
  OBVIOUS
<1>2. t \in Nat /\ n * t <= a /\ a < n * t + n
  BY <1>1, DivProps
<1> HIDE DEF t
<1>3. t \in 0..(T - 1)
  <2>1. (i + 1) * T <= n * T
    OBVIOUS
  <2>2. n * t < n * T
    BY <1>2, <2>1
  <2>3. n * t < n * ((T - 1) + 1)
    BY <2>2
  <2> QED
    BY <1>1, <1>2, <2>3, MulCancel
<1>4. TaskStart(t, n, T) <= i
  <2> DEFINE s == (t * n) \div T
  <2>1. t * n \in Nat /\ t * n = n * t
    BY <1>2
  <2>2. s \in Nat /\ T * s <= t * n
    BY <2>1, DivProps
  <2> HIDE DEF s
  <2>3. T * s < T * (i + 1)
    BY <2>1, <2>2, <1>2
  <2> QED
    BY <2>2, <2>3, MulCancel DEF TaskStart, s
<1>5. i < TaskEnd(t, n, T)
  <2> DEFINE e == ((t + 1) * n) \div T
  <2>1. (t + 1) * n \in Nat /\ (t + 1) * n = n * t + n
    BY <1>2
  <2>2. e \in Nat /\ (t + 1) * n < T * e + T
    BY <2>1, DivProps
  <2> HIDE DEF e
  <2>3. T * (i + 1) < T * (e + 1)
    BY <2>1, <2>2, <1>2
  <2>4. i + 1 <= e
    BY <2>2, <2>3, MulCancel
  <2> QED
    BY <2>2, <2>4 DEF TaskEnd, e
<1> QED BY <1>3, <1>4, <1>5

-----------------------------------------------------------------------------
(* Counting the PDUs of a node along a walk. *)

LEMMA CountProps ==
  ASSUME NEW w \in Seq(Node), NEW n, NEW j \in Nat
  PROVE  /\ CountUpTo(w, n, j) \in Nat
         /\ CountUpTo(w, n, j) <= j
<1>1. IsFiniteSet(1..j) /\ Cardinality(1..j) = j
  BY FS_Interval
<1>2. {l \in 1..j : w[l] = n} \in SUBSET (1..j)
  OBVIOUS
<1>3. IsFiniteSet({l \in 1..j : w[l] = n})
  BY <1>1, <1>2, FS_Subset
<1> QED BY <1>1, <1>2, <1>3, FS_Subset, FS_CardinalityType DEF CountUpTo

LEMMA CountZero ==
  ASSUME NEW w, NEW n
  PROVE  CountUpTo(w, n, 0) = 0
<1>1. {l \in 1..0 : w[l] = n} = {}
  OBVIOUS
<1> QED BY <1>1, FS_EmptySet DEF CountUpTo

LEMMA CountStep ==
  ASSUME NEW w, NEW n, NEW j \in Nat
  PROVE  CountUpTo(w, n, j + 1) =
           IF w[j + 1] = n THEN CountUpTo(w, n, j) + 1 ELSE CountUpTo(w, n, j)
<1> DEFINE S == {l \in 1..j : w[l] = n}
           R == {l \in 1..(j + 1) : w[l] = n}
<1>0. IsFiniteSet(1..j) /\ S \in SUBSET (1..j)
  BY FS_Interval
<1>1. IsFiniteSet(S)
  BY <1>0, FS_Subset
<1>2. CASE w[j + 1] = n
  <2>1. R = S \cup {j + 1} /\ (j + 1) \notin S
    BY <1>2
  <2> QED BY <1>1, <1>2, <2>1, FS_AddElement DEF CountUpTo
<1>3. CASE w[j + 1] # n
  <2>1. R = S
    BY <1>3
  <2> QED BY <1>3, <2>1 DEF CountUpTo
<1> QED BY <1>2, <1>3

LEMMA CountMono ==
  ASSUME NEW w \in Seq(Node), NEW n, NEW j \in Nat, NEW m \in Nat, j <= m
  PROVE  CountUpTo(w, n, j) <= CountUpTo(w, n, m)
<1> DEFINE S == {l \in 1..j : w[l] = n}
           R == {l \in 1..m : w[l] = n}
<1>0. IsFiniteSet(1..m) /\ R \in SUBSET (1..m)
  BY FS_Interval
<1>1. IsFiniteSet(R)
  BY <1>0, FS_Subset
<1>2. S \in SUBSET R
  OBVIOUS
<1> QED BY <1>1, <1>2, FS_Subset DEF CountUpTo
-----------------------------------------------------------------------------
(* Types.  Shapes alone is not inductive: that a row is written to an       *)
(* existing table needs the task to be inside a packet of the batch.        *)

TInv == Shapes /\ TaskRange /\ pidBase + NumPackets <= MaxPackets

LEMMA BatchType ==
  ASSUME NEW b \in Batches
  PROVE  b \in Seq(Packets) /\ Len(b) \in 0..MaxBatch
<1>1. PICK m \in 0..MaxBatch : b \in [1..m -> Packets]
  BY DEF Batches
<1> QED BY <1>1, ConstantsAssumption

LEMMA WalkType ==
  ASSUME Shapes, NEW i \in Indices
  PROVE  /\ batch[i + 1] \in Packets
         /\ Walk(i) \in Seq(Node)
         /\ Len(Walk(i)) \in 0..MaxWalk
<1>1. batch[i + 1] \in Packets
  BY DEF Shapes, Indices, NumPackets
<1>2. /\ batch[i + 1].walk \in Seq(Node) /\ batch[i + 1].kids \in Seq(Node)
      /\ Len(batch[i + 1].walk) <= MaxWalk /\ Len(batch[i + 1].kids) <= MaxWalk
  BY <1>1, ConstantsAssumption
<1>3. <<>> \in Seq(Node) /\ Len(<<>>) = 0
  OBVIOUS
<1> QED BY <1>1, <1>2, <1>3, ConstantsAssumption DEF Walk, WalkOf

LEMMA CountsType ==
  /\ Zero \in Counts
  /\ \A w : w \in Seq(Node) => CountOf(w) \in Counts
  /\ \A a, b \in Counts : Plus(a, b) \in Counts
<1>1. Mod \in Nat \ {0}
  BY ConstantsAssumption
<1>2. ASSUME NEW w \in Seq(Node), NEW n \in Node
      PROVE  CountUpTo(w, n, Len(w)) % Mod \in 0..(Mod - 1)
  BY <1>1, CountProps
<1> QED BY <1>1, <1>2 DEF Zero, Counts, CountOf, Plus

LEMMA ExecutorsType ==
  ASSUME NEW n \in Nat, NEW T \in Executors(n)
  PROVE  T \in 1..MaxTasks
  BY ConstantsAssumption DEF Executors, NumTasks

(* Entering run_each puts every task at the start of its own range. *)
LEMMA LaunchType ==
  ASSUME NEW n \in Nat, NEW T \in 1..MaxTasks, Launch(n, T)
  PROVE  /\ ntasks' = T
         /\ Tasks' = 0..(T - 1)
         /\ idx' \in [Tasks' -> Nat]
         /\ pos' \in [Tasks' -> Nat]
         /\ cur' \in [Tasks' -> Counts]
         /\ \A t \in Tasks' : pos'[t] = 0 /\ idx'[t] = TaskStart(t, n, T)
<1>1. \A t \in 0..(T - 1) : TaskStart(t, n, T) \in Nat
  BY TaskRangeType, ConstantsAssumption
<1>2. [n2 \in Node |-> 0] \in Counts
  BY CountsType DEF Zero
<1> QED BY <1>1, <1>2 DEF Launch, Tasks

LEMMA ResizeType ==
  ASSUME NEW tb \in Seq(Row \cup {Blank}), NEW size \in Nat
  PROVE  /\ Resize(tb, size) \in Seq(Row \cup {Blank})
         /\ Len(Resize(tb, size)) = size
         /\ \A s \in 1..size : Resize(tb, size)[s] = IF s <= Len(tb) THEN tb[s] ELSE Blank
  BY DEF Resize

(* A task that has work left stands on a packet of the batch. *)
LEMMA TaskFacts ==
  ASSUME Shapes, NEW t \in Tasks
  PROVE  /\ TaskStart(t, NumPackets, ntasks) \in Nat
         /\ TaskEnd(t, NumPackets, ntasks) \in Nat
         /\ TaskEnd(t, NumPackets, ntasks) <= NumPackets
         /\ idx[t] \in Nat
         /\ idx[t] < TaskEnd(t, NumPackets, ntasks) => idx[t] \in Indices
<1>1. NumPackets \in Nat /\ ntasks \in Nat \ {0}
  BY ConstantsAssumption DEF Shapes, NumPackets
<1>2. /\ TaskStart(t, NumPackets, ntasks) \in Nat
      /\ TaskEnd(t, NumPackets, ntasks) \in Nat
      /\ TaskEnd(t, NumPackets, ntasks) <= NumPackets
  BY <1>1, TaskRangeType, Zenon DEF Tasks
<1>3. idx[t] \in Nat
  BY DEF Shapes
<1> QED BY <1>1, <1>2, <1>3 DEF Indices

LEMMA InitTInv == Init => TInv
<1> SUFFICES ASSUME Init PROVE TInv
  OBVIOUS
<1> USE ConstantsAssumption, CountsType DEF Init
<1>1. NumPackets = 0 /\ Indices = {} /\ Tasks = 0..0 /\ batch \in Seq(Packets)
  BY DEF NumPackets, Indices, Tasks
<1>2. Shapes
  BY <1>1 DEF Shapes
<1> QED BY <1>1, <1>2 DEF TInv, TaskRange

LEMMA ArgumentsType ==
  ASSUME TInv, NEW b \in Batches, Arguments(b)
  PROVE  /\ mode' \in Modes
         /\ batch' \in Seq(Packets)
         /\ NumPackets' = Len(b)
         /\ Len(b) \in Nat
         /\ pidBase' \in Nat
         /\ pidBase' + NumPackets' <= MaxPackets
         /\ per' \in [Indices' -> Counts]
         /\ base' \in [Indices' -> Counts]
         /\ trailers' \in [Indices' -> Nat \cup {-1}]
         /\ tables' = tables
<1>1. b \in Seq(Packets) /\ Len(b) \in Nat
  BY BatchType
<1>2. NumPackets \in Nat
  BY DEF TInv, Shapes, NumPackets
<1>3. Indices' = 0..(Len(b) - 1) /\ NumPackets' = Len(b)
  BY DEF Arguments, Indices, NumPackets
<1> QED BY <1>1, <1>2, <1>3, CountsType DEF Arguments, TInv, Shapes

LEMMA NextTInv == TInv /\ [Next]_vars => TInv'
<1> SUFFICES ASSUME TInv, [Next]_vars PROVE TInv'
  OBVIOUS
<1> USE ConstantsAssumption
<1>0. NumPackets \in Nat /\ ntasks \in Nat \ {0}
  BY DEF TInv, Shapes, NumPackets
<1>1. ASSUME NEW b \in Batches, BeginWindow(b) PROVE TInv'
  <2>1. Arguments(b) /\ phase' = "count" /\ run' = Zero /\ k' = 0
    BY <1>1 DEF BeginWindow
  <2>2. PICK T \in Executors(Len(b)) : Launch(Len(b), T)
    BY <1>1 DEF BeginWindow
  <2>3. Len(b) \in Nat /\ NumPackets' = Len(b)
    BY <2>1, ArgumentsType
  <2>4. T \in 1..MaxTasks
    BY <2>3, ExecutorsType
  <2>a. /\ ntasks' = T
        /\ Tasks' = 0..(T - 1)
        /\ idx' \in [Tasks' -> Nat]
        /\ pos' \in [Tasks' -> Nat]
        /\ cur' \in [Tasks' -> Counts]
        /\ \A t \in Tasks' : pos'[t] = 0 /\ idx'[t] = TaskStart(t, Len(b), T)
    BY <2>2, <2>3, <2>4, LaunchType
  <2>b. /\ mode' \in Modes
        /\ batch' \in Seq(Packets)
        /\ pidBase' \in Nat
        /\ per' \in [Indices' -> Counts]
        /\ base' \in [Indices' -> Counts]
        /\ trailers' \in [Indices' -> Nat \cup {-1}]
        /\ tables' = tables
    BY <2>1, ArgumentsType
  <2>c. run' \in Counts /\ tables \in [Node -> Seq(Row \cup {Blank})]
    BY <2>1, CountsType DEF Shapes, TInv
  <2>5. Shapes'
    BY ONLY <2>1, <2>3, <2>4, <2>a, <2>b, <2>c DEF Shapes
  <2>6. TaskRange'
    <3>0. T \in Nat \ {0}
      BY <2>4
    <3>1. ASSUME NEW t \in 0..(T - 1)
          PROVE  /\ TaskStart(t, Len(b), T) \in Nat
                 /\ TaskStart(t, Len(b), T) <= TaskEnd(t, Len(b), T)
      BY ONLY <3>0, <3>1, <2>3, TaskRangeType, Zenon
    <3> QED BY ONLY <2>3, <2>a, <3>1 DEF TaskRange
  <2> QED BY <2>1, <2>5, <2>6, ArgumentsType DEF TInv
<1>2. ASSUME NEW b \in Batches, BeginBulk(b) PROVE TInv'
  <2>1. /\ Arguments(b) /\ phase' = "scan" /\ run' = Seed /\ k' = 0
        /\ UNCHANGED <<ntasks, idx, pos, cur>>
    BY <1>2 DEF BeginBulk, taskVars
  <2>2. Seed \in Counts
    BY DEF Seed, Counts, TInv, Shapes
  <2>3. Tasks' = Tasks
    BY <2>1 DEF Tasks
  <2>4. Shapes'
    BY <2>1, <2>2, <2>3, ArgumentsType DEF Shapes, TInv
  <2>5. TaskRange'
    BY <2>1 DEF TaskRange
  <2> QED BY <2>1, <2>4, <2>5, ArgumentsType DEF TInv
<1>3. ASSUME NEW t \in Tasks, CountPacket(t) PROVE TInv'
  <2> USE <1>3 DEF CountPacket, callVars
  <2>1. /\ NumPackets' = NumPackets /\ Tasks' = Tasks /\ Indices' = Indices
        /\ \A i : Walk(i)' = Walk(i)
    BY DEF NumPackets, Tasks, Indices, Walk, WalkOf
  <2>2. idx[t] \in Indices
    BY TaskFacts DEF TInv
  <2>3. CountOf(Walk(idx[t])) \in Counts
    BY <2>2, WalkType, CountsType DEF TInv
  <2>4. Shapes'
    BY <2>1, <2>2, <2>3 DEF Shapes, TInv
  <2>5. TaskRange'
    <3>1. /\ TaskStart(t, NumPackets, ntasks) \in Nat
          /\ TaskEnd(t, NumPackets, ntasks) \in Nat
          /\ idx[t] \in Nat
      BY TaskFacts DEF TInv
    <3>2. ASSUME NEW u \in Tasks
          PROVE  /\ TaskStart(u, NumPackets, ntasks) <= idx'[u]
                 /\ idx'[u] <= TaskEnd(u, NumPackets, ntasks)
                 /\ ~(pos'[u] > 0)
      <4>1. CASE u = t
        BY <4>1, <3>1 DEF TaskRange, TInv, Shapes
      <4>2. CASE u # t
        BY <4>2 DEF TaskRange, TInv, Shapes
      <4> QED BY <4>1, <4>2
    <3> QED BY <2>1, <3>2 DEF TaskRange
  <2> QED BY <2>1, <2>4, <2>5 DEF TInv
<1>4. CASE CountJoin
  <2> USE <1>4 DEF CountJoin, callVars, taskVars
  <2>1. NumPackets' = NumPackets /\ Tasks' = Tasks /\ Indices' = Indices
    BY DEF NumPackets, Tasks, Indices
  <2>2. Seed \in Counts
    BY DEF Seed, Counts, TInv, Shapes
  <2>3. Shapes'
    BY <2>1, <2>2, <1>0 DEF Shapes, TInv
  <2> QED BY <2>1, <2>3 DEF TInv, TaskRange
<1>5. CASE ScanStep
  <2> USE <1>5 DEF ScanStep, callVars, taskVars
  <2>1. NumPackets' = NumPackets /\ Tasks' = Tasks /\ Indices' = Indices
    BY DEF NumPackets, Tasks, Indices
  <2>2. k \in Indices
    BY <1>0 DEF Indices, TInv, Shapes
  <2>3. per[k] \in Counts /\ CountOf(Walk(k)) \in Counts
    BY <2>2, WalkType, CountsType DEF TInv, Shapes
  <2>4. run' \in Counts
    BY <2>3, CountsType DEF TInv, Shapes
  <2>5. Shapes'
    BY <2>1, <2>2, <2>4, <1>0 DEF Shapes, TInv
  <2> QED BY <2>1, <2>5 DEF TInv, TaskRange
<1>6. CASE ScanEnd
  <2> USE <1>6 DEF ScanEnd, callVars, scanVars
  <2>1. NumPackets' = NumPackets /\ Indices' = Indices
    BY DEF NumPackets, Indices
  <2>2. PICK T \in Executors(NumPackets) : Launch(NumPackets, T)
    OBVIOUS
  <2>3. T \in 1..MaxTasks /\ T \in Nat \ {0}
    BY <1>0, ExecutorsType
  <2>4. /\ ntasks' = T
        /\ Tasks' = 0..(T - 1)
        /\ idx' \in [Tasks' -> Nat]
        /\ pos' \in [Tasks' -> Nat]
        /\ cur' \in [Tasks' -> Counts]
        /\ \A t \in Tasks' : pos'[t] = 0 /\ idx'[t] = TaskStart(t, NumPackets, T)
    BY <1>0, <2>2, <2>3, LaunchType
  <2>5. tables' \in [Node -> Seq(Row \cup {Blank})]
    <3>1. \A n \in Node : run[n] \in Nat
      BY DEF TInv, Shapes, Counts
    <3> QED BY <3>1, ResizeType DEF TInv, Shapes
  <2>6. Shapes'
    BY <2>1, <2>3, <2>4, <2>5 DEF Shapes, TInv
  <2>7. TaskRange'
    <3>1. ASSUME NEW t \in 0..(T - 1)
          PROVE  /\ TaskStart(t, NumPackets, T) \in Nat
                 /\ TaskStart(t, NumPackets, T) <= TaskEnd(t, NumPackets, T)
      BY ONLY <1>0, <2>3, <3>1, TaskRangeType, Zenon
    <3> QED BY ONLY <2>1, <2>4, <3>1 DEF TaskRange
  <2> QED BY <2>1, <2>6, <2>7 DEF TInv
<1>7. ASSUME NEW t \in Tasks, StartPacket(t) PROVE TInv'
  <2> USE <1>7 DEF StartPacket, callVars, scanVars
  <2>1. /\ NumPackets' = NumPackets /\ Tasks' = Tasks /\ Indices' = Indices
        /\ \A i : Walk(i)' = Walk(i)
    BY DEF NumPackets, Tasks, Indices, Walk, WalkOf
  <2>2. idx[t] \in Indices
    BY TaskFacts DEF TInv
  <2>3. base[idx[t]] \in Counts
    BY <2>2 DEF TInv, Shapes
  <2>4. Shapes'
    BY <2>1, <2>3 DEF Shapes, TInv
  <2>5. Len(Walk(idx[t])) \in Nat
    BY <2>2, WalkType DEF TInv
  <2>6. TaskRange'
    BY <2>1, <2>5 DEF TaskRange, TInv, Shapes
  <2> QED BY <2>1, <2>4, <2>6 DEF TInv
<1>8. ASSUME NEW t \in Tasks, EmitPdu(t) PROVE TInv'
  <2> USE <1>8 DEF EmitPdu, callVars, scanVars, Writing
  <2>1. /\ NumPackets' = NumPackets /\ Tasks' = Tasks /\ Indices' = Indices
        /\ \A i : Walk(i)' = Walk(i)
    BY DEF NumPackets, Tasks, Indices, Walk, WalkOf
  <2>2. idx[t] \in Indices /\ pos[t] \in Nat
    BY TaskFacts DEF TInv, Shapes, TaskRange
  <2>3. Walk(idx[t]) \in Seq(Node) /\ Len(Walk(idx[t])) \in Nat
    BY <2>2, WalkType DEF TInv
  <2>4. Target(t) \in Node
    BY <2>2, <2>3 DEF Target
  <2>5. /\ Slot(t) \in Nat
        /\ cur' = [cur EXCEPT ![t][Target(t)] = (@ + 1) % Mod]
        /\ cur' \in [Tasks -> Counts]
    <3>1. cur \in [Tasks -> [Node -> 0..(Mod - 1)]] /\ Mod \in Nat \ {0}
      BY ConstantsAssumption DEF TInv, Shapes, Counts
    <3>2. cur' = [cur EXCEPT ![t][Target(t)] = (@ + 1) % Mod]
      BY <1>8 DEF EmitPdu
    <3>3. cur[t][Target(t)] \in 0..(Mod - 1)
      BY ONLY <3>1, <2>4, t \in Tasks
    <3>4. (cur[t][Target(t)] + 1) % Mod \in 0..(Mod - 1)
      BY ONLY <3>1, <3>3
    <3> QED BY ONLY <3>1, <3>2, <3>3, <3>4, <2>4, t \in Tasks DEF Slot, Counts
  <2>6. RowOf(idx[t], pos[t]) \in Row
    BY <2>2 DEF RowOf, Row, Indices, TInv, Shapes
  <2>7. tables' \in [Node -> Seq(Row \cup {Blank})]
    <3>1. tables[Target(t)] \in Seq(Row \cup {Blank})
      BY <2>4 DEF TInv, Shapes
    <3>2. ASSUME Slot(t) < Len(tables[Target(t)])
          PROVE  [tables[Target(t)] EXCEPT ![Slot(t) + 1] = RowOf(idx[t], pos[t])]
                   \in Seq(Row \cup {Blank})
      BY <3>1, <3>2, <2>5, <2>6
    <3> QED BY <3>1, <3>2, <2>4 DEF TInv, Shapes
  <2>8. Shapes'
    BY <2>1, <2>2, <2>5, <2>7 DEF Shapes, TInv
  <2>9. TaskRange'
    BY <2>1, <2>2, <2>3 DEF TaskRange, TInv, Shapes
  <2> QED BY <2>1, <2>8, <2>9 DEF TInv
<1>9. ASSUME NEW t \in Tasks, EndPacket(t) PROVE TInv'
  <2> USE <1>9 DEF EndPacket, callVars, scanVars
  <2>1. /\ NumPackets' = NumPackets /\ Tasks' = Tasks /\ Indices' = Indices
        /\ \A i : Walk(i)' = Walk(i)
    BY DEF NumPackets, Tasks, Indices, Walk, WalkOf
  <2>2. idx[t] \in Indices /\ idx[t] < TaskEnd(t, NumPackets, ntasks)
    BY TaskFacts DEF TInv, Shapes, TaskRange
  <2>3. Len(Walk(idx[t])) \in Nat
    BY <2>2, WalkType DEF TInv
  <2>4. Shapes'
    BY <2>1, <2>2, <2>3 DEF Shapes, TInv
  <2>5. TaskRange'
    <3>1. /\ TaskStart(t, NumPackets, ntasks) \in Nat
          /\ TaskEnd(t, NumPackets, ntasks) \in Nat
          /\ idx[t] \in Nat
      BY TaskFacts DEF TInv
    <3>2. ASSUME NEW u \in Tasks
          PROVE  /\ TaskStart(u, NumPackets, ntasks) <= idx'[u]
                 /\ idx'[u] <= TaskEnd(u, NumPackets, ntasks)
                 /\ pos'[u] > 0 => /\ idx'[u] < TaskEnd(u, NumPackets, ntasks)
                                   /\ pos'[u] <= Len(Walk(idx'[u])) + 1
      <4>1. CASE u = t
        BY <4>1, <3>1, <2>2 DEF TaskRange, TInv, Shapes
      <4>2. CASE u # t
        BY <4>2 DEF TaskRange, TInv, Shapes
      <4> QED BY <4>1, <4>2
    <3> QED BY <2>1, <3>2 DEF TaskRange
  <2> QED BY <2>1, <2>4, <2>5 DEF TInv
<1>10. CASE ScatterJoin
  <2> USE <1>10 DEF ScatterJoin, callVars, scanVars, taskVars
  <2>1. NumPackets' = NumPackets /\ Tasks' = Tasks /\ Indices' = Indices
    BY DEF NumPackets, Tasks, Indices
  <2>2. Shapes'
    BY <2>1 DEF Shapes, TInv
  <2> QED BY <2>1, <2>2 DEF TInv, TaskRange
<1>11. CASE UNCHANGED vars
  <2> USE <1>11 DEF vars, callVars, scanVars, taskVars
  <2>1. /\ NumPackets' = NumPackets /\ Tasks' = Tasks /\ Indices' = Indices
        /\ \A i : Walk(i)' = Walk(i)
    BY DEF NumPackets, Tasks, Indices, Walk, WalkOf
  <2>2. Shapes'
    BY <2>1 DEF Shapes, TInv
  <2> QED BY <2>1, <2>2 DEF TInv, TaskRange
<1> QED
  BY <1>1, <1>2, <1>3, <1>4, <1>5, <1>6, <1>7, <1>8, <1>9, <1>10, <1>11
  DEF Next, Host, TaskStep, EmptyWindow

(* Every reachable state is well typed, and while a pass runs each task is  *)
(* in the range bulk_for_each gave it and not past the end of its packet's  *)
(* walk, for every graph, traffic and number of tasks.                      *)
THEOREM BulkTypeOK == Spec => []TypeOK
<1>1. Spec => []TInv
  BY InitTInv, NextTInv, PTL DEF Spec
<1>2. TInv => TypeOK
  BY DEF TInv, TypeOK
<1> QED BY <1>1, <1>2, PTL

-----------------------------------------------------------------------------
(* The slots.  The counters are unsigned and wrap in the code: the argument *)
(* needs the rows of the whole capture to stay below the modulus.           *)

NoWrap == MaxPackets * MaxWalk < Mod

(* Rows m packets can add to one table. *)
Bound(m) == m * MaxWalk

(* Rows of packet i in table n, and the end of the slots the scan gave it. *)
PktCount(i, n) == CountUpTo(Walk(i), n, Len(Walk(i)))
PktEnd(i, n) == base[i][n] + PktCount(i, n)

(* The first slot of packet i in table n that task t has not written. *)
NextSlot(t, i, n) == IF i = idx[t] /\ pos[t] > 0 THEN cur[t][n] ELSE base[i][n]

PhaseFacts ==
  /\ phase = "count" => mode = "window"
  /\ phase = "scatter" => k = NumPackets

(* What the tables hold is bounded by the packets decoded so far. *)
SizeBound ==
  \A n \in Node :
    Len(tables[n]) <=
      Bound(IF phase \in {"count", "scan"} THEN pidBase ELSE pidBase + NumPackets)

(* The counting kernel has filled per[] up to each task's index, and the    *)
(* join makes that every packet.                                            *)
Counted ==
  mode = "window" =>
    /\ phase = "count" =>
         \A t \in Tasks : \A i \in Indices :
           (TaskStart(t, NumPackets, ntasks) <= i /\ i < idx[t])
             => per[i] = CountOf(Walk(i))
    /\ phase = "scan" => \A i \in Indices : per[i] = CountOf(Walk(i))

(* The scan lays the packets' slots out one after the other. *)
Layout ==
  phase \in {"scan", "scatter"} =>
    \A n \in Node :
      /\ run[n] <= Bound(pidBase + k)
      /\ \A i \in Indices : i < k => PktEnd(i, n) <= run[n]
      /\ \A i, j \in Indices : (i < j /\ j < k) => PktEnd(i, n) <= base[j][n]

(* During the scan the slots given out lie past what the tables hold, and   *)
(* the resize makes room for exactly them.                                  *)
PastEnd ==
  \A n \in Node :
    /\ phase = "scan" => /\ Len(tables[n]) <= run[n]
                         /\ k = 0 => run[n] = Len(tables[n])
                         /\ \A i \in Indices : i < k => Len(tables[n]) <= base[i][n]
    /\ phase = "scatter" => Len(tables[n]) = run[n]

(* A task's cursors have advanced by the rows it wrote of its packet. *)
Cursors ==
  phase = "scatter" =>
    \A t \in Tasks : pos[t] > 0 =>
      \A n \in Node :
        cur[t][n] = base[idx[t]][n] + CountUpTo(Walk(idx[t]), n, pos[t] - 1)

(* A slot a task has still to write is blank. *)
Pending ==
  phase = "scatter" =>
    \A t \in Tasks : \A i \in Indices : \A n \in Node : \A s \in Nat :
      /\ idx[t] <= i
      /\ i < TaskEnd(t, NumPackets, ntasks)
      /\ NextSlot(t, i, n) <= s
      /\ s < PktEnd(i, n)
      => tables[n][s + 1] = Blank

(* Each task has set the trailers of the packets it is done with. *)
Trailed ==
  mode = "window" =>
    /\ phase = "scatter" =>
         \A t \in Tasks : \A i \in Indices :
           (TaskStart(t, NumPackets, ntasks) <= i /\ i < idx[t])
             => trailers[i] = Len(Walk(i))
    /\ phase = "idle" => \A i \in Indices : trailers[i] = Len(Walk(i))

SInv == /\ TInv /\ PhaseFacts /\ SizeBound /\ Counted
        /\ Layout /\ PastEnd /\ Cursors /\ Pending /\ Trailed

LEMMA BoundProps ==
  /\ \A m \in Nat : Bound(m) \in Nat /\ Bound(m + 1) = Bound(m) + MaxWalk
  /\ \A m, p \in Nat : m <= p => Bound(m) <= Bound(p)
<1>1. MaxWalk \in Nat
  BY ConstantsAssumption
<1>2. ASSUME NEW m \in Nat, NEW p \in Nat, m <= p
      PROVE  m * MaxWalk <= p * MaxWalk
  BY <1>1, <1>2
<1>3. ASSUME NEW m \in Nat
      PROVE  m * MaxWalk \in Nat /\ (m + 1) * MaxWalk = m * MaxWalk + MaxWalk
  BY <1>1
<1> QED BY <1>2, <1>3 DEF Bound

(* Below the modulus the unsigned arithmetic is the plain one. *)
LEMMA BelowMod ==
  ASSUME NoWrap, NEW m \in Nat, m <= MaxPackets, NEW x \in Nat, x <= Bound(m)
  PROVE  x < Mod /\ x % Mod = x
<1>1. MaxPackets \in Nat /\ Mod \in Nat \ {0}
  BY ConstantsAssumption
<1>2. Bound(m) \in Nat /\ Bound(MaxPackets) \in Nat
  BY <1>1, BoundProps
<1>3. Bound(m) <= Bound(MaxPackets)
  BY <1>1, BoundProps
<1>4. Bound(MaxPackets) < Mod
  BY DEF NoWrap, Bound
<1>5. x < Mod
  BY <1>1, <1>2, <1>3, <1>4
<1> QED BY <1>1, <1>5

LEMMA SizesType ==
  ASSUME Shapes
  PROVE  /\ NumPackets \in Nat /\ pidBase \in Nat /\ k \in Nat /\ MaxPackets \in Nat
         /\ \A n \in Node : run[n] \in Nat /\ Len(tables[n]) \in Nat
<1>1. \A n \in Node : run[n] \in Nat
  BY DEF Shapes, Counts
<1>2. NumPackets \in Nat /\ pidBase \in Nat /\ k \in Nat /\ MaxPackets \in Nat
  BY ConstantsAssumption DEF Shapes, NumPackets
<1>3. \A n \in Node : Len(tables[n]) \in Nat
  BY DEF Shapes
<1> QED BY <1>1, <1>2, <1>3

LEMMA PktCountType ==
  ASSUME Shapes, NEW i \in Indices, NEW n \in Node
  PROVE  /\ PktCount(i, n) \in Nat
         /\ PktCount(i, n) <= MaxWalk
         /\ base[i][n] \in Nat
         /\ PktEnd(i, n) \in Nat
<1>1. Walk(i) \in Seq(Node) /\ Len(Walk(i)) \in Nat /\ Len(Walk(i)) <= MaxWalk
  BY WalkType, ConstantsAssumption
<1>2. PktCount(i, n) \in Nat /\ PktCount(i, n) <= Len(Walk(i))
  BY <1>1, CountProps DEF PktCount
<1>3. base[i][n] \in Nat
  BY ConstantsAssumption DEF Shapes, Counts
<1> QED BY <1>1, <1>2, <1>3, ConstantsAssumption DEF PktEnd

(* count_packet's counters do not wrap. *)
LEMMA CountOfExact ==
  ASSUME NoWrap, TInv, NEW i \in Indices, NEW n \in Node
  PROVE  CountOf(Walk(i))[n] = PktCount(i, n)
<1>1. NumPackets \in Nat /\ pidBase \in Nat /\ MaxPackets \in Nat
  BY ConstantsAssumption DEF TInv, Shapes, NumPackets
<1>2. 1 <= MaxPackets
  BY <1>1 DEF TInv, Indices
<1>3. Bound(1) = MaxWalk
  BY ConstantsAssumption DEF Bound
<1>4. PktCount(i, n) \in Nat /\ PktCount(i, n) <= Bound(1)
  BY <1>3, PktCountType DEF TInv
<1>5. PktCount(i, n) % Mod = PktCount(i, n)
  BY <1>2, <1>4, BelowMod
<1> QED BY <1>5 DEF CountOf, PktCount

(* A slot between base and end belongs to one packet only. *)
LEMMA SlotOwner ==
  ASSUME Shapes, Layout, phase = "scatter", k = NumPackets,
         NEW n \in Node, NEW i \in Indices, NEW j \in Indices, i # j,
         NEW s \in Nat, base[i][n] <= s, s < PktEnd(i, n),
         NEW r \in Nat, base[j][n] <= r, r < PktEnd(j, n)
  PROVE  s # r
<1>1. i \in Nat /\ j \in Nat /\ i < k /\ j < k
  BY DEF Indices, NumPackets, Shapes
<1>2. base[i][n] \in Nat /\ base[j][n] \in Nat /\ PktEnd(i, n) \in Nat /\ PktEnd(j, n) \in Nat
  BY PktCountType
<1>3. CASE i < j
  <2>1. PktEnd(i, n) <= base[j][n]
    BY <1>1, <1>3 DEF Layout
  <2> QED BY <1>2, <2>1
<1>4. CASE j < i
  <2>1. PktEnd(j, n) <= base[i][n]
    BY <1>1, <1>4 DEF Layout
  <2> QED BY <1>2, <2>1
<1> QED BY <1>1, <1>3, <1>4

(* The slot a task is about to write lies in its packet's range. *)
LEMMA WritingSlot ==
  ASSUME TInv, Cursors, phase = "scatter", NEW t \in Tasks, Writing(t)
  PROVE  /\ idx[t] \in Indices
         /\ idx[t] < TaskEnd(t, NumPackets, ntasks)
         /\ pos[t] \in Nat
         /\ Target(t) \in Node
         /\ Slot(t) \in Nat
         /\ base[idx[t]][Target(t)] <= Slot(t)
         /\ Slot(t) < PktEnd(idx[t], Target(t))
<1> DEFINE i == idx[t]
           w == Walk(i)
           j == pos[t]
           n == Target(t)
<1>1. i \in Indices /\ j \in Nat /\ j > 0 /\ i < TaskEnd(t, NumPackets, ntasks)
  BY TaskFacts DEF TInv, Shapes, TaskRange, Writing
<1>2. w \in Seq(Node) /\ Len(w) \in Nat
  BY <1>1, WalkType DEF TInv
<1>3. n \in Node /\ w[j] = n /\ j <= Len(w)
  BY <1>1, <1>2 DEF Target, Writing
<1>4. Slot(t) = base[i][n] + CountUpTo(w, n, j - 1)
  BY <1>1, <1>3 DEF Cursors, Slot
<1>5. /\ CountUpTo(w, n, j - 1) \in Nat
      /\ CountUpTo(w, n, j) = CountUpTo(w, n, j - 1) + 1
      /\ CountUpTo(w, n, j) <= PktCount(i, n)
  <2>1. j - 1 \in Nat /\ (j - 1) + 1 = j
    BY <1>1
  <2>2. CountUpTo(w, n, j - 1) \in Nat
    BY <1>2, <2>1, CountProps
  <2>3. CountUpTo(w, n, (j - 1) + 1) = CountUpTo(w, n, j - 1) + 1
    BY <1>3, <2>1, CountStep
  <2>4. CountUpTo(w, n, j) <= PktCount(i, n)
    BY <1>1, <1>2, <1>3, CountMono DEF PktCount
  <2> QED BY <2>1, <2>2, <2>3, <2>4
<1>6. base[i][n] \in Nat /\ PktCount(i, n) \in Nat
  BY <1>1, <1>3, PktCountType DEF TInv
<1> QED BY <1>1, <1>3, <1>4, <1>5, <1>6 DEF PktEnd

(* What is left of a packet's slots lies in the packet's range. *)
LEMMA NextSlotInside ==
  ASSUME TInv, Cursors, phase = "scatter",
         NEW t \in Tasks, NEW i \in Indices, NEW n \in Node
  PROVE  NextSlot(t, i, n) \in Nat /\ base[i][n] <= NextSlot(t, i, n)
<1>1. base[i][n] \in Nat
  BY PktCountType DEF TInv
<1>2. CASE i = idx[t] /\ pos[t] > 0
  <2>1. Walk(i) \in Seq(Node) /\ pos[t] - 1 \in Nat
    BY <1>2, WalkType DEF TInv, Shapes
  <2>2. CountUpTo(Walk(i), n, pos[t] - 1) \in Nat
    BY <2>1, CountProps
  <2>3. cur[t][n] = base[i][n] + CountUpTo(Walk(i), n, pos[t] - 1)
    BY <1>2 DEF Cursors
  <2> QED BY <1>1, <1>2, <2>2, <2>3 DEF NextSlot
<1>3. CASE ~(i = idx[t] /\ pos[t] > 0)
  BY <1>1, <1>3 DEF NextSlot
<1> QED BY <1>2, <1>3

(* Two tasks are never in the same packet. *)
LEMMA TasksApart ==
  ASSUME TInv, NEW t \in Tasks, NEW u \in Tasks, t # u,
         NEW i \in Nat, NEW j \in Nat,
         TaskStart(t, NumPackets, ntasks) <= i, i < TaskEnd(t, NumPackets, ntasks),
         TaskStart(u, NumPackets, ntasks) <= j, j < TaskEnd(u, NumPackets, ntasks)
  PROVE  i # j
<1>0. NumPackets \in Nat /\ ntasks \in Nat \ {0}
  BY ConstantsAssumption DEF TInv, Shapes, NumPackets
<1>1. /\ NumPackets \in Nat /\ ntasks \in Nat \ {0}
      /\ t \in 0..(ntasks - 1) /\ u \in 0..(ntasks - 1)
  BY <1>0 DEF Tasks
<1>2. /\ TaskStart(t, NumPackets, ntasks) \in Nat /\ TaskEnd(t, NumPackets, ntasks) \in Nat
      /\ TaskStart(u, NumPackets, ntasks) \in Nat /\ TaskEnd(u, NumPackets, ntasks) \in Nat
  BY TaskFacts DEF TInv
<1>3. CASE t < u
  <2>1. TaskEnd(t, NumPackets, ntasks) <= TaskStart(u, NumPackets, ntasks)
    BY <1>1, <1>3, TaskRangesOrdered
  <2> QED BY ONLY <1>2, <2>1, i \in Nat, j \in Nat, i < TaskEnd(t, NumPackets, ntasks),
               TaskStart(u, NumPackets, ntasks) <= j
<1>4. CASE u < t
  <2>1. TaskEnd(u, NumPackets, ntasks) <= TaskStart(t, NumPackets, ntasks)
    BY <1>1, <1>4, TaskRangesOrdered
  <2> QED BY ONLY <1>2, <2>1, i \in Nat, j \in Nat, j < TaskEnd(u, NumPackets, ntasks),
               TaskStart(t, NumPackets, ntasks) <= i
<1> QED BY <1>1, <1>3, <1>4

(* When all tasks are done, every packet is behind some task. *)
LEMMA AllBehind ==
  ASSUME TInv, AllDone, NEW i \in Indices
  PROVE  \E t \in Tasks : TaskStart(t, NumPackets, ntasks) <= i /\ i < idx[t]
<1>1. NumPackets \in Nat /\ ntasks \in Nat \ {0} /\ i \in 0..(NumPackets - 1)
  BY ConstantsAssumption DEF TInv, Shapes, NumPackets, Indices
<1>2. PICK t \in 0..(ntasks - 1) : /\ TaskStart(t, NumPackets, ntasks) <= i
                                   /\ i < TaskEnd(t, NumPackets, ntasks)
  BY ONLY <1>1, TaskRangesCover, Zenon
<1> QED BY <1>2 DEF AllDone, Tasks

(* The invariant gives each row a slot of its own that is still blank. *)
LEMMA SInvExact == SInv => SlotsOwned /\ TrailersSet
<1> SUFFICES ASSUME SInv PROVE SlotsOwned /\ TrailersSet
  OBVIOUS
<1> USE DEF SInv
<1>1. WritesFreshSlot
  <2> SUFFICES ASSUME phase = "scatter", NEW t \in Tasks, Writing(t)
               PROVE  /\ Slot(t) < Len(tables[Target(t)])
                      /\ tables[Target(t)][Slot(t) + 1] = Blank
    BY DEF WritesFreshSlot
  <2>1. /\ idx[t] \in Indices /\ idx[t] < TaskEnd(t, NumPackets, ntasks)
        /\ Target(t) \in Node /\ Slot(t) \in Nat
        /\ Slot(t) < PktEnd(idx[t], Target(t))
    BY WritingSlot
  <2>2. idx[t] \in Nat /\ idx[t] < k /\ k = NumPackets
    BY <2>1 DEF Indices, PhaseFacts, TInv, Shapes, NumPackets
  <2>3. /\ PktEnd(idx[t], Target(t)) <= run[Target(t)]
        /\ Len(tables[Target(t)]) = run[Target(t)]
    BY <2>1, <2>2 DEF Layout, PastEnd
  <2>4. PktEnd(idx[t], Target(t)) \in Nat /\ run[Target(t)] \in Nat
    BY <2>1, PktCountType, SizesType DEF TInv
  <2>5. NextSlot(t, idx[t], Target(t)) = Slot(t)
    BY DEF NextSlot, Slot, Writing
  <2>6. tables[Target(t)][Slot(t) + 1] = Blank
    BY <2>1, <2>2, <2>5 DEF Pending
  <2> QED BY <2>1, <2>3, <2>4, <2>6
<1>2. NoRace
  <2> SUFFICES ASSUME phase = "scatter", NEW t \in Tasks, NEW u \in Tasks, t # u,
                      Writing(t), Writing(u), Target(t) = Target(u)
               PROVE  Slot(t) # Slot(u)
    BY DEF NoRace
  <2>1. /\ idx[t] \in Indices /\ idx[t] < TaskEnd(t, NumPackets, ntasks)
        /\ Target(t) \in Node /\ Slot(t) \in Nat
        /\ base[idx[t]][Target(t)] <= Slot(t)
        /\ Slot(t) < PktEnd(idx[t], Target(t))
    BY WritingSlot
  <2>2. /\ idx[u] \in Indices /\ idx[u] < TaskEnd(u, NumPackets, ntasks)
        /\ Slot(u) \in Nat
        /\ base[idx[u]][Target(u)] <= Slot(u)
        /\ Slot(u) < PktEnd(idx[u], Target(u))
    BY WritingSlot
  <2>3. /\ TaskStart(t, NumPackets, ntasks) <= idx[t]
        /\ TaskStart(u, NumPackets, ntasks) <= idx[u]
        /\ idx[t] \in Nat /\ idx[u] \in Nat
    BY DEF TInv, TaskRange, Shapes
  <2>4. idx[t] # idx[u]
    BY <2>1, <2>2, <2>3, TasksApart
  <2> QED BY <2>1, <2>2, <2>4, SlotOwner DEF TInv, PhaseFacts
<1>3. TrailersSet
  BY DEF Trailed, TrailersSet
<1> QED BY <1>1, <1>2, <1>3 DEF SlotsOwned

LEMMA InitSInv == Init => SInv
<1> SUFFICES ASSUME Init PROVE SInv
  OBVIOUS
<1>1. NumPackets = 0 /\ Indices = {} /\ phase = "idle" /\ pidBase = 0
  BY DEF Init, NumPackets, Indices
<1>2. SizeBound
  <2>1. Bound(pidBase + NumPackets) \in Nat
    BY <1>1, BoundProps
  <2> QED BY <1>1, <2>1 DEF SizeBound, Init
<1> QED BY <1>1, <1>2, InitTInv
        DEF SInv, PhaseFacts, Counted, Layout, PastEnd, Cursors, Pending, Trailed

(* The rows of the calls before are the floor of the next scan. *)
LEMMA SeedExact ==
  ASSUME NoWrap, TInv, NEW m \in Nat, m <= MaxPackets, NEW n \in Node,
         Len(tables[n]) <= Bound(m)
  PROVE  Seed[n] = Len(tables[n])
<1>1. Len(tables[n]) \in Nat
  BY DEF TInv, Shapes
<1> QED BY <1>1, BelowMod DEF Seed

(* The frame of a step inside a call: the packets and their walks stay. *)
LEMMA SameCall ==
  ASSUME UNCHANGED callVars
  PROVE  /\ NumPackets' = NumPackets /\ Indices' = Indices
         /\ \A i : Walk(i)' = Walk(i)
         /\ \A i, n : PktCount(i, n)' = PktCount(i, n)
         /\ \A i : CountOf(Walk(i))' = CountOf(Walk(i))
<1>1. mode' = mode /\ batch' = batch
  BY DEF callVars
<1>2. \A i : Walk(i)' = Walk(i)
  BY <1>1 DEF Walk, WalkOf
<1> QED BY <1>1, <1>2 DEF NumPackets, Indices, PktCount, CountOf, CountUpTo

LEMMA BeginSInv ==
  ASSUME NoWrap, SInv, TInv', NEW b \in Batches, BeginWindow(b) \/ BeginBulk(b)
  PROVE  SInv'
<1>1. /\ phase = "idle" /\ mode' = mode /\ tables' = tables /\ k' = 0
      /\ pidBase' = pidBase + NumPackets
  BY DEF BeginWindow, BeginBulk, Arguments
<1>2. /\ NumPackets' = Len(b) /\ Len(b) \in Nat /\ pidBase' \in Nat /\ pidBase' <= MaxPackets
      /\ pidBase' + k' = pidBase'
  <2>1. NumPackets' = Len(b) /\ Len(b) \in Nat /\ pidBase' \in Nat
        /\ pidBase' + NumPackets' <= MaxPackets
    BY ArgumentsType DEF BeginWindow, BeginBulk, SInv
  <2> QED BY <1>1, <2>1, ConstantsAssumption
<1>3. \A n \in Node : Len(tables'[n]) <= Bound(pidBase')
  BY <1>1 DEF SInv, SizeBound
<1>4. \A i \in Indices' : i \in Nat /\ ~(i < k')
  BY <1>1, <1>2 DEF Indices
<1>5. CASE BeginWindow(b)
  <2>1. phase' = "count" /\ mode = "window"
    BY <1>5 DEF BeginWindow
  <2>2. PICK T \in Executors(Len(b)) : Launch(Len(b), T)
    BY <1>5 DEF BeginWindow
  <2>3. T \in 1..MaxTasks
    BY <1>2, ExecutorsType
  <2>4. ntasks' = T /\ \A t \in Tasks' : idx'[t] = TaskStart(t, Len(b), T)
    BY <1>2, <2>2, <2>3, LaunchType
  <2>5. Counted'
    <3> SUFFICES ASSUME NEW t \in Tasks', NEW i \in Indices',
                        TaskStart(t, NumPackets', ntasks') <= i, i < idx'[t]
                 PROVE  FALSE
      BY <2>1 DEF Counted
    <3>1. idx'[t] <= i /\ idx'[t] \in Nat
      BY <1>2, <2>4 DEF TInv, Shapes
    <3> QED BY <1>4, <3>1
  <2>6. SizeBound'
    BY <1>3, <2>1 DEF SizeBound
  <2> QED BY <1>1, <2>1, <2>5, <2>6
          DEF SInv, PhaseFacts, Layout, PastEnd, Cursors, Pending, Trailed
<1>6. CASE BeginBulk(b)
  <2>1. phase' = "scan" /\ mode' # "window" /\ run' = Seed
    BY <1>1, <1>6 DEF BeginBulk
  <2>2. \A n \in Node : run'[n] = Len(tables[n])
    BY <1>1, <1>2, <1>3, <2>1, SeedExact DEF SInv
  <2>3. Layout'
    BY <1>1, <1>2, <1>3, <1>4, <2>1, <2>2 DEF Layout
  <2>4. PastEnd'
    <3>1. \A n \in Node : Len(tables[n]) \in Nat
      BY SizesType DEF SInv, TInv
    <3> QED BY <1>1, <1>4, <2>1, <2>2, <3>1 DEF PastEnd
  <2>5. SizeBound'
    BY <1>3, <2>1 DEF SizeBound
  <2> QED BY <2>1, <2>3, <2>4, <2>5
          DEF SInv, PhaseFacts, Counted, Cursors, Pending, Trailed
<1> QED BY <1>5, <1>6

LEMMA CountSInv ==
  ASSUME SInv, TInv', NEW t \in Tasks, CountPacket(t)
  PROVE  SInv'
<1>1. /\ phase = "count" /\ phase' = "count" /\ tables' = tables /\ mode' = mode
      /\ pidBase' = pidBase /\ ntasks' = ntasks /\ Tasks' = Tasks
      /\ idx' = [idx EXCEPT ![t] = @ + 1]
      /\ per' = [per EXCEPT ![idx[t]] = CountOf(Walk(idx[t]))]
      /\ idx[t] < TaskEnd(t, NumPackets, ntasks)
  BY DEF CountPacket, callVars, Tasks
<1>2. /\ NumPackets' = NumPackets /\ Indices' = Indices
      /\ \A i : Walk(i)' = Walk(i) /\ CountOf(Walk(i))' = CountOf(Walk(i))
  BY SameCall DEF CountPacket
<1>3. idx[t] \in Indices /\ idx[t] \in Nat /\ idx \in [Tasks -> Nat]
  BY <1>1, TaskFacts DEF SInv, TInv, Shapes
<1>4. Counted'
  <2> SUFFICES ASSUME mode = "window", NEW u \in Tasks, NEW i \in Indices,
                      TaskStart(u, NumPackets, ntasks) <= i, i < idx'[u]
               PROVE  per'[i] = CountOf(Walk(i))
    BY <1>1, <1>2 DEF Counted
  <2>0. i \in Nat /\ per \in [Indices -> Counts]
    BY DEF Indices, SInv, TInv, Shapes
  <2>1. CASE i = idx[t]
    BY <1>1, <1>3, <2>0, <2>1
  <2>2. CASE i # idx[t]
    <3>1. i < idx[u]
      BY <1>1, <1>3, <2>0, <2>2
    <3>2. per[i] = CountOf(Walk(i))
      BY <1>1, <3>1 DEF SInv, Counted
    <3> QED BY <1>1, <1>3, <2>0, <2>2, <3>2
  <2> QED BY <2>1, <2>2
<1>5. SizeBound'
  BY <1>1 DEF SInv, SizeBound
<1> QED BY <1>1, <1>4, <1>5
        DEF SInv, PhaseFacts, Layout, PastEnd, Cursors, Pending, Trailed

LEMMA CountJoinSInv ==
  ASSUME NoWrap, SInv, TInv', CountJoin
  PROVE  SInv'
<1>1. /\ phase = "count" /\ phase' = "scan" /\ AllDone /\ run' = Seed /\ k' = 0
      /\ tables' = tables /\ per' = per /\ mode' = mode /\ pidBase' = pidBase
      /\ mode = "window"
  BY DEF CountJoin, callVars, SInv, PhaseFacts
<1>2. /\ NumPackets' = NumPackets /\ Indices' = Indices
      /\ \A i : CountOf(Walk(i))' = CountOf(Walk(i))
  BY SameCall DEF CountJoin
<1>3. /\ pidBase \in Nat /\ pidBase <= MaxPackets /\ pidBase + 0 = pidBase
      /\ \A i \in Indices : i \in Nat /\ ~(i < 0)
  BY SizesType DEF SInv, TInv, Indices
<1>4. \A n \in Node : Len(tables[n]) <= Bound(pidBase) /\ Len(tables[n]) \in Nat
  BY <1>1, SizesType DEF SInv, TInv, SizeBound
<1>5. \A n \in Node : run'[n] = Len(tables[n])
  BY <1>1, <1>3, <1>4, SeedExact DEF SInv
<1>6. Counted'
  <2>1. ASSUME NEW i \in Indices PROVE per[i] = CountOf(Walk(i))
    <3>1. PICK t \in Tasks : TaskStart(t, NumPackets, ntasks) <= i /\ i < idx[t]
      BY <1>1, AllBehind DEF SInv
    <3> QED BY <1>1, <3>1 DEF SInv, Counted
  <2> QED BY <1>1, <1>2, <2>1 DEF Counted
<1>7. Layout'
  BY <1>1, <1>2, <1>3, <1>4, <1>5 DEF Layout
<1>8. PastEnd'
  BY <1>1, <1>2, <1>3, <1>4, <1>5 DEF PastEnd
<1>9. SizeBound'
  BY <1>1, <1>4 DEF SizeBound
<1> QED BY <1>1, <1>6, <1>7, <1>8, <1>9
        DEF SInv, PhaseFacts, Cursors, Pending, Trailed

(* The running sum grows by the packet's rows and does not wrap. *)
LEMMA ScanSum ==
  ASSUME NoWrap, SInv, ScanStep, NEW n \in Node
  PROVE  /\ run[n] \in Nat /\ PktCount(k, n) \in Nat
         /\ run'[n] = run[n] + PktCount(k, n)
         /\ run'[n] <= Bound(pidBase + k')
<1>1. /\ phase = "scan" /\ k < NumPackets /\ k' = k + 1
      /\ run' = Plus(run, IF mode = "window" THEN per[k] ELSE CountOf(Walk(k)))
  BY DEF ScanStep
<1>2. NumPackets \in Nat /\ pidBase \in Nat /\ k \in Nat /\ MaxPackets \in Nat
  BY SizesType DEF SInv, TInv
<1>3. k \in Indices
  BY <1>1, <1>2 DEF Indices
<1>4. run[n] \in Nat /\ PktCount(k, n) \in Nat /\ PktCount(k, n) <= MaxWalk
  BY <1>3, SizesType, PktCountType DEF SInv, TInv
<1>5. (IF mode = "window" THEN per[k] ELSE CountOf(Walk(k)))[n] = PktCount(k, n)
  <2>1. CountOf(Walk(k))[n] = PktCount(k, n)
    BY <1>3, CountOfExact DEF SInv
  <2>2. mode = "window" => per[k] = CountOf(Walk(k))
    BY <1>1, <1>3 DEF SInv, Counted
  <2> QED BY <2>1, <2>2
<1>6. run'[n] = (run[n] + PktCount(k, n)) % Mod
  BY <1>1, <1>5 DEF Plus
<1>7. /\ run[n] <= Bound(pidBase + k) /\ Bound(pidBase + k) \in Nat
      /\ Bound((pidBase + k) + 1) = Bound(pidBase + k) + MaxWalk
  BY <1>1, <1>2, BoundProps DEF SInv, Layout
<1>8. pidBase + k' \in Nat /\ pidBase + k' = (pidBase + k) + 1 /\ pidBase + k' <= MaxPackets
  BY <1>1, <1>2 DEF SInv, TInv
<1>9. run[n] + PktCount(k, n) \in Nat /\ run[n] + PktCount(k, n) <= Bound(pidBase + k')
  BY <1>4, <1>7, <1>8, ConstantsAssumption
<1>10. (run[n] + PktCount(k, n)) % Mod = run[n] + PktCount(k, n)
  BY <1>8, <1>9, BelowMod
<1> QED BY <1>4, <1>6, <1>9, <1>10

LEMMA ScanStepSInv ==
  ASSUME NoWrap, SInv, TInv', ScanStep
  PROVE  SInv'
<1>1. /\ phase = "scan" /\ phase' = "scan" /\ k < NumPackets /\ k' = k + 1
      /\ tables' = tables /\ per' = per /\ mode' = mode /\ pidBase' = pidBase
      /\ base' = [base EXCEPT ![k] = run]
      /\ run' = Plus(run, IF mode = "window" THEN per[k] ELSE CountOf(Walk(k)))
  BY DEF ScanStep, callVars
<1>2. /\ NumPackets' = NumPackets /\ Indices' = Indices
      /\ \A i : CountOf(Walk(i))' = CountOf(Walk(i))
      /\ \A i, n : PktCount(i, n)' = PktCount(i, n)
  BY SameCall DEF ScanStep
<1>3. NumPackets \in Nat /\ pidBase \in Nat /\ k \in Nat /\ MaxPackets \in Nat
  BY SizesType DEF SInv, TInv
<1>4. k \in Indices /\ base \in [Indices -> Counts]
  BY <1>1, <1>3 DEF Indices, SInv, TInv, Shapes
<1>5. \A i \in Indices : i \in Nat
  BY DEF Indices
<1>6. /\ base'[k] = run
      /\ \A i \in Indices : i # k => base'[i] = base[i]
  BY <1>1, <1>4
<1>7. \A n \in Node :
        /\ run[n] \in Nat /\ PktCount(k, n) \in Nat
        /\ run'[n] = run[n] + PktCount(k, n)
        /\ run'[n] <= Bound(pidBase + k')
  BY ScanSum
<1>8. \A i \in Indices : \A n \in Node :
        /\ i < k => PktEnd(i, n)' = PktEnd(i, n) /\ PktEnd(i, n) \in Nat
        /\ i = k => PktEnd(i, n)' = run'[n]
  <2>1. \A i \in Indices : \A n \in Node : PktEnd(i, n) \in Nat
    BY PktCountType DEF SInv, TInv
  <2>2. ASSUME NEW i \in Indices, NEW n \in Node, i = k PROVE PktEnd(i, n)' = run'[n]
    BY <1>2, <1>6, <1>7, <2>2 DEF PktEnd
  <2>3. ASSUME NEW i \in Indices, NEW n \in Node, i < k PROVE PktEnd(i, n)' = PktEnd(i, n)
    BY <1>2, <1>3, <1>5, <1>6, <2>3 DEF PktEnd
  <2> QED BY <2>1, <2>2, <2>3
<1>9. Layout'
  <2> SUFFICES ASSUME NEW n \in Node
               PROVE  /\ run'[n] <= Bound(pidBase + k')
                      /\ \A i \in Indices : i < k + 1 => PktEnd(i, n)' <= run'[n]
                      /\ \A i, j \in Indices : (i < j /\ j < k + 1) => PktEnd(i, n)' <= base'[j][n]
    BY <1>1, <1>2 DEF Layout
  <2>0. /\ \A i \in Indices : i < k => PktEnd(i, n) <= run[n]
        /\ \A i, j \in Indices : (i < j /\ j < k) => PktEnd(i, n) <= base[j][n]
    BY <1>1 DEF SInv, Layout
  <2>1. ASSUME NEW i \in Indices, i < k + 1 PROVE PktEnd(i, n)' <= run'[n]
    <3>1. CASE i = k
      <4>1. run'[n] \in Nat
        BY <1>7
      <4> QED BY <1>8, <3>1, <4>1
    <3>2. CASE i < k
      BY <1>7, <1>8, <2>0, <3>2
    <3> QED BY <1>3, <1>5, <2>1, <3>1, <3>2
  <2>2. ASSUME NEW i \in Indices, NEW j \in Indices, i < j, j < k + 1
        PROVE  PktEnd(i, n)' <= base'[j][n]
    <3>0. i \in Nat /\ j \in Nat /\ i < k
      BY <1>3, <1>5, <2>2
    <3>1. CASE j = k
      BY <1>6, <1>8, <2>0, <3>0, <3>1
    <3>2. CASE j < k
      BY <1>3, <1>6, <1>8, <2>0, <2>2, <3>0, <3>2
    <3> QED BY <1>3, <2>2, <3>0, <3>1, <3>2
  <2> QED BY <1>7, <2>1, <2>2
<1>10. PastEnd'
  <2> SUFFICES ASSUME NEW n \in Node
               PROVE  /\ Len(tables[n]) <= run'[n]
                      /\ k + 1 # 0
                      /\ \A i \in Indices : i < k + 1 => Len(tables[n]) <= base'[i][n]
    BY <1>1, <1>2 DEF PastEnd
  <2>1. Len(tables[n]) <= run[n] /\ Len(tables[n]) \in Nat
    BY <1>1, SizesType DEF SInv, TInv, PastEnd
  <2>2. ASSUME NEW i \in Indices, i < k + 1 PROVE Len(tables[n]) <= base'[i][n]
    <3>1. CASE i = k
      BY <1>6, <2>1, <3>1
    <3>2. CASE i # k
      BY <1>1, <1>3, <1>5, <1>6, <2>2, <3>2 DEF SInv, PastEnd
    <3> QED BY <3>1, <3>2
  <2> QED BY <1>3, <1>7, <2>1, <2>2
<1>11. Counted'
  BY <1>1, <1>2 DEF SInv, Counted
<1>12. SizeBound'
  BY <1>1 DEF SInv, SizeBound
<1> QED BY <1>1, <1>9, <1>10, <1>11, <1>12
        DEF SInv, PhaseFacts, Cursors, Pending, Trailed

LEMMA ScanEndSInv ==
  ASSUME SInv, TInv', ScanEnd
  PROVE  SInv'
<1>1. /\ phase = "scan" /\ phase' = "scatter" /\ k = NumPackets /\ k' = k
      /\ run' = run /\ base' = base /\ mode' = mode /\ pidBase' = pidBase
      /\ tables' = [n \in Node |-> Resize(tables[n], run[n])]
  BY DEF ScanEnd, callVars, scanVars
<1>2. /\ NumPackets' = NumPackets /\ Indices' = Indices
      /\ \A i, n : PktCount(i, n)' = PktCount(i, n)
  BY SameCall DEF ScanEnd
<1>3. NumPackets \in Nat /\ pidBase \in Nat /\ \A i \in Indices : i \in Nat /\ i < k
  BY <1>1, SizesType DEF SInv, TInv, Indices
<1>4. PICK T \in Executors(NumPackets) : Launch(NumPackets, T)
  BY DEF ScanEnd
<1>5. /\ ntasks' = T
      /\ \A t \in Tasks' : pos'[t] = 0 /\ idx'[t] = TaskStart(t, NumPackets, T)
  BY <1>3, <1>4, ExecutorsType, LaunchType
<1>6. \A i \in Indices : \A n \in Node :
        PktEnd(i, n)' = PktEnd(i, n) /\ PktEnd(i, n) \in Nat /\ base[i][n] \in Nat
  BY <1>1, <1>2, PktCountType DEF SInv, TInv, PktEnd
<1>7. ASSUME NEW n \in Node
      PROVE  /\ Len(tables'[n]) = run[n]
             /\ \A s \in 1..run[n] : tables'[n][s] = IF s <= Len(tables[n]) THEN tables[n][s] ELSE Blank
             /\ run[n] \in Nat /\ Len(tables[n]) \in Nat
             /\ run[n] <= Bound(pidBase + NumPackets)
  <2>1. run[n] \in Nat /\ Len(tables[n]) \in Nat /\ tables[n] \in Seq(Row \cup {Blank})
    BY SizesType DEF SInv, TInv, Shapes
  <2>2. run[n] <= Bound(pidBase + NumPackets)
    BY <1>1 DEF SInv, Layout
  <2> QED BY <1>1, <2>1, <2>2, ResizeType
<1>8. SizeBound'
  BY <1>1, <1>2, <1>7 DEF SizeBound
<1>9. Layout'
  BY <1>1, <1>2, <1>6 DEF SInv, Layout
<1>10. PastEnd'
  BY <1>1, <1>7 DEF PastEnd
<1>11. Cursors'
  BY <1>5 DEF Cursors
<1>12. Pending'
  <2> SUFFICES ASSUME NEW t \in Tasks', NEW i \in Indices, NEW n \in Node, NEW s \in Nat,
                      NextSlot(t, i, n)' <= s, s < PktEnd(i, n)'
               PROVE  tables'[n][s + 1] = Blank
    BY <1>2 DEF Pending
  <2>1. base[i][n] <= s
    BY <1>1, <1>5 DEF NextSlot
  <2>2. Len(tables[n]) <= base[i][n] /\ PktEnd(i, n) <= run[n]
    BY <1>1, <1>3 DEF SInv, PastEnd, Layout
  <2>3. s + 1 \in 1..run[n] /\ ~(s + 1 <= Len(tables[n]))
    BY <1>6, <1>7, <2>1, <2>2
  <2> QED BY <1>7, <2>3
<1>13. Trailed'
  <2> SUFFICES ASSUME NEW t \in Tasks', NEW i \in Indices,
                      TaskStart(t, NumPackets, T) <= i, i < idx'[t]
               PROVE  FALSE
    BY <1>1, <1>2, <1>5 DEF Trailed
  <2>1. idx'[t] \in Nat /\ idx'[t] <= i
    BY <1>5 DEF TInv, Shapes
  <2> QED BY <1>3, <2>1
<1> QED BY <1>1, <1>2, <1>8, <1>9, <1>10, <1>11, <1>12, <1>13
        DEF SInv, PhaseFacts, Counted

LEMMA ScatterJoinSInv ==
  ASSUME SInv, TInv', ScatterJoin
  PROVE  SInv'
<1>1. /\ phase = "scatter" /\ phase' = "idle" /\ AllDone
      /\ tables' = tables /\ trailers' = trailers /\ mode' = mode /\ pidBase' = pidBase
  BY DEF ScatterJoin, callVars
<1>2. NumPackets' = NumPackets /\ Indices' = Indices /\ \A i : Walk(i)' = Walk(i)
  BY SameCall DEF ScatterJoin
<1>3. Trailed'
  <2>1. ASSUME mode = "window", NEW i \in Indices PROVE trailers[i] = Len(Walk(i))
    <3>1. PICK t \in Tasks : TaskStart(t, NumPackets, ntasks) <= i /\ i < idx[t]
      BY <1>1, AllBehind DEF SInv
    <3> QED BY <1>1, <2>1, <3>1 DEF SInv, Trailed
  <2> QED BY <1>1, <1>2, <2>1 DEF Trailed
<1>4. SizeBound'
  BY <1>1, <1>2 DEF SInv, SizeBound
<1> QED BY <1>1, <1>3, <1>4
        DEF SInv, PhaseFacts, Counted, Layout, PastEnd, Cursors, Pending

(* Entering a packet does not move the first slot to write of any packet. *)
LEMMA StartNextSlot ==
  ASSUME Shapes, NEW t \in Tasks, StartPacket(t),
         NEW u \in Tasks, NEW i \in Indices, NEW n \in Node
  PROVE  NextSlot(u, i, n)' = NextSlot(u, i, n)
<1>1. /\ pos[t] = 0 /\ idx' = idx /\ base' = base
      /\ cur' = [cur EXCEPT ![t] = base[idx[t]]]
      /\ pos' = [pos EXCEPT ![t] = 1]
  BY DEF StartPacket, scanVars
<1>2. cur \in [Tasks -> Counts] /\ pos \in [Tasks -> Nat]
  BY DEF Shapes
<1>3. CASE u = t
  BY <1>1, <1>2, <1>3 DEF NextSlot
<1>4. CASE u # t
  BY <1>1, <1>2, <1>4 DEF NextSlot
<1> QED BY <1>3, <1>4

LEMMA StartSInv ==
  ASSUME SInv, TInv', NEW t \in Tasks, StartPacket(t)
  PROVE  SInv'
<1>1. /\ phase = "scatter" /\ phase' = "scatter" /\ pos[t] = 0
      /\ idx[t] < TaskEnd(t, NumPackets, ntasks)
      /\ cur' = [cur EXCEPT ![t] = base[idx[t]]]
      /\ pos' = [pos EXCEPT ![t] = 1]
      /\ mode' = mode /\ pidBase' = pidBase /\ ntasks' = ntasks /\ Tasks' = Tasks
      /\ base' = base /\ run' = run /\ k' = k
      /\ tables' = tables /\ idx' = idx /\ trailers' = trailers
  BY DEF StartPacket, callVars, scanVars, Tasks
<1>2. /\ NumPackets' = NumPackets /\ Indices' = Indices
      /\ \A i : Walk(i)' = Walk(i)
      /\ \A i, n : PktCount(i, n)' = PktCount(i, n)
  BY SameCall DEF StartPacket
<1>3. \A i, n : PktEnd(i, n)' = PktEnd(i, n)
  BY <1>1, <1>2 DEF PktEnd
<1>4. cur \in [Tasks -> Counts] /\ pos \in [Tasks -> Nat]
  BY DEF SInv, TInv, Shapes
<1>5. Cursors'
  <2> SUFFICES ASSUME NEW u \in Tasks, pos'[u] > 0, NEW n \in Node
               PROVE  cur'[u][n] = base[idx[u]][n] + CountUpTo(Walk(idx[u]), n, pos'[u] - 1)
    BY <1>1, <1>2 DEF Cursors
  <2>1. CASE u = t
    <3>1. cur'[u] = base[idx[u]] /\ pos'[u] - 1 = 0
      BY <1>1, <1>4, <2>1
    <3>2. CountUpTo(Walk(idx[u]), n, 0) = 0
      BY CountZero
    <3>3. base[idx[u]][n] \in Nat
      BY <1>1, <2>1, TaskFacts, PktCountType DEF SInv, TInv
    <3> QED BY <3>1, <3>2, <3>3
  <2>2. CASE u # t
    <3>1. cur'[u] = cur[u] /\ pos'[u] = pos[u]
      BY <1>1, <1>4, <2>2
    <3> QED BY <1>1, <3>1 DEF SInv, Cursors
  <2> QED BY <2>1, <2>2
<1>6. Pending'
  <2>1. \A u \in Tasks : \A i \in Indices : \A n \in Node :
          NextSlot(u, i, n)' = NextSlot(u, i, n)
    BY StartNextSlot DEF SInv, TInv
  <2> QED BY <1>1, <1>2, <1>3, <2>1 DEF SInv, Pending
<1>7. Layout'
  BY <1>1, <1>2, <1>3 DEF SInv, Layout
<1>8. PastEnd' /\ SizeBound' /\ PhaseFacts'
  BY <1>1, <1>2 DEF SInv, PastEnd, SizeBound, PhaseFacts
<1>9. Trailed' /\ Counted'
  BY <1>1, <1>2 DEF SInv, Trailed, Counted
<1> QED BY <1>5, <1>6, <1>7, <1>8, <1>9 DEF SInv

(* What writing a row changes: one blank slot of one table. *)
LEMMA EmitEffect ==
  ASSUME SInv, NEW t \in Tasks, EmitPdu(t)
  PROVE  /\ phase = "scatter"
         /\ Slot(t) < Len(tables[Target(t)])
         /\ tables[Target(t)][Slot(t) + 1] = Blank
         /\ tables'[Target(t)][Slot(t) + 1] = RowOf(idx[t], pos[t])
         /\ \A n \in Node : Len(tables'[n]) = Len(tables[n])
         /\ \A n \in Node : \A s \in Nat :
              (s < Len(tables[n]) /\ ~(n = Target(t) /\ s = Slot(t)))
                => tables'[n][s + 1] = tables[n][s + 1]
<1>1. phase = "scatter" /\ Writing(t)
  BY DEF EmitPdu
<1>2. Slot(t) < Len(tables[Target(t)]) /\ tables[Target(t)][Slot(t) + 1] = Blank
  BY <1>1, SInvExact DEF SlotsOwned, WritesFreshSlot
<1>3. Target(t) \in Node /\ Slot(t) \in Nat
  BY <1>1, WritingSlot DEF SInv
<1>4. tables \in [Node -> Seq(Row \cup {Blank})]
  BY DEF SInv, TInv, Shapes
<1>5. tables' = [tables EXCEPT ![Target(t)] =
                   [@ EXCEPT ![Slot(t) + 1] = RowOf(idx[t], pos[t])]]
  BY <1>2, <1>3, <1>4 DEF EmitPdu
<1>6. ASSUME NEW n \in Node, n # Target(t) PROVE tables'[n] = tables[n]
  BY <1>4, <1>5, <1>6
<1>7. /\ tables'[Target(t)] = [tables[Target(t)] EXCEPT ![Slot(t) + 1] = RowOf(idx[t], pos[t])]
      /\ tables[Target(t)] \in Seq(Row \cup {Blank})
  BY <1>3, <1>4, <1>5
<1>8. /\ Len(tables'[Target(t)]) = Len(tables[Target(t)])
      /\ tables'[Target(t)][Slot(t) + 1] = RowOf(idx[t], pos[t])
  BY <1>2, <1>3, <1>7
<1>9. \A s \in Nat : (s < Len(tables[Target(t)]) /\ s # Slot(t))
                       => tables'[Target(t)][s + 1] = tables[Target(t)][s + 1]
  BY <1>3, <1>7
<1> QED BY <1>1, <1>2, <1>6, <1>8, <1>9

(* Writing a row advances one cursor, without wrapping, and no other. *)
LEMMA EmitCursors ==
  ASSUME NoWrap, SInv, NEW t \in Tasks, EmitPdu(t)
  PROVE  /\ pos'[t] = pos[t] + 1
         /\ cur'[t][Target(t)] = Slot(t) + 1
         /\ \A n \in Node : n # Target(t) => cur'[t][n] = cur[t][n]
         /\ \A u \in Tasks : u # t => pos'[u] = pos[u] /\ cur'[u] = cur[u]
         /\ \A u \in Tasks : \A i \in Indices : \A n \in Node :
              \/ NextSlot(u, i, n)' = NextSlot(u, i, n)
              \/ /\ u = t /\ i = idx[t] /\ n = Target(t)
                 /\ NextSlot(u, i, n) = Slot(t) /\ NextSlot(u, i, n)' = Slot(t) + 1
<1>1. /\ phase = "scatter" /\ Writing(t)
      /\ cur' = [cur EXCEPT ![t][Target(t)] = (@ + 1) % Mod]
      /\ pos' = [pos EXCEPT ![t] = @ + 1]
      /\ base' = base /\ idx' = idx
  BY DEF EmitPdu, scanVars
<1>4. /\ idx[t] \in Indices /\ Target(t) \in Node /\ Slot(t) \in Nat /\ pos[t] \in Nat
      /\ base[idx[t]][Target(t)] <= Slot(t) /\ Slot(t) < PktEnd(idx[t], Target(t))
      /\ pos[t] > 0 /\ pos[t] <= Len(Walk(idx[t])) /\ Walk(idx[t])[pos[t]] = Target(t)
      /\ idx[t] < TaskEnd(t, NumPackets, ntasks)
      /\ TaskStart(t, NumPackets, ntasks) <= idx[t]
  BY <1>1, WritingSlot DEF SInv, Writing, Target, TInv, TaskRange
<1>5. \A i \in Indices : \A n \in Node :
        /\ PktEnd(i, n) \in Nat /\ base[i][n] \in Nat
        /\ PktEnd(i, n) <= Len(tables[n])
  <2>1. \A i \in Indices : i < k
    BY <1>1, SizesType DEF SInv, PhaseFacts, Indices, TInv
  <2> QED BY <1>1, <2>1, PktCountType DEF SInv, TInv, Layout, PastEnd
<1>6. (Slot(t) + 1) % Mod = Slot(t) + 1
  <2>1. /\ pidBase + NumPackets \in Nat /\ pidBase + NumPackets <= MaxPackets
        /\ Len(tables[Target(t)]) \in Nat
    BY <1>4, SizesType DEF SInv, TInv
  <2>2. Len(tables[Target(t)]) <= Bound(pidBase + NumPackets)
    BY <1>1, <1>4 DEF SInv, SizeBound
  <2>3. Bound(pidBase + NumPackets) \in Nat
    BY <2>1, BoundProps
  <2>4. Slot(t) + 1 \in Nat /\ Slot(t) + 1 <= Bound(pidBase + NumPackets)
    BY <1>4, <1>5, <2>1, <2>2, <2>3
  <2> QED BY <2>1, <2>4, BelowMod
<1>7. /\ cur \in [Tasks -> Counts] /\ pos \in [Tasks -> Nat]
      /\ \A u \in Tasks : cur[u] \in [Node -> 0..(Mod - 1)]
  BY DEF SInv, TInv, Shapes, Counts
<1>8. /\ pos'[t] = pos[t] + 1
      /\ cur'[t][Target(t)] = Slot(t) + 1
      /\ \A n \in Node : n # Target(t) => cur'[t][n] = cur[t][n]
      /\ \A u \in Tasks : u # t => pos'[u] = pos[u] /\ cur'[u] = cur[u]
  <2>1. pos'[t] = pos[t] + 1 /\ \A u \in Tasks : u # t => pos'[u] = pos[u]
    BY <1>1, <1>7
  <2>2. /\ cur'[t] = [cur[t] EXCEPT ![Target(t)] = (@ + 1) % Mod]
        /\ \A u \in Tasks : u # t => cur'[u] = cur[u]
    BY ONLY <1>1, <1>7, t \in Tasks
  <2>3. /\ cur'[t][Target(t)] = (cur[t][Target(t)] + 1) % Mod
        /\ \A n \in Node : n # Target(t) => cur'[t][n] = cur[t][n]
    BY ONLY <1>4, <1>7, <2>2, t \in Tasks
  <2> QED BY <1>6, <2>1, <2>2, <2>3 DEF Slot
<1>9. ASSUME NEW u \in Tasks, NEW i \in Indices, NEW n \in Node
      PROVE  \/ NextSlot(u, i, n)' = NextSlot(u, i, n)
             \/ /\ u = t /\ i = idx[t] /\ n = Target(t)
                /\ NextSlot(u, i, n) = Slot(t) /\ NextSlot(u, i, n)' = Slot(t) + 1
  <2>1. CASE u = t
    BY <1>1, <1>4, <1>8, <2>1 DEF NextSlot, Slot
  <2>2. CASE u # t
    BY <1>1, <1>8, <2>2 DEF NextSlot
  <2> QED BY <2>1, <2>2
<1> QED BY <1>8, <1>9

LEMMA EmitSInv ==
  ASSUME NoWrap, SInv, TInv', NEW t \in Tasks, EmitPdu(t)
  PROVE  SInv'
<1>1. /\ phase = "scatter" /\ phase' = "scatter" /\ Writing(t)
      /\ cur' = [cur EXCEPT ![t][Target(t)] = (@ + 1) % Mod]
      /\ pos' = [pos EXCEPT ![t] = @ + 1]
      /\ mode' = mode /\ pidBase' = pidBase /\ ntasks' = ntasks /\ Tasks' = Tasks
      /\ base' = base /\ run' = run /\ k' = k
      /\ idx' = idx /\ trailers' = trailers
  BY DEF EmitPdu, callVars, scanVars, Tasks
<1>2. /\ NumPackets' = NumPackets /\ Indices' = Indices
      /\ \A i : Walk(i)' = Walk(i)
      /\ \A i, n : PktCount(i, n)' = PktCount(i, n)
  BY SameCall DEF EmitPdu
<1>3. \A i, n : PktEnd(i, n)' = PktEnd(i, n)
  BY <1>1, <1>2 DEF PktEnd
<1>4. /\ idx[t] \in Indices /\ Target(t) \in Node /\ Slot(t) \in Nat /\ pos[t] \in Nat
      /\ base[idx[t]][Target(t)] <= Slot(t) /\ Slot(t) < PktEnd(idx[t], Target(t))
      /\ pos[t] > 0 /\ pos[t] <= Len(Walk(idx[t])) /\ Walk(idx[t])[pos[t]] = Target(t)
      /\ idx[t] < TaskEnd(t, NumPackets, ntasks)
      /\ TaskStart(t, NumPackets, ntasks) <= idx[t]
  BY <1>1, WritingSlot DEF SInv, Writing, Target, TInv, TaskRange
<1>5. \A i \in Indices : \A n \in Node :
        /\ PktEnd(i, n) \in Nat /\ base[i][n] \in Nat
        /\ PktEnd(i, n) <= Len(tables[n])
  <2>1. \A i \in Indices : i < k
    BY <1>1, SizesType DEF SInv, PhaseFacts, Indices, TInv
  <2> QED BY <1>1, <2>1, PktCountType DEF SInv, TInv, Layout, PastEnd
<1>8. /\ pos'[t] = pos[t] + 1
      /\ cur'[t][Target(t)] = Slot(t) + 1
      /\ \A n \in Node : n # Target(t) => cur'[t][n] = cur[t][n]
      /\ \A u \in Tasks : u # t => pos'[u] = pos[u] /\ cur'[u] = cur[u]
  BY EmitCursors
<1>9. Cursors'
  <2> SUFFICES ASSUME NEW u \in Tasks, pos'[u] > 0, NEW n \in Node
               PROVE  cur'[u][n] = base[idx[u]][n] + CountUpTo(Walk(idx[u]), n, pos'[u] - 1)
    BY <1>1, <1>2 DEF Cursors
  <2>1. CASE u = t
    <3> DEFINE w == Walk(idx[t])
               j == pos[t]
    <3>1. j - 1 \in Nat /\ (j - 1) + 1 = j /\ pos'[t] - 1 = j
      BY <1>4, <1>8
    <3>2. CountUpTo(w, n, j) = IF w[j] = n THEN CountUpTo(w, n, j - 1) + 1
                               ELSE CountUpTo(w, n, j - 1)
      <4>1. CountUpTo(w, n, (j - 1) + 1) =
              IF w[(j - 1) + 1] = n THEN CountUpTo(w, n, j - 1) + 1 ELSE CountUpTo(w, n, j - 1)
        BY <3>1, CountStep
      <4> QED BY <3>1, <4>1
    <3>3. CountUpTo(w, n, j - 1) \in Nat
      BY <1>4, <3>1, CountProps, WalkType DEF SInv, TInv
    <3>4. cur[t][n] = base[idx[t]][n] + CountUpTo(w, n, j - 1)
      BY <1>1, <1>4 DEF SInv, Cursors
    <3>5. base[idx[t]][n] \in Nat
      BY <1>4, <1>5
    <3>6. CASE n = Target(t)
      <4>1. cur'[t][n] = cur[t][n] + 1
        BY <1>8, <3>6 DEF Slot
      <4>2. CountUpTo(w, n, j) = CountUpTo(w, n, j - 1) + 1
        BY <1>4, <3>2, <3>6
      <4>3. cur'[t][n] = base[idx[t]][n] + CountUpTo(w, n, j)
        BY ONLY <3>3, <3>4, <3>5, <4>1, <4>2
      <4> QED BY <2>1, <3>1, <4>3
    <3>7. CASE n # Target(t)
      <4>1. cur'[t][n] = base[idx[t]][n] + CountUpTo(w, n, j)
        BY <1>4, <1>8, <3>2, <3>4, <3>7
      <4> QED BY <2>1, <3>1, <4>1
    <3> QED BY <3>6, <3>7
  <2>2. CASE u # t
    BY <1>1, <1>8, <2>2 DEF SInv, Cursors
  <2> QED BY <2>1, <2>2
<1>10. /\ \A n \in Node : Len(tables'[n]) = Len(tables[n])
       /\ \A n \in Node : \A s \in Nat :
            (s < Len(tables[n]) /\ ~(n = Target(t) /\ s = Slot(t)))
              => tables'[n][s + 1] = tables[n][s + 1]
  BY EmitEffect
<1>11. Pending'
  <2> SUFFICES ASSUME NEW u \in Tasks, NEW i \in Indices, NEW n \in Node, NEW s \in Nat,
                      idx[u] <= i, i < TaskEnd(u, NumPackets, ntasks),
                      NextSlot(u, i, n)' <= s, s < PktEnd(i, n)
               PROVE  tables'[n][s + 1] = Blank
    BY <1>1, <1>2, <1>3 DEF Pending
  <2>1. NextSlot(u, i, n) \in Nat /\ base[i][n] <= NextSlot(u, i, n)
    BY <1>1, NextSlotInside DEF SInv
  <2>2. \/ NextSlot(u, i, n)' = NextSlot(u, i, n)
        \/ /\ u = t /\ i = idx[t] /\ n = Target(t)
           /\ NextSlot(u, i, n) = Slot(t) /\ NextSlot(u, i, n)' = Slot(t) + 1
    BY EmitCursors
  <2>3. NextSlot(u, i, n) <= s
    BY <1>4, <2>2
  <2>4. tables[n][s + 1] = Blank
    BY <1>1, <2>3 DEF SInv, Pending
  <2>5. ~(n = Target(t) /\ s = Slot(t))
    <3> SUFFICES ASSUME n = Target(t) PROVE s # Slot(t)
      OBVIOUS
    <3>1. CASE i = idx[t]
      <4>1. u = t
        <5>1. /\ idx[u] \in Nat /\ i \in Nat /\ TaskStart(u, NumPackets, ntasks) \in Nat
              /\ TaskStart(u, NumPackets, ntasks) <= idx[u]
          BY <1>1, TaskFacts DEF SInv, TInv, TaskRange, Indices
        <5>2. TaskStart(u, NumPackets, ntasks) <= i
          BY ONLY <5>1, idx[u] <= i
        <5> QED BY <1>4, <3>1, <5>1, <5>2, TasksApart DEF SInv
      <4>2. NextSlot(u, i, n)' = Slot(t) + 1
        BY <1>1, <1>4, <1>8, <3>1, <4>1 DEF NextSlot
      <4> QED BY <1>4, <4>2
    <3>2. CASE i # idx[t]
      <4>1. base[i][n] <= s
        BY <1>5, <2>1, <2>3
      <4> QED BY <1>1, <1>4, <3>2, <4>1, SlotOwner DEF SInv, TInv, PhaseFacts
    <3> QED BY <3>1, <3>2
  <2>6. s < Len(tables[n])
    BY <1>5, SizesType DEF SInv, TInv
  <2> QED BY <1>10, <2>4, <2>5, <2>6
<1>12. Layout'
  BY <1>1, <1>2, <1>3 DEF SInv, Layout
<1>13. PastEnd' /\ SizeBound' /\ PhaseFacts'
  BY <1>1, <1>2, <1>10 DEF SInv, PastEnd, SizeBound, PhaseFacts
<1>14. Trailed' /\ Counted'
  BY <1>1, <1>2 DEF SInv, Trailed, Counted
<1> QED BY <1>9, <1>11, <1>12, <1>13, <1>14 DEF SInv

LEMMA EndSInv ==
  ASSUME SInv, TInv', NEW t \in Tasks, EndPacket(t)
  PROVE  SInv'
<1>1. /\ phase = "scatter" /\ phase' = "scatter" /\ pos[t] > 0
      /\ pos' = [pos EXCEPT ![t] = 0]
      /\ idx' = [idx EXCEPT ![t] = @ + 1]
      /\ trailers' = IF mode = "window"
                     THEN [trailers EXCEPT ![idx[t]] = Len(Walk(idx[t]))]
                     ELSE trailers
      /\ mode' = mode /\ pidBase' = pidBase /\ ntasks' = ntasks /\ Tasks' = Tasks
      /\ base' = base /\ run' = run /\ k' = k /\ tables' = tables /\ cur' = cur
  BY DEF EndPacket, callVars, scanVars, Tasks
<1>2. /\ NumPackets' = NumPackets /\ Indices' = Indices
      /\ \A i : Walk(i)' = Walk(i)
      /\ \A i, n : PktCount(i, n)' = PktCount(i, n)
  BY SameCall DEF EndPacket
<1>3. \A i, n : PktEnd(i, n)' = PktEnd(i, n)
  BY <1>1, <1>2 DEF PktEnd
<1>4. /\ idx \in [Tasks -> Nat] /\ pos \in [Tasks -> Nat]
      /\ trailers \in [Indices -> Nat \cup {-1}]
      /\ \A i \in Indices : i \in Nat
  BY DEF SInv, TInv, Shapes, Indices
<1>5. idx[t] \in Indices
  BY <1>1, TaskFacts DEF SInv, TInv, TaskRange
<1>6. /\ idx'[t] = idx[t] + 1 /\ pos'[t] = 0
      /\ \A u \in Tasks : u # t => idx'[u] = idx[u] /\ pos'[u] = pos[u]
  BY <1>1, <1>4
<1>7. Cursors'
  BY <1>1, <1>2, <1>6 DEF SInv, Cursors
<1>8. Pending'
  <2> SUFFICES ASSUME NEW u \in Tasks, NEW i \in Indices, NEW n \in Node, NEW s \in Nat,
                      idx'[u] <= i, i < TaskEnd(u, NumPackets, ntasks),
                      NextSlot(u, i, n)' <= s, s < PktEnd(i, n)
               PROVE  tables[n][s + 1] = Blank
    BY <1>1, <1>2, <1>3 DEF Pending
  <2>1. idx[u] <= i /\ NextSlot(u, i, n)' = NextSlot(u, i, n)
    <3>1. CASE u = t
      BY <1>1, <1>4, <1>6, <3>1 DEF NextSlot
    <3>2. CASE u # t
      BY <1>1, <1>6, <3>2 DEF NextSlot
    <3> QED BY <3>1, <3>2
  <2> QED BY <1>1, <2>1 DEF SInv, Pending
<1>9. Trailed'
  <2> SUFFICES ASSUME mode = "window", NEW u \in Tasks, NEW i \in Indices,
                      TaskStart(u, NumPackets, ntasks) <= i, i < idx'[u]
               PROVE  trailers'[i] = Len(Walk(i))
    BY <1>1, <1>2 DEF Trailed
  <2>1. CASE i = idx[t]
    BY <1>1, <1>4, <1>5, <2>1
  <2>2. CASE i # idx[t]
    <3>1. i < idx[u]
      BY <1>4, <1>6, <2>2
    <3>2. trailers[i] = Len(Walk(i))
      BY <1>1, <3>1 DEF SInv, Trailed
    <3> QED BY <1>1, <1>4, <1>5, <2>2, <3>2
  <2> QED BY <2>1, <2>2
<1>10. Layout'
  BY <1>1, <1>2, <1>3 DEF SInv, Layout
<1>11. PastEnd' /\ SizeBound' /\ PhaseFacts' /\ Counted'
  BY <1>1, <1>2 DEF SInv, PastEnd, SizeBound, PhaseFacts, Counted
<1> QED BY <1>7, <1>8, <1>9, <1>10, <1>11 DEF SInv

LEMMA NextSInv ==
  ASSUME NoWrap, SInv, [Next]_vars
  PROVE  SInv'
<1>1. TInv'
  BY NextTInv DEF SInv
<1>2. CASE UNCHANGED vars
  <2>1. /\ UNCHANGED callVars /\ phase' = phase /\ ntasks' = ntasks /\ Tasks' = Tasks
        /\ pidBase' = pidBase /\ mode' = mode
        /\ per' = per /\ base' = base /\ run' = run /\ k' = k
        /\ tables' = tables /\ idx' = idx /\ pos' = pos /\ cur' = cur /\ trailers' = trailers
    BY <1>2 DEF vars, callVars, scanVars, taskVars, Tasks
  <2>2. /\ NumPackets' = NumPackets /\ Indices' = Indices
        /\ \A i : Walk(i)' = Walk(i)
        /\ \A i, n : PktCount(i, n)' = PktCount(i, n)
        /\ \A i : CountOf(Walk(i))' = CountOf(Walk(i))
    BY <2>1, SameCall
  <2>3. /\ \A i, n : PktEnd(i, n)' = PktEnd(i, n)
        /\ \A t, i, n : NextSlot(t, i, n)' = NextSlot(t, i, n)
    BY <2>1, <2>2 DEF PktEnd, NextSlot
  <2>4. PhaseFacts' /\ SizeBound' /\ Counted' /\ Trailed' /\ PastEnd'
    BY <2>1, <2>2 DEF SInv, PhaseFacts, SizeBound, Counted, Trailed, PastEnd
  <2>5. Layout' /\ Cursors' /\ Pending'
    BY <2>1, <2>2, <2>3 DEF SInv, Layout, Cursors, Pending
  <2> QED BY <1>1, <2>4, <2>5 DEF SInv
<1> QED
  BY <1>1, <1>2, BeginSInv, CountSInv, CountJoinSInv, ScanStepSInv, ScanEndSInv,
     StartSInv, EmitSInv, EndSInv, ScatterJoinSInv
  DEF Next, Host, TaskStep, EmptyWindow

-----------------------------------------------------------------------------
(* The rows.  What the slots hold while the scatter pass fills them, in the *)
(* order in which the serial decoder would have appended them.              *)

(* The slot of PDU j of packet i in the table of its node. *)
RowSlot(i, j) == base[i][Walk(i)[j]] + CountUpTo(Walk(i), Walk(i)[j], j - 1)

(* Outside the scatter pass every slot holds a row of a packet seen before. *)
NoneBlank ==
  phase # "scatter" =>
    \A n \in Node : \A s \in 1..Len(tables[n]) :
      /\ tables[n][s] # Blank
      /\ tables[n][s].pid < IF phase = "idle" THEN pidBase + NumPackets ELSE pidBase

(* The scan leaves no gap: each slot it adds belongs to some packet. *)
Gapless ==
  phase = "scan" =>
    \A n \in Node : \A s \in Nat :
      (Len(tables[n]) <= s /\ s < run[n]) =>
        \E i \in Indices : i < k /\ base[i][n] <= s /\ s < PktEnd(i, n)

(* A slot that is still blank is one that some task has still to write. *)
BlankPending ==
  phase = "scatter" =>
    \A n \in Node : \A s \in Nat :
      (s < Len(tables[n]) /\ tables[n][s + 1] = Blank) =>
        \E t \in Tasks : \E i \in Indices :
          /\ idx[t] <= i
          /\ i < TaskEnd(t, NumPackets, ntasks)
          /\ NextSlot(t, i, n) <= s
          /\ s < PktEnd(i, n)

(* A row in a table is an older one, before all slots of this call, or sits *)
(* in the slot of its own PDU.                                              *)
OldAt(n, s) ==
  /\ tables[n][s + 1].pid < pidBase
  /\ \A i \in Indices : s < base[i][n]
NewAt(n, s) ==
  \E i \in Indices : \E j \in 1..Len(Walk(i)) :
    /\ tables[n][s + 1] = RowOf(i, j)
    /\ Walk(i)[j] = n
    /\ s = RowSlot(i, j)
Placed ==
  phase = "scatter" =>
    \A n \in Node : \A s \in Nat :
      (s < Len(tables[n]) /\ tables[n][s + 1] # Blank) => OldAt(n, s) \/ NewAt(n, s)

(* The rows of earlier calls are in capture order, and between calls all    *)
(* rows are.                                                                *)
Sorted ==
  \A n \in Node : \A s, r \in 1..Len(tables[n]) :
    /\ s < r
    /\ tables[n][s] # Blank /\ tables[n][r] # Blank
    /\ phase = "idle" \/ (tables[n][s].pid < pidBase /\ tables[n][r].pid < pidBase)
    => Before(tables[n][s], tables[n][r])

(* A PDU a task has passed is in its slot. *)
Passed(t, i, j) == i < idx[t] \/ (i = idx[t] /\ j < pos[t])
Written ==
  phase = "scatter" =>
    \A t \in Tasks : \A i \in Indices : \A j \in 1..Len(Walk(i)) :
      (TaskStart(t, NumPackets, ntasks) <= i /\ Passed(t, i, j))
        => tables[Walk(i)[j]][RowSlot(i, j) + 1] = RowOf(i, j)

RInv == /\ NoneBlank /\ Gapless /\ BlankPending /\ Placed /\ Sorted /\ Written
        /\ RowsComplete

LEMMA SameRows ==
  ASSUME UNCHANGED callVars, base' = base
  PROVE  /\ \A i, n : PktEnd(i, n)' = PktEnd(i, n)
         /\ \A i, j : RowSlot(i, j)' = RowSlot(i, j)
         /\ \A i, j : RowOf(i, j)' = RowOf(i, j)
<1>1. /\ \A i : Walk(i)' = Walk(i)
      /\ \A i, n : PktCount(i, n)' = PktCount(i, n)
      /\ pidBase' = pidBase
  BY SameCall DEF callVars
<1> QED BY <1>1 DEF PktEnd, RowSlot, RowOf, CountUpTo

LEMMA RowSlotInside ==
  ASSUME Shapes, NEW i \in Indices, NEW j \in 1..Len(Walk(i))
  PROVE  /\ Walk(i)[j] \in Node
         /\ RowSlot(i, j) \in Nat
         /\ base[i][Walk(i)[j]] <= RowSlot(i, j)
         /\ RowSlot(i, j) < PktEnd(i, Walk(i)[j])
         /\ RowOf(i, j) \in Row /\ RowOf(i, j) # Blank
<1> DEFINE w == Walk(i)
           n == Walk(i)[j]
<1>1. w \in Seq(Node) /\ Len(w) \in Nat /\ j \in Nat /\ j - 1 \in Nat /\ (j - 1) + 1 = j
      /\ j <= Len(w)
  BY WalkType
<1>2. n \in Node
  BY <1>1
<1>3. CountUpTo(w, n, j - 1) \in Nat
  BY <1>1, CountProps
<1>4. CountUpTo(w, n, (j - 1) + 1) = CountUpTo(w, n, j - 1) + 1
  BY <1>1, CountStep
<1>5. CountUpTo(w, n, j) <= PktCount(i, n)
  BY <1>1, CountMono DEF PktCount
<1>6. base[i][n] \in Nat /\ PktCount(i, n) \in Nat
  BY <1>2, PktCountType
<1>7. RowOf(i, j) \in Row
  BY <1>1, SizesType DEF RowOf, Row, Indices
<1>8. RowOf(i, j) # Blank
  BY <1>7, BlankAssumption DEF Row
<1> QED BY <1>1, <1>2, <1>3, <1>4, <1>5, <1>6, <1>7, <1>8 DEF RowSlot, PktEnd

(* In the scatter pass the slots of every packet lie inside the columns. *)
LEMMA SlotsExist ==
  ASSUME SInv, phase = "scatter", NEW i \in Indices, NEW n \in Node
  PROVE  i < k /\ PktEnd(i, n) \in Nat /\ PktEnd(i, n) <= Len(tables[n])
<1>1. i < k
  BY SizesType DEF SInv, TInv, PhaseFacts, Indices
<1>2. PktEnd(i, n) \in Nat
  BY PktCountType DEF SInv, TInv
<1> QED BY <1>1, <1>2 DEF SInv, Layout, PastEnd

(* The rows of the scatter pass are in capture order wherever they are. *)
LEMMA ScatterSorted ==
  ASSUME SInv, RInv, phase = "scatter", NEW n \in Node, NEW s \in Nat, NEW r \in Nat,
         s < r, r < Len(tables[n]),
         tables[n][s + 1] # Blank, tables[n][r + 1] # Blank
  PROVE  Before(tables[n][s + 1], tables[n][r + 1])
<1>0. /\ pidBase \in Nat /\ Len(tables[n]) \in Nat
      /\ \A i \in Indices : i \in Nat
      /\ tables[n] \in Seq(Row \cup {Blank})
  BY SizesType DEF SInv, TInv, Indices, Shapes
<1>1. s + 1 \in 1..Len(tables[n]) /\ r + 1 \in 1..Len(tables[n]) /\ s + 1 < r + 1
      /\ s < Len(tables[n])
  BY <1>0
<1>2. (OldAt(n, s) \/ NewAt(n, s)) /\ (OldAt(n, r) \/ NewAt(n, r))
  BY <1>1 DEF RInv, Placed
<1>3. tables[n][s + 1] \in Row /\ tables[n][r + 1] \in Row
  BY <1>0, <1>1
<1>4. CASE OldAt(n, s) /\ OldAt(n, r)
  BY <1>1, <1>4 DEF RInv, Sorted, OldAt
<1>5. CASE OldAt(n, s) /\ NewAt(n, r)
  <2>a. PICK i \in Indices : \E j \in 1..Len(Walk(i)) :
          tables[n][r + 1] = RowOf(i, j)
    BY <1>5 DEF NewAt
  <2>1. PICK j \in 1..Len(Walk(i)) :
          tables[n][r + 1] = RowOf(i, j)
    BY <2>a
  <2> QED BY <1>0, <1>3, <1>5, <2>1 DEF OldAt, RowOf, Before, Row
<1>6. CASE NewAt(n, s) /\ OldAt(n, r)
  <2>a. PICK i \in Indices : \E j \in 1..Len(Walk(i)) :
          Walk(i)[j] = n /\ s = RowSlot(i, j)
    BY <1>6 DEF NewAt
  <2>1. PICK j \in 1..Len(Walk(i)) :
          Walk(i)[j] = n /\ s = RowSlot(i, j)
    BY <2>a
  <2>2. base[i][n] <= s /\ base[i][n] \in Nat
    BY <2>1, RowSlotInside, PktCountType DEF SInv, TInv
  <2>3. r < base[i][n]
    BY <1>6 DEF OldAt
  <2> QED BY <2>2, <2>3
<1>7. CASE NewAt(n, s) /\ NewAt(n, r)
  <2>a. PICK i \in Indices : \E j \in 1..Len(Walk(i)) :
          tables[n][s + 1] = RowOf(i, j) /\ Walk(i)[j] = n /\ s = RowSlot(i, j)
    BY <1>7 DEF NewAt
  <2>1. PICK j \in 1..Len(Walk(i)) :
          tables[n][s + 1] = RowOf(i, j) /\ Walk(i)[j] = n /\ s = RowSlot(i, j)
    BY <2>a
  <2>b. PICK p \in Indices : \E q \in 1..Len(Walk(p)) :
          tables[n][r + 1] = RowOf(p, q) /\ Walk(p)[q] = n /\ r = RowSlot(p, q)
    BY <1>7 DEF NewAt
  <2>2. PICK q \in 1..Len(Walk(p)) :
          tables[n][r + 1] = RowOf(p, q) /\ Walk(p)[q] = n /\ r = RowSlot(p, q)
    BY <2>b
  <2>3. /\ base[i][n] <= s /\ s < PktEnd(i, n) /\ base[p][n] <= r /\ r < PktEnd(p, n)
        /\ base[i][n] \in Nat /\ base[p][n] \in Nat /\ PktEnd(i, n) \in Nat /\ PktEnd(p, n) \in Nat
    BY <2>1, <2>2, RowSlotInside, PktCountType DEF SInv, TInv
  <2>4. i \in Nat /\ p \in Nat /\ j \in Nat /\ q \in Nat
    BY <1>0
  <2>5. CASE i < p
    BY <1>0, <2>1, <2>2, <2>4, <2>5 DEF RowOf, Before
  <2>6. CASE p < i
    <3>1. PktEnd(p, n) <= base[i][n]
      BY <2>6, SlotsExist DEF SInv, Layout
    <3> QED BY <2>3, <3>1
  <2>7. CASE i = p
    <3>1. j < q
      <4> SUFFICES ASSUME q <= j PROVE FALSE
        BY <2>4
      <4>1. Walk(i) \in Seq(Node) /\ j - 1 \in Nat /\ q - 1 \in Nat /\ q - 1 <= j - 1
        BY <2>4, WalkType DEF SInv, TInv
      <4>2. CountUpTo(Walk(i), n, q - 1) <= CountUpTo(Walk(i), n, j - 1)
        BY <4>1, CountMono
      <4>3. CountUpTo(Walk(i), n, q - 1) \in Nat /\ CountUpTo(Walk(i), n, j - 1) \in Nat
        BY <4>1, CountProps
      <4>4. s = base[i][n] + CountUpTo(Walk(i), n, j - 1)
        BY <2>1 DEF RowSlot
      <4>5. r = base[i][n] + CountUpTo(Walk(i), n, q - 1)
        BY <2>2, <2>7 DEF RowSlot
      <4> QED BY <2>3, <4>2, <4>3, <4>4, <4>5
    <3> QED BY <1>0, <2>1, <2>2, <2>4, <2>7, <3>1 DEF RowOf, Before
  <2> QED BY <2>4, <2>5, <2>6, <2>7
<1> QED BY <1>2, <1>4, <1>5, <1>6, <1>7

LEMMA InitRInv == Init => RInv
<1> SUFFICES ASSUME Init PROVE RInv
  OBVIOUS
<1>1. /\ Indices = {} /\ phase = "idle" /\ \A n \in Node : tables[n] = <<>>
  BY DEF Init, Indices, NumPackets
<1>2. \A n \in Node : 1..Len(tables[n]) = {} /\ RowsIn(n) = {} /\ CallRows(n) = {}
  BY <1>1 DEF RowsIn, CallRows
<1>3. RowsComplete
  BY <1>2 DEF RowsComplete
<1> QED BY <1>1, <1>2, <1>3
        DEF RInv, NoneBlank, Gapless, BlankPending, Placed, Sorted, Written

(* Up to the resize the tables do not change. *)
LEMMA PrepareRInv ==
  ASSUME NoWrap, SInv, RInv, SInv',
         \/ \E b \in Batches : BeginWindow(b) \/ BeginBulk(b)
         \/ CountJoin
         \/ \E t \in Tasks : CountPacket(t)
  PROVE  RInv'
<1>1. /\ tables' = tables /\ phase' \in {"count", "scan"} /\ phase \in {"idle", "count"}
      /\ phase = "idle" => pidBase' = pidBase + NumPackets
      /\ phase = "count" => pidBase' = pidBase
      /\ phase' = "scan" => k' = 0
  BY DEF BeginWindow, BeginBulk, Arguments, CountJoin, CountPacket, callVars
<1>2. NoneBlank'
  BY <1>1 DEF RInv, NoneBlank
<1>3. Gapless'
  <2> SUFFICES ASSUME phase' = "scan", NEW n \in Node, NEW s \in Nat,
                      Len(tables'[n]) <= s, s < run'[n]
               PROVE  FALSE
    BY DEF Gapless
  <2>1. run'[n] = Len(tables'[n])
    BY <1>1 DEF SInv, PastEnd
  <2>2. Len(tables'[n]) \in Nat
    BY <1>1, SizesType DEF SInv, TInv
  <2> QED BY <2>1, <2>2
<1>4. Sorted'
  <2> SUFFICES ASSUME NEW n \in Node, NEW s \in 1..Len(tables[n]), NEW r \in 1..Len(tables[n]),
                      s < r, tables[n][s] # Blank, tables[n][r] # Blank,
                      tables[n][s].pid < pidBase', tables[n][r].pid < pidBase'
               PROVE  Before(tables[n][s], tables[n][r])
    BY <1>1 DEF Sorted, Before
  <2> QED BY <1>1 DEF RInv, Sorted
<1> QED BY <1>1, <1>2, <1>3, <1>4
        DEF RInv, BlankPending, Placed, Written, RowsComplete

LEMMA ScanStepRInv ==
  ASSUME NoWrap, SInv, RInv, SInv', ScanStep
  PROVE  RInv'
<1>1. /\ phase = "scan" /\ phase' = "scan" /\ k < NumPackets /\ k' = k + 1
      /\ tables' = tables /\ pidBase' = pidBase
      /\ base' = [base EXCEPT ![k] = run]
  BY DEF ScanStep, callVars
<1>2. NumPackets' = NumPackets /\ Indices' = Indices
      /\ \A i, n : PktCount(i, n)' = PktCount(i, n)
  BY SameCall DEF ScanStep
<1>3. /\ k \in Nat /\ k \in Indices /\ base \in [Indices -> Counts]
      /\ \A i \in Indices : i \in Nat
      /\ \A n \in Node : run[n] \in Nat
  BY <1>1, SizesType DEF SInv, TInv, Shapes, Indices
<1>4. Gapless'
  <2> SUFFICES ASSUME NEW n \in Node, NEW s \in Nat, Len(tables[n]) <= s, s < run'[n]
               PROVE  \E i \in Indices : i < k + 1 /\ base'[i][n] <= s /\ s < PktEnd(i, n)'
    BY <1>1, <1>2 DEF Gapless
  <2>1. CASE s < run[n]
    <3>1. PICK i \in Indices : i < k /\ base[i][n] <= s /\ s < PktEnd(i, n)
      BY <1>1, <2>1 DEF RInv, Gapless
    <3>2. base'[i] = base[i]
      BY <1>1, <1>3, <3>1
    <3>3. PktEnd(i, n)' = PktEnd(i, n)
      BY <1>2, <3>2 DEF PktEnd
    <3> QED BY <1>3, <3>1, <3>2, <3>3
  <2>2. CASE ~(s < run[n])
    <3>1. ASSUME NEW i \in Indices, i = k
          PROVE  base'[i][n] <= s /\ s < PktEnd(i, n)'
      <4>1. base'[i] = run
        BY <1>1, <1>3, <3>1
      <4>2. PktEnd(i, n)' = run[n] + PktCount(i, n)
        BY <1>2, <4>1 DEF PktEnd
      <4>3. run'[n] = run[n] + PktCount(i, n)
        BY <1>3, <3>1, ScanSum
      <4> QED BY <1>3, <2>2, <4>1, <4>2, <4>3
    <3> QED BY <1>3, <3>1
  <2> QED BY <2>1, <2>2
<1>5. NoneBlank' /\ Sorted'
  BY <1>1 DEF RInv, NoneBlank, Sorted, Before
<1> QED BY <1>1, <1>4, <1>5
        DEF RInv, BlankPending, Placed, Written, RowsComplete

LEMMA ScanEndRInv ==
  ASSUME SInv, RInv, SInv', ScanEnd
  PROVE  RInv'
<1>1. /\ phase = "scan" /\ phase' = "scatter" /\ k = NumPackets
      /\ base' = base /\ pidBase' = pidBase
      /\ tables' = [n \in Node |-> Resize(tables[n], run[n])]
  BY DEF ScanEnd, callVars, scanVars
<1>2. /\ NumPackets' = NumPackets /\ Indices' = Indices
      /\ \A i : Walk(i)' = Walk(i)
      /\ \A i, n : PktEnd(i, n)' = PktEnd(i, n)
  BY <1>1, SameCall, SameRows DEF ScanEnd
<1>3. NumPackets \in Nat /\ \A i \in Indices : i \in Nat /\ i < k
  BY <1>1, SizesType DEF SInv, TInv, Indices
<1>4. PICK T \in Executors(NumPackets) : Launch(NumPackets, T)
  BY DEF ScanEnd
<1>5. T \in Nat \ {0}
  BY <1>3, <1>4, ExecutorsType, ConstantsAssumption
<1>6. /\ ntasks' = T /\ Tasks' = 0..(T - 1)
      /\ \A t \in Tasks' : pos'[t] = 0 /\ idx'[t] = TaskStart(t, NumPackets, T)
  BY <1>3, <1>4, ExecutorsType, LaunchType
<1>7. ASSUME NEW n \in Node
      PROVE  /\ run[n] \in Nat /\ Len(tables[n]) \in Nat /\ Len(tables[n]) <= run[n]
             /\ Len(tables'[n]) = run[n]
             /\ \A s \in 1..run[n] : tables'[n][s] = IF s <= Len(tables[n]) THEN tables[n][s] ELSE Blank
  <2>1. run[n] \in Nat /\ Len(tables[n]) \in Nat /\ tables[n] \in Seq(Row \cup {Blank})
    BY SizesType DEF SInv, TInv, Shapes
  <2>2. Len(tables[n]) <= run[n]
    BY <1>1 DEF SInv, PastEnd
  <2> QED BY <1>1, <2>1, <2>2, ResizeType
<1>8. BlankPending'
  <2> SUFFICES ASSUME NEW n \in Node, NEW s \in Nat, s < Len(tables'[n]),
                      tables'[n][s + 1] = Blank
               PROVE  \E t \in Tasks' : \E i \in Indices :
                        /\ idx'[t] <= i
                        /\ i < TaskEnd(t, NumPackets, T)
                        /\ NextSlot(t, i, n)' <= s
                        /\ s < PktEnd(i, n)
    BY <1>2, <1>6 DEF BlankPending
  <2>1. Len(tables[n]) <= s /\ s < run[n]
    <3>1. s < run[n] /\ s + 1 \in 1..run[n]
      BY <1>7
    <3>2. CASE s + 1 <= Len(tables[n])
      <4>1. tables[n][s + 1] = Blank /\ s + 1 \in 1..Len(tables[n])
        BY <1>7, <3>1, <3>2
      <4> QED BY <1>1, <4>1 DEF RInv, NoneBlank
    <3> QED BY <1>7, <3>1, <3>2
  <2>2. PICK i \in Indices : base[i][n] <= s /\ s < PktEnd(i, n)
    BY <1>1, <2>1 DEF RInv, Gapless
  <2>3. PICK t \in 0..(T - 1) : TaskStart(t, NumPackets, T) <= i /\ i < TaskEnd(t, NumPackets, T)
    <3>1. i \in 0..(NumPackets - 1)
      BY DEF Indices
    <3> QED BY ONLY <1>3, <1>5, <3>1, TaskRangesCover, Zenon
  <2>4. t \in Tasks' /\ idx'[t] <= i /\ NextSlot(t, i, n)' <= s
    BY <1>1, <1>6, <2>2, <2>3 DEF NextSlot
  <2> QED BY <2>2, <2>3, <2>4
<1>9. Placed'
  <2> SUFFICES ASSUME NEW n \in Node, NEW s \in Nat, s < Len(tables'[n]),
                      tables'[n][s + 1] # Blank
               PROVE  tables'[n][s + 1].pid < pidBase /\ \A i \in Indices : s < base[i][n]
    BY <1>1, <1>2 DEF Placed, OldAt
  <2>1. /\ s + 1 \in 1..run[n] /\ s + 1 <= Len(tables[n]) /\ s + 1 \in 1..Len(tables[n])
        /\ tables'[n][s + 1] = tables[n][s + 1]
    BY <1>7
  <2>2. tables[n][s + 1].pid < pidBase
    BY <1>1, <2>1 DEF RInv, NoneBlank
  <2>3. \A i \in Indices : Len(tables[n]) <= base[i][n] /\ base[i][n] \in Nat
    BY <1>1, <1>3, PktCountType DEF SInv, TInv, PastEnd
  <2> QED BY <1>7, <2>1, <2>2, <2>3
<1>10. Sorted'
  <2> SUFFICES ASSUME NEW n \in Node, NEW s \in 1..Len(tables'[n]), NEW r \in 1..Len(tables'[n]),
                      s < r, tables'[n][s] # Blank, tables'[n][r] # Blank,
                      tables'[n][s].pid < pidBase, tables'[n][r].pid < pidBase
               PROVE  Before(tables'[n][s], tables'[n][r])
    BY <1>1 DEF Sorted, Before
  <2>1. /\ s \in 1..Len(tables[n]) /\ r \in 1..Len(tables[n])
        /\ tables'[n][s] = tables[n][s] /\ tables'[n][r] = tables[n][r]
    BY <1>7
  <2> QED BY <2>1 DEF RInv, Sorted
<1>11. Written'
  <2> SUFFICES ASSUME NEW t \in Tasks', NEW i \in Indices, NEW j \in Nat,
                      TaskStart(t, NumPackets, T) <= i, i < idx'[t] \/ j < pos'[t]
               PROVE  FALSE
    <3>1. \A i \in Indices : Len(Walk(i)) \in Nat
      BY WalkType DEF SInv, TInv
    <3>2. \A i \in Indices : \A j \in 1..Len(Walk(i)) : j \in Nat
      BY <3>1
    <3> QED BY <1>2, <1>6, <3>2 DEF Written, Passed
  <2>1. idx'[t] = TaskStart(t, NumPackets, T) /\ pos'[t] = 0 /\ idx'[t] \in Nat
    BY <1>6 DEF SInv, TInv, Shapes
  <2> QED BY <1>3, <2>1
<1> QED BY <1>1, <1>8, <1>9, <1>10, <1>11
        DEF RInv, NoneBlank, Gapless, RowsComplete

LEMMA StartRInv ==
  ASSUME SInv, RInv, SInv', NEW t \in Tasks, StartPacket(t)
  PROVE  RInv'
<1>1. /\ phase = "scatter" /\ phase' = "scatter" /\ pidBase' = pidBase
      /\ pos' = [pos EXCEPT ![t] = 1]
      /\ ntasks' = ntasks /\ Tasks' = Tasks /\ base' = base
      /\ tables' = tables /\ idx' = idx
  BY DEF StartPacket, callVars, scanVars, Tasks
<1>2. /\ NumPackets' = NumPackets /\ Indices' = Indices
      /\ \A i : Walk(i)' = Walk(i)
  BY SameCall DEF StartPacket
<1>3. /\ \A i, n : PktEnd(i, n)' = PktEnd(i, n)
      /\ \A i, j : RowSlot(i, j)' = RowSlot(i, j)
      /\ \A i, j : RowOf(i, j)' = RowOf(i, j)
  BY <1>1, SameRows DEF StartPacket
<1>4. \A u \in Tasks : \A i \in Indices : \A n \in Node :
        NextSlot(u, i, n)' = NextSlot(u, i, n)
  BY StartNextSlot DEF SInv, TInv
<1>5. BlankPending'
  BY <1>1, <1>2, <1>3, <1>4 DEF RInv, BlankPending
<1>6. Placed'
  BY <1>1, <1>2, <1>3 DEF RInv, Placed, OldAt, NewAt
<1>7. Sorted'
  BY <1>1 DEF RInv, Sorted, Before
<1>8. Written'
  <2> SUFFICES ASSUME NEW u \in Tasks, NEW i \in Indices, NEW j \in 1..Len(Walk(i)),
                      TaskStart(u, NumPackets, ntasks) <= i, Passed(u, i, j)'
               PROVE  tables[Walk(i)[j]][RowSlot(i, j) + 1] = RowOf(i, j)
    BY <1>1, <1>2, <1>3 DEF Written
  <2>1. Passed(u, i, j)
    <3>1. pos \in [Tasks -> Nat] /\ j >= 1 /\ j \in Nat
      BY WalkType DEF SInv, TInv, Shapes
    <3> QED BY <1>1, <3>1 DEF Passed
  <2> QED BY <1>1, <2>1 DEF RInv, Written
<1> QED BY <1>1, <1>5, <1>6, <1>7, <1>8 DEF RInv, NoneBlank, Gapless, RowsComplete

LEMMA EmitRInv ==
  ASSUME NoWrap, SInv, RInv, SInv', NEW t \in Tasks, EmitPdu(t)
  PROVE  RInv'
<1>1. /\ phase = "scatter" /\ phase' = "scatter" /\ Writing(t) /\ pidBase' = pidBase
      /\ ntasks' = ntasks /\ Tasks' = Tasks /\ base' = base /\ idx' = idx
  BY DEF EmitPdu, callVars, scanVars, Tasks
<1>2. /\ NumPackets' = NumPackets /\ Indices' = Indices
      /\ \A i : Walk(i)' = Walk(i)
  BY SameCall DEF EmitPdu
<1>3. /\ \A i, n : PktEnd(i, n)' = PktEnd(i, n)
      /\ \A i, j : RowSlot(i, j)' = RowSlot(i, j)
      /\ \A i, j : RowOf(i, j)' = RowOf(i, j)
  BY <1>1, SameRows DEF EmitPdu, scanVars
<1>4. /\ idx[t] \in Indices /\ Target(t) \in Node /\ Slot(t) \in Nat /\ pos[t] \in Nat
      /\ pos[t] > 0 /\ pos[t] <= Len(Walk(idx[t])) /\ Target(t) = Walk(idx[t])[pos[t]]
      /\ pos[t] \in 1..Len(Walk(idx[t]))
  BY <1>1, WritingSlot, WalkType DEF SInv, TInv, Writing, Target
<1>5. Slot(t) = RowSlot(idx[t], pos[t])
  BY <1>1, <1>4 DEF SInv, Cursors, Slot, RowSlot, Target
<1>6. RowOf(idx[t], pos[t]) # Blank /\ RowOf(idx[t], pos[t]) \in Row
  BY <1>4, RowSlotInside DEF SInv, TInv
<1>7. /\ Slot(t) < Len(tables[Target(t)])
      /\ tables[Target(t)][Slot(t) + 1] = Blank
      /\ tables'[Target(t)][Slot(t) + 1] = RowOf(idx[t], pos[t])
      /\ \A n \in Node : Len(tables'[n]) = Len(tables[n])
      /\ \A n \in Node : \A s \in Nat :
           (s < Len(tables[n]) /\ ~(n = Target(t) /\ s = Slot(t)))
             => tables'[n][s + 1] = tables[n][s + 1]
  BY EmitEffect
<1>8. \A n \in Node : Len(tables[n]) \in Nat
  BY SizesType DEF SInv, TInv
<1>9. BlankPending'
  <2> SUFFICES ASSUME NEW n \in Node, NEW s \in Nat, s < Len(tables[n]), tables'[n][s + 1] = Blank
               PROVE  \E u \in Tasks : \E i \in Indices :
                        /\ idx[u] <= i
                        /\ i < TaskEnd(u, NumPackets, ntasks)
                        /\ NextSlot(u, i, n)' <= s
                        /\ s < PktEnd(i, n)
    BY <1>1, <1>2, <1>3, <1>7 DEF BlankPending
  <2>1. ~(n = Target(t) /\ s = Slot(t)) /\ tables[n][s + 1] = Blank
    BY <1>6, <1>7
  <2>2. PICK u \in Tasks : \E i \in Indices :
          /\ idx[u] <= i
          /\ i < TaskEnd(u, NumPackets, ntasks)
          /\ NextSlot(u, i, n) <= s
          /\ s < PktEnd(i, n)
    BY <1>1, <2>1 DEF RInv, BlankPending
  <2>3. PICK i \in Indices :
          /\ idx[u] <= i
          /\ i < TaskEnd(u, NumPackets, ntasks)
          /\ NextSlot(u, i, n) <= s
          /\ s < PktEnd(i, n)
    BY <2>2
  <2>4. NextSlot(u, i, n)' <= s
    <3>1. \/ NextSlot(u, i, n)' = NextSlot(u, i, n)
          \/ /\ u = t /\ i = idx[t] /\ n = Target(t)
             /\ NextSlot(u, i, n) = Slot(t) /\ NextSlot(u, i, n)' = Slot(t) + 1
      BY EmitCursors
    <3> QED BY <1>4, <2>1, <2>3, <3>1
  <2> QED BY <2>3, <2>4
<1>10. Placed'
  <2> SUFFICES ASSUME NEW n \in Node, NEW s \in Nat, s < Len(tables[n]), tables'[n][s + 1] # Blank
               PROVE  OldAt(n, s)' \/ NewAt(n, s)'
    BY <1>7 DEF Placed
  <2>1. CASE n = Target(t) /\ s = Slot(t)
    <3>1. \E i \in Indices : \E j \in 1..Len(Walk(i)) :
            tables'[n][s + 1] = RowOf(i, j) /\ Walk(i)[j] = n /\ s = RowSlot(i, j)
      BY <1>4, <1>5, <1>7, <2>1
    <3> QED BY <1>2, <1>3, <3>1 DEF NewAt
  <2>2. CASE ~(n = Target(t) /\ s = Slot(t))
    <3>1. tables'[n][s + 1] = tables[n][s + 1]
      BY <1>7, <2>2
    <3>2. OldAt(n, s) \/ NewAt(n, s)
      BY <1>1, <3>1 DEF RInv, Placed
    <3> QED BY <1>1, <1>2, <1>3, <3>1, <3>2 DEF OldAt, NewAt
  <2> QED BY <2>1, <2>2
<1>11. Sorted'
  <2> SUFFICES ASSUME NEW n \in Node, NEW s \in 1..Len(tables[n]), NEW r \in 1..Len(tables[n]),
                      s < r, tables'[n][s] # Blank, tables'[n][r] # Blank,
                      tables'[n][s].pid < pidBase, tables'[n][r].pid < pidBase
               PROVE  Before(tables'[n][s], tables'[n][r])
    BY <1>1, <1>7 DEF Sorted, Before
  <2>1. ASSUME NEW q \in 1..Len(tables[n]), tables'[n][q].pid < pidBase
        PROVE  tables'[n][q] = tables[n][q]
    <3>1. q - 1 \in Nat /\ q - 1 < Len(tables[n]) /\ (q - 1) + 1 = q
      BY <1>8
    <3>2. ~(n = Target(t) /\ q - 1 = Slot(t))
      <4>1. ~(RowOf(idx[t], pos[t]).pid < pidBase)
        <5>1. idx[t] \in Nat /\ pidBase \in Nat
          BY <1>4, SizesType DEF Indices, SInv, TInv
        <5> QED BY <5>1 DEF RowOf
      <4> QED BY <1>7, <2>1, <3>1, <4>1
    <3> QED BY <1>7, <3>1, <3>2
  <2> QED BY <2>1 DEF RInv, Sorted
<1>12. Written'
  <2> SUFFICES ASSUME NEW u \in Tasks, NEW i \in Indices, NEW j \in 1..Len(Walk(i)),
                      TaskStart(u, NumPackets, ntasks) <= i, Passed(u, i, j)'
               PROVE  tables'[Walk(i)[j]][RowSlot(i, j) + 1] = RowOf(i, j)
    BY <1>1, <1>2, <1>3 DEF Written
  <2>1. CASE Passed(u, i, j)
    <3>1. /\ Walk(i)[j] \in Node /\ RowSlot(i, j) \in Nat /\ RowOf(i, j) # Blank
          /\ RowSlot(i, j) < PktEnd(i, Walk(i)[j])
      BY RowSlotInside DEF SInv, TInv
    <3>2. RowSlot(i, j) < Len(tables[Walk(i)[j]])
      BY <1>1, <1>8, <3>1, SlotsExist
    <3>3. tables[Walk(i)[j]][RowSlot(i, j) + 1] = RowOf(i, j)
      BY <1>1, <2>1 DEF RInv, Written
    <3>4. ~(Walk(i)[j] = Target(t) /\ RowSlot(i, j) = Slot(t))
      BY <1>7, <3>1, <3>3
    <3> QED BY <1>7, <3>1, <3>2, <3>3, <3>4
  <2>2. CASE ~Passed(u, i, j)
    <3>1. u = t /\ i = idx[t] /\ j = pos[t]
      <4>1. /\ pos'[t] = pos[t] + 1
            /\ \A v \in Tasks : v # t => pos'[v] = pos[v]
        BY EmitCursors
      <4>2. j \in Nat
        BY WalkType DEF SInv, TInv
      <4> QED BY <1>1, <1>4, <2>2, <4>1, <4>2 DEF Passed
    <3> QED BY <1>4, <1>5, <1>7, <3>1
  <2> QED BY <2>1, <2>2
<1> QED BY <1>1, <1>9, <1>10, <1>11, <1>12 DEF RInv, NoneBlank, Gapless, RowsComplete

LEMMA EndRInv ==
  ASSUME SInv, RInv, SInv', NEW t \in Tasks, EndPacket(t)
  PROVE  RInv'
<1>1. /\ phase = "scatter" /\ phase' = "scatter" /\ pidBase' = pidBase
      /\ pos[t] > 0 /\ pos[t] > Len(Walk(idx[t]))
      /\ pos' = [pos EXCEPT ![t] = 0]
      /\ idx' = [idx EXCEPT ![t] = @ + 1]
      /\ ntasks' = ntasks /\ Tasks' = Tasks /\ base' = base
      /\ tables' = tables /\ cur' = cur
  BY DEF EndPacket, callVars, scanVars, Tasks
<1>2. /\ NumPackets' = NumPackets /\ Indices' = Indices
      /\ \A i : Walk(i)' = Walk(i)
  BY SameCall DEF EndPacket
<1>3. /\ \A i, n : PktEnd(i, n)' = PktEnd(i, n)
      /\ \A i, j : RowSlot(i, j)' = RowSlot(i, j)
      /\ \A i, j : RowOf(i, j)' = RowOf(i, j)
  BY <1>1, SameRows DEF EndPacket
<1>4. /\ idx \in [Tasks -> Nat] /\ pos \in [Tasks -> Nat]
      /\ \A i \in Indices : i \in Nat
      /\ idx[t] \in Indices
  BY <1>1, TaskFacts DEF SInv, TInv, Shapes, TaskRange, Indices
<1>5. /\ idx'[t] = idx[t] + 1 /\ pos'[t] = 0
      /\ \A u \in Tasks : u # t => idx'[u] = idx[u] /\ pos'[u] = pos[u]
  BY <1>1, <1>4
<1>6. Len(Walk(idx[t])) \in Nat /\ pos[t] - 1 = Len(Walk(idx[t]))
  <2>1. Len(Walk(idx[t])) \in Nat /\ pos[t] <= Len(Walk(idx[t])) + 1
    BY <1>1, <1>4, WalkType DEF SInv, TInv, TaskRange
  <2> QED BY <1>1, <1>4, <2>1
<1>7. BlankPending'
  <2> SUFFICES ASSUME NEW n \in Node, NEW s \in Nat, s < Len(tables[n]), tables[n][s + 1] = Blank
               PROVE  \E u \in Tasks : \E i \in Indices :
                        /\ idx'[u] <= i
                        /\ i < TaskEnd(u, NumPackets, ntasks)
                        /\ NextSlot(u, i, n)' <= s
                        /\ s < PktEnd(i, n)
    BY <1>1, <1>2, <1>3 DEF BlankPending
  <2>1. PICK u \in Tasks : \E i \in Indices :
          /\ idx[u] <= i
          /\ i < TaskEnd(u, NumPackets, ntasks)
          /\ NextSlot(u, i, n) <= s
          /\ s < PktEnd(i, n)
    BY <1>1 DEF RInv, BlankPending
  <2>2. PICK i \in Indices :
          /\ idx[u] <= i
          /\ i < TaskEnd(u, NumPackets, ntasks)
          /\ NextSlot(u, i, n) <= s
          /\ s < PktEnd(i, n)
    BY <2>1
  <2>3. ~(u = t /\ i = idx[t])
    <3> SUFFICES ASSUME u = t, i = idx[t] PROVE FALSE
      OBVIOUS
    <3>1. NextSlot(u, i, n) = base[i][n] + CountUpTo(Walk(i), n, pos[t] - 1)
      BY <1>1 DEF NextSlot, SInv, Cursors
    <3>2. NextSlot(u, i, n) = PktEnd(i, n)
      BY <1>6, <3>1 DEF PktEnd, PktCount
    <3>3. PktEnd(i, n) \in Nat
      BY PktCountType DEF SInv, TInv
    <3> QED BY <2>2, <3>2, <3>3
  <2>4. idx'[u] <= i /\ NextSlot(u, i, n)' = NextSlot(u, i, n)
    <3>1. CASE u = t
      BY <1>1, <1>4, <1>5, <2>2, <2>3, <3>1 DEF NextSlot
    <3>2. CASE u # t
      BY <1>1, <1>5, <2>2, <3>2 DEF NextSlot
    <3> QED BY <3>1, <3>2
  <2> QED BY <2>2, <2>4
<1>8. Placed'
  BY <1>1, <1>2, <1>3 DEF RInv, Placed, OldAt, NewAt
<1>9. Sorted'
  BY <1>1 DEF RInv, Sorted, Before
<1>10. Written'
  <2> SUFFICES ASSUME NEW u \in Tasks, NEW i \in Indices, NEW j \in 1..Len(Walk(i)),
                      TaskStart(u, NumPackets, ntasks) <= i, Passed(u, i, j)'
               PROVE  tables[Walk(i)[j]][RowSlot(i, j) + 1] = RowOf(i, j)
    BY <1>1, <1>2, <1>3 DEF Written
  <2>1. Passed(u, i, j)
    <3>1. Len(Walk(i)) \in Nat /\ j \in Nat /\ j <= Len(Walk(i)) /\ j >= 1
      BY WalkType DEF SInv, TInv
    <3>2. CASE u = t
      <4>1. i < idx[t] + 1
        BY <1>5, <3>1, <3>2 DEF Passed
      <4>2. CASE i = idx[t]
        BY <1>4, <1>6, <3>1, <3>2, <4>2 DEF Passed
      <4> QED BY <1>4, <3>2, <4>1, <4>2 DEF Passed
    <3>3. CASE u # t
      BY <1>5, <3>3 DEF Passed
    <3> QED BY <3>2, <3>3
  <2> QED BY <1>1, <2>1 DEF RInv, Written
<1> QED BY <1>1, <1>7, <1>8, <1>9, <1>10 DEF RInv, NoneBlank, Gapless, RowsComplete

(* When the last task is through, the call's rows are all there. *)
LEMMA ScatterJoinRInv ==
  ASSUME SInv, RInv, SInv', ScatterJoin
  PROVE  RInv'
<1>1. /\ phase = "scatter" /\ phase' = "idle" /\ AllDone
      /\ tables' = tables /\ base' = base /\ pidBase' = pidBase
  BY DEF ScatterJoin, callVars, scanVars
<1>2. /\ NumPackets' = NumPackets /\ Indices' = Indices
      /\ \A i : Walk(i)' = Walk(i)
      /\ \A i, j : RowOf(i, j)' = RowOf(i, j)
  BY <1>1, SameCall, SameRows DEF ScatterJoin
<1>3. /\ pidBase \in Nat /\ NumPackets \in Nat
      /\ \A i \in Indices : i \in Nat /\ i < NumPackets
      /\ \A n \in Node : Len(tables[n]) \in Nat /\ tables[n] \in Seq(Row \cup {Blank})
  BY SizesType DEF SInv, TInv, Shapes, Indices
<1>4. ASSUME NEW n \in Node, NEW s \in Nat, s < Len(tables[n])
      PROVE  /\ tables[n][s + 1] # Blank /\ tables[n][s + 1] \in Row
             /\ OldAt(n, s) \/ NewAt(n, s)
  <2>1. tables[n][s + 1] # Blank
    <3> SUFFICES ASSUME tables[n][s + 1] = Blank PROVE FALSE
      OBVIOUS
    <3>1. PICK t \in Tasks : \E i \in Indices :
            idx[t] <= i /\ i < TaskEnd(t, NumPackets, ntasks)
      BY <1>1, <1>4 DEF RInv, BlankPending
    <3>2. /\ idx[t] = TaskEnd(t, NumPackets, ntasks)
          /\ TaskEnd(t, NumPackets, ntasks) \in Nat
      BY <1>1, TaskFacts DEF AllDone, SInv, TInv
    <3> QED BY <1>3, <3>1, <3>2
  <2>2. OldAt(n, s) \/ NewAt(n, s)
    BY <1>1, <1>4, <2>1 DEF RInv, Placed
  <2>3. s + 1 \in 1..Len(tables[n])
    BY <1>3, <1>4
  <2> QED BY <1>3, <2>1, <2>2, <2>3
<1>5. ASSUME NEW n \in Node, NEW s \in 1..Len(tables[n])
      PROVE  s - 1 \in Nat /\ s - 1 < Len(tables[n]) /\ (s - 1) + 1 = s
  BY <1>3
<1>6. ASSUME NEW n \in Node, NEW s \in 1..Len(tables[n])
      PROVE  tables[n][s] # Blank /\ tables[n][s].pid < pidBase + NumPackets
  <2>1. /\ tables[n][s] # Blank /\ tables[n][s] \in Row
        /\ OldAt(n, s - 1) \/ NewAt(n, s - 1)
    <3>1. /\ tables[n][(s - 1) + 1] # Blank /\ tables[n][(s - 1) + 1] \in Row
          /\ OldAt(n, s - 1) \/ NewAt(n, s - 1)
      BY <1>4, <1>5
    <3> QED BY <1>5, <3>1
  <2>2. CASE OldAt(n, s - 1)
    <3>1. tables[n][s].pid < pidBase
      BY <1>5, <2>2 DEF OldAt
    <3> QED BY <1>3, <2>1, <3>1 DEF Row
  <2>3. CASE NewAt(n, s - 1)
    <3>1. PICK i \in Indices : \E j \in 1..Len(Walk(i)) : tables[n][s] = RowOf(i, j)
      BY <1>5, <2>3 DEF NewAt
    <3> QED BY <1>3, <2>1, <3>1 DEF RowOf
  <2> QED BY <2>1, <2>2, <2>3
<1>7. ASSUME NEW n \in Node, NEW s \in 1..Len(tables[n]), NEW r \in 1..Len(tables[n]), s < r
      PROVE  Before(tables[n][s], tables[n][r])
  <2>1. /\ s - 1 \in Nat /\ r - 1 \in Nat /\ s - 1 < r - 1 /\ r - 1 < Len(tables[n])
        /\ (s - 1) + 1 = s /\ (r - 1) + 1 = r
    BY <1>5, <1>7
  <2>2. tables[n][(s - 1) + 1] # Blank /\ tables[n][(r - 1) + 1] # Blank
    BY <1>6, <2>1
  <2>3. Before(tables[n][(s - 1) + 1], tables[n][(r - 1) + 1])
    BY <1>1, <2>1, <2>2, ScatterSorted
  <2> QED BY <2>1, <2>3
<1>8. ASSUME NEW n \in Node
      PROVE  {row \in RowsIn(n) : row.pid >= pidBase} = CallRows(n)
  <2>1. ASSUME NEW row \in RowsIn(n), row.pid >= pidBase PROVE row \in CallRows(n)
    <3>1. PICK s \in 1..Len(tables[n]) : row = tables[n][s]
      BY DEF RowsIn
    <3>2. /\ tables[n][(s - 1) + 1] \in Row
          /\ OldAt(n, s - 1) \/ NewAt(n, s - 1)
      BY <1>4, <1>5
    <3>3. ~OldAt(n, s - 1)
      BY <1>3, <1>5, <2>1, <3>1, <3>2 DEF OldAt, Row
    <3>4. PICK i \in Indices : \E j \in 1..Len(Walk(i)) : row = RowOf(i, j) /\ Walk(i)[j] = n
      BY <1>5, <3>1, <3>2, <3>3 DEF NewAt
    <3> QED BY <3>4 DEF CallRows
  <2>2. ASSUME NEW row \in CallRows(n) PROVE row \in RowsIn(n) /\ row.pid >= pidBase
    <3>1. PICK i \in Indices : \E j \in 1..Len(Walk(i)) : row = RowOf(i, j) /\ Walk(i)[j] = n
      BY DEF CallRows
    <3>2. PICK j \in 1..Len(Walk(i)) : row = RowOf(i, j) /\ Walk(i)[j] = n
      BY <3>1
    <3>3. PICK t \in Tasks : TaskStart(t, NumPackets, ntasks) <= i /\ i < idx[t]
      BY <1>1, AllBehind DEF SInv
    <3>4. tables[n][RowSlot(i, j) + 1] = RowOf(i, j)
      BY <1>1, <3>2, <3>3 DEF RInv, Written, Passed
    <3>5. RowSlot(i, j) \in Nat /\ RowSlot(i, j) < PktEnd(i, n)
      BY <3>2, RowSlotInside DEF SInv, TInv
    <3>6. RowSlot(i, j) + 1 \in 1..Len(tables[n])
      BY <1>1, <1>3, <3>5, SlotsExist
    <3>7. row.pid >= pidBase
      BY <1>3, <3>2 DEF RowOf
    <3> QED BY <3>2, <3>4, <3>6, <3>7 DEF RowsIn
  <2> QED BY <2>1, <2>2
<1>9. RowsComplete'
  <2>1. ASSUME NEW n \in Node PROVE RowsIn(n)' = RowsIn(n) /\ CallRows(n)' = CallRows(n)
    BY <1>1, <1>2 DEF RowsIn, CallRows
  <2>2. ASSUME NEW n \in Node PROVE Blank \notin RowsIn(n)
    BY <1>6 DEF RowsIn
  <2> QED BY <1>1, <1>7, <1>8, <2>1, <2>2 DEF RowsComplete, Before
<1>10. NoneBlank'
  BY <1>1, <1>2, <1>6 DEF NoneBlank
<1>11. Sorted'
  BY <1>1, <1>7 DEF Sorted, Before
<1> QED BY <1>1, <1>9, <1>10, <1>11 DEF RInv, Gapless, BlankPending, Placed, Written

LEMMA NextRInv ==
  ASSUME NoWrap, SInv, RInv, [Next]_vars
  PROVE  RInv'
<1>1. SInv'
  BY NextSInv
<1>2. CASE UNCHANGED vars
  <2>1. /\ UNCHANGED callVars /\ phase' = phase /\ ntasks' = ntasks /\ Tasks' = Tasks
        /\ pidBase' = pidBase /\ base' = base /\ run' = run /\ k' = k
        /\ tables' = tables /\ idx' = idx /\ pos' = pos /\ cur' = cur
    BY <1>2 DEF vars, callVars, scanVars, taskVars, Tasks
  <2>2. /\ NumPackets' = NumPackets /\ Indices' = Indices
        /\ \A i : Walk(i)' = Walk(i)
    BY <2>1, SameCall
  <2>3. /\ \A i, n : PktEnd(i, n)' = PktEnd(i, n)
        /\ \A i, j : RowSlot(i, j)' = RowSlot(i, j)
        /\ \A i, j : RowOf(i, j)' = RowOf(i, j)
    BY <2>1, SameRows
  <2>4. \A t, i, n : NextSlot(t, i, n)' = NextSlot(t, i, n)
    BY <2>1 DEF NextSlot
  <2>5. NoneBlank' /\ Gapless' /\ BlankPending'
    BY <2>1, <2>2, <2>3, <2>4 DEF RInv, NoneBlank, Gapless, BlankPending
  <2>6. Placed' /\ Sorted' /\ Written'
    BY <2>1, <2>2, <2>3 DEF RInv, Placed, OldAt, NewAt, Sorted, Before, Written, Passed
  <2>7. RowsComplete'
    <3>1. ASSUME NEW n \in Node PROVE RowsIn(n)' = RowsIn(n) /\ CallRows(n)' = CallRows(n)
      BY <2>1, <2>2, <2>3 DEF RowsIn, CallRows
    <3> QED BY <2>1, <3>1 DEF RInv, RowsComplete, Before
  <2> QED BY <2>5, <2>6, <2>7 DEF RInv
<1> QED
  BY <1>1, <1>2, PrepareRInv, ScanStepRInv, ScanEndRInv,
     StartRInv, EmitRInv, EndRInv, ScatterJoinRInv
  DEF Next, Host, TaskStep, EmptyWindow

(* Two passes over the packets and a prefix sum between them replace the    *)
(* serial decoder.  Whatever the graph, the packets, the split over tasks   *)
(* and the interleaving: a row is written inside its column, over a slot    *)
(* nobody wrote and no other task is about to write; decode_window leaves   *)
(* every packet's trailer set; and when a call returns no slot is blank,    *)
(* each table is in capture order, and the call has added exactly its       *)
(* packets' PDUs.  The hypothesis is that the 32-bit counters do not wrap   *)
(* over the capture.                                                        *)
THEOREM BulkScatterExact ==
  ASSUME NoWrap
  PROVE  Spec => []ScatterExact
<1>1. Init => SInv /\ RInv
  BY InitSInv, InitRInv
<1>2. (SInv /\ RInv) /\ [Next]_vars => (SInv /\ RInv)'
  BY NextSInv, NextRInv
<1>3. SInv /\ RInv => ScatterExact
  BY SInvExact DEF RInv, ScatterExact
<1> QED BY <1>1, <1>2, <1>3, PTL DEF Spec

(* A row that is in a table stays where it is: the resize only grows a      *)
(* column and the scatter pass only writes blank slots, so the bulk         *)
(* decoders append across calls.                                            *)
THEOREM BulkRowsKept ==
  ASSUME NoWrap
  PROVE  Spec => RowsKept
<1> DEFINE Kept == \A n \in Node : \A s \in 1..Len(tables[n]) :
                     tables[n][s] # Blank => RowKept(n, s)
<1>1. SInv /\ [Next]_vars => [Kept]_vars
  <2> SUFFICES ASSUME SInv, Next PROVE Kept
    BY DEF vars
  <2>0. \A n \in Node : Len(tables[n]) \in Nat
    BY SizesType DEF SInv, TInv
  <2>1. CASE tables' = tables
    BY <2>0, <2>1 DEF RowKept
  <2>2. ASSUME NEW t \in Tasks, EmitPdu(t) PROVE Kept
    <3>1. /\ tables[Target(t)][Slot(t) + 1] = Blank
          /\ \A n \in Node : Len(tables'[n]) = Len(tables[n])
          /\ \A n \in Node : \A s \in Nat :
               (s < Len(tables[n]) /\ ~(n = Target(t) /\ s = Slot(t)))
                 => tables'[n][s + 1] = tables[n][s + 1]
      BY <2>2, EmitEffect
    <3> SUFFICES ASSUME NEW n \in Node, NEW s \in 1..Len(tables[n]), tables[n][s] # Blank
                 PROVE  RowKept(n, s)
      OBVIOUS
    <3>2. s - 1 \in Nat /\ s - 1 < Len(tables[n]) /\ (s - 1) + 1 = s
      BY <2>0
    <3>3. ~(n = Target(t) /\ s - 1 = Slot(t))
      BY <3>1, <3>2
    <3>4. tables'[n][s] = tables[n][s]
      BY <3>1, <3>2, <3>3
    <3> QED BY <2>0, <3>1, <3>4 DEF RowKept
  <2>3. CASE ScanEnd
    <3> SUFFICES ASSUME NEW n \in Node, NEW s \in 1..Len(tables[n])
                 PROVE  RowKept(n, s)
      OBVIOUS
    <3>1. /\ tables[n] \in Seq(Row \cup {Blank}) /\ run[n] \in Nat
          /\ Len(tables[n]) <= run[n]
      BY <2>3, SizesType DEF SInv, TInv, Shapes, PastEnd, ScanEnd
    <3>2. tables'[n] = Resize(tables[n], run[n])
      BY <2>3 DEF ScanEnd
    <3>3. s \in 1..run[n] /\ s <= Len(tables[n])
      BY <2>0, <3>1
    <3>4. /\ Len(tables'[n]) = run[n]
          /\ tables'[n][s] = IF s <= Len(tables[n]) THEN tables[n][s] ELSE Blank
      <4>1. /\ Len(Resize(tables[n], run[n])) = run[n]
            /\ \A r \in 1..run[n] : Resize(tables[n], run[n])[r] =
                                      IF r <= Len(tables[n]) THEN tables[n][r] ELSE Blank
        BY ONLY <3>1, ResizeType, Zenon
      <4> QED BY ONLY <3>2, <3>3, <4>1
    <3> QED BY <3>1, <3>3, <3>4 DEF RowKept
  <2>4. Next => \/ tables' = tables \/ ScanEnd \/ \E t \in Tasks : EmitPdu(t)
    BY DEF Next, Host, TaskStep, EmptyWindow, BeginWindow, BeginBulk, Arguments,
           CountPacket, CountJoin, ScanStep, StartPacket, EndPacket, ScatterJoin, vars
  <2> QED BY <2>1, <2>2, <2>3, <2>4
<1>2. Spec => []SInv
  <2>1. SInv /\ [Next]_vars => SInv'
    BY NextSInv
  <2> QED BY <2>1, InitSInv, PTL DEF Spec
<1>3. RowsKept <=> [][Kept]_vars
  BY DEF RowsKept
<1> QED BY <1>1, <1>2, <1>3, PTL DEF Spec

-----------------------------------------------------------------------------
(* Induction, as a statement about sets of numbers. *)

LEMMA LeastNat ==
  ASSUME NEW T, T \subseteq Nat, T # {}
  PROVE  \E x \in T : \A y \in T : x <= y
<1>1. IsWellFoundedOn(OpToRel(<, Nat), Nat)
  BY NatLessThanWellFounded
<1>2. \E x \in T : \A y \in T : ~(<<y, x>> \in OpToRel(<, Nat))
  BY <1>1, WFMin
<1>3. PICK x \in T : \A y \in T : ~(<<y, x>> \in OpToRel(<, Nat))
  BY <1>2
<1>4. \A y \in T : ~(y < x)
  BY <1>3 DEF OpToRel
<1> QED BY <1>4

LEMMA Upward ==
  ASSUME NEW N \in Nat, NEW P, 0 \in P, \A m \in 1..N : m - 1 \in P => m \in P
  PROVE  \A m \in 0..N : m \in P
<1> SUFFICES ASSUME NEW m \in 0..N, m \notin P PROVE FALSE
  OBVIOUS
<1> DEFINE T == {x \in 0..N : x \notin P}
<1>1. PICK x \in T : \A y \in T : x <= y
  <2>1. T \subseteq Nat /\ T # {}
    OBVIOUS
  <2> HIDE DEF T
  <2> QED BY <2>1, LeastNat
<1>2. x \in 1..N /\ x - 1 \in 0..N /\ x - 1 < x
  BY <1>1
<1>3. x - 1 \in P
  BY <1>1, <1>2
<1> QED BY <1>1, <1>2, <1>3

(* What the serial decoder computes: a list of tables that starts with the  *)
(* given ones and goes on as it does, step by step, ends in its result.     *)
PduStep(F, j, pid, walk) ==
  F[j] = [F[j - 1] EXCEPT ![walk[j]] = Append(@, [pid |-> pid, pdu |-> j])]

LEMMA SerialPacket ==
  ASSUME NEW walk, NEW N \in Nat, Len(walk) = N, NEW tabs, NEW pid,
         NEW F, F[0] = tabs, \A j \in 1..N : PduStep(F, j, pid, walk)
  PROVE  Serial!DecodePacket(tabs, pid, walk) = F[N]
<1> DEFINE Eq(f) == f = [j \in 0..N |->
                           IF j = 0 THEN tabs
                           ELSE [f[j - 1] EXCEPT ![walk[j]] =
                                   Append(@, [pid |-> pid, pdu |-> j])]]
           g == [j \in 0..N |-> F[j]]
           c == CHOOSE f : Eq(f)
<1>1. Serial!DecodePacket(tabs, pid, walk) = c[N]
  BY DEF Serial!DecodePacket
<1>2. Eq(g)
  <2>1. ASSUME NEW j \in 0..N
        PROVE  F[j] = IF j = 0 THEN tabs
                      ELSE [g[j - 1] EXCEPT ![walk[j]] = Append(@, [pid |-> pid, pdu |-> j])]
    <3>1. CASE j = 0
      BY <3>1
    <3>2. CASE j # 0
      <4>1. j \in 1..N /\ j - 1 \in 0..N
        BY <3>2
      <4>2. g[j - 1] = F[j - 1]
        BY <4>1
      <4>3. PduStep(F, j, pid, walk)
        BY <4>1
      <4> HIDE DEF g
      <4> QED BY <3>2, <4>2, <4>3 DEF PduStep
    <3> QED BY <3>1, <3>2
  <2> QED BY <2>1
<1>3. Eq(c)
  <2> HIDE DEF Eq, g
  <2> QED BY <1>2
<1> DEFINE P == {j \in 0..N : c[j] = F[j]}
<1> HIDE DEF c, g
<1>4. 0 \in P
  BY <1>3
<1>5. ASSUME NEW j \in 1..N, j - 1 \in P PROVE j \in P
  <2>1. c[j - 1] = F[j - 1]
    BY <1>5
  <2>2. j \in 0..N /\ j # 0
    OBVIOUS
  <2>3. c[j] = [c[j - 1] EXCEPT ![walk[j]] = Append(@, [pid |-> pid, pdu |-> j])]
    BY <1>3, <2>2
  <2>4. PduStep(F, j, pid, walk)
    OBVIOUS
  <2> QED BY <2>1, <2>2, <2>3, <2>4 DEF PduStep
<1>6. N \in P
  <2> HIDE DEF P
  <2>1. \A m \in 0..N : m \in P
    BY <1>4, <1>5, Upward
  <2> QED BY <2>1
<1> QED BY <1>1, <1>6

PacketStep(F, i, first, walks) ==
  F[i] = Serial!DecodePacket(F[i - 1], first + i - 1, walks[i])

LEMMA SerialBatch ==
  ASSUME NEW walks, NEW N \in Nat, Len(walks) = N, NEW tabs, NEW first,
         NEW F, F[0] = tabs,
         \A i \in 1..N : PacketStep(F, i, first, walks)
  PROVE  Serial!DecodeBatch(tabs, first, walks) = F[N]
<1> DEFINE Eq(f) == f = [i \in 0..N |->
                           IF i = 0 THEN tabs
                           ELSE Serial!DecodePacket(f[i - 1], first + i - 1, walks[i])]
           g == [i \in 0..N |-> F[i]]
           c == CHOOSE f : Eq(f)
<1>1. Serial!DecodeBatch(tabs, first, walks) = c[N]
  BY DEF Serial!DecodeBatch
<1>2. Eq(g)
  <2>1. ASSUME NEW i \in 0..N
        PROVE  F[i] = IF i = 0 THEN tabs
                      ELSE Serial!DecodePacket(g[i - 1], first + i - 1, walks[i])
    <3>1. CASE i = 0
      BY <3>1
    <3>2. CASE i # 0
      <4>1. i \in 1..N /\ i - 1 \in 0..N
        BY <3>2
      <4>2. g[i - 1] = F[i - 1]
        BY <4>1
      <4> HIDE DEF g
      <4> QED BY <3>2, <4>1, <4>2 DEF PacketStep
    <3> QED BY <3>1, <3>2
  <2> QED BY <2>1
<1>3. Eq(c)
  <2> HIDE DEF Eq, g
  <2> QED BY <1>2
<1> DEFINE P == {i \in 0..N : c[i] = F[i]}
<1> HIDE DEF c, g
<1>4. 0 \in P
  BY <1>3
<1>5. ASSUME NEW i \in 1..N, i - 1 \in P PROVE i \in P
  <2>1. c[i - 1] = F[i - 1]
    BY <1>5
  <2>2. i \in 0..N /\ i # 0
    OBVIOUS
  <2>3. c[i] = Serial!DecodePacket(c[i - 1], first + i - 1, walks[i])
    BY <1>3, <2>2
  <2>4. PacketStep(F, i, first, walks)
    OBVIOUS
  <2> QED BY <2>1, <2>2, <2>3, <2>4 DEF PacketStep
<1>6. N \in P
  <2> HIDE DEF P
  <2>1. \A m \in 0..N : m \in P
    BY <1>4, <1>5, Upward
  <2> QED BY <2>1
<1> QED BY <1>1, <1>6

-----------------------------------------------------------------------------
(* The refinement.  A call of the bulk decoder does, when it returns, what  *)
(* the serial decoder does in one step; every other step leaves what the    *)
(* caller can see alone.                                                    *)

(* Where the rows of packet i begin, or would begin. *)
Mark(i, n) == IF i < k THEN base[i][n] ELSE run[n]

(* The slots of a packet end where those of the next one begin, and those   *)
(* of the first packet begin at the end of what was there.                  *)
Exact ==
  /\ NumPackets <= MaxBatch
  /\ \A n \in Node :
       /\ phase \in {"scan", "scatter"} =>
            \A i \in Indices : i < k => PktEnd(i, n) = Mark(i + 1, n)
       /\ phase = "scan" => Mark(0, n) = Len(tables[n])

LEMMA InitExact == Init => Exact
<1> SUFFICES ASSUME Init PROVE Exact
  OBVIOUS
<1>1. NumPackets = 0 /\ phase = "idle"
  BY DEF Init, NumPackets
<1> QED BY <1>1, ConstantsAssumption DEF Exact

(* A step that leaves the scan alone leaves the layout alone. *)
LEMMA KeptExact ==
  ASSUME Exact, UNCHANGED callVars, base' = base, run' = run, k' = k,
         phase' \in {"scan", "scatter"} => phase \in {"scan", "scatter"},
         phase' = "scan" => phase = "scan" /\ tables' = tables
  PROVE  Exact'
<1>1. /\ NumPackets' = NumPackets /\ Indices' = Indices
      /\ \A i, n : PktCount(i, n)' = PktCount(i, n)
  BY SameCall
<1>2. /\ \A i, n : PktEnd(i, n)' = PktEnd(i, n)
      /\ \A i, n : Mark(i, n)' = Mark(i, n)
  BY <1>1 DEF PktEnd, Mark
<1> QED BY <1>1, <1>2 DEF Exact

LEMMA ScanStepExact ==
  ASSUME NoWrap, SInv, Exact, ScanStep
  PROVE  Exact'
<1>1. /\ phase = "scan" /\ phase' = "scan" /\ k < NumPackets /\ k' = k + 1
      /\ tables' = tables /\ base' = [base EXCEPT ![k] = run]
  BY DEF ScanStep
<1>2. /\ NumPackets' = NumPackets /\ Indices' = Indices
      /\ \A i, n : PktCount(i, n)' = PktCount(i, n)
  BY SameCall DEF ScanStep
<1>3. NumPackets \in Nat /\ k \in Nat
  BY SizesType DEF SInv, TInv
<1>4. k \in Indices /\ base \in [Indices -> Counts] /\ 0 \in Indices
  BY <1>1, <1>3 DEF Indices, SInv, TInv, Shapes
<1>5. \A i \in Indices : i \in Nat
  BY DEF Indices
<1>6. base'[k] = run /\ \A i \in Indices : i # k => base'[i] = base[i]
  BY <1>1, <1>4
<1>7. ASSUME NEW i \in Indices, NEW n \in Node, i < k + 1 PROVE PktEnd(i, n)' = Mark(i + 1, n)'
  <2>1. CASE i = k
    <3>1. PktEnd(i, n)' = run[n] + PktCount(k, n)
      BY <1>2, <1>6, <2>1 DEF PktEnd
    <3>2. Mark(i + 1, n)' = run'[n]
      BY <1>1, <1>3, <2>1 DEF Mark
    <3> QED BY <3>1, <3>2, ScanSum
  <2>2. CASE i < k
    <3>1. PktEnd(i, n)' = PktEnd(i, n)
      BY <1>2, <1>3, <1>5, <1>6, <2>2 DEF PktEnd
    <3>2. PktEnd(i, n) = Mark(i + 1, n)
      BY <1>1, <2>2 DEF Exact
    <3>3. i + 1 \in Nat /\ i + 1 < k + 1 /\ i + 1 \in Indices
      BY <1>1, <1>3, <1>5, <2>2 DEF Indices
    <3>4. Mark(i + 1, n)' = base'[i + 1][n]
      BY <1>1, <3>3 DEF Mark
    <3>5. CASE i + 1 = k
      BY <1>3, <1>6, <3>1, <3>2, <3>4, <3>5 DEF Mark
    <3>6. CASE i + 1 # k
      <4>1. i + 1 < k
        BY <1>3, <3>3, <3>6
      <4> QED BY <1>6, <3>1, <3>2, <3>3, <3>4, <3>6, <4>1 DEF Mark
    <3> QED BY <3>5, <3>6
  <2> QED BY <1>3, <1>5, <1>7, <2>1, <2>2
<1>8. ASSUME NEW n \in Node PROVE Mark(0, n)' = Len(tables'[n])
  <2>1. Mark(0, n)' = base'[0][n]
    BY <1>1, <1>3 DEF Mark
  <2>2. Mark(0, n) = Len(tables[n])
    BY <1>1 DEF Exact
  <2>3. CASE k = 0
    BY <1>1, <1>6, <2>1, <2>2, <2>3 DEF Mark
  <2>4. CASE k # 0
    BY <1>1, <1>3, <1>4, <1>6, <2>1, <2>2, <2>4 DEF Mark
  <2> QED BY <2>3, <2>4
<1> QED BY <1>1, <1>2, <1>7, <1>8 DEF Exact

LEMMA NextExact ==
  ASSUME NoWrap, SInv, SInv', Exact, [Next]_vars
  PROVE  Exact'
<1>1. ASSUME NEW b \in Batches, BeginWindow(b) \/ BeginBulk(b) PROVE Exact'
  <2>1. NumPackets' = Len(b) /\ Len(b) \in 0..MaxBatch /\ k' = 0
        /\ phase' \in {"count", "scan"}
    BY <1>1, BatchType DEF BeginWindow, BeginBulk, Arguments, NumPackets
  <2>2. NumPackets' <= MaxBatch
    BY <2>1, ConstantsAssumption
  <2>3. \A i \in Indices' : ~(i < k')
    BY <2>1 DEF Indices
  <2>4. ASSUME NEW n \in Node, phase' = "scan" PROVE Mark(0, n)' = Len(tables'[n])
    BY <2>1, <2>4 DEF Mark, SInv, PastEnd
  <2> QED BY <2>2, <2>3, <2>4 DEF Exact
<1>2. CASE CountJoin
  <2>1. UNCHANGED callVars /\ phase' = "scan" /\ k' = 0
    BY <1>2 DEF CountJoin
  <2>2. NumPackets' = NumPackets /\ Indices' = Indices
    BY <2>1, SameCall
  <2>3. \A i \in Indices' : ~(i < k')
    BY <2>1 DEF Indices
  <2>4. ASSUME NEW n \in Node PROVE Mark(0, n)' = Len(tables'[n])
    BY <2>1 DEF Mark, SInv, PastEnd
  <2> QED BY <2>2, <2>3, <2>4 DEF Exact
<1>3. CASE ScanEnd \/ ScatterJoin \/ UNCHANGED vars
           \/ \E t \in Tasks : CountPacket(t) \/ StartPacket(t) \/ EmitPdu(t) \/ EndPacket(t)
  <2>1. /\ UNCHANGED callVars /\ base' = base /\ run' = run /\ k' = k
        /\ phase' \in {"scan", "scatter"} => phase \in {"scan", "scatter"}
        /\ phase' = "scan" => phase = "scan" /\ tables' = tables
    BY <1>3 DEF ScanEnd, ScatterJoin, CountPacket, StartPacket, EmitPdu, EndPacket,
                vars, callVars, scanVars
  <2> QED BY <2>1, KeptExact
<1> QED BY <1>1, <1>2, <1>3, ScanStepExact DEF Next, Host, TaskStep, EmptyWindow

-----------------------------------------------------------------------------
(* The tables up to where the rows of packet i begin. *)
Upto(i) == [n \in Node |-> SubSeq(tables[n], 1, Mark(i, n))]

LEMMA SubSeqGrow ==
  ASSUME NEW S, NEW tb \in Seq(S), NEW c \in Nat, c < Len(tb)
  PROVE  SubSeq(tb, 1, c + 1) = Append(SubSeq(tb, 1, c), tb[c + 1])
<1>1. Len(tb) \in Nat /\ 1 \in 1..Len(tb) /\ c + 1 \in 1..Len(tb) /\ (c + 1) - 1 = c
  OBVIOUS
<1>2. SubSeq(tb, 1, c + 1) = SubSeq(tb, 1, (c + 1) - 1) \o <<tb[c + 1]>>
  BY <1>1, SubSeqRecursiveSecond
<1>3. SubSeq(tb, 1, c) \in Seq(S) /\ tb[c + 1] \in S
  BY <1>1
<1>4. Append(SubSeq(tb, 1, c), tb[c + 1]) = SubSeq(tb, 1, c) \o <<tb[c + 1]>>
  BY <1>3, AppendIsConcat
<1> QED BY <1>1, <1>2, <1>4

(* When the scatter pass is over, what it wrote for packet i is what the    *)
(* serial decoder appends for it.                                           *)
LEMMA PacketAppended ==
  ASSUME SInv, RInv, Exact, phase = "scatter", AllDone, NEW i \in Indices
  PROVE  Serial!DecodePacket(Upto(i), pidBase + i, Walk(i)) = Upto(i + 1)
<1> DEFINE w == Walk(i)
           N == Len(Walk(i))
           c(j, n) == base[i][n] + CountUpTo(w, n, j)
           F == [j \in 0..N |-> [n \in Node |-> SubSeq(tables[n], 1, c(j, n))]]
<1>1. w \in Seq(Node) /\ N \in Nat
  BY WalkType DEF SInv, TInv
<1>2. \A n \in Node : /\ tables[n] \in Seq(Row \cup {Blank}) /\ Len(tables[n]) \in Nat
                      /\ base[i][n] \in Nat
  BY PktCountType DEF SInv, TInv, Shapes
<1>3. \A n \in Node : PktEnd(i, n) <= Len(tables[n]) /\ PktEnd(i, n) \in Nat
  BY SlotsExist
<1>3a. i < k
  BY SizesType DEF SInv, TInv, PhaseFacts, Indices
<1>4. F[0] = Upto(i)
  <2>1. \A n \in Node : c(0, n) = Mark(i, n)
    BY <1>2, <1>3a, CountZero DEF Mark
  <2>2. F[0] = [n \in Node |-> SubSeq(tables[n], 1, c(0, n))]
    BY <1>1
  <2> HIDE DEF F, c
  <2> QED BY <2>1, <2>2 DEF Upto
<1>5. F[N] = Upto(i + 1)
  <2>1. \A n \in Node : c(N, n) = Mark(i + 1, n)
    <3>1. \A n \in Node : PktEnd(i, n) = Mark(i + 1, n)
      BY <1>3a DEF Exact
    <3> QED BY <3>1 DEF PktEnd, PktCount
  <2>2. F[N] = [n \in Node |-> SubSeq(tables[n], 1, c(N, n))]
    BY <1>1
  <2> HIDE DEF F, c
  <2> QED BY <2>1, <2>2 DEF Upto
<1>6. ASSUME NEW j \in 1..N PROVE PduStep(F, j, pidBase + i, w)
  <2> DEFINE x == w[j]
             row == [pid |-> pidBase + i, pdu |-> j]
  <2>1. j - 1 \in 0..N /\ j \in 0..N /\ j - 1 \in Nat /\ (j - 1) + 1 = j /\ j \in Nat /\ j <= N
    BY <1>1
  <2>2. x \in Node
    BY <1>1
  <2>3. ASSUME NEW n \in Node
        PROVE  /\ c(j - 1, n) \in Nat
               /\ c(j, n) = IF n = x THEN c(j - 1, n) + 1 ELSE c(j - 1, n)
               /\ c(j, n) <= Len(tables[n])
    <3>1. CountUpTo(w, n, j - 1) \in Nat
      BY <1>1, <2>1, CountProps
    <3>2. CountUpTo(w, n, (j - 1) + 1) =
            IF w[(j - 1) + 1] = n THEN CountUpTo(w, n, j - 1) + 1 ELSE CountUpTo(w, n, j - 1)
      BY <2>1, CountStep
    <3>3. CountUpTo(w, n, j) <= PktCount(i, n)
      BY <1>1, <2>1, CountMono DEF PktCount
    <3>4. PktCount(i, n) \in Nat /\ base[i][n] \in Nat
      BY PktCountType DEF SInv, TInv
    <3>5. CountUpTo(w, n, j) = IF n = x THEN CountUpTo(w, n, j - 1) + 1 ELSE CountUpTo(w, n, j - 1)
      BY <2>1, <3>2
    <3>6. base[i][n] + PktCount(i, n) <= Len(tables[n])
      BY <1>3 DEF PktEnd
    <3> DEFINE u == CountUpTo(w, n, j - 1)
               v == CountUpTo(w, n, j)
               b == base[i][n]
    <3>7. /\ c(j - 1, n) = b + u /\ c(j, n) = b + v
          /\ u \in Nat /\ b \in Nat /\ v <= PktCount(i, n) /\ b + PktCount(i, n) <= Len(tables[n])
          /\ v = IF n = x THEN u + 1 ELSE u
      BY <3>1, <3>3, <3>4, <3>5, <3>6
    <3> HIDE DEF u, v, b, c, x, w, N
    <3> QED BY <1>2, <3>4, <3>7
  <2>4. tables[x][c(j - 1, x) + 1] = row
    <3>1. PICK t \in Tasks : TaskStart(t, NumPackets, ntasks) <= i /\ i < idx[t]
      BY AllBehind DEF SInv
    <3>2. tables[w[j]][RowSlot(i, j) + 1] = RowOf(i, j)
      BY <3>1 DEF RInv, Written, Passed
    <3> QED BY <3>2 DEF RowSlot, RowOf
  <2>5. F[j - 1] = [n \in Node |-> SubSeq(tables[n], 1, c(j - 1, n))]
        /\ F[j] = [n \in Node |-> SubSeq(tables[n], 1, c(j, n))]
    BY <2>1
  <2> HIDE DEF F, c, x, w, N, row
  <2>6. ASSUME NEW n \in Node
        PROVE  SubSeq(tables[n], 1, c(j, n)) =
                 IF n = x THEN Append(SubSeq(tables[n], 1, c(j - 1, n)), row)
                 ELSE SubSeq(tables[n], 1, c(j - 1, n))
    <3>1. CASE n = x
      <4>1. c(j - 1, n) < Len(tables[n]) /\ c(j, n) = c(j - 1, n) + 1 /\ c(j - 1, n) \in Nat
        BY <1>2, <2>3, <3>1
      <4>2. SubSeq(tables[n], 1, c(j - 1, n) + 1) =
              Append(SubSeq(tables[n], 1, c(j - 1, n)), tables[n][c(j - 1, n) + 1])
        BY <1>2, <4>1, SubSeqGrow
      <4> QED BY <2>4, <3>1, <4>1, <4>2
    <3>2. CASE n # x
      BY <2>3, <3>2
    <3> QED BY <3>1, <3>2
  <2>7. F[j] = [F[j - 1] EXCEPT ![x] = Append(@, row)]
    BY <2>2, <2>5, <2>6
  <2> QED BY <2>7 DEF PduStep, x, row
<1>7. Serial!DecodePacket(F[0], pidBase + i, w) = F[N]
  <2> HIDE DEF F
  <2> QED BY <1>1, <1>6, SerialPacket
<1> HIDE DEF F
<1> QED BY <1>4, <1>5, <1>7

(* The packets' walks as the serial decoder is given them. *)
CallWalks == [i \in 1..NumPackets |-> Walk(i - 1)]

LEMMA CallAppended ==
  ASSUME SInv, RInv, Exact, phase = "scatter", AllDone
  PROVE  Serial!DecodeBatch(Upto(0), pidBase, CallWalks) = Upto(NumPackets)
<1> DEFINE N == NumPackets
           F == [i \in 0..N |-> Upto(i)]
<1>1. N \in Nat /\ pidBase \in Nat
  BY SizesType DEF SInv, TInv
<1>2. Len(CallWalks) = N
  BY <1>1 DEF CallWalks
<1>3. F[0] = Upto(0) /\ F[N] = Upto(N)
  BY <1>1
<1>4. ASSUME NEW i \in 1..N
      PROVE  PacketStep(F, i, pidBase, CallWalks)
  <2>1. i - 1 \in Indices /\ (i - 1) + 1 = i /\ pidBase + (i - 1) = pidBase + i - 1
        /\ i \in 0..N /\ i - 1 \in 0..N
    BY <1>1 DEF Indices
  <2>2. Serial!DecodePacket(Upto(i - 1), pidBase + (i - 1), Walk(i - 1)) = Upto((i - 1) + 1)
    BY <2>1, PacketAppended
  <2>3. CallWalks[i] = Walk(i - 1)
    BY DEF CallWalks
  <2>4. F[i] = Upto(i) /\ F[i - 1] = Upto(i - 1)
    BY <2>1
  <2> HIDE DEF F
  <2> QED BY <2>1, <2>2, <2>3, <2>4 DEF PacketStep
<1>5. Serial!DecodeBatch(F[0], pidBase, CallWalks) = F[N]
  <2> HIDE DEF F, N
  <2>1. \A i \in 1..N : PacketStep(F, i, pidBase, CallWalks)
    BY <1>4
  <2> QED BY ONLY <1>1, <1>2, <2>1, SerialBatch
<1> HIDE DEF F
<1> QED BY <1>3, <1>5

-----------------------------------------------------------------------------
(* What the caller sees, step by step. *)

Decoded == IF phase = "idle" THEN pidBase + NumPackets ELSE pidBase

LEMMA SubSeqSame ==
  ASSUME NEW S, NEW tb \in Seq(S), NEW ub \in Seq(S), NEW c \in Nat,
         c <= Len(tb), c <= Len(ub), \A s \in 1..c : tb[s] = ub[s]
  PROVE  SubSeq(tb, 1, c) = SubSeq(ub, 1, c)
<1>1. /\ SubSeq(tb, 1, c) \in Seq(S) /\ SubSeq(ub, 1, c) \in Seq(S)
      /\ Len(SubSeq(tb, 1, c)) = c /\ Len(SubSeq(ub, 1, c)) = c
      /\ \A s \in 1..c : SubSeq(tb, 1, c)[s] = tb[s] /\ SubSeq(ub, 1, c)[s] = ub[s]
  OBVIOUS
<1> QED BY <1>1, SeqEqual

(* During the scatter pass the rows of this call are behind the mark of the *)
(* first packet.                                                            *)
LEMMA CommittedScatter ==
  ASSUME SInv, phase = "scatter", NEW n \in Node
  PROVE  /\ CommittedSize(n) = Mark(0, n)
         /\ Mark(0, n) \in Nat /\ Mark(0, n) <= Len(tables[n])
         /\ \A i \in Indices : Mark(0, n) <= base[i][n]
<1>1. NumPackets \in Nat /\ k = NumPackets /\ run[n] \in Nat /\ run[n] = Len(tables[n])
  BY SizesType DEF SInv, TInv, PhaseFacts, PastEnd
<1>2. CASE NumPackets = 0
  <2>1. CommittedSize(n) = run[n] /\ Mark(0, n) = run[n] /\ Indices = {}
    BY <1>1, <1>2 DEF CommittedSize, Mark, Indices
  <2> QED BY <2>1, <1>1
<1>3. CASE NumPackets # 0
  <2>1. 0 \in Indices /\ 0 < k
    BY <1>1, <1>3 DEF Indices
  <2>2. CommittedSize(n) = base[0][n] /\ Mark(0, n) = base[0][n]
    BY <1>3, <2>1 DEF CommittedSize, Mark
  <2>3. base[0][n] \in Nat /\ PktCount(0, n) \in Nat
    BY <2>1, PktCountType DEF SInv, TInv
  <2>4. base[0][n] <= PktEnd(0, n)
    BY <2>3 DEF PktEnd
  <2>5. PktEnd(0, n) \in Nat /\ PktEnd(0, n) <= Len(tables[n])
    BY <2>1, SlotsExist
  <2>6. ASSUME NEW i \in Indices PROVE base[0][n] <= base[i][n]
    <3>1. CASE i = 0
      BY <2>3, <3>1
    <3>2. CASE i # 0
      <4>1. 0 < i /\ i < k
        BY <1>1, <3>2 DEF Indices
      <4>2. PktEnd(0, n) <= base[i][n] /\ base[i][n] \in Nat
        BY <2>1, <4>1, PktCountType DEF SInv, TInv, Layout
      <4> QED BY <2>3, <2>4, <2>5, <4>2
    <3> QED BY <3>1, <3>2
  <2> QED BY <1>1, <2>2, <2>3, <2>4, <2>5, <2>6
<1> QED BY <1>2, <1>3

(* Steps that leave the tables alone, the return excepted. *)
LEMMA QuietRefines ==
  ASSUME tables' = tables, Decoded' = Decoded,
         \A n \in Node : CommittedSize(n)' = CommittedSize(n)
  PROVE  Committed' = Committed /\ Decoded' = Decoded
BY DEF Committed

LEMMA ScanEndRefines ==
  ASSUME SInv, SInv', Exact, ScanEnd
  PROVE  Committed' = Committed /\ Decoded' = Decoded
<1>1. /\ phase = "scan" /\ phase' = "scatter" /\ UNCHANGED callVars
      /\ base' = base /\ run' = run /\ k' = k
      /\ tables' = [n \in Node |-> Resize(tables[n], run[n])]
  BY DEF ScanEnd, scanVars
<1>2. NumPackets' = NumPackets /\ pidBase' = pidBase
  BY <1>1, SameCall DEF callVars
<1>3. ASSUME NEW n \in Node
      PROVE  SubSeq(tables'[n], 1, CommittedSize(n)') = SubSeq(tables[n], 1, CommittedSize(n))
  <2>1. tables[n] \in Seq(Row \cup {Blank}) /\ run[n] \in Nat /\ Len(tables[n]) \in Nat
    BY SizesType DEF SInv, TInv, Shapes
  <2>2. tables'[n] = Resize(tables[n], run[n])
    BY <1>1
  <2>3. /\ Resize(tables[n], run[n]) \in Seq(Row \cup {Blank})
        /\ Len(Resize(tables[n], run[n])) = run[n]
        /\ \A s \in 1..run[n] : Resize(tables[n], run[n])[s] =
                                  IF s <= Len(tables[n]) THEN tables[n][s] ELSE Blank
    BY ONLY <2>1, ResizeType, Zenon
  <2>4. Len(tables[n]) <= run[n]
    BY <1>1 DEF SInv, PastEnd
  <2>5. CommittedSize(n) = Len(tables[n])
    BY <1>1 DEF CommittedSize
  <2>6. CommittedSize(n)' = Len(tables[n])
    <3>1. NumPackets \in Nat /\ k = NumPackets
      BY SizesType DEF SInv, TInv, ScanEnd
    <3>2. CommittedSize(n)' = Mark(0, n)
      BY <1>1, <1>2, <3>1 DEF CommittedSize, Mark
    <3> QED BY <1>1, <3>2 DEF Exact
  <2>7. \A s \in 1..Len(tables[n]) : Resize(tables[n], run[n])[s] = tables[n][s]
    <3>1. \A s \in 1..Len(tables[n]) : s \in 1..run[n] /\ s <= Len(tables[n])
      BY <2>1, <2>4
    <3> QED BY ONLY <2>3, <3>1
  <2>8. SubSeq(Resize(tables[n], run[n]), 1, Len(tables[n])) = SubSeq(tables[n], 1, Len(tables[n]))
    <3> DEFINE r == Resize(tables[n], run[n])
    <3>1. r \in Seq(Row \cup {Blank}) /\ Len(tables[n]) <= Len(r)
          /\ \A s \in 1..Len(tables[n]) : r[s] = tables[n][s]
      BY <2>3, <2>4, <2>7
    <3>2. Len(tables[n]) <= Len(tables[n])
      BY <2>1
    <3> HIDE DEF r
    <3>3. SubSeq(r, 1, Len(tables[n])) = SubSeq(tables[n], 1, Len(tables[n]))
      BY ONLY <2>1, <3>1, <3>2, SubSeqSame
    <3> QED BY <3>3 DEF r
  <2> QED BY <2>2, <2>5, <2>6, <2>8
<1>4. Committed' = Committed
  BY <1>3 DEF Committed
<1> QED BY <1>1, <1>2, <1>4 DEF Decoded

LEMMA EmitRefines ==
  ASSUME SInv, SInv', NEW t \in Tasks, EmitPdu(t)
  PROVE  Committed' = Committed /\ Decoded' = Decoded
<1>1. /\ phase = "scatter" /\ phase' = "scatter" /\ UNCHANGED callVars
      /\ base' = base /\ run' = run /\ k' = k /\ Writing(t)
  BY DEF EmitPdu, scanVars
<1>2. NumPackets' = NumPackets /\ pidBase' = pidBase
  BY <1>1, SameCall DEF callVars
<1>3. /\ \A n \in Node : Len(tables'[n]) = Len(tables[n])
      /\ \A n \in Node : \A s \in Nat :
           (s < Len(tables[n]) /\ ~(n = Target(t) /\ s = Slot(t)))
             => tables'[n][s + 1] = tables[n][s + 1]
  BY EmitEffect
<1>4. /\ idx[t] \in Indices /\ Slot(t) \in Nat /\ Target(t) \in Node
      /\ base[idx[t]][Target(t)] <= Slot(t)
  BY <1>1, WritingSlot DEF SInv
<1>5. ASSUME NEW n \in Node
      PROVE  SubSeq(tables'[n], 1, CommittedSize(n)') = SubSeq(tables[n], 1, CommittedSize(n))
  <2> DEFINE c == CommittedSize(n)
  <2>1. c \in Nat /\ c <= Len(tables[n]) /\ \A i \in Indices : c <= base[i][n]
    BY <1>1, CommittedScatter
  <2>2. CommittedSize(n)' = c
    BY <1>1, <1>2 DEF CommittedSize
  <2>3. tables[n] \in Seq(Row \cup {Blank}) /\ tables'[n] \in Seq(Row \cup {Blank})
        /\ Len(tables[n]) \in Nat
    BY DEF SInv, TInv, Shapes
  <2>4. n = Target(t) => c <= Slot(t)
    <3>1. n = Target(t) => base[idx[t]][n] \in Nat
      BY <1>4, PktCountType DEF SInv, TInv
    <3>2. c <= base[idx[t]][n]
      BY <1>4, <2>1
    <3> HIDE DEF c
    <3> QED BY <1>4, <2>1, <3>1, <3>2
  <2> HIDE DEF c
  <2>5. ASSUME NEW s \in 1..c PROVE tables'[n][s] = tables[n][s]
    <3>1. s - 1 \in Nat /\ s - 1 < c /\ (s - 1) + 1 = s /\ s - 1 < Len(tables[n])
      BY <2>1, <2>3
    <3>2. ~(n = Target(t) /\ s - 1 = Slot(t))
      BY <1>4, <2>1, <2>4, <3>1
    <3>3. tables'[n][(s - 1) + 1] = tables[n][(s - 1) + 1]
      BY <1>3, <3>1, <3>2
    <3> QED BY <3>1, <3>3
  <2>6. c <= Len(tables'[n])
    BY <1>3, <2>1
  <2>7. SubSeq(tables'[n], 1, c) = SubSeq(tables[n], 1, c)
    BY <2>1, <2>3, <2>5, <2>6, SubSeqSame
  <2> QED BY <2>2, <2>7 DEF c
<1>6. Committed' = Committed
  BY <1>5 DEF Committed
<1> QED BY <1>1, <1>2, <1>6 DEF Decoded

(* The return of a call is a step of the serial decoder. *)
LEMMA JoinRefines ==
  ASSUME SInv, RInv, Exact, ScatterJoin
  PROVE  Serial!Next
<1>1. /\ phase = "scatter" /\ phase' = "idle" /\ AllDone /\ UNCHANGED callVars
      /\ tables' = tables
  BY DEF ScatterJoin
<1>2. NumPackets' = NumPackets /\ pidBase' = pidBase
  BY <1>1, SameCall DEF callVars
<1>3. NumPackets \in Nat /\ k = NumPackets /\ MaxBatch \in Nat /\ Shapes
  BY <1>1, SizesType, ConstantsAssumption DEF SInv, TInv, PhaseFacts
<1>4. Committed = Upto(0)
  BY <1>1, CommittedScatter DEF Committed, Upto
<1>5. Committed' = Upto(NumPackets)
  <2>1. ASSUME NEW n \in Node PROVE CommittedSize(n)' = Mark(NumPackets, n)
    <3>1. CommittedSize(n)' = Len(tables[n])
      BY <1>1 DEF CommittedSize
    <3>2. Mark(NumPackets, n) = run[n]
      BY <1>3 DEF Mark
    <3> QED BY <1>1, <3>1, <3>2 DEF SInv, PastEnd
  <2> QED BY <1>1, <2>1 DEF Committed, Upto
<1>6. Serial!DecodeBatch(Upto(0), pidBase, CallWalks) = Upto(NumPackets)
  BY <1>1, CallAppended
<1>7. NumPackets \in 0..MaxBatch
  BY <1>3 DEF Exact
<1> DEFINE W == {p.walk : p \in Packets} \cup {p.kids : p \in Packets} \cup {<<>>}
<1>8. CallWalks \in [1..NumPackets -> W] /\ Len(CallWalks) = NumPackets
  <2>1. ASSUME NEW i \in 1..NumPackets PROVE Walk(i - 1) \in W
    <3>1. i - 1 \in Indices
      BY <1>3 DEF Indices
    <3>2. batch[(i - 1) + 1] \in Packets
      BY <1>3, <3>1, WalkType
    <3> QED BY <3>2 DEF Walk, WalkOf
  <2> QED BY <1>3, <2>1 DEF CallWalks
<1>9. Decoded = pidBase /\ Decoded' = pidBase + Len(CallWalks)
  BY <1>1, <1>2, <1>8 DEF Decoded
<1>10. Committed' = Serial!DecodeBatch(Committed, Decoded, CallWalks)
  BY <1>4, <1>5, <1>6, <1>9
<1>11. Decoded' = Decoded + Len(CallWalks)
  BY <1>9
<1> QED BY <1>7, <1>8, <1>10, <1>11 DEF Serial!Next, Decoded

LEMMA StepRefines ==
  ASSUME SInv, RInv, Exact, SInv', [Next]_vars
  PROVE  [Serial!Next]_(Serial!vars)
<1> SUFFICES Serial!Next \/ (Committed' = Committed /\ Decoded' = Decoded)
  BY DEF Serial!vars, Decoded
<1>1. ASSUME NEW b \in Batches, BeginWindow(b) \/ BeginBulk(b)
      PROVE  Committed' = Committed /\ Decoded' = Decoded
  <2>1. /\ phase = "idle" /\ phase' \in {"count", "scan"} /\ tables' = tables
        /\ pidBase' = pidBase + NumPackets
    BY <1>1 DEF BeginWindow, BeginBulk, Arguments
  <2>2. Decoded' = Decoded
    BY <2>1 DEF Decoded
  <2>3. \A n \in Node : CommittedSize(n)' = CommittedSize(n)
    BY <2>1 DEF CommittedSize
  <2> QED BY <2>1, <2>2, <2>3, QuietRefines
<1>2. CASE CountJoin \/ ScanStep \/ \E t \in Tasks : CountPacket(t)
  <2>1. /\ phase \in {"count", "scan"} /\ phase' \in {"count", "scan"} /\ tables' = tables
        /\ pidBase' = pidBase
    BY <1>2 DEF CountJoin, ScanStep, CountPacket, callVars
  <2>2. Decoded' = Decoded /\ \A n \in Node : CommittedSize(n)' = CommittedSize(n)
    BY <2>1 DEF Decoded, CommittedSize
  <2> QED BY <2>1, <2>2, QuietRefines
<1>3. CASE UNCHANGED vars \/ \E t \in Tasks : StartPacket(t) \/ EndPacket(t)
  <2>1. /\ UNCHANGED callVars /\ phase' = phase /\ tables' = tables
        /\ base' = base /\ run' = run
    BY <1>3 DEF StartPacket, EndPacket, vars, callVars, scanVars
  <2>2. NumPackets' = NumPackets /\ pidBase' = pidBase
    BY <2>1, SameCall DEF callVars
  <2>3. Decoded' = Decoded /\ \A n \in Node : CommittedSize(n)' = CommittedSize(n)
    BY <2>1, <2>2 DEF Decoded, CommittedSize
  <2> QED BY <2>1, <2>3, QuietRefines
<1> QED BY <1>1, <1>2, <1>3, ScanEndRefines, EmitRefines, JoinRefines
        DEF Next, Host, TaskStep, EmptyWindow

LEMMA InitRefines == Init => Serial!Init
<1> SUFFICES ASSUME Init PROVE Serial!Init
  OBVIOUS
<1>1. /\ phase = "idle" /\ tables = [n \in Node |-> <<>>] /\ pidBase = 0 /\ batch = <<>>
  BY DEF Init
<1>2. NumPackets = 0
  BY <1>1 DEF NumPackets
<1>3. \A n \in Node : tables[n] = <<>> /\ CommittedSize(n) = 0
  BY <1>1 DEF CommittedSize
<1>4. \A n \in Node : SubSeq(tables[n], 1, CommittedSize(n)) = <<>>
  BY <1>3, SubSeqEmpty
<1>5. Committed = [n \in Node |-> <<>>]
  BY <1>4 DEF Committed
<1> QED BY <1>1, <1>2, <1>5 DEF Serial!Init

(* Seen from between the calls the parallel decoder is the serial one: the  *)
(* same rows in the same order, for every graph, traffic, number of tasks   *)
(* and interleaving, as long as the counters do not wrap.                   *)
THEOREM BulkImplementsSerial ==
  ASSUME NoWrap
  PROVE  Spec => ImplementsSerial
<1> DEFINE AInv == SInv /\ RInv /\ Exact
<1>1. Init => AInv
  BY InitSInv, InitRInv, InitExact
<1>2. AInv /\ [Next]_vars => AInv'
  BY NextSInv, NextRInv, NextExact
<1>3. AInv /\ AInv' /\ [Next]_vars => [Serial!Next]_(Serial!vars)
  BY StepRefines
<1> HIDE DEF AInv
<1>4. Init => Serial!Init
  BY InitRefines
<1>5. ImplementsSerial <=> (Serial!Init /\ [][Serial!Next]_(Serial!vars))
  BY DEF ImplementsSerial, Serial!Spec
<1> QED BY <1>1, <1>2, <1>3, <1>4, <1>5, PTL DEF Spec
=============================================================================
