----------------------------- MODULE BulkDecode -----------------------------
(***************************************************************************)
(* The bulk decoders: decode_window (protocol_decode_bulk.hpp),            *)
(* dag_decode_bulk (dag_bulk.hpp) and the three that fill child tables,    *)
(* ipv4_children_bulk, ipv6_children_bulk and someip_sd_bulk, with the     *)
(* executor bulk_for_each (bulk.hpp) they run on.  One call goes through   *)
(*                                                                         *)
(*    count  ->  exclusive prefix sum  ->  resize  ->  scatter             *)
(*                                                                         *)
(* where count (decode_window only; the others count in the scan's loop)   *)
(* and scatter are split over tasks that run concurrently.  A task         *)
(* step is one counted packet or one row written, so the tasks interleave  *)
(* at the granularity at which they touch shared memory.                   *)
(*                                                                         *)
(* Packets are numbered from 0 as in the code; packet i is batch[i + 1].   *)
(* Slot s of a column is tables[n][s + 1].                                 *)
(***************************************************************************)
EXTENDS Integers, Sequences, FiniteSets

CONSTANTS
  Node,        \* the output tables
  Packets,     \* the packets of the traffic: [walk, kids, fits] records
  MaxPackets,  \* bound: packets over all calls
  MaxBatch,    \* bound: packets in one call
  MaxTasks,    \* the cap on num_tasks (64 in the code)
  MaxWalk,     \* bound: PDUs one walk emits (kMaxWalkSteps for the DAG)
  Mod,         \* counters and write bases are unsigned modulo Mod (2^32)
  Blank        \* the value of a slot that resize() made and nobody wrote

ASSUME ConstantsAssumption ==
  /\ MaxPackets \in Nat
  /\ MaxBatch \in Nat
  /\ MaxTasks \in Nat \ {0}
  /\ MaxWalk \in Nat
  /\ Mod \in Nat \ {0}
  /\ \A p \in Packets : /\ p.walk \in Seq(Node)
                        /\ p.kids \in Seq(Node)
                        /\ Len(p.walk) <= MaxWalk
                        /\ Len(p.kids) <= MaxWalk
                        /\ p.fits \in BOOLEAN

ASSUME BlankAssumption == Blank \notin [pid : Nat, pdu : Nat]

VARIABLES
  mode,      \* which decoder fills these tables: "window", "dag", "children"
  phase,     \* "idle", "count", "scan" or "scatter"
  ntasks,    \* tasks the executor runs the kernel on
  batch,     \* the packets of the current (or, when idle, last) call
  pidBase,   \* packet_id of the call's first packet
  per,       \* per[i]: the PDU counts of packet i (decode_window)
  base,      \* base[i]: packet i's first slot in each table
  run,       \* the running sum of the scan
  k,         \* the scan's loop index
  tables,    \* the output tables
  idx,       \* idx[t]: the packet task t works on next, or is in
  pos,       \* pos[t]: 0 between packets, else the PDU it writes next
  cur,       \* cur[t]: scatter's local write cursors, one per table
  trailers   \* trailers[i]: the WalkResult of packet i, -1 when unset

scanVars == <<per, base, run, k>>
taskVars == <<idx, pos, cur>>
callVars == <<mode, batch, pidBase>>
vars == <<callVars, phase, ntasks, scanVars, tables, taskVars, trailers>>

-----------------------------------------------------------------------------
(* The executor: task t of T runs the kernel on [t*n/T, (t+1)*n/T). *)

NumPackets == Len(batch)
Indices == 0..(NumPackets - 1)
Tasks == 0..(ntasks - 1)

TaskStart(t, n, T) == (t * n) \div T
(* Mutant: the end of a range is rounded up, so neighbours overlap. *)
TaskEnd_RoundsUp(t, n, T) == ((t + 1) * n + T - 1) \div T

TaskEnd(t, n, T) == ((t + 1) * n) \div T

(* std::min(n, 64) at the call, and num_tasks == 0 ? 1 inside. *)
NumTasks(n) ==
  LET asked == IF n < MaxTasks THEN n ELSE MaxTasks
  IN  IF asked = 0 THEN 1 ELSE asked

(* serial_for_each ignores num_tasks and runs one loop over [0, n). *)
Executors(n) == {1, NumTasks(n)}

(* run_each(num_tasks, n, kernel) is entered: every task at its range's start. *)
Launch(n, T) ==
  /\ ntasks' = T
  /\ idx' = [t \in 0..(T - 1) |-> TaskStart(t, n, T)]
  /\ pos' = [t \in 0..(T - 1) |-> 0]
  /\ cur' = [t \in 0..(T - 1) |-> [n2 \in Node |-> 0]]

AllDone == \A t \in Tasks : /\ pos[t] = 0
                            /\ idx[t] = TaskEnd(t, NumPackets, ntasks)

-----------------------------------------------------------------------------
(* What a packet contributes. *)

(* decode_window walks an empty packet when [off, off+sz) leaves the window; *)
(* the others trust their dag_packet.  The child decoders emit the records   *)
(* inside the headers of the walk instead of the headers.                    *)
WalkOf(p) ==
  IF mode = "children" THEN p.kids
  ELSE IF mode = "window" /\ ~p.fits THEN <<>> ELSE p.walk

Walk(i) == WalkOf(batch[i + 1])

(* PDUs of node n among the first j of a walk. *)
CountUpTo(walk, n, j) == Cardinality({l \in 1..j : walk[l] = n})

CountOf(walk) == [n \in Node |-> CountUpTo(walk, n, Len(walk)) % Mod]

Zero == [n \in Node |-> 0]

(* Mutant: the scan starts at zero and forgets what the tables hold. *)
Seed_Zero == Zero

(* The scan starts at the columns' current sizes, cast to the counter type. *)
Seed == [n \in Node |-> Len(tables[n]) % Mod]

Plus(a, b) == [n \in Node |-> (a[n] + b[n]) % Mod]

(* vector::resize: keeps a prefix, value-initialises what it adds. *)
Resize(t, size) ==
  [s \in 1..size |-> IF s <= Len(t) THEN t[s] ELSE Blank]

(* Mutant: the packet id is the index in the call, not in the capture. *)
RowOf_LocalId(i, j) == [pid |-> i, pdu |-> j]

RowOf(i, j) == [pid |-> pidBase + i, pdu |-> j]

-----------------------------------------------------------------------------
Modes == {"window", "dag", "children"}

Init ==
  /\ mode \in Modes
  /\ phase = "idle"
  /\ ntasks = 1
  /\ batch = <<>>
  /\ pidBase = 0
  /\ per = [i \in Indices |-> Zero]
  /\ base = [i \in Indices |-> Zero]
  /\ run = Zero
  /\ k = 0
  /\ tables = [n \in Node |-> <<>>]
  /\ idx = [t \in 0..0 |-> 0]
  /\ pos = [t \in 0..0 |-> 0]
  /\ cur = [t \in 0..0 |-> Zero]
  /\ trailers = [i \in Indices |-> -1]

Batches == UNION {[1..m -> Packets] : m \in 0..MaxBatch}

(* The caller hands over the next packets, numbered after the ones before. *)
Arguments(b) ==
  /\ phase = "idle"
  /\ pidBase + NumPackets + Len(b) <= MaxPackets
  /\ batch' = b
  /\ pidBase' = pidBase + NumPackets
  /\ per' = [i \in 0..(Len(b) - 1) |-> Zero]
  /\ base' = [i \in 0..(Len(b) - 1) |-> Zero]
  /\ trailers' = [i \in 0..(Len(b) - 1) |-> -1]
  /\ UNCHANGED <<mode, tables>>

(* decode_window with n == 0 returns at once. *)
EmptyWindow ==
  /\ mode = "window"
  /\ phase = "idle"
  /\ UNCHANGED vars

(* decode_window: allocate per[], start the counting pass. *)
BeginWindow(b) ==
  /\ mode = "window"
  /\ Len(b) > 0
  /\ Arguments(b)
  /\ phase' = "count"
  /\ run' = Zero
  /\ k' = 0
  /\ \E T \in Executors(Len(b)) : Launch(Len(b), T)

(* dag_decode_bulk and the child decoders: straight to the scan, whose loop *)
(* counts.                                                                  *)
BeginBulk(b) ==
  /\ mode \in {"dag", "children"}
  /\ Arguments(b)
  /\ phase' = "scan"
  /\ run' = Seed
  /\ k' = 0
  /\ UNCHANGED <<ntasks, taskVars>>

(* Mutant: the counting loop does not advance. *)
CountPacket_Stuck(t) ==
  /\ phase = "count"
  /\ idx[t] < TaskEnd(t, NumPackets, ntasks)
  /\ per' = [per EXCEPT ![idx[t]] = CountOf(Walk(idx[t]))]
  /\ UNCHANGED <<callVars, phase, ntasks, base, run, k, tables, taskVars, trailers>>

(* Mutant: a task runs to the end of the batch, not of its range. *)
CountPacket_PastRange(t) ==
  /\ phase = "count"
  /\ idx[t] < NumPackets
  /\ per' = [per EXCEPT ![idx[t]] = CountOf(Walk(idx[t]))]
  /\ idx' = [idx EXCEPT ![t] = @ + 1]
  /\ UNCHANGED <<callVars, phase, ntasks, base, run, k, tables, pos, cur, trailers>>

(* pc[i] = count_packet(...): the only shared write of the counting kernel. *)
CountPacket(t) ==
  /\ phase = "count"
  /\ idx[t] < TaskEnd(t, NumPackets, ntasks)
  /\ per' = [per EXCEPT ![idx[t]] = CountOf(Walk(idx[t]))]
  /\ idx' = [idx EXCEPT ![t] = @ + 1]
  /\ UNCHANGED <<callVars, phase, ntasks, base, run, k, tables, pos, cur, trailers>>

(* sync_wait returns: every packet is counted, seed the scan. *)
CountJoin ==
  /\ phase = "count"
  /\ AllDone
  /\ phase' = "scan"
  /\ run' = Seed
  /\ k' = 0
  /\ UNCHANGED <<callVars, ntasks, per, base, tables, taskVars, trailers>>

(* base[k] = run; run = run + count of packet k. *)
ScanStep ==
  /\ phase = "scan"
  /\ k < NumPackets
  /\ base' = [base EXCEPT ![k] = run]
  /\ run' = Plus(run, IF mode = "window" THEN per[k] ELSE CountOf(Walk(k)))
  /\ k' = k + 1
  /\ UNCHANGED <<callVars, phase, ntasks, per, tables, taskVars, trailers>>

(* Resize every column to its total and start the scatter pass. *)
ScanEnd ==
  /\ phase = "scan"
  /\ k = NumPackets
  /\ phase' = "scatter"
  /\ tables' = [n \in Node |-> Resize(tables[n], run[n])]
  /\ \E T \in Executors(NumPackets) : Launch(NumPackets, T)
  /\ UNCHANGED <<callVars, scanVars, trailers>>

(* Task t enters scatter_packet for its next packet: cur = base of it. *)
StartPacket(t) ==
  /\ phase = "scatter"
  /\ pos[t] = 0
  /\ idx[t] < TaskEnd(t, NumPackets, ntasks)
  /\ cur' = [cur EXCEPT ![t] = base[idx[t]]]
  /\ pos' = [pos EXCEPT ![t] = 1]
  /\ UNCHANGED <<callVars, phase, ntasks, scanVars, tables, idx, trailers>>

(* The slot a task at PDU pos[t] of its packet is about to write. *)
Writing(t) == pos[t] > 0 /\ pos[t] <= Len(Walk(idx[t]))
Target(t) == Walk(idx[t])[pos[t]]
Slot(t) == cur[t][Target(t)]

(* The visitor writes one row at its node's cursor and advances the cursor. *)
(* A slot past the end of the column is undefined behaviour in the code:    *)
(* here it leaves the table alone, and WritesFreshSlot excludes it.       *)
EmitPdu(t) ==
  /\ phase = "scatter"
  /\ Writing(t)
  /\ tables' = [tables EXCEPT ![Target(t)] =
                  IF Slot(t) < Len(@)
                  THEN [@ EXCEPT ![Slot(t) + 1] = RowOf(idx[t], pos[t])]
                  ELSE @]
  /\ cur' = [cur EXCEPT ![t][Target(t)] = (@ + 1) % Mod]
  /\ pos' = [pos EXCEPT ![t] = @ + 1]
  /\ UNCHANGED <<callVars, phase, ntasks, scanVars, idx, trailers>>

(* The walk is over: decode_window stores its result, the loop goes on. *)
EndPacket(t) ==
  /\ phase = "scatter"
  /\ pos[t] > 0
  /\ pos[t] > Len(Walk(idx[t]))
  /\ trailers' = IF mode = "window"
                 THEN [trailers EXCEPT ![idx[t]] = Len(Walk(idx[t]))]
                 ELSE trailers
  /\ pos' = [pos EXCEPT ![t] = 0]
  /\ idx' = [idx EXCEPT ![t] = @ + 1]
  /\ UNCHANGED <<callVars, phase, ntasks, scanVars, tables, cur>>

(* sync_wait returns, and with it the call. *)
ScatterJoin ==
  /\ phase = "scatter"
  /\ AllDone
  /\ phase' = "idle"
  /\ UNCHANGED <<callVars, ntasks, scanVars, tables, taskVars, trailers>>

TaskStep(t) == CountPacket(t) \/ StartPacket(t) \/ EmitPdu(t) \/ EndPacket(t)

Host == CountJoin \/ ScanStep \/ ScanEnd \/ ScatterJoin

Next ==
  \/ EmptyWindow
  \/ \E b \in Batches : BeginWindow(b) \/ BeginBulk(b)
  \/ Host
  \/ \E t \in Tasks : TaskStep(t)

(* sync_wait blocks until the pool has run every task to its end, and the   *)
(* calling thread runs the host part: no step that stays enabled is left    *)
(* untaken.  Nothing obliges the caller to call again.                      *)
Fairness ==
  /\ WF_vars(Host)
  /\ \A t \in 0..(MaxTasks - 1) : WF_vars(t \in Tasks /\ TaskStep(t))

Spec == Init /\ [][Next]_vars /\ Fairness

-----------------------------------------------------------------------------
Row == [pid : Nat, pdu : Nat]
Counts == [Node -> 0..(Mod - 1)]

Shapes ==
  /\ mode \in Modes
  /\ phase \in {"idle", "count", "scan", "scatter"}
  /\ ntasks \in 1..MaxTasks
  /\ batch \in Seq(Packets)
  /\ pidBase \in Nat
  /\ per \in [Indices -> Counts]
  /\ base \in [Indices -> Counts]
  /\ run \in Counts
  /\ k \in 0..NumPackets
  /\ tables \in [Node -> Seq(Row \cup {Blank})]
  /\ idx \in [Tasks -> Nat]
  /\ pos \in [Tasks -> Nat]
  /\ cur \in [Tasks -> Counts]
  /\ trailers \in [Indices -> Nat \cup {-1}]

(* While a pass runs, a task stands in the range bulk_for_each gave it, or  *)
(* at its end; inside a packet it has not passed the end of the walk.       *)
TaskRange ==
  phase \in {"count", "scatter"} =>
    \A t \in Tasks :
      /\ TaskStart(t, NumPackets, ntasks) <= idx[t]
      /\ idx[t] <= TaskEnd(t, NumPackets, ntasks)
      /\ pos[t] > 0 => /\ phase = "scatter"
                       /\ idx[t] < TaskEnd(t, NumPackets, ntasks)
                       /\ pos[t] <= Len(Walk(idx[t])) + 1

(* The variables have the shapes the declarations give them, and a task's   *)
(* index stays inside the range bulk_for_each assigned to it.               *)
TypeOK == Shapes /\ TaskRange

(* Every row the scatter pass is about to write goes to a slot that exists  *)
(* in the resized column and that no one has written before: the write      *)
(* bases of the scan, the counts of pass 1 and the re-walk of pass 2 agree. *)
WritesFreshSlot ==
  phase = "scatter" =>
    \A t \in Tasks : Writing(t) =>
      /\ Slot(t) < Len(tables[Target(t)])
      /\ tables[Target(t)][Slot(t) + 1] = Blank

(* No two tasks are ever about to write the same slot: the scatter pass has *)
(* no data race ("no two packets touch the same slot", dag_bulk.hpp).       *)
NoRace ==
  phase = "scatter" =>
    \A t, u \in Tasks :
      (t # u /\ Writing(t) /\ Writing(u) /\ Target(t) = Target(u))
        => Slot(t) # Slot(u)

(* A row is written once, by one task, to the place the scan kept for it. *)
SlotsOwned == WritesFreshSlot /\ NoRace

(* When decode_window returns, each packet's trailer holds that packet's    *)
(* own walk result, whichever task walked it.                               *)
TrailersSet ==
  (phase = "idle" /\ mode = "window") =>
    \A i \in Indices : trailers[i] = Len(Walk(i))

(* Capture order: by packet, and inside a packet by place in its walk. *)
Before(a, b) == a.pid < b.pid \/ (a.pid = b.pid /\ a.pdu < b.pdu)

RowsIn(n) == {tables[n][s] : s \in 1..Len(tables[n])}
CallRows(n) ==
  UNION {{RowOf(i, j) : j \in {l \in 1..Len(Walk(i)) : Walk(i)[l] = n}} : i \in Indices}

(* When a call returns, each table is full and in capture order, and the    *)
(* rows the call added are its packets' PDUs of that node, all of them and  *)
(* no others.                                                               *)
RowsComplete ==
  phase = "idle" =>
    \A n \in Node :
      /\ Blank \notin RowsIn(n)
      /\ \A s, r \in 1..Len(tables[n]) : s < r => Before(tables[n][s], tables[n][r])
      /\ {row \in RowsIn(n) : row.pid >= pidBase} = CallRows(n)

(* The scatter pass is exact: rows in slots of their own, a trailer each,   *)
(* nothing missing and nothing out of order when it is over.                *)
ScatterExact == SlotsOwned /\ TrailersSet /\ RowsComplete

(* A row, once in a table, stays where it is through every later call:      *)
(* "appends to whatever the tables already hold, so it composes across      *)
(* windows".                                                                *)
RowKept(n, s) == s <= Len(tables'[n]) /\ tables'[n][s] = tables[n][s]
RowsKept ==
  [][\A n \in Node : \A s \in 1..Len(tables[n]) :
       tables[n][s] # Blank => RowKept(n, s)]_vars

(* Every call returns: no task is left waiting for another. *)
CallReturns == (phase # "idle") ~> (phase = "idle")

(* The tables a caller may look at: between calls all of them, during a     *)
(* call what was there before it.                                           *)
CommittedSize(n) ==
  IF phase # "scatter" THEN Len(tables[n])
  ELSE IF NumPackets = 0 THEN run[n] ELSE base[0][n]

Committed == [n \in Node |-> SubSeq(tables[n], 1, CommittedSize(n))]

Serial == INSTANCE SerialDecode WITH
            Walks <- {p.walk : p \in Packets} \cup {p.kids : p \in Packets} \cup {<<>>},
            rows <- Committed,
            npkts <- IF phase = "idle" THEN pidBase + NumPackets ELSE pidBase

(* Seen from between calls, the bulk decoder is the serial decoder: same    *)
(* rows, same order, for every number of tasks and every interleaving.      *)
ImplementsSerial == Serial!Spec
=============================================================================
