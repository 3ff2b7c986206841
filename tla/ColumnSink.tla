----------------------------- MODULE ColumnSink -----------------------------
(***************************************************************************)
(* column_sink<T, N> (sink.hpp) over the fixed-capacity soa<T, N>          *)
(* (reflect.hpp): rows fill a chunk of N slots, a full chunk is handed to  *)
(* the flush callback, finish() drains the partial tail.                   *)
(*                                                                         *)
(* The callback is external.  It reads the chunk's rows in place, one by   *)
(* one, and returns true (it took them all) or false at any point (it took *)
(* none).  clear() resets the counter only: stale rows stay in the slots.  *)
(*                                                                         *)
(* A name carries Sink where ArrowExport has it too, so that one module    *)
(* can extend both.                                                        *)
(***************************************************************************)
EXTENDS Integers, Sequences

CONSTANTS
  N,         \* the chunk's capacity
  Rows,      \* the rows a producer may push
  MaxPushed, \* bound: rows pushed over a behaviour
  MaxFailures, \* bound: flushes that fail over a behaviour
  Garbage    \* the content of a slot never stored to

ASSUME SinkAssumption ==
  /\ N \in Nat \ {0}
  /\ MaxPushed \in Nat
  /\ MaxFailures \in Nat

VARIABLES
  chunk,     \* the chunk's columns, row by row
  size,      \* size_: occupied slots
  phase,     \* "caller", or "flush" while the callback runs
  caller,    \* whose flush it is: "push" or "finish"
  taken,     \* rows the running callback has read so far
  result,    \* what the last push()/finish() returned
  refused,   \* the producer's note: a push() returned false, no finish() true since
  pushed,    \* history: every row given to push()
  drained,   \* history: the rows of the chunks whose flush succeeded
  failures   \* how many flushes have failed

sinkVars == <<chunk, size, phase, caller, taken, result, refused, pushed, drained, failures>>

SinkInit ==
  /\ chunk = [i \in 0..(N - 1) |-> Garbage]
  /\ size = 0
  /\ phase = "caller"
  /\ caller = "finish"
  /\ taken = <<>>
  /\ result = TRUE
  /\ refused = FALSE
  /\ pushed = <<>>
  /\ drained = <<>>
  /\ failures = 0

(* push(): append, and enter the flush when the chunk has just filled.      *)
(* store() writes slot size_ and checks nothing: in a chunk that is full    *)
(* already the store is past the arrays, which is undefined.  Here no slot  *)
(* changes then, and SinkTypeOK excludes it.                                *)
Push(row) ==
  /\ phase = "caller"
  /\ Len(pushed) < MaxPushed
  /\ chunk' = [j \in 0..(N - 1) |-> IF j = size THEN row ELSE chunk[j]]
  /\ size' = size + 1
  /\ pushed' = Append(pushed, row)
  /\ caller' = "push"
  /\ result' = TRUE
  /\ phase' = IF size + 1 >= N THEN "flush" ELSE "caller"
  /\ taken' = <<>>
  /\ UNCHANGED <<refused, drained, failures>>

(* Mutant: finish() leaves a partial chunk alone. *)
Finish_OnlyFull ==
  /\ phase = "caller"
  /\ caller' = "finish"
  /\ result' = TRUE
  /\ phase' = IF size < N THEN "caller" ELSE "flush"
  /\ taken' = <<>>
  /\ UNCHANGED <<chunk, size, refused, pushed, drained, failures>>

(* finish(): a no-op on an empty chunk, else a flush of what there is. *)
Finish ==
  /\ phase = "caller"
  /\ caller' = "finish"
  /\ result' = TRUE
  /\ phase' = IF size = 0 THEN "caller" ELSE "flush"
  /\ taken' = <<>>
  /\ UNCHANGED <<chunk, size, refused, pushed, drained, failures>>

(* The callback reads the next occupied row. *)
FlushRead ==
  /\ phase = "flush"
  /\ Len(taken) < size
  /\ taken' = Append(taken, chunk[Len(taken)])
  /\ UNCHANGED <<chunk, size, phase, caller, result, refused, pushed, drained, failures>>

(* flush_ returned true: flush_chunk clears the counter. *)
FlushOk ==
  /\ phase = "flush"
  /\ Len(taken) = size
  /\ drained' = drained \o taken
  /\ size' = 0
  /\ phase' = "caller"
  /\ result' = TRUE
  /\ refused' = FALSE
  /\ taken' = <<>>
  /\ UNCHANGED <<chunk, caller, pushed, failures>>

(* Mutant: the chunk is cleared although its flush failed. *)
FlushFail_Clears ==
  /\ phase = "flush"
  /\ failures < MaxFailures
  /\ failures' = failures + 1
  /\ size' = 0
  /\ phase' = "caller"
  /\ result' = FALSE
  /\ refused' = (refused \/ caller = "push")
  /\ taken' = <<>>
  /\ UNCHANGED <<chunk, caller, pushed, drained>>

(* Mutant: the failure is not passed on to the caller. *)
FlushFail_Silent ==
  /\ phase = "flush"
  /\ failures < MaxFailures
  /\ failures' = failures + 1
  /\ phase' = "caller"
  /\ result' = TRUE
  /\ refused' = refused
  /\ taken' = <<>>
  /\ UNCHANGED <<chunk, size, caller, pushed, drained>>

(* flush_ returned false: the chunk keeps its rows, push()/finish() fails. *)
FlushFail ==
  /\ phase = "flush"
  /\ failures < MaxFailures
  /\ failures' = failures + 1
  /\ phase' = "caller"
  /\ result' = FALSE
  /\ refused' = (refused \/ caller = "push")
  /\ taken' = <<>>
  /\ UNCHANGED <<chunk, size, caller, pushed, drained>>

(* The producer: once a push has failed it pushes no more until a finish()  *)
(* has drained the chunk.  It looks at return values only.                  *)
MayPush == ~refused

SinkNext ==
  \/ MayPush /\ \E row \in Rows : Push(row)
  \/ Finish
  \/ FlushRead
  \/ FlushOk
  \/ FlushFail

(* The callback returns, and fails MaxFailures times at most; the producer  *)
(* ends its stream with finish() and calls it again when it failed.         *)
SinkFairness ==
  /\ WF_sinkVars(FlushRead \/ FlushOk)
  /\ WF_sinkVars(size > 0 /\ Finish)

SinkSpec == SinkInit /\ [][SinkNext]_sinkVars /\ SinkFairness

-----------------------------------------------------------------------------
(* The variables have their types, and no store leaves the arrays: append() *)
(* stores before it looks at the capacity, so all that keeps a producer     *)
(* from writing past a chunk that could not be flushed is that push()       *)
(* returns false exactly then.                                              *)
SinkTypeOK ==
  /\ chunk \in [0..(N - 1) -> Rows \cup {Garbage}]
  /\ size \in 0..N
  /\ phase \in {"caller", "flush"}
  /\ caller \in {"push", "finish"}
  /\ taken \in Seq(Rows)
  /\ result \in BOOLEAN
  /\ refused \in BOOLEAN
  /\ pushed \in Seq(Rows)
  /\ drained \in Seq(Rows)
  /\ failures \in 0..MaxFailures

(* Every row pushed is in exactly one place, in push order: the rows        *)
(* drained so far, then the occupied slots of the chunk.  A failed flush    *)
(* loses nothing and its retry repeats nothing; a reused chunk never hands  *)
(* out a stale row.                                                         *)
ExactlyOnce ==
  /\ Len(pushed) = Len(drained) + size
  /\ \A i \in 1..Len(drained) : drained[i] = pushed[i]
  /\ \A i \in 0..(size - 1) : chunk[i] = pushed[Len(drained) + i + 1]

(* Once the stream ends, everything pushed has been drained. *)
EverythingDrained == <>[](drained = pushed)
=============================================================================
