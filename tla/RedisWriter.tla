----------------------------- MODULE RedisWriter -----------------------------
(***************************************************************************)
(* The writer of the Redis backend (redisprovider/writer.go): changes are  *)
(* queued under the service lock and written by a loop, in pipelines; what *)
(* fails is retried until it succeeds or the stop gives up; the requests   *)
(* wait for the first attempt only.                                        *)
(*                                                                         *)
(* Operations are numbered as they are queued and are never reordered, so  *)
(* a list of operations (the queue, a pipeline, the retries) is the set of *)
(* their numbers.                                                          *)
(***************************************************************************)
EXTENDS Integers, FiniteSets

CONSTANTS
  Keys,      \* the keys of the jobs
  Requests,  \* the requests that wait for their writes
  MaxOps,    \* bound: operations queued
  MaxBatch   \* maxBatch

ASSUME WriterAssumption == MaxOps \in Nat /\ MaxBatch \in Nat \ {0}

VARIABLES
  op,         \* the operations queued so far, by number
  pushed,     \* w.pushed
  taken,      \* the operations up to this one have left w.queue
  done,       \* w.done
  running, closed, abandon,  \* w.running, w.closed; w.abandon is closed
  loop,       \* where the loop is
  ops,        \* the operations of the pipeline
  failed,     \* err of the last attempt
  retry,      \* the operations to retry
  ok,         \* w.ok
  redis,      \* key -> the operation that set it (0: no such key)
  target      \* request -> what it waits for (0: it does not wait)

vars == <<op, pushed, taken, done, running, closed, abandon, loop, ops, failed, retry,
          ok, redis, target>>
queueVars == <<op, pushed, taken, done>>
flags == <<running, closed, abandon>>
loopVars == <<loop, ops, failed, retry, ok>>

\* writeOp: sets the key of a job to a copy of it (with an expiration or not), deletes it,
\* or deletes every key.
SetOp(k, value, ttl) == [kind |-> "set", keys |-> {k}, value |-> value, ttl |-> ttl]
DelOp(k) == [kind |-> "del", keys |-> {k}]
DelAllOp == [kind |-> "delAll", keys |-> Keys]
None == [kind |-> "none", keys |-> {}]

IsDelAll(i) == op[i].kind = "delAll"

\* The greatest number of a set, 0 if it has none.
Latest(I) == IF I = {} THEN 0 ELSE CHOOSE i \in I : \A j \in I : j <= i

\* Redis once the operations of I, and of no other, were executed in order on r.
Executed(r, I) ==
  [k \in Keys |->
     LET last == Latest({i \in I : k \in op[i].keys})
     IN  IF last = 0 THEN r[k] ELSE IF op[last].kind = "set" THEN last ELSE 0]

\* What Redis must hold once the first n operations were executed.
Wanted(n) == Executed([k \in Keys |-> 0], 1 .. n)

Init ==
  /\ op = [i \in 1 .. MaxOps |-> None] /\ pushed = 0 /\ taken = 0 /\ done = 0
  /\ running = FALSE /\ closed = FALSE /\ abandon = FALSE
  /\ loop = "off" /\ ops = {} /\ failed = FALSE /\ retry = {} /\ ok = TRUE
  /\ redis = [k \in Keys |-> 0]
  /\ target = [q \in Requests |-> 0]

-----------------------------------------------------------------------------
(* The service and the requests.                                           *)

Start ==
  /\ ~running /\ ~closed
  /\ running' = TRUE
  /\ loop' = "take"
  /\ UNCHANGED <<queueVars, closed, abandon, ops, failed, retry, ok, redis, target>>

\* An operation is dropped once the writer is closed.
Push(o) ==
  /\ running /\ ~closed
  /\ pushed < MaxOps
  /\ pushed' = pushed + 1
  /\ op' = [op EXCEPT ![pushed + 1] = o]
  /\ UNCHANGED <<taken, done, flags, loopVars, redis, target>>

Wait(q) ==
  /\ target[q] = 0
  /\ running /\ done < pushed /\ loop # "exited"
  /\ target' = [target EXCEPT ![q] = pushed]
  /\ UNCHANGED <<queueVars, flags, loopVars, redis>>

Released(q) ==
  /\ target[q] # 0
  /\ done >= target[q] \/ loop = "exited"
  /\ target' = [target EXCEPT ![q] = 0]
  /\ UNCHANGED <<queueVars, flags, loopVars, redis>>

Stop ==
  /\ ~closed
  /\ closed' = TRUE
  /\ UNCHANGED <<queueVars, running, abandon, loopVars, redis, target>>

\* flushTimeout is over.
GiveUp ==
  /\ closed /\ running /\ loop # "exited" /\ ~abandon
  /\ abandon' = TRUE
  /\ UNCHANGED <<queueVars, running, closed, loopVars, redis, target>>

-----------------------------------------------------------------------------
(* The loop.                                                               *)

\* Waits for something to do, takes a batch, or returns: stopped, nothing left to write.
Take ==
  /\ loop = "take"
  /\ LET next == {i \in taken + 1 .. pushed : i <= taken + MaxBatch}
     IN  /\ retry \cup next # {} \/ closed
         /\ taken' = taken + Cardinality(next)
         /\ ops' = retry \cup next
         /\ loop' = IF retry \cup next = {} THEN "exited" ELSE "execute"
  /\ UNCHANGED <<op, pushed, done, flags, failed, retry, ok, redis, target>>

Execute ==
  /\ loop = "execute"
  /\ redis' = Executed(redis, ops)
  /\ failed' = FALSE
  /\ loop' = "attempted"
  /\ UNCHANGED <<queueVars, flags, ops, retry, ok, target>>

(* The operations are sent in pipelines cut by the deletions of every job: *)
(* the pipelines before the one that failed were executed, those after it  *)
(* were not, and any operations of it may have been (a connection that     *)
(* breaks before the answer, a command refused for want of memory).  A     *)
(* deletion of every job may have deleted some.                            *)
ExecuteFails ==
  /\ loop = "execute"
  /\ \E s \in ops, S \in SUBSET ops, K \in SUBSET Keys :
       LET before == {i \in ops : i < s}
           pipeline == {i \in ops : i >= s /\ \A j \in ops : s <= j /\ j <= i => ~IsDelAll(j)}
       IN  /\ before # {} => IsDelAll(s) \/ IsDelAll(Latest(before))
           /\ IF IsDelAll(s)
                THEN /\ S = {}
                     /\ redis' = [k \in Keys |->
                                    IF k \in K THEN 0 ELSE Executed(redis, before)[k]]
                ELSE /\ K = {} /\ S \subseteq pipeline
                     /\ redis' = Executed(redis, before \cup S)
  /\ failed' = TRUE
  /\ loop' = "attempted"
  /\ UNCHANGED <<queueVars, flags, ops, retry, ok, target>>

\* Mutant: the requests wait for a success.
ReleaseIfWritten ==
  /\ loop = "attempted"
  /\ done' = IF failed THEN done ELSE taken
  /\ loop' = "attempt handled"
  /\ UNCHANGED <<op, pushed, taken, flags, ops, failed, retry, ok, redis, target>>

\* The requests that wait for these operations are released, whatever came of them.
Attempted ==
  /\ loop = "attempted"
  /\ done' = taken
  /\ loop' = "attempt handled"
  /\ UNCHANGED <<op, pushed, taken, flags, ops, failed, retry, ok, redis, target>>

Succeeded ==
  /\ loop = "attempt handled" /\ ~failed
  /\ retry' = {}
  /\ ok' = TRUE
  /\ loop' = "take"
  /\ UNCHANGED <<queueVars, flags, ops, failed, redis, target>>

\* Mutant: the first operation of each key is kept.
KeepFirst(I) == {i \in I : ~\E j \in I : j < i /\ op[j].keys = op[i].keys}

\* Drops what a later operation of the same key, or a later deletion of every job, undoes.
Coalesce(I) ==
  {i \in I : ~\E j \in I : j > i /\ (IsDelAll(j) \/ (~IsDelAll(i) /\ op[j].keys = op[i].keys))}

\* Mutant: what failed is not tried again.
GiveUpWrites ==
  /\ loop = "attempt handled" /\ failed
  /\ retry' = {}
  /\ ok' = FALSE
  /\ loop' = "backoff"
  /\ UNCHANGED <<queueVars, flags, ops, failed, redis, target>>

Failed ==
  /\ loop = "attempt handled" /\ failed
  /\ retry' = Coalesce(ops)
  /\ ok' = FALSE
  /\ loop' = "backoff"
  /\ UNCHANGED <<queueVars, flags, ops, failed, redis, target>>

\* The time is over, or the stop gave up.
Backoff ==
  /\ loop = "backoff"
  /\ loop' = IF abandon THEN "exited" ELSE "take"
  /\ UNCHANGED <<queueVars, flags, ops, failed, retry, ok, redis, target>>

LoopStep == Take \/ Execute \/ ExecuteFails \/ Attempted \/ Succeeded \/ Failed \/ Backoff

WriterStep ==
  \/ Stop \/ GiveUp
  \/ \E q \in Requests : Wait(q) \/ Released(q)
  \/ LoopStep
=============================================================================
